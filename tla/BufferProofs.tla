---------------------------- MODULE BufferProofs ----------------------------
(***************************************************************************)
(* Theorems about Buffer, for memory and chunks of any size.               *)
(***************************************************************************)
EXTENDS Buffer, SequenceTheorems, TLAPS

(* A buffer in the state the methods rely on.                              *)
Sound(b) ==
  /\ b \in [memory : Seq(Bytes), reader : Nat, writer : Nat]
  /\ kCheapPrepend <= b.reader
  /\ b.reader <= b.writer
  /\ b.writer <= Len(b.memory)

(* The readable bytes are a sequence of bytes, as many as the indices say. *)
LEMMA ReadableTyped ==
  ASSUME NEW b, Sound(b)
  PROVE  /\ ReadableBytes(b) \in Nat
         /\ WritableBytes(b) \in Nat
         /\ Readable(b) \in Seq(Bytes)
         /\ Len(Readable(b)) = ReadableBytes(b)
         /\ \A i \in 1 .. ReadableBytes(b) :
              Readable(b)[i] = b.memory[b.reader + i]
<1> DEFINE n == b.writer - b.reader
<1>1. /\ b.memory \in Seq(Bytes) /\ b.reader \in Nat /\ b.writer \in Nat
      /\ Len(b.memory) \in Nat
      /\ b.reader <= b.writer /\ b.writer <= Len(b.memory)
  BY DEF Sound
<1>2. n \in Nat /\ Len(b.memory) - b.writer \in Nat
  BY <1>1
<1>3. \A i \in 1 .. n : b.reader + i \in 1 .. Len(b.memory)
  BY <1>1, <1>2
<1>4. \A i \in 1 .. n : b.memory[b.reader + i] \in Bytes
  BY <1>1, <1>3, ElementOfSeq
<1>5. Readable(b) = [i \in 1 .. n |-> b.memory[b.reader + i]]
  BY DEF Readable, Peek, ReadableBytes
<1> HIDE DEF n
<1>6. /\ Readable(b) \in Seq(Bytes)
      /\ Len(Readable(b)) = n
      /\ \A i \in 1 .. n : Readable(b)[i] = b.memory[b.reader + i]
  BY <1>2, <1>4, <1>5
<1> QED
  BY <1>2, <1>6 DEF n, ReadableBytes, WritableBytes

(* std::copy inside the memory changes the bytes it goes over, no others.  *)
LEMMA OverwriteTyped ==
  ASSUME NEW m \in Seq(Bytes), NEW at \in Nat, NEW d \in Seq(Bytes)
  PROVE  /\ Overwrite(m, at, d) \in Seq(Bytes)
         /\ Len(Overwrite(m, at, d)) = Len(m)
         /\ \A i \in 1 .. Len(m) :
              Overwrite(m, at, d)[i] =
                IF i - at \in 1 .. Len(d) THEN d[i - at] ELSE m[i]
  BY DEF Overwrite

LEMMA ResizeTyped ==
  ASSUME NEW m \in Seq(Bytes), NEW n \in Nat, n >= Len(m)
  PROVE  /\ Resize(m, n) \in Seq(Bytes)
         /\ Len(Resize(m, n)) = n
         /\ \A i \in 1 .. Len(m) : Resize(m, n)[i] = m[i]
  BY BufferAssumption DEF Resize

(* Two sound buffers that agree byte for byte read the same.               *)
LEMMA SameReadable ==
  ASSUME NEW b, NEW c, Sound(b), Sound(c),
         ReadableBytes(c) = ReadableBytes(b),
         \A i \in 1 .. ReadableBytes(b) :
           c.memory[c.reader + i] = b.memory[b.reader + i]
  PROVE  Readable(c) = Readable(b)
  BY DEF Readable, Peek

LEMMA GrownSound ==
  ASSUME NEW b, Sound(b), NEW len \in Nat, WritableBytes(b) < len
  PROVE  /\ Sound(Grown(b, len))
         /\ WritableBytes(Grown(b, len)) = len
         /\ Readable(Grown(b, len)) = Readable(b)
<1> DEFINE c == Grown(b, len)
<1>1. b.writer + len \in Nat /\ b.writer + len >= Len(b.memory)
  BY DEF Sound, WritableBytes
<1>2. /\ c.memory = Resize(b.memory, b.writer + len)
      /\ c.reader = b.reader
      /\ c.writer = b.writer
      /\ c = [memory |-> Resize(b.memory, b.writer + len),
              reader |-> b.reader, writer |-> b.writer]
  BY DEF Grown, Sound
<1>3. b.memory \in Seq(Bytes)
  BY DEF Sound
<1>4. /\ c.memory \in Seq(Bytes)
      /\ Len(c.memory) = b.writer + len
      /\ \A i \in 1 .. Len(b.memory) : c.memory[i] = b.memory[i]
  BY <1>1, <1>2, <1>3, ResizeTyped
<1> HIDE DEF c
<1>5. Sound(c) /\ WritableBytes(c) = len
  BY <1>2, <1>4 DEF Sound, WritableBytes
<1>6. Readable(c) = Readable(b)
  <2>1. ReadableBytes(c) = ReadableBytes(b)
    BY <1>2 DEF ReadableBytes
  <2>2. \A i \in 1 .. ReadableBytes(b) :
          c.memory[c.reader + i] = b.memory[b.reader + i]
    <3>1. \A i \in 1 .. ReadableBytes(b) : b.reader + i \in 1 .. Len(b.memory)
      BY DEF Sound, ReadableBytes
    <3> QED
      BY <1>2, <1>4, <3>1
  <2> QED
    BY <2>1, <2>2, <1>5, SameReadable
<1> QED
  BY <1>5, <1>6 DEF c

LEMMA CompactedSound ==
  ASSUME NEW b, Sound(b), NEW len \in Nat,
         WritableBytes(b) + PrependableBytes(b) >= len + kCheapPrepend
  PROVE  /\ Sound(Compacted(b))
         /\ WritableBytes(Compacted(b)) >= len
         /\ Readable(Compacted(b)) = Readable(b)
<1> DEFINE c == Compacted(b)
           n == ReadableBytes(b)
<1>1. /\ n \in Nat
      /\ kCheapPrepend \in Nat
      /\ kCheapPrepend + n + len <= Len(b.memory)
      /\ b.memory \in Seq(Bytes)
  BY BufferAssumption
     DEF Sound, ReadableBytes, WritableBytes, PrependableBytes
<1>2. Readable(b) \in Seq(Bytes) /\ Len(Readable(b)) = n
  BY ReadableTyped
<1>3. /\ c.memory = Overwrite(b.memory, kCheapPrepend, Readable(b))
      /\ c.reader = kCheapPrepend
      /\ c.writer = kCheapPrepend + n
      /\ c = [memory |-> c.memory, reader |-> c.reader, writer |-> c.writer]
  BY DEF Compacted
<1>4. /\ c.memory \in Seq(Bytes)
      /\ Len(c.memory) = Len(b.memory)
      /\ \A i \in 1 .. n : c.memory[kCheapPrepend + i] = Readable(b)[i]
  <2>1. /\ c.memory \in Seq(Bytes)
        /\ Len(c.memory) = Len(b.memory)
        /\ \A j \in 1 .. Len(b.memory) :
             c.memory[j] = IF j - kCheapPrepend \in 1 .. Len(Readable(b))
                           THEN Readable(b)[j - kCheapPrepend]
                           ELSE b.memory[j]
    BY <1>1, <1>2, <1>3, OverwriteTyped
  <2>2. ASSUME NEW i \in 1 .. n
        PROVE  c.memory[kCheapPrepend + i] = Readable(b)[i]
    <3>1. /\ kCheapPrepend + i \in 1 .. Len(b.memory)
          /\ (kCheapPrepend + i) - kCheapPrepend = i
      BY <1>1, <2>2
    <3> QED
      BY <1>2, <2>1, <3>1
  <2> QED
    BY <2>1, <2>2
<1> HIDE DEF c, n
<1>5. Sound(c) /\ WritableBytes(c) >= len
  BY <1>1, <1>3, <1>4 DEF Sound, WritableBytes
<1>6. ReadableBytes(c) = n
  BY <1>1, <1>3 DEF ReadableBytes
<1>7. \A i \in 1 .. n : c.memory[c.reader + i] = b.memory[b.reader + i]
  BY <1>3, <1>4, ReadableTyped DEF n
<1>8. Readable(c) = Readable(b)
  BY <1>5, <1>6, <1>7, SameReadable DEF n
<1> QED
  BY <1>5, <1>8 DEF c

(* After ensureWritableBytes there is room, and nothing readable changed.  *)
LEMMA EnsuredSound ==
  ASSUME NEW b, Sound(b), NEW len \in Nat
  PROVE  /\ Sound(EnsureWritableBytes(b, len))
         /\ WritableBytes(EnsureWritableBytes(b, len)) >= len
         /\ Readable(EnsureWritableBytes(b, len)) = Readable(b)
<1>1. kCheapPrepend \in Nat /\ WritableBytes(b) \in Nat /\ PrependableBytes(b) \in Nat
  BY BufferAssumption, ReadableTyped DEF Sound, PrependableBytes
<1>2. CASE WritableBytes(b) >= len
  BY <1>1, <1>2 DEF EnsureWritableBytes
<1>3. CASE /\ WritableBytes(b) < len
           /\ WritableBytes(b) + PrependableBytes(b) < len + kCheapPrepend
  <2>1. EnsureWritableBytes(b, len) = Grown(b, len)
    BY <1>3 DEF EnsureWritableBytes, MakeSpace
  <2> QED
    BY <2>1, <1>3, GrownSound
<1>4. CASE /\ WritableBytes(b) < len
           /\ WritableBytes(b) + PrependableBytes(b) >= len + kCheapPrepend
  <2>1. EnsureWritableBytes(b, len) = Compacted(b)
    BY <1>1, <1>4 DEF EnsureWritableBytes, MakeSpace
  <2> QED
    BY <2>1, <1>4, CompactedSound
<1> QED
  BY <1>1, <1>2, <1>3, <1>4

(* Data that fits is written behind what is readable.                      *)
LEMMA WrittenSound ==
  ASSUME NEW b, Sound(b), NEW d \in Seq(Bytes), Len(d) <= WritableBytes(b)
  PROVE  /\ Sound(Written(b, d))
         /\ WritableBytes(Written(b, d)) = WritableBytes(b) - Len(d)
         /\ Readable(Written(b, d)) = Readable(b) \o d
<1> DEFINE c == Written(b, d)
           n == ReadableBytes(b)
<1>1. /\ b.memory \in Seq(Bytes) /\ Len(b.memory) \in Nat /\ Len(d) \in Nat
      /\ b.reader \in Nat /\ b.writer \in Nat /\ b.reader <= b.writer
      /\ b.writer + Len(d) <= Len(b.memory)
      /\ n = b.writer - b.reader
  BY DEF Sound, WritableBytes, ReadableBytes
<1>2. /\ c.memory = Overwrite(b.memory, b.writer, d)
      /\ c.reader = b.reader
      /\ c.writer = b.writer + Len(d)
      /\ c = [memory |-> c.memory, reader |-> c.reader, writer |-> c.writer]
  BY DEF Written
<1>3. /\ c.memory \in Seq(Bytes)
      /\ Len(c.memory) = Len(b.memory)
      /\ \A j \in 1 .. Len(b.memory) :
           c.memory[j] = IF j - b.writer \in 1 .. Len(d)
                         THEN d[j - b.writer] ELSE b.memory[j]
  BY <1>1, <1>2, OverwriteTyped
<1> HIDE DEF c, n
<1>4. /\ Sound(c)
      /\ WritableBytes(c) = WritableBytes(b) - Len(d)
      /\ ReadableBytes(c) = n + Len(d)
  BY <1>1, <1>2, <1>3 DEF Sound, WritableBytes, ReadableBytes
<1>5. /\ Readable(c) \in Seq(Bytes) /\ Len(Readable(c)) = n + Len(d)
      /\ Readable(b) \in Seq(Bytes) /\ Len(Readable(b)) = n /\ n \in Nat
      /\ \A i \in 1 .. n : Readable(b)[i] = b.memory[b.reader + i]
      /\ \A i \in 1 .. n + Len(d) : Readable(c)[i] = c.memory[b.reader + i]
  BY <1>2, <1>4, ReadableTyped DEF n
<1>6. ASSUME NEW i \in 1 .. n + Len(d)
      PROVE  Readable(c)[i] = (Readable(b) \o d)[i]
  <2>1. b.reader + i \in 1 .. Len(b.memory)
    <3>1. n \in Nat /\ i \in Nat /\ i >= 1 /\ i <= n + Len(d) /\ b.reader + n = b.writer
      BY <1>1, <1>5, <1>6
    <3>2. \A x, y, z, w, l \in Int :
            y >= 0 /\ z >= 1 /\ z <= x + w /\ y + x + w <= l
              => y + z \in 1 .. l
      OBVIOUS
    <3>3. /\ n \in Int /\ b.reader \in Int /\ i \in Int /\ Len(d) \in Int
          /\ Len(b.memory) \in Int /\ b.reader >= 0
          /\ b.reader + n + Len(d) <= Len(b.memory)
      BY <1>1, <3>1
    <3> QED
      BY <3>1, <3>2, <3>3
  <2>2. Readable(c)[i] = IF (b.reader + i) - b.writer \in 1 .. Len(d)
                         THEN d[(b.reader + i) - b.writer]
                         ELSE b.memory[b.reader + i]
    BY <2>1, <1>3, <1>5
  <2>3. (Readable(b) \o d)[i] = IF i <= n THEN Readable(b)[i] ELSE d[i - n]
    BY <1>5, ConcatProperties
  <2>4. CASE i <= n
    <3>1. (b.reader + i) - b.writer \notin 1 .. Len(d)
      BY <1>1, <2>4
    <3> QED
      BY <1>5, <2>2, <2>3, <2>4, <3>1
  <2>5. CASE i > n
    <3>1. /\ (b.reader + i) - b.writer = i - n
          /\ i - n \in 1 .. Len(d)
      BY <1>1, <1>5, <2>5
    <3> QED
      BY <1>5, <2>2, <2>3, <2>5, <3>1
  <2> QED
    BY <1>1, <1>5, <2>4, <2>5
<1>7. Readable(c) = Readable(b) \o d
  <2>1. /\ Readable(b) \o d \in Seq(Bytes)
        /\ Len(Readable(b) \o d) = n + Len(d)
    BY <1>5, ConcatProperties
  <2> QED
    BY <1>5, <1>6, <2>1, SeqEqual
<1> QED
  BY <1>4, <1>7 DEF c

LEMMA AppendedSound ==
  ASSUME NEW b, Sound(b), NEW d \in Seq(Bytes)
  PROVE  /\ Sound(Appended(b, d))
         /\ Readable(Appended(b, d)) = Readable(b) \o d
<1>1. Len(d) \in Nat
  OBVIOUS
<1> QED
  BY <1>1, EnsuredSound, WrittenSound DEF Appended

(* The two parts of a readv come one behind the other.                     *)
LEMMA ReceivedSound ==
  ASSUME NEW b, Sound(b), NEW d \in Seq(Bytes)
  PROVE  /\ Sound(Received(b, d))
         /\ Readable(Received(b, d)) = Readable(b) \o d
<1>1. WritableBytes(b) \in Nat /\ Len(d) \in Nat
  BY ReadableTyped
<1>2. CASE Len(d) <= WritableBytes(b)
  BY <1>2, WrittenSound DEF Received
<1>3. CASE Len(d) > WritableBytes(b)
  <2> DEFINE k == WritableBytes(b)
             d1 == SubSeq(d, 1, k)
             d2 == SubSeq(d, k + 1, Len(d))
             c == Written(b, d1)
  <2>1. /\ d1 \in Seq(Bytes) /\ Len(d1) = k
        /\ d2 \in Seq(Bytes)
        /\ d = d1 \o d2
    <3>1. /\ 1 \in 1 .. Len(d) + 1 /\ k \in 1 - 1 .. Len(d)
          /\ Len(d) \in k .. Len(d)
      BY <1>1, <1>3
    <3>2. SubSeq(d, 1, Len(d)) = d1 \o d2
      BY <3>1, ConcatAdjacentSubSeq
    <3>3. SubSeq(d, 1, Len(d)) = d
      BY SubSeqFull
    <3>4. /\ \A i \in 1 .. k : d[i] \in Bytes
          /\ \A i \in k + 1 .. Len(d) : d[i] \in Bytes
      BY <1>1, <1>3, ElementOfSeq
    <3>5. d1 \in Seq(Bytes) /\ Len(d1) = k
      <4>1. Len(d1) = IF 1 <= k THEN k - 1 + 1 ELSE 0
        BY <1>1, <3>4, SubSeqProperties
      <4> QED
        BY <1>1, <3>4, <4>1, SubSeqProperties
    <3>6. d2 \in Seq(Bytes)
      BY <1>1, <3>4, SubSeqProperties
    <3> QED
      BY <3>2, <3>3, <3>5, <3>6
  <2> HIDE DEF d1, d2
  <2>2. Sound(c) /\ Readable(c) = Readable(b) \o d1
    BY <1>1, <2>1, WrittenSound
  <2>3. Received(b, d) = Appended(c, d2)
    BY <1>1, <1>3 DEF Received, d1, d2
  <2> HIDE DEF c
  <2>4. Sound(Received(b, d)) /\ Readable(Received(b, d)) = Readable(c) \o d2
    BY <2>1, <2>2, <2>3, AppendedSound
  <2>5. Readable(b) \in Seq(Bytes)
    BY ReadableTyped
  <2>6. (Readable(b) \o d1) \o d2 = Readable(b) \o (d1 \o d2)
    BY <2>1, <2>5, ConcatAssociative
  <2> QED
    BY <2>1, <2>2, <2>4, <2>6
<1> QED
  BY <1>1, <1>2, <1>3

(* What retrive leaves is what was behind it.                              *)
LEMMA RetrivedSound ==
  ASSUME NEW b, Sound(b), NEW len \in 0 .. ReadableBytes(b)
  PROVE  /\ Sound(Retrived(b, len))
         /\ Readable(Retrived(b, len)) =
              SubSeq(Readable(b), len + 1, Len(Readable(b)))
         /\ Retrived(b, len).memory = b.memory
<1> DEFINE c == Retrived(b, len)
           n == ReadableBytes(b)
<1>1. /\ b.memory \in Seq(Bytes) /\ Len(b.memory) \in Nat
      /\ b.reader \in Nat /\ b.writer \in Nat /\ kCheapPrepend \in Nat
      /\ kCheapPrepend <= b.reader
      /\ b.reader <= b.writer /\ b.writer <= Len(b.memory)
      /\ n = b.writer - b.reader /\ n \in Nat /\ len \in 0 .. n
  BY BufferAssumption DEF Sound, ReadableBytes
<1>2. /\ Readable(b) \in Seq(Bytes) /\ Len(Readable(b)) = n
      /\ \A i \in 1 .. n : Readable(b)[i] = b.memory[b.reader + i]
  BY ReadableTyped
<1>3. c.memory = b.memory
  BY DEF Retrived, RetrivedAll, Sound
<1>4. Sound(c) /\ ReadableBytes(c) = n - len
  <2>1. b = [memory |-> b.memory, reader |-> b.reader, writer |-> b.writer]
    BY DEF Sound
  <2>2. CASE len < n
    <3>1. c = [memory |-> b.memory, reader |-> b.reader + len,
               writer |-> b.writer]
      BY <2>1, <2>2 DEF Retrived
    <3> QED
      BY <1>1, <2>2, <3>1 DEF Sound, ReadableBytes
  <2>3. CASE len = n
    <3>1. c = [memory |-> b.memory, reader |-> kCheapPrepend,
               writer |-> kCheapPrepend]
      BY <1>1, <2>3 DEF Retrived, RetrivedAll
    <3> QED
      BY <1>1, <2>3, <3>1 DEF Sound, ReadableBytes
  <2> QED
    BY <1>1, <2>2, <2>3
<1>5. ASSUME NEW i \in 1 .. n - len
      PROVE  c.memory[c.reader + i] = Readable(b)[len + i]
  <2>1. len < n /\ len + i \in 1 .. n
    BY <1>1
  <2>2. c.reader = b.reader + len
    BY <1>1, <2>1 DEF Retrived, Sound
  <2>3. c.reader + i = b.reader + (len + i)
    BY <1>1, <2>2
  <2> QED
    BY <1>2, <1>3, <2>1, <2>3
<1> HIDE DEF c, n
<1>6. /\ Readable(c) \in Seq(Bytes) /\ Len(Readable(c)) = n - len
      /\ \A i \in 1 .. n - len : Readable(c)[i] = Readable(b)[len + i]
  BY <1>4, <1>5, ReadableTyped
<1>7. /\ SubSeq(Readable(b), len + 1, n) \in Seq(Bytes)
      /\ Len(SubSeq(Readable(b), len + 1, n)) = n - len
      /\ \A i \in 1 .. n - len :
           SubSeq(Readable(b), len + 1, n)[i] = Readable(b)[len + i]
  <2> DEFINE r == Readable(b)
             t == SubSeq(r, len + 1, n)
  <2>1. /\ len + 1 \in Int /\ n \in Int /\ len \in Nat /\ len <= n
        /\ \A i \in len + 1 .. n : r[i] \in Bytes
    BY <1>1, <1>2, ElementOfSeq
  <2> HIDE DEF r
  <2>2. /\ t \in Seq(Bytes)
        /\ Len(t) = IF len + 1 <= n THEN n - (len + 1) + 1 ELSE 0
        /\ \A i \in 1 .. n - (len + 1) + 1 : t[i] = r[(len + 1) + i - 1]
    BY <2>1, SubSeqProperties
  <2>3. Len(t) = n - len
    BY <2>1, <2>2
  <2>4. ASSUME NEW i \in 1 .. n - len
        PROVE  t[i] = r[len + i]
    <3>1. /\ i \in 1 .. n - (len + 1) + 1
          /\ (len + 1) + i - 1 = len + i
      BY <2>1
    <3> QED
      BY <2>2, <3>1
  <2> QED
    BY <2>2, <2>3, <2>4 DEF r
<1>8. Readable(c) = SubSeq(Readable(b), len + 1, n)
  BY <1>6, <1>7, SeqEqual
<1> QED
  BY <1>2, <1>3, <1>4, <1>8 DEF c

(* The bytes from peek() on are the first of the readable ones.            *)
LEMMA PeekIsPrefix ==
  ASSUME NEW b, Sound(b), NEW len \in 0 .. ReadableBytes(b)
  PROVE  /\ Peek(b, len) = SubSeq(Readable(b), 1, len)
         /\ Peek(b, len) \in Seq(Bytes)
<1> DEFINE n == ReadableBytes(b)
<1>1. /\ n \in Nat /\ Readable(b) \in Seq(Bytes) /\ Len(Readable(b)) = n
      /\ \A i \in 1 .. n : Readable(b)[i] = b.memory[b.reader + i]
  BY ReadableTyped
<1> HIDE DEF n
<1>2. /\ SubSeq(Readable(b), 1, len) \in Seq(Bytes)
      /\ SubSeq(Readable(b), 1, len) = [i \in 1 .. len |-> Readable(b)[i]]
  BY <1>1 DEF n
<1>3. Peek(b, len) = [i \in 1 .. len |-> Readable(b)[i]]
  BY <1>1 DEF Peek, n
<1> QED
  BY <1>2, <1>3

-----------------------------------------------------------------------------
LEMMA InitSound == Init => IndInv
<1>1. /\ kCheapPrepend \in Nat /\ kInitialSize \in Nat /\ Zero \in Bytes
      /\ kCheapPrepend + kInitialSize \in Nat
  BY BufferAssumption
<1>2. /\ Fresh(kCheapPrepend + kInitialSize) \in Seq(Bytes)
      /\ Len(Fresh(kCheapPrepend + kInitialSize)) = kCheapPrepend + kInitialSize
  BY <1>1 DEF Fresh
<1>3. << >> \in Seq(Bytes)
  BY EmptySeq
<1> QED
  BY <1>1, <1>2, <1>3 DEF Init, IndInv, IndicesOrdered

LEMMA SoundState == IndInv <=> Sound(buf) /\ taken \in Seq(Bytes)
  BY DEF IndInv, IndicesOrdered, Sound

LEMMA StepSound == IndInv /\ [Next]_vars => IndInv'
<1> SUFFICES ASSUME IndInv, [Next]_vars
             PROVE  Sound(buf') /\ taken' \in Seq(Bytes)
  BY DEF IndInv, IndicesOrdered, Sound
<1>1. Sound(buf) /\ taken \in Seq(Bytes)
  BY SoundState
<1>2. ASSUME NEW data \in Chunks, Put(data) \/ ReadFd(data)
      PROVE  Sound(buf') /\ taken' \in Seq(Bytes)
  <2>1. data \in Seq(Bytes)
    BY BufferAssumption
  <2> QED
    BY <1>1, <1>2, <2>1, AppendedSound, ReceivedSound DEF Put, ReadFd
<1>3. ASSUME NEW len \in 0 .. ReadableBytes(buf),
             Retrive(len) \/ RetriveAsString(len)
      PROVE  Sound(buf') /\ taken' \in Seq(Bytes)
  BY <1>1, <1>3, RetrivedSound, PeekIsPrefix DEF Retrive, RetriveAsString
<1>4. CASE RetriveAll
  <2>1. buf' = [memory |-> buf.memory, reader |-> kCheapPrepend,
                writer |-> kCheapPrepend]
    BY <1>4 DEF RetriveAll, RetrivedAll
  <2>2. /\ kCheapPrepend \in Nat /\ Len(buf.memory) \in Nat
        /\ kCheapPrepend <= Len(buf.memory)
    BY <1>1, BufferAssumption DEF Sound
  <2> QED
    BY <1>1, <1>4, <2>1, <2>2 DEF RetriveAll, Sound
<1>5. CASE UNCHANGED vars
  BY <1>1, <1>5 DEF vars
<1> QED
  BY <1>2, <1>3, <1>4, <1>5 DEF Next

(* The indices stay in order and kCheapPrepend bytes stay free in front,   *)
(* whatever is appended, received and retrieved (Buffer.h:42-88, 118-135,  *)
(* Buffer.cc:10-43).                                                       *)
THEOREM BufferInvariant == Spec => []IndInv
<1> QED
  BY InitSound, StepSound, PTL DEF Spec

-----------------------------------------------------------------------------
(* Writing in place leaves the size of the memory alone; making room       *)
(* changes it only when growing, which what is readable and what is to     *)
(* come make necessary.                                                    *)
LEMMA AppendedGrows ==
  ASSUME NEW b, Sound(b), NEW d \in Seq(Bytes),
         Len(Appended(b, d).memory) > Len(b.memory)
  PROVE  kCheapPrepend + ReadableBytes(b) + Len(d) > Len(b.memory)
<1> DEFINE e == EnsureWritableBytes(b, Len(d))
<1>1. Len(d) \in Nat /\ kCheapPrepend \in Nat
  BY BufferAssumption
<1>2. Sound(e)
  BY <1>1, EnsuredSound
<1>3. e.memory \in Seq(Bytes) /\ e.writer \in Nat
  BY <1>2 DEF Sound
<1> HIDE DEF e
<1>4. Len(Overwrite(e.memory, e.writer, d)) = Len(e.memory)
  BY <1>3, OverwriteTyped
<1>5. Len(e.memory) > Len(b.memory)
  BY <1>4 DEF Appended, Written, e
<1>6. /\ b.memory \in Seq(Bytes) /\ Len(b.memory) \in Nat
      /\ b.reader \in Nat /\ b.writer \in Nat
      /\ ReadableBytes(b) = b.writer - b.reader
      /\ WritableBytes(b) = Len(b.memory) - b.writer
      /\ PrependableBytes(b) = b.reader
      /\ ReadableBytes(b) \in Nat /\ WritableBytes(b) \in Nat
  BY DEF Sound, ReadableBytes, WritableBytes, PrependableBytes
<1>7. WritableBytes(b) < Len(d)
  <2>1. e # b
    BY <1>5, <1>6
  <2> QED
    BY <2>1 DEF e, EnsureWritableBytes
<1>8. CASE WritableBytes(b) + PrependableBytes(b) < Len(d) + kCheapPrepend
  BY <1>1, <1>6, <1>8
<1>9. CASE ~(WritableBytes(b) + PrependableBytes(b) < Len(d) + kCheapPrepend)
  <2>1. e.memory = Overwrite(b.memory, kCheapPrepend, Readable(b))
    BY <1>7, <1>9 DEF e, EnsureWritableBytes, MakeSpace, Compacted
  <2>2. Len(e.memory) = Len(b.memory)
    BY <1>1, <1>6, <2>1, ReadableTyped, OverwriteTyped
  <2> QED
    BY <1>5, <1>6, <2>2
<1> QED
  BY <1>8, <1>9

LEMMA ReceivedGrows ==
  ASSUME NEW b, Sound(b), NEW d \in Seq(Bytes),
         Len(Received(b, d).memory) > Len(b.memory)
  PROVE  kCheapPrepend + ReadableBytes(b) + Len(d) > Len(b.memory)
<1> DEFINE k == WritableBytes(b)
           d1 == SubSeq(d, 1, k)
           d2 == SubSeq(d, k + 1, Len(d))
           c == Written(b, d1)
<1>1. /\ b.memory \in Seq(Bytes) /\ Len(b.memory) \in Nat /\ b.writer \in Nat
      /\ k \in Nat /\ Len(d) \in Nat
  BY ReadableTyped DEF Sound
<1>2. Len(d) > k
  <2>1. Len(Written(b, d).memory) = Len(b.memory)
    BY <1>1, OverwriteTyped DEF Written
  <2>2. ~(Len(d) <= k)
    BY <1>1, <2>1 DEF Received
  <2> QED
    BY <1>1, <2>2
<1>3. /\ \A i \in 1 .. k : d[i] \in Bytes
      /\ \A i \in k + 1 .. Len(d) : d[i] \in Bytes
  BY <1>1, <1>2, ElementOfSeq
<1>4. d1 \in Seq(Bytes) /\ Len(d1) = k
  <2>1. Len(d1) = IF 1 <= k THEN k - 1 + 1 ELSE 0
    BY <1>1, <1>3, SubSeqProperties
  <2> QED
    BY <1>1, <1>3, <2>1, SubSeqProperties
<1>5. d2 \in Seq(Bytes) /\ Len(d2) = Len(d) - k
  <2>1. Len(d2) = IF k + 1 <= Len(d) THEN Len(d) - (k + 1) + 1 ELSE 0
    BY <1>1, <1>3, SubSeqProperties
  <2> QED
    BY <1>1, <1>2, <1>3, <2>1, SubSeqProperties
<1>6. Received(b, d) = Appended(c, d2)
  BY <1>1, <1>2 DEF Received
<1> HIDE DEF d1, d2
<1>7. Sound(c) /\ Readable(c) = Readable(b) \o d1
  BY <1>1, <1>4, WrittenSound
<1>8. Len(c.memory) = Len(b.memory)
  BY <1>1, <1>4, OverwriteTyped DEF Written
<1> HIDE DEF c
<1>9. kCheapPrepend + ReadableBytes(c) + Len(d2) > Len(c.memory)
  BY <1>5, <1>6, <1>7, <1>8, AppendedGrows
<1>10. ReadableBytes(c) = ReadableBytes(b) + k
  <2>1. /\ Len(Readable(c)) = ReadableBytes(c)
        /\ Len(Readable(b)) = ReadableBytes(b)
        /\ Readable(b) \in Seq(Bytes)
    BY <1>7, ReadableTyped
  <2> QED
    BY <1>4, <1>7, <2>1, ConcatProperties
<1>11. ReadableBytes(b) \in Nat /\ kCheapPrepend \in Nat
  BY ReadableTyped, BufferAssumption
<1> QED
  BY <1>1, <1>5, <1>8, <1>9, <1>10, <1>11

(* Room that retrieving freed is used again: the memory grows only when    *)
(* what is to be held, with the kCheapPrepend bytes in front, is more than *)
(* it (makeSpace, Buffer.h:118-135).                                       *)
THEOREM GrowsNoMoreThanNeeded == Spec => GrowsOnlyWhenFull
<1>1. ASSUME IndInv, [Next]_vars, Len(buf'.memory) > Len(buf.memory)
      PROVE  kCheapPrepend + ReadableBytes(buf') > Len(buf.memory)
  <2>1. Sound(buf)
    BY <1>1, SoundState
  <2>2. Len(buf.memory) \in Nat
    BY <2>1 DEF Sound
  <2>3. ASSUME NEW data \in Chunks, Put(data) \/ ReadFd(data)
        PROVE  kCheapPrepend + ReadableBytes(buf') > Len(buf.memory)
    <3>1. data \in Seq(Bytes)
      BY BufferAssumption
    <3>2. buf' = Appended(buf, data) \/ buf' = Received(buf, data)
      BY <2>3 DEF Put, ReadFd
    <3>3. kCheapPrepend + ReadableBytes(buf) + Len(data) > Len(buf.memory)
      BY <1>1, <2>1, <3>1, <3>2, AppendedGrows, ReceivedGrows
    <3>4. Sound(buf') /\ Readable(buf') = Readable(buf) \o data
      BY <2>1, <3>1, <3>2, AppendedSound, ReceivedSound
    <3>5. /\ Len(Readable(buf')) = ReadableBytes(buf')
          /\ Len(Readable(buf)) = ReadableBytes(buf)
          /\ Readable(buf) \in Seq(Bytes)
      BY <2>1, <3>4, ReadableTyped
    <3>6. ReadableBytes(buf') = ReadableBytes(buf) + Len(data)
      BY <3>1, <3>4, <3>5, ConcatProperties
    <3>7. /\ ReadableBytes(buf) \in Nat /\ Len(data) \in Nat
          /\ kCheapPrepend \in Nat
      BY <2>1, <3>1, ReadableTyped, BufferAssumption
    <3> QED
      BY <3>3, <3>6, <3>7
  <2>4. ASSUME NEW len \in 0 .. ReadableBytes(buf),
               Retrive(len) \/ RetriveAsString(len)
        PROVE  FALSE
    <3>1. buf'.memory = buf.memory
      BY <2>1, <2>4, RetrivedSound DEF Retrive, RetriveAsString
    <3> QED
      BY <1>1, <2>2, <3>1
  <2>5. CASE RetriveAll
    BY <1>1, <2>2, <2>5 DEF RetriveAll, RetrivedAll
  <2>6. CASE UNCHANGED vars
    BY <1>1, <2>2, <2>6 DEF vars
  <2> QED
    BY <1>1, <2>3, <2>4, <2>5, <2>6 DEF Next
<1> QED
  BY <1>1, BufferInvariant, PTL DEF Spec, GrowsOnlyWhenFull

-----------------------------------------------------------------------------
LEMMA InitQueue == Init => Queue!Init
<1> SUFFICES ASSUME Init PROVE Readable(buf) = << >>
  BY DEF Init, Queue!Init
<1>1. Sound(buf)
  BY InitSound, SoundState
<1>2. ReadableBytes(buf) = 0
  BY BufferAssumption DEF Init, ReadableBytes
<1> QED
  BY <1>1, <1>2, ReadableTyped, EmptySeq

LEMMA StepQueue == IndInv /\ [Next]_vars => [Queue!Next]_(Queue!vars)
<1> SUFFICES ASSUME IndInv, [Next]_vars PROVE [Queue!Next]_(Queue!vars)
  OBVIOUS
<1>1. Sound(buf)
  BY SoundState
<1>2. ReadableBytes(buf) = Len(Readable(buf)) /\ Len(Readable(buf)) \in Nat
  BY <1>1, ReadableTyped
<1>3. ASSUME NEW data \in Chunks, Put(data) \/ ReadFd(data)
      PROVE  Queue!Next
  <2>1. data \in Seq(Bytes)
    BY BufferAssumption
  <2>2. Readable(buf') = Readable(buf) \o data /\ taken' = taken
    BY <1>1, <1>3, <2>1, AppendedSound, ReceivedSound DEF Put, ReadFd
  <2>3. Readable(buf)' = Readable(buf')
    BY DEF Readable, Peek, ReadableBytes
  <2>4. Queue!Put(data)
    BY <2>2, <2>3 DEF Queue!Put
  <2> QED
    BY <2>4 DEF Queue!Next
<1>4. ASSUME NEW len \in 0 .. ReadableBytes(buf),
             Retrive(len) \/ RetriveAsString(len)
      PROVE  Queue!Next
  <2>1. /\ Readable(buf') = SubSeq(Readable(buf), len + 1, Len(Readable(buf)))
        /\ Peek(buf, len) = SubSeq(Readable(buf), 1, len)
    BY <1>1, <1>4, RetrivedSound, PeekIsPrefix DEF Retrive, RetriveAsString
  <2>2. Readable(buf)' = Readable(buf')
    BY DEF Readable, Peek, ReadableBytes
  <2>3. Queue!Drop(len) \/ Queue!Take(len)
    BY <1>4, <2>1, <2>2
       DEF Retrive, RetriveAsString, Queue!Drop, Queue!Take
  <2>4. len \in 0 .. Len(Readable(buf))
    BY <1>2
  <2> QED
    BY <2>3, <2>4 DEF Queue!Next
<1>5. CASE RetriveAll
  <2> DEFINE n == Len(Readable(buf))
  <2>1. buf' = Retrived(buf, n) /\ taken' = taken
    BY <1>2, <1>5 DEF RetriveAll, Retrived
  <2>2. n \in 0 .. ReadableBytes(buf)
    BY <1>2
  <2>3. Readable(buf') = SubSeq(Readable(buf), n + 1, Len(Readable(buf)))
    BY <1>1, <2>1, <2>2, RetrivedSound
  <2>4. Readable(buf)' = Readable(buf')
    BY DEF Readable, Peek, ReadableBytes
  <2>5. Queue!Drop(n)
    BY <2>1, <2>3, <2>4 DEF Queue!Drop
  <2> QED
    BY <1>2, <2>5 DEF Queue!Next
<1>6. CASE UNCHANGED vars
  BY <1>6 DEF vars, Queue!vars, Readable, Peek, ReadableBytes
<1> QED
  BY <1>3, <1>4, <1>5, <1>6 DEF Next

(* A Buffer is a queue of bytes: whatever grows, is compacted, or arrives  *)
(* in two parts, the bytes come out once each and in the order they went   *)
(* in (Buffer.h:35-88, 118-135, Buffer.cc:10-43).                          *)
THEOREM RefinesByteQueue == Spec => ImplementsByteQueue
<1> QED
  BY InitQueue, StepQueue, BufferInvariant, PTL
     DEF Spec, ImplementsByteQueue, Queue!Spec
=============================================================================

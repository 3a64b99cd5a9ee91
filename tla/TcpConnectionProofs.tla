------------------------ MODULE TcpConnectionProofs ------------------------
(***************************************************************************)
(* Theorems about TcpConnection, for any messages and any other threads    *)
(* that send and shut down.                                                *)
(***************************************************************************)
EXTENDS TcpConnection, SequenceTheorems, TLAPS

-----------------------------------------------------------------------------
(* The operators the connection is built from.                             *)

LEMMA UnitsTyped ==
  ASSUME NEW m \in Messages \union {Garbage}
  PROVE  /\ UnitsOf(m) \in Seq(Units)
         /\ Len(UnitsOf(m)) = Size
<1>1. UnitsOf(m) \in [1 .. Size -> Units]
  BY DEF UnitsOf, Units
<1>2. Size \in Nat
  BY DEF Size
<1>3. UnitsOf(m) \in Seq(Units)
  BY <1>1, <1>2, SeqDef
<1>4. Len(UnitsOf(m)) \in Nat /\ DOMAIN UnitsOf(m) = 1 .. Len(UnitsOf(m))
  BY <1>3, LenProperties
<1>5. DOMAIN UnitsOf(m) = 1 .. 2
  BY DEF UnitsOf, Size
<1>6. Len(UnitsOf(m)) = 2
  <2>1. \A i \in Int : i \in 1 .. Len(UnitsOf(m)) <=> i \in 1 .. 2
    BY <1>4, <1>5
  <2>2. 2 \in 1 .. Len(UnitsOf(m)) /\ 3 \notin 1 .. Len(UnitsOf(m))
    BY <2>1
  <2> QED BY <1>4, <2>2
<1> QED BY <1>3, <1>6 DEF Size

LEMMA TaskTyped ==
  ASSUME NEW name \in Functors
  PROVE  Task(name) \in Tasks
  BY DEF Task, Tasks

(* A functor is queued behind the others.                                  *)
LEMMA PushedTyped ==
  ASSUME NEW queue \in Seq(Tasks), NEW name \in Functors
  PROVE  /\ Pushed(queue, name) \in Seq(Tasks)
         /\ Len(Pushed(queue, name)) = Len(queue) + 1
         /\ \A i \in 1 .. Len(queue) : Pushed(queue, name)[i] = queue[i]
         /\ Pushed(queue, name)[Len(queue) + 1].fn = name
<1>1. Task(name) \in Tasks /\ Task(name).fn = name
  BY TaskTyped DEF Task
<1> QED BY <1>1, AppendProperties DEF Pushed

LEMMA PushedTasks ==
  \A queue \in Seq(Tasks), name \in Functors : Pushed(queue, name) \in Seq(Tasks)
  BY PushedTyped

(* Splitting a piece of data in two, written and kept, loses nothing.      *)
LEMMA SplitInOrder ==
  ASSUME NEW data \in Seq(Units), NEW n \in 0 .. Len(data)
  PROVE  /\ SubSeq(data, 1, n) \in Seq(Units)
         /\ SubSeq(data, n + 1, Len(data)) \in Seq(Units)
         /\ SubSeq(data, 1, n) \o SubSeq(data, n + 1, Len(data)) = data
<1>1. \A i \in 1 .. Len(data) : data[i] \in Units
  BY ElementOfSeq
<1>2. n \in Int /\ Len(data) \in Nat /\ 1 \in Int /\ n + 1 \in Int
  BY LenProperties
<1>3. \A i \in 1 .. n : data[i] \in Units
  BY <1>1, <1>2
<1>4. \A i \in n + 1 .. Len(data) : data[i] \in Units
  BY <1>1, <1>2
<1>5. SubSeq(data, 1, n) \in Seq(Units)
  BY <1>2, <1>3, SubSeqProperties
<1>6. SubSeq(data, n + 1, Len(data)) \in Seq(Units)
  BY <1>2, <1>4, SubSeqProperties
<1>7. SubSeq(data, 1, n) \o SubSeq(data, n + 1, Len(data)) = SubSeq(data, 1, Len(data))
  <2>1. /\ 1 \in 1 .. Len(data) + 1
        /\ n \in 1 - 1 .. Len(data)
        /\ Len(data) \in n .. Len(data)
    BY <1>2
  <2> QED BY <2>1, ConcatAdjacentSubSeq
<1> QED BY <1>5, <1>6, <1>7, SubSeqFull

LEMMA UnitsAssociate ==
  \A s, t, u \in Seq(Units) : (s \o t) \o u = s \o (t \o u)
  BY ConcatAssociative

(* What is left of the whole is nothing.                                   *)
LEMMA NothingLeft ==
  ASSUME NEW data \in Seq(Units), NEW n \in 0 .. Len(data)
  PROVE  n = Len(data) <=> SubSeq(data, n + 1, Len(data)) = << >>
<1>1. \A i \in n + 1 .. Len(data) : data[i] \in Units
  BY ElementOfSeq
<1>2. n \in Int /\ Len(data) \in Nat /\ n + 1 \in Int
  BY LenProperties
<1>3. Len(SubSeq(data, n + 1, Len(data))) =
        IF n + 1 <= Len(data) THEN Len(data) - (n + 1) + 1 ELSE 0
  BY <1>1, <1>2, SubSeqProperties
<1>4. CASE n = Len(data)
  BY <1>2, <1>4, SubSeqEmpty
<1>5. CASE n < Len(data)
  <2>1. Len(SubSeq(data, n + 1, Len(data))) # 0
    BY <1>2, <1>3, <1>5
  <2>2. SubSeq(data, n + 1, Len(data)) # << >>
    BY <2>1, EmptySeq
  <2>3. n # Len(data)
    BY <1>2, <1>5
  <2> QED BY <2>2, <2>3
<1> QED BY <1>2, <1>4, <1>5

(* The callbacks of one handleEvent: at most one of them can close.        *)
LEMMA ReportedTyped ==
  ASSUME NEW writable \in BOOLEAN
  PROVE  /\ Reported(writable) \in Seq(Callbacks)
         /\ \A i, j \in 1 .. Len(Reported(writable)) :
              i < j /\ Reported(writable)[i] \in Closing
                => Reported(writable)[j] \notin Closing
         /\ \A i \in 1 .. Len(Reported(writable)) :
              Reported(writable)[i] = "write" => i = Len(Reported(writable))
<1> DEFINE close == IF EpollHup /\ ~EpollIn THEN << "close" >> ELSE << >>
           error == IF EpollErr THEN << "error" >> ELSE << >>
           read == IF EpollIn THEN << "read" >> ELSE << >>
           write == IF writable THEN << "write" >> ELSE << >>
<1>1. /\ close \in Seq(Callbacks) /\ error \in Seq(Callbacks)
      /\ read \in Seq(Callbacks) /\ write \in Seq(Callbacks)
  <2>1. \A name \in Callbacks : << name >> \in Seq(Callbacks)
    OBVIOUS
  <2>2. << >> \in Seq(Callbacks)
    BY EmptySeq
  <2> QED BY <2>1, <2>2 DEF Callbacks
<1>2. /\ Len(close) \in {0, 1} /\ Len(error) \in {0, 1}
      /\ Len(read) \in {0, 1} /\ Len(write) \in {0, 1}
      /\ Len(close) = 0 \/ Len(read) = 0
  OBVIOUS
<1>3. /\ \A i \in 1 .. Len(close) : close[i] = "close"
      /\ \A i \in 1 .. Len(read) : read[i] = "read"
      /\ \A i \in 1 .. Len(error) : error[i] = "error"
      /\ \A i \in 1 .. Len(write) : write[i] = "write"
  OBVIOUS
<1> DEFINE two == close \o error
           three == two \o read
<1>4. Reported(writable) = three \o write
  BY DEF Reported
<1>5. /\ two \in Seq(Callbacks)
      /\ Len(two) = Len(close) + Len(error)
      /\ \A i \in 1 .. Len(two) :
           two[i] = IF i <= Len(close) THEN close[i] ELSE error[i - Len(close)]
  BY <1>1, ConcatProperties
<1> HIDE DEF close, error, read, write
<1>6. /\ three \in Seq(Callbacks)
      /\ Len(three) = Len(two) + Len(read)
      /\ \A i \in 1 .. Len(three) :
           three[i] = IF i <= Len(two) THEN two[i] ELSE read[i - Len(two)]
  <2>1. two \in Seq(Callbacks) /\ read \in Seq(Callbacks)
    BY <1>1, <1>5
  <2>2. three = two \o read
    OBVIOUS
  <2> HIDE DEF two, three
  <2> QED BY <2>1, <2>2, ConcatProperties
<1>7. /\ Reported(writable) \in Seq(Callbacks)
      /\ Len(Reported(writable)) = Len(three) + Len(write)
      /\ \A i \in 1 .. Len(Reported(writable)) :
           Reported(writable)[i] = IF i <= Len(three) THEN three[i]
                                   ELSE write[i - Len(three)]
  <2> HIDE DEF two, three
  <2> QED BY <1>1, <1>4, <1>6, ConcatProperties
<1> HIDE DEF two, three
<1>8. \A i \in 1 .. Len(two) : two[i] \in Closing => i = 1 /\ Len(close) = 1
  BY <1>2, <1>3, <1>5 DEF Closing
<1>9. \A i \in 1 .. Len(three) :
        three[i] \in Closing =>
          \/ i = 1 /\ Len(close) = 1
          \/ i = Len(two) + 1 /\ Len(read) = 1
  BY <1>2, <1>5, <1>6, <1>8
<1>10. \A i \in 1 .. Len(Reported(writable)) :
         Reported(writable)[i] \in Closing =>
           \/ i = 1 /\ Len(close) = 1
           \/ i = Len(two) + 1 /\ Len(read) = 1
  BY <1>2, <1>3, <1>5, <1>6, <1>7, <1>9 DEF Closing
<1>11. ASSUME NEW i \in 1 .. Len(Reported(writable)),
              NEW j \in 1 .. Len(Reported(writable)),
              i < j, Reported(writable)[i] \in Closing,
              Reported(writable)[j] \in Closing
       PROVE  FALSE
  <2>1. \/ i = 1 /\ Len(close) = 1
        \/ i = Len(two) + 1 /\ Len(read) = 1
    BY <1>10, <1>11
  <2>2. \/ j = 1 /\ Len(close) = 1
        \/ j = Len(two) + 1 /\ Len(read) = 1
    BY <1>10, <1>11
  <2> QED BY <1>2, <1>11, <2>1, <2>2
<1>12. \A i \in 1 .. Len(two) : two[i] # "write"
  BY <1>2, <1>3, <1>5
<1>13. \A i \in 1 .. Len(three) : three[i] # "write"
  BY <1>2, <1>3, <1>5, <1>6, <1>12
<1>14. \A i \in 1 .. Len(Reported(writable)) :
         Reported(writable)[i] = "write" => i = Len(Reported(writable))
  BY <1>2, <1>6, <1>7, <1>13
<1> QED BY <1>7, <1>11, <1>14

-----------------------------------------------------------------------------
(* sendInLoop.                                                             *)

(* What sendInLoop takes goes to the kernel or waits, in order, and only   *)
(* the user's functors are queued.                                         *)
LEMMA SendTyped ==
  ASSUME TypeOK, StreamInOrder, NEW data \in Seq(Units), NEW rest \in Seq(Tasks),
         SendInLoop(data, rest)
  PROVE  /\ wire' \in Seq(Units) /\ out' \in Seq(Units) /\ accepted' \in Seq(Units)
         /\ soError' \in BOOLEAN
         /\ events' \subseteq {"read", "write"}
         /\ index' \in {"kNew", "kAdded", "kDeleted"}
         /\ StreamInOrder'
<1> USE DEF TypeOK, stream, channel
<1>0. wire \o out = accepted
  BY DEF StreamInOrder
<1>1. CASE GivesUp(rest)
  BY <1>0, <1>1 DEF GivesUp, StreamInOrder
<1>2. CASE WriteFails(rest)
  BY <1>0, <1>2 DEF WriteFails, StreamInOrder
<1>3. CASE WriteWhole(data, rest)
  <2>1. /\ out = << >> /\ out' = out /\ UNCHANGED <<channel, soError>>
        /\ wire' = wire \o data /\ accepted' = accepted \o data
    BY <1>3 DEF WriteWhole, DirectWrite
  <2>2. wire' \in Seq(Units) /\ accepted' \in Seq(Units)
    BY <2>1, ConcatProperties
  <2>3. wire = accepted
    BY <1>0, <2>1, ConcatEmptySeq
  <2>4. wire' \o out' = wire'
    BY <2>1, <2>2, ConcatEmptySeq
  <2> QED BY <2>1, <2>2, <2>3, <2>4 DEF StreamInOrder
<1>4. ASSUME NEW n \in 0 .. Len(data), Keep(data, n, rest), out = << >> \/ n = 0
      PROVE  /\ wire' \in Seq(Units) /\ out' \in Seq(Units) /\ accepted' \in Seq(Units)
             /\ soError' \in BOOLEAN
             /\ events' \subseteq {"read", "write"}
             /\ index' \in {"kNew", "kAdded", "kDeleted"}
             /\ StreamInOrder'
  <2> DEFINE written == SubSeq(data, 1, n)
             waiting == SubSeq(data, n + 1, Len(data))
  <2>0. wire \in Seq(Units) /\ out \in Seq(Units)
    OBVIOUS
  <2>1. /\ wire' = wire \o written /\ out' = out \o waiting
        /\ accepted' = accepted \o data
    BY <1>4 DEF Keep
  <2>2. /\ written \in Seq(Units) /\ waiting \in Seq(Units)
        /\ written \o waiting = data
    BY SplitInOrder
  <2>8. written \in Seq(Units) /\ waiting \in Seq(Units)
    BY <2>2
  <2>3. events' \subseteq {"read", "write"} /\ index' \in {"kNew", "kAdded", "kDeleted"}
    BY <1>4 DEF Keep, Update
  <2>4. soError' \in BOOLEAN
    BY <1>4 DEF Keep
  <2> HIDE DEF written, waiting
  <2>5. wire' \in Seq(Units) /\ out' \in Seq(Units) /\ accepted' \in Seq(Units)
    BY <2>1, <2>2, ConcatProperties
  <2>6. CASE out = << >>
    <3>1. wire = accepted
      BY <1>0, <2>6, ConcatEmptySeq
    <3>2. out' = waiting
      BY <2>1, <2>2, <2>6, ConcatEmptySeq
    <3>3. (wire \o written) \o waiting = wire \o (written \o waiting)
      <4> HIDE DEF TypeOK, stream, channel
      <4> QED BY <2>0, <2>8, UnitsAssociate
    <3> QED BY <2>1, <2>2, <2>3, <2>4, <2>5, <3>1, <3>2, <3>3 DEF StreamInOrder
  <2>7. CASE n = 0
    <3>1. written = << >>
      BY <2>7, SubSeqEmpty DEF written
    <3>2. waiting = data
      BY <2>2, <3>1, ConcatEmptySeq
    <3>3. wire' = wire
      BY <2>1, <3>1, ConcatEmptySeq
    <3>4. (wire \o out) \o data = wire \o (out \o data)
      <4> HIDE DEF TypeOK, stream, channel
      <4> QED BY <2>0, UnitsAssociate
    <3> QED BY <1>0, <2>1, <2>3, <2>4, <2>5, <3>2, <3>3, <3>4 DEF StreamInOrder
  <2> QED BY <1>4, <2>6, <2>7
<1>5. CASE WritePart(data, rest)
  <2>1. PICK n \in 0 .. Len(data) - 1 : Keep(data, n, rest)
    BY <1>5 DEF WritePart
  <2>2. n \in 0 .. Len(data)
    BY LenProperties
  <2>3. out = << >>
    BY <1>5 DEF WritePart, DirectWrite
  <2> QED BY <1>4, <2>1, <2>2, <2>3
<1>6. CASE Buffered(data, rest)
  <2>1. 0 \in 0 .. Len(data)
    BY LenProperties
  <2>2. Keep(data, 0, rest)
    BY <1>6 DEF Buffered
  <2> QED BY <1>4, <2>1, <2>2
<1> HIDE DEF TypeOK
<1> QED BY <1>1, <1>2, <1>3, <1>5, <1>6 DEF SendInLoop

(* sendInLoop leaves the channel and what waits alone, or it makes sure of *)
(* the channel's EPOLLOUT; the functors it adds are the user's.            *)
LEMMA SendEffect ==
  ASSUME TypeOK, NEW data \in Seq(Units), NEW rest \in Seq(Tasks),
         SendInLoop(data, rest)
  PROVE  /\ \/ UNCHANGED <<out, channel>>
            \/ /\ state # "kDisconnected"
               /\ events' = events \union {"write"}
               /\ index' = IF IsWriting THEN index ELSE "kAdded"
         /\ \/ tasks' = rest
            \/ \E name \in {"writeComplete", "highWaterMark"} :
                 tasks' = Pushed(rest, name)
<1> USE DEF channel, stream
<1>1. CASE GivesUp(rest)
  BY <1>1 DEF GivesUp
<1>2. CASE WriteFails(rest)
  BY <1>2 DEF WriteFails
<1>3. CASE WriteWhole(data, rest)
  BY <1>3 DEF WriteWhole
<1>4. ASSUME NEW n, Keep(data, n, rest), state # "kDisconnected"
      PROVE  /\ events' = events \union {"write"}
             /\ index' = IF IsWriting THEN index ELSE "kAdded"
             /\ \/ tasks' = rest
                \/ tasks' = Pushed(rest, "highWaterMark")
  BY <1>4 DEF Keep, Update, IsWriting, TypeOK
<1> QED
  BY <1>1, <1>2, <1>3, <1>4 DEF SendInLoop, WritePart, Buffered

LEMMA SendTasks ==
  ASSUME TypeOK, NEW data \in Seq(Units), NEW rest \in Seq(Tasks),
         SendInLoop(data, rest)
  PROVE  tasks' \in Seq(Tasks)
<1>1. \/ tasks' = rest
      \/ \E name \in {"writeComplete", "highWaterMark"} : tasks' = Pushed(rest, name)
  BY SendEffect
<1> QED BY <1>1, PushedTasks DEF Functors

(* A flush of outputBuffer_ moves its first n units to the kernel.         *)
LEMMA FlushInOrder ==
  ASSUME NEW w \in Seq(Units), NEW o \in Seq(Units), NEW n \in 0 .. Len(o)
  PROVE  /\ w \o SubSeq(o, 1, n) \in Seq(Units)
         /\ SubSeq(o, n + 1, Len(o)) \in Seq(Units)
         /\ (w \o SubSeq(o, 1, n)) \o SubSeq(o, n + 1, Len(o)) = w \o o
<1> DEFINE first == SubSeq(o, 1, n)
           others == SubSeq(o, n + 1, Len(o))
<1>1. first \in Seq(Units) /\ others \in Seq(Units)
  BY SplitInOrder
<1>2. first \o others = o
  BY SplitInOrder
<1> HIDE DEF first, others
<1>3. (w \o first) \o others = w \o (first \o others)
  BY <1>1, UnitsAssociate
<1>4. w \o first \in Seq(Units)
  BY <1>1, ConcatProperties
<1> QED BY <1>1, <1>2, <1>3, <1>4 DEF first, others

-----------------------------------------------------------------------------
(* The types, and the order of the stream.                                 *)

Sound == TypeOK /\ StreamInOrder

LEMMA InitSound == Init => Sound
<1> SUFFICES ASSUME Init PROVE Sound
  OBVIOUS
<1>1. << >> \in Seq(Units) /\ << >> \in Seq(Callbacks)
  BY EmptySeq
<1>2. tasks \in Seq(Tasks)
  <2>1. Task("connectEstablished") \in Tasks
    BY TaskTyped DEF Functors
  <2> QED BY <2>1 DEF Init
<1>3. wire \o out = accepted
  BY <1>1, ConcatEmptySeq DEF Init
<1> QED BY <1>1, <1>2, <1>3 DEF Init, Sound, TypeOK, StreamInOrder, States, Idle

LEMMA UserStepSound ==
  ASSUME Sound,
         \/ OwnerShutdown \/ UserReturns
         \/ \E m \in Messages : OwnerSend(m) \/ StringDestroyed(m)
  PROVE  Sound'
<1> USE DEF Sound, TypeOK, channel, stream, socket, history, base
<1>1. CASE OwnerShutdown
  BY <1>1 DEF OwnerShutdown, ShutdownInLoop, States, StreamInOrder
<1>2. CASE UserReturns
  BY <1>2 DEF UserReturns, StreamInOrder
<1>3. ASSUME NEW m \in Messages, OwnerSend(m) PROVE Sound'
  <2>1. SendInLoop(UnitsOf(m), tasks)
    BY <1>3 DEF OwnerSend
  <2>2. UnitsOf(m) \in Seq(Units)
    BY UnitsTyped
  <2>3. /\ wire' \in Seq(Units) /\ out' \in Seq(Units) /\ accepted' \in Seq(Units)
        /\ soError' \in BOOLEAN
        /\ events' \subseteq {"read", "write"}
        /\ index' \in {"kNew", "kAdded", "kDeleted"}
        /\ StreamInOrder'
    BY <2>1, <2>2, SendTyped
  <2>4. tasks' \in Seq(Tasks)
    BY <2>1, <2>2, SendTasks
  <2> QED BY <1>3, <2>3, <2>4 DEF OwnerSend
<1>4. ASSUME NEW m \in Messages, StringDestroyed(m) PROVE Sound'
  BY <1>4 DEF StringDestroyed, StreamInOrder
<1> QED BY <1>1, <1>2, <1>3, <1>4

LEMMA ForeignStepSound ==
  ASSUME Sound, NEW t \in Others,
         \/ \E m \in Messages : SendChecked(t, m)
         \/ ForeignCall(t) \/ ShutdownChecked(t)
  PROVE  Sound'
<1> USE DEF Sound, TypeOK, channel, stream, socket, history, base
<1>1. ASSUME NEW m \in Messages, SendChecked(t, m) PROVE Sound'
  BY <1>1 DEF SendChecked, StreamInOrder
<1>2. CASE SendQueued(t)
  <2>1. [fn |-> "sendInLoop", msg |-> call[t].msg] \in Tasks
    BY DEF Tasks, Functors
  <2>2. tasks' \in Seq(Tasks)
    BY <1>2, <2>1, AppendProperties DEF SendQueued
  <2>3. call' \in [Others -> [at : {"outside", "sending", "shutting", "stored"},
                              msg : Messages \union {Garbage}]]
    BY <1>2 DEF SendQueued, Idle
  <2> QED BY <1>2, <2>2, <2>3 DEF SendQueued, StreamInOrder
<1>3. CASE ShutdownChecked(t)
  BY <1>3 DEF ShutdownChecked, StreamInOrder
<1>4. CASE ShutdownStored(t)
  BY <1>4 DEF ShutdownStored, StreamInOrder, States
<1>5. CASE ShutdownQueued(t)
  <2>1. tasks' \in Seq(Tasks)
    BY <1>5, PushedTasks DEF ShutdownQueued, Functors
  <2>2. call' \in [Others -> [at : {"outside", "sending", "shutting", "stored"},
                              msg : Messages \union {Garbage}]]
    BY <1>5 DEF ShutdownQueued, Idle
  <2> QED BY <1>5, <2>1, <2>2 DEF ShutdownQueued, StreamInOrder
<1> QED BY <1>1, <1>2, <1>3, <1>4, <1>5 DEF ForeignCall

LEMMA CallbackStepSound ==
  ASSUME Sound, HandleEvent \/ LoopCallback
  PROVE  Sound'
<1> USE DEF Sound, TypeOK, channel, stream, socket, history, base
<1>1. CASE HandleEvent
  <2>1. PICK writable \in BOOLEAN : PolledEvents(writable)
    BY <1>1 DEF HandleEvent
  <2>2. todo' \in Seq(Callbacks)
    BY <2>1, ReportedTyped DEF PolledEvents
  <2> QED BY <2>1, <2>2 DEF PolledEvents, StreamInOrder
<1>2. ASSUME NEW name, Callback(name) PROVE todo' \in Seq(Callbacks)
  BY <1>2, HeadTailProperties DEF Callback
<1>3. CASE CloseEvent \/ ReadEnd
  <2>1. todo' \in Seq(Callbacks)
    BY <1>2, <1>3 DEF CloseEvent, ReadEnd
  <2>2. /\ HandleClose
        /\ UNCHANGED <<stream, tasks, call, gone, socket, submitted, revived, base>>
    BY <1>3 DEF CloseEvent, ReadEnd
  <2> QED BY <2>1, <2>2 DEF HandleClose, Update, States, StreamInOrder
<1>4. CASE ErrorEvent \/ ReadError
  <2>1. todo' \in Seq(Callbacks)
    BY <1>2, <1>4 DEF ErrorEvent, ReadError
  <2> QED BY <1>4, <2>1 DEF ErrorEvent, ReadError, StreamInOrder
<1>5. CASE ReadData
  <2>1. todo' \in Seq(Callbacks)
    BY <1>2, <1>5 DEF ReadData
  <2> QED BY <1>5, <2>1 DEF ReadData, StreamInOrder
<1>6. CASE WriteNothing
  <2>1. todo' \in Seq(Callbacks)
    BY <1>2, <1>6 DEF WriteNothing
  <2> QED BY <1>6, <2>1 DEF WriteNothing, StreamInOrder
<1>7. ASSUME NEW n \in 1 .. Len(out), WriteSome(n) PROVE Sound'
  <2>1. todo' \in Seq(Callbacks)
    BY <1>2, <1>7 DEF WriteSome
  <2>2. /\ wire' = wire \o SubSeq(out, 1, n)
        /\ out' = SubSeq(out, n + 1, Len(out))
        /\ accepted' = accepted
    BY <1>7 DEF WriteSome
  <2>3. n \in 0 .. Len(out)
    BY LenProperties
  <2>4. wire' \in Seq(Units) /\ out' \in Seq(Units) /\ wire' \o out' = wire \o out
    BY <2>2, <2>3, FlushInOrder
  <2>5. StreamInOrder'
    BY <2>2, <2>4 DEF StreamInOrder
  <2>6. /\ events' \subseteq {"read", "write"}
        /\ index' \in {"kNew", "kAdded", "kDeleted"}
        /\ wrShut' \in BOOLEAN
    BY <1>7 DEF WriteSome, Update
  <2>7. tasks' \in Seq(Tasks)
    <3>1. tasks' = tasks \/ tasks' = Pushed(tasks, "writeComplete")
      BY <1>7 DEF WriteSome
    <3> QED BY <3>1, PushedTasks DEF Functors
  <2> QED BY <1>7, <2>1, <2>2, <2>4, <2>5, <2>6, <2>7 DEF WriteSome
<1> QED
  BY <1>1, <1>3, <1>4, <1>5, <1>6, <1>7 DEF LoopCallback, HandleWrite

LEMMA FunctorStepSound ==
  ASSUME Sound, RunFunctor
  PROVE  Sound'
<1> USE DEF Sound, TypeOK, channel, stream, socket, history, base
<1>1. /\ tasks # << >> /\ Head(tasks) \in Tasks /\ Tail(tasks) \in Seq(Tasks)
  <2>1. tasks # << >>
    BY DEF RunFunctor, ConnectEstablished, RunSendInLoop, RunShutdownInLoop,
       RunUserFunctor, ConnectDestoryed, Functor
  <2> QED BY <2>1, HeadTailProperties
<1>2. CASE ConnectEstablished
  BY <1>1, <1>2 DEF ConnectEstablished, Update, States, StreamInOrder
<1>3. CASE RunSendInLoop
  <2>1. Head(tasks).msg \in Messages \union {Garbage}
    BY <1>1 DEF Tasks
  <2>2. PICK data \in {UnitsOf(Head(tasks).msg), UnitsOf(Garbage)} :
          SendInLoop(data, Tail(tasks))
    BY <1>3 DEF RunSendInLoop
  <2>3. data \in Seq(Units)
    BY <2>1, UnitsTyped
  <2>4. /\ wire' \in Seq(Units) /\ out' \in Seq(Units) /\ accepted' \in Seq(Units)
        /\ soError' \in BOOLEAN
        /\ events' \subseteq {"read", "write"}
        /\ index' \in {"kNew", "kAdded", "kDeleted"}
        /\ StreamInOrder'
    BY <1>1, <2>2, <2>3, SendTyped
  <2>5. tasks' \in Seq(Tasks)
    BY <1>1, <2>2, <2>3, SendTasks
  <2> QED BY <1>3, <2>4, <2>5 DEF RunSendInLoop
<1>4. CASE RunShutdownInLoop
  BY <1>1, <1>4 DEF RunShutdownInLoop, ShutdownInLoop, StreamInOrder
<1>5. CASE RunUserFunctor
  BY <1>1, <1>5 DEF RunUserFunctor, StreamInOrder
<1>6. CASE ConnectDestoryed
  <2>1. /\ tasks' \in Seq(Tasks)
        /\ UNCHANGED <<stream, todo, call, gone, socket, submitted, revived,
                       removing, serverUp>>
    BY <1>1, <1>6 DEF ConnectDestoryed
  <2>2. /\ state' \in States /\ events' \subseteq {"read", "write"}
        /\ index' \in {"kNew", "kAdded", "kDeleted"}
        /\ user' \in {"none", "up", "message", "functor", "down", "last"}
        /\ downs' \in Nat /\ destroyed' \in BOOLEAN
    <3>1. CASE state = "kConnected"
      BY <1>6, <3>1 DEF ConnectDestoryed, Update, States
    <3>2. CASE state # "kConnected"
      BY <1>6, <3>2 DEF ConnectDestoryed
    <3> QED BY <3>1, <3>2
  <2> QED BY <2>1, <2>2 DEF StreamInOrder
<1> QED BY <1>2, <1>3, <1>4, <1>5, <1>6 DEF RunFunctor

LEMMA SurroundingsStepSound ==
  ASSUME Sound, RemoveConnectionInLoop \/ ServerDestroyed \/ Peer
  PROVE  Sound'
<1> USE DEF Sound, TypeOK, channel, stream, socket, history, base
<1>1. CASE RemoveConnectionInLoop
  <2>1. tasks' \in Seq(Tasks)
    BY <1>1, PushedTasks DEF RemoveConnectionInLoop, Functors
  <2>2. removing' \in Nat
    BY <1>1 DEF RemoveConnectionInLoop
  <2>3. UNCHANGED <<state, channel, stream, todo, user, call, gone, socket,
                    history, serverUp, destroyed>>
    BY <1>1 DEF RemoveConnectionInLoop
  <2> QED BY <2>1, <2>2, <2>3 DEF StreamInOrder
<1>2. CASE ServerDestroyed
  <2>1. tasks' \in Seq(Tasks)
    BY <1>2, PushedTasks DEF ServerDestroyed, Functors
  <2> QED BY <1>2, <2>1 DEF ServerDestroyed, StreamInOrder
<1>3. CASE Peer
  BY <1>3 DEF Peer, PeerSends, PeerCloses, PeerResets, StreamInOrder
<1> QED BY <1>1, <1>2, <1>3

LEMMA StepSound == Sound /\ [Next]_vars => Sound'
<1> SUFFICES ASSUME Sound, [Next]_vars PROVE Sound'
  OBVIOUS
<1>1. CASE UNCHANGED vars
  BY <1>1 DEF vars, channel, stream, socket, history, base, Sound, TypeOK,
     StreamInOrder
<1>2. CASE Next
  BY <1>2, UserStepSound, ForeignStepSound, CallbackStepSound, FunctorStepSound,
     SurroundingsStepSound DEF Next
<1> QED BY <1>1, <1>2

-----------------------------------------------------------------------------
(* The loop's functors: connectEstablished comes first, and once.          *)

NeverEstablishes(queue) ==
  \A i \in 1 .. Len(queue) : queue[i].fn # "connectEstablished"

LEMMA PushedNever ==
  ASSUME NEW queue \in Seq(Tasks), NeverEstablishes(queue),
         NEW name \in Functors \ {"connectEstablished"}
  PROVE  NeverEstablishes(Pushed(queue, name))
<1>1. /\ Len(Pushed(queue, name)) = Len(queue) + 1
      /\ \A i \in 1 .. Len(queue) : Pushed(queue, name)[i] = queue[i]
      /\ Pushed(queue, name)[Len(queue) + 1].fn = name
      /\ Len(queue) \in Nat
  BY PushedTyped, LenProperties
<1> QED BY <1>1 DEF NeverEstablishes

LEMMA RestNever ==
  ASSUME TypeOK, BeforeEstablished, tasks # << >>
  PROVE  NeverEstablishes(Tail(tasks))
<1>1. /\ tasks \in Seq(Tasks) /\ Len(tasks) \in Nat
      /\ Len(Tail(tasks)) = Len(tasks) - 1
      /\ \A i \in 1 .. Len(Tail(tasks)) : Tail(tasks)[i] = tasks[i + 1]
  BY HeadTailProperties, LenProperties DEF TypeOK
<1> QED BY <1>1 DEF BeforeEstablished, NeverEstablishes

LEMMA AfterNever ==
  ASSUME BeforeEstablished, state # "kConnecting"
  PROVE  NeverEstablishes(tasks)
  BY DEF BeforeEstablished, NeverEstablishes

LEMMA SendNever ==
  ASSUME TypeOK, NEW data \in Seq(Units), NEW rest \in Seq(Tasks),
         SendInLoop(data, rest), NeverEstablishes(rest)
  PROVE  NeverEstablishes(tasks')
<1>1. \/ tasks' = rest
      \/ \E name \in {"writeComplete", "highWaterMark"} : tasks' = Pushed(rest, name)
  BY SendEffect
<1> QED BY <1>1, PushedNever DEF Functors

LEMMA NeverBefore ==
  ASSUME state' # "kConnecting", NeverEstablishes(tasks')
  PROVE  BeforeEstablished'
  BY DEF BeforeEstablished, NeverEstablishes

(* The functor the loop runs is the first.                                 *)
LEMMA RunsFirst ==
  ASSUME TypeOK, BeforeEstablished, NEW name, Functor(name)
  PROVE  /\ tasks # << >> /\ Tail(tasks) \in Seq(Tasks)
         /\ NeverEstablishes(Tail(tasks))
         /\ todo = << >> /\ user = "none"
         /\ name = "connectEstablished" <=> state = "kConnecting"
<1>1. tasks # << >> /\ Head(tasks).fn = name /\ todo = << >> /\ user = "none"
  BY DEF Functor, LoopIdle
<1>2. Tail(tasks) \in Seq(Tasks)
  BY <1>1, HeadTailProperties DEF TypeOK
<1>3. Head(tasks) = tasks[1] /\ 1 \in 1 .. Len(tasks)
  BY <1>1, EmptySeq DEF TypeOK
<1>4. name = "connectEstablished" <=> state = "kConnecting"
  BY <1>1, <1>3 DEF BeforeEstablished
<1> QED BY <1>1, <1>2, <1>4, RestNever

-----------------------------------------------------------------------------
(* The channel, what waits behind it, and the connection's end.            *)

ChannelRight ==
  NothingStuck /\ DownOnce /\ NeverAddsNothing /\ Registered /\ DeafWhenDown

LEMMA ChannelUntouched ==
  ASSUME ChannelRight, UNCHANGED <<state, channel, out, downs, revived, destroyed>>,
         user' = user \/ user' \notin {"down", "last"}
  PROVE  ChannelRight'
  BY DEF ChannelRight, NothingStuck, DownOnce, NeverAddsNothing, Registered,
     DeafWhenDown, IsWriting, channel

(* A connection that sends has been established.                           *)
LEMMA SendRight ==
  ASSUME TypeOK, ChannelRight, state # "kConnecting",
         NEW data \in Seq(Units), NEW rest \in Seq(Tasks),
         SendInLoop(data, rest),
         UNCHANGED <<state, user, downs, revived, destroyed>>
  PROVE  ChannelRight'
<1>1. CASE UNCHANGED <<out, channel>>
  BY <1>1, ChannelUntouched
<1>2. CASE /\ state # "kDisconnected"
           /\ events' = events \union {"write"}
           /\ index' = IF IsWriting THEN index ELSE "kAdded"
  <2> USE <1>2 DEF ChannelRight, Registered, DeafWhenDown, DownOnce, IsWriting
  <2>1. NothingStuck'
    BY DEF NothingStuck
  <2>2. DownOnce' /\ DeafWhenDown'
    BY DEF TypeOK
  <2>3. NeverAddsNothing'
    BY DEF NeverAddsNothing
  <2>4. Registered'
    OBVIOUS
  <2> QED BY <2>1, <2>2, <2>3, <2>4
<1> QED BY <1>1, <1>2, SendEffect

(* handleClose runs on a channel that epoll knows.                         *)
LEMMA CloseRight ==
  ASSUME TypeOK, ChannelRight, index = "kAdded", HandleClose,
         UNCHANGED <<revived, destroyed>>
  PROVE  ChannelRight'
<1> USE DEF ChannelRight, HandleClose, Update
<1>1. downs' > 0 /\ events' = {} /\ index' = "kDeleted" /\ state' = "kDisconnected"
  BY DEF TypeOK
<1>2. ~revived => downs' = 1
  BY DEF DownOnce, TypeOK
<1> QED
  BY <1>1, <1>2 DEF NothingStuck, DownOnce, NeverAddsNothing, Registered,
     DeafWhenDown

LEMMA WriteRight ==
  ASSUME TypeOK, ChannelRight, ClosesOnce, NEW n \in 1 .. Len(out), WriteSome(n)
  PROVE  ChannelRight'
<1>1. /\ IsWriting /\ index = "kAdded"
      /\ out' = SubSeq(out, n + 1, Len(out))
      /\ UNCHANGED <<state, user, downs, revived, destroyed>>
  BY DEF WriteSome, Callback, ClosesOnce, history, base
<1>2. CASE n < Len(out)
  <2>1. UNCHANGED channel
    BY <1>2 DEF WriteSome
  <2> QED
    BY <1>1, <2>1 DEF ChannelRight, NothingStuck, DownOnce, NeverAddsNothing,
       Registered, DeafWhenDown, IsWriting, channel
<1>3. CASE ~(n < Len(out))
  <2>1. events' = events \ {"write"}
        /\ index' = IF events' = {} THEN "kDeleted" ELSE "kAdded"
    BY <1>1, <1>3 DEF WriteSome, Update
  <2>2. out' = << >>
    <3>1. n = Len(out) /\ n \in 0 .. Len(out)
      BY <1>3, LenProperties DEF TypeOK
    <3> QED BY <1>1, <3>1, NothingLeft DEF TypeOK
  <2>3. NothingStuck'
    BY <2>2 DEF NothingStuck
  <2>4. ~revived => downs # 1
    BY <1>1 DEF ChannelRight, DeafWhenDown, IsWriting
  <2>5. DownOnce' /\ DeafWhenDown'
    BY <1>1, <2>4 DEF ChannelRight, DownOnce, DeafWhenDown
  <2>6. NeverAddsNothing'
    BY <2>1 DEF NeverAddsNothing
  <2>7. Registered'
    BY <1>1, <2>1 DEF ChannelRight, Registered
  <2> QED BY <2>3, <2>5, <2>6, <2>7 DEF ChannelRight
<1> QED BY <1>2, <1>3

LEMMA UserStepRight ==
  ASSUME IndInv,
         \/ OwnerShutdown \/ UserReturns
         \/ \E m \in Messages : OwnerSend(m) \/ StringDestroyed(m)
  PROVE  ChannelRight'
<1>0. ChannelRight
  BY DEF IndInv, ChannelRight
<1>1. CASE OwnerShutdown
  BY <1>0, <1>1 DEF OwnerShutdown, channel, stream, history, base, ChannelRight,
     NothingStuck, DownOnce, NeverAddsNothing, Registered, DeafWhenDown, IsWriting
<1>2. CASE UserReturns
  <2>1. /\ UNCHANGED <<state, events, out, downs, revived>>
        /\ user' = "none"
        /\ destroyed' = (destroyed \/ user = "last")
        /\ index' = IF user = "last" THEN "kNew" ELSE index
    BY <1>2 DEF UserReturns, stream, history
  <2>2. CASE user = "last"
    BY <1>0, <2>1, <2>2 DEF ChannelRight, NothingStuck, DownOnce,
       NeverAddsNothing, Registered, DeafWhenDown
  <2>3. CASE user # "last"
    <3>1. destroyed' = destroyed
      BY <2>1, <2>3 DEF IndInv, TypeOK
    <3> QED BY <1>0, <2>1, <2>3, <3>1, ChannelUntouched DEF channel
  <2> QED BY <2>2, <2>3
<1>3. ASSUME NEW m \in Messages, OwnerSend(m) PROVE ChannelRight'
  <2>1. /\ SendInLoop(UnitsOf(m), tasks) /\ state = "kConnected"
        /\ UNCHANGED <<state, user, downs, revived, destroyed>>
    BY <1>3 DEF OwnerSend, base
  <2>2. UnitsOf(m) \in Seq(Units) /\ tasks \in Seq(Tasks)
    BY UnitsTyped DEF IndInv, TypeOK
  <2> QED BY <1>0, <2>1, <2>2, SendRight DEF IndInv
<1>4. ASSUME NEW m \in Messages, StringDestroyed(m) PROVE ChannelRight'
  BY <1>0, <1>4, ChannelUntouched DEF StringDestroyed, stream, history, base
<1> QED BY <1>1, <1>2, <1>3, <1>4

LEMMA ForeignStepRight ==
  ASSUME IndInv, NEW t \in Others,
         \/ \E m \in Messages : SendChecked(t, m)
         \/ ForeignCall(t) \/ ShutdownChecked(t)
  PROVE  ChannelRight'
<1>0. ChannelRight
  BY DEF IndInv, ChannelRight
<1>1. CASE ~ShutdownStored(t)
  BY <1>0, <1>1, ChannelUntouched DEF SendChecked, SendQueued, ShutdownChecked,
     ShutdownQueued, ForeignCall, stream, history, base
<1>2. CASE ShutdownStored(t)
  <2>1. /\ call[t].at = "shutting" /\ state' = "kDisconnecting"
        /\ revived' = (revived \/ state = "kDisconnected")
        /\ UNCHANGED <<events, index, out, user, downs, destroyed>>
    BY <1>2 DEF ShutdownStored, channel, stream, base
  <2>2. state # "kConnecting"
    BY <2>1 DEF IndInv, BeforeEstablished, Idle
  <2>3. ~revived' => ~revived /\ downs # 1
    BY <1>0, <2>1 DEF ChannelRight, DeafWhenDown
  <2> QED
    BY <1>0, <2>1, <2>2, <2>3 DEF ChannelRight, NothingStuck, DownOnce,
       NeverAddsNothing, Registered, DeafWhenDown, IsWriting
<1> QED BY <1>1, <1>2

LEMMA CallbackStepRight ==
  ASSUME IndInv, HandleEvent \/ LoopCallback
  PROVE  ChannelRight'
<1>0. TypeOK /\ ChannelRight /\ ClosesOnce
  BY DEF IndInv, ChannelRight
<1>1. CASE HandleEvent
  BY <1>0, <1>1, ChannelUntouched DEF HandleEvent, PolledEvents, stream, history,
     base
<1>2. CASE CloseEvent \/ ReadEnd
  <2>1. /\ HandleClose /\ todo # << >> /\ Head(todo) \in Closing
        /\ UNCHANGED <<revived, destroyed>>
    BY <1>2 DEF CloseEvent, ReadEnd, Callback, Closing, base
  <2>2. Head(todo) = todo[1] /\ 1 \in 1 .. Len(todo)
    BY <1>0, <2>1, EmptySeq DEF TypeOK
  <2>3. index = "kAdded"
    BY <1>0, <2>1, <2>2 DEF ClosesOnce
  <2> QED BY <1>0, <2>1, <2>3, CloseRight
<1>3. CASE ErrorEvent \/ ReadError \/ ReadData \/ WriteNothing
  BY <1>0, <1>3, ChannelUntouched DEF ErrorEvent, ReadError, ReadData,
     WriteNothing, stream, history, base
<1>4. ASSUME NEW n \in 1 .. Len(out), WriteSome(n) PROVE ChannelRight'
  BY <1>0, <1>4, WriteRight
<1> QED BY <1>1, <1>2, <1>3, <1>4 DEF LoopCallback, HandleWrite

LEMMA FunctorStepRight ==
  ASSUME IndInv, RunFunctor
  PROVE  ChannelRight'
<1>0. TypeOK /\ ChannelRight /\ BeforeEstablished
  BY DEF IndInv, ChannelRight
<1>1. CASE ConnectEstablished
  <2>1. Functor("connectEstablished")
    BY <1>1 DEF ConnectEstablished
  <2>2. state = "kConnecting"
    BY <1>0, <2>1, RunsFirst
  <2>3. out = << >> /\ downs = 0 /\ ~destroyed
    BY <1>0, <2>2 DEF BeforeEstablished
  <2>4. /\ state' = "kConnected" /\ events' = events \union {"read"}
        /\ index' = "kAdded" /\ user' = "up"
        /\ UNCHANGED <<out, downs, destroyed>>
    BY <1>1 DEF ConnectEstablished, Update, stream, history, base
  <2> QED
    BY <2>3, <2>4 DEF ChannelRight, NothingStuck, DownOnce, NeverAddsNothing,
       Registered, DeafWhenDown
<1>2. CASE RunSendInLoop
  <2>1. /\ Functor("sendInLoop")
        /\ UNCHANGED <<state, user, downs, revived, destroyed>>
    BY <1>2 DEF RunSendInLoop, history, base
  <2>2. state # "kConnecting" /\ tasks # << >> /\ Tail(tasks) \in Seq(Tasks)
    BY <1>0, <2>1, RunsFirst
  <2>3. Head(tasks).msg \in Messages \union {Garbage}
    <3>1. Head(tasks) \in Tasks
      BY <1>0, <2>2, HeadTailProperties DEF TypeOK
    <3> QED BY <3>1 DEF Tasks
  <2>4. PICK data \in {UnitsOf(Head(tasks).msg), UnitsOf(Garbage)} :
          SendInLoop(data, Tail(tasks))
    BY <1>2 DEF RunSendInLoop
  <2>5. data \in Seq(Units)
    BY <2>3, UnitsTyped
  <2> QED BY <1>0, <2>1, <2>2, <2>4, <2>5, SendRight
<1>3. CASE RunShutdownInLoop \/ RunUserFunctor
  BY <1>0, <1>3, ChannelUntouched DEF RunShutdownInLoop, RunUserFunctor, stream,
     history, base
<1>4. CASE ConnectDestoryed
  <2>1. UNCHANGED <<out, revived>>
    BY <1>4 DEF ConnectDestoryed, stream
  <2>2. CASE state = "kConnected"
    <3>1. /\ state' = "kDisconnected" /\ user' = "last" /\ events' = {}
          /\ downs' = downs + 1 /\ destroyed' = destroyed
          /\ index' = IF index = "kAdded" THEN "kDeleted" ELSE "kAdded"
      BY <1>4, <2>2 DEF ConnectDestoryed, Update
    <3>2. downs = 0 /\ index = "kAdded"
      BY <1>0, <2>2 DEF ChannelRight, Registered
    <3> QED
      BY <2>1, <3>1, <3>2 DEF ChannelRight, NothingStuck, DownOnce,
         NeverAddsNothing, Registered, DeafWhenDown
  <2>3. CASE state # "kConnected"
    <3>1. /\ index' = "kNew" /\ destroyed' = TRUE
          /\ UNCHANGED <<state, events, downs, user>>
      BY <1>4, <2>3 DEF ConnectDestoryed
    <3> QED
      BY <1>0, <2>1, <2>3, <3>1 DEF ChannelRight, NothingStuck, DownOnce,
         NeverAddsNothing, Registered, DeafWhenDown
  <2> QED BY <2>2, <2>3
<1> QED BY <1>1, <1>2, <1>3, <1>4 DEF RunFunctor

LEMMA SurroundingsStepRight ==
  ASSUME IndInv, RemoveConnectionInLoop \/ ServerDestroyed \/ Peer \/ UNCHANGED vars
  PROVE  ChannelRight'
<1>0. ChannelRight
  BY DEF IndInv, ChannelRight
<1> QED
  BY <1>0, ChannelUntouched DEF RemoveConnectionInLoop, ServerDestroyed, Peer,
     PeerSends, PeerCloses, PeerResets, vars, stream, history, base

-----------------------------------------------------------------------------
(* connectEstablished is the beginning.                                    *)

(* Before it, only the peer, ~TcpServer and the functor itself move.       *)
LEMMA NothingBefore ==
  ASSUME IndInv, state = "kConnecting", Next
  PROVE  \/ ConnectEstablished \/ ServerDestroyed \/ Peer
         \/ \E m \in Messages : StringDestroyed(m)
<1>1. /\ index = "kNew" /\ todo = << >> /\ user = "none" /\ removing = 0
      /\ \A t \in Others : call[t].at = "outside"
  BY DEF IndInv, BeforeEstablished, Idle
<1>2. ~OwnerShutdown /\ \A m \in Messages : ~OwnerSend(m)
  BY DEF OwnerShutdown, OwnerSend
<1>3. ~UserReturns /\ ~HandleEvent /\ ~RemoveConnectionInLoop
  BY <1>1 DEF UserReturns, HandleEvent, PolledEvents, RemoveConnectionInLoop
<1>4. \A t \in Others :
        /\ \A m \in Messages : ~SendChecked(t, m)
        /\ ~ForeignCall(t) /\ ~ShutdownChecked(t)
  BY <1>1 DEF SendChecked, ForeignCall, ShutdownChecked, SendQueued,
     ShutdownStored, ShutdownQueued
<1>5. ~LoopCallback
  BY <1>1 DEF LoopCallback, CloseEvent, ErrorEvent, ReadData, ReadEnd, ReadError,
     HandleWrite, WriteNothing, WriteSome, Callback
<1>6. RunFunctor => ConnectEstablished
  <2>1. ASSUME NEW name, Functor(name) PROVE name = "connectEstablished"
    BY <2>1, RunsFirst DEF IndInv
  <2> QED
    BY <2>1 DEF RunFunctor, RunSendInLoop, RunShutdownInLoop, RunUserFunctor,
       ConnectDestoryed
<1> QED BY <1>2, <1>3, <1>4, <1>5, <1>6 DEF Next

(* After it, no step queues another.                                       *)
LEMMA NeverAgain ==
  ASSUME IndInv, state # "kConnecting", Next
  PROVE  state' # "kConnecting" /\ NeverEstablishes(tasks')
<1>0. TypeOK /\ tasks \in Seq(Tasks) /\ NeverEstablishes(tasks) /\ BeforeEstablished
  BY AfterNever DEF IndInv, TypeOK
<1>1. CASE OwnerShutdown \/ UserReturns \/ HandleEvent \/ Peer
           \/ \E m \in Messages : StringDestroyed(m)
  BY <1>0, <1>1 DEF OwnerShutdown, UserReturns, HandleEvent, PolledEvents, Peer,
     PeerSends, PeerCloses, PeerResets, StringDestroyed
<1>2. ASSUME NEW m \in Messages, OwnerSend(m)
      PROVE  state' # "kConnecting" /\ NeverEstablishes(tasks')
  BY <1>0, <1>2, UnitsTyped, SendNever DEF OwnerSend
<1>3. ASSUME NEW t \in Others,
             \/ \E m \in Messages : SendChecked(t, m)
             \/ ForeignCall(t) \/ ShutdownChecked(t)
      PROVE  state' # "kConnecting" /\ NeverEstablishes(tasks')
  <2>1. CASE SendQueued(t)
    <3>1. [fn |-> "sendInLoop", msg |-> call[t].msg] \in Tasks
      BY <1>0 DEF Tasks, Functors, TypeOK
    <3>2. /\ tasks' \in Seq(Tasks) /\ Len(tasks) \in Nat
          /\ Len(tasks') = Len(tasks) + 1
          /\ \A i \in 1 .. Len(tasks) : tasks'[i] = tasks[i]
          /\ tasks'[Len(tasks) + 1].fn = "sendInLoop"
      BY <1>0, <2>1, <3>1, AppendProperties, LenProperties DEF SendQueued
    <3> QED BY <1>0, <2>1, <3>2 DEF NeverEstablishes, SendQueued
  <2>2. CASE ShutdownQueued(t)
    BY <1>0, <2>2, PushedNever DEF ShutdownQueued, Functors
  <2>3. CASE ShutdownStored(t) \/ ShutdownChecked(t)
             \/ \E m \in Messages : SendChecked(t, m)
    BY <1>0, <2>3 DEF ShutdownStored, ShutdownChecked, SendChecked
  <2> QED BY <1>3, <2>1, <2>2, <2>3 DEF ForeignCall
<1>4. CASE LoopCallback
  <2>1. CASE CloseEvent \/ ReadEnd \/ ErrorEvent \/ ReadError \/ ReadData
             \/ WriteNothing
    BY <1>0, <2>1 DEF CloseEvent, ReadEnd, HandleClose, ErrorEvent, ReadError,
       ReadData, WriteNothing
  <2>2. ASSUME NEW n \in 1 .. Len(out), WriteSome(n)
        PROVE  state' # "kConnecting" /\ NeverEstablishes(tasks')
    <3>1. state' = state /\ (tasks' = tasks \/ tasks' = Pushed(tasks, "writeComplete"))
      BY <2>2 DEF WriteSome
    <3> QED BY <1>0, <3>1, PushedNever DEF Functors
  <2> QED BY <1>4, <2>1, <2>2 DEF LoopCallback, HandleWrite
<1>5. ASSUME NEW name, Functor(name)
      PROVE  /\ tasks # << >> /\ Tail(tasks) \in Seq(Tasks)
             /\ NeverEstablishes(Tail(tasks)) /\ name # "connectEstablished"
  BY <1>0, <1>5, RunsFirst
<1>6. CASE RunFunctor
  <2>1. CASE RunSendInLoop
    <3>1. /\ tasks # << >> /\ Tail(tasks) \in Seq(Tasks)
          /\ NeverEstablishes(Tail(tasks))
      BY <1>5, <2>1 DEF RunSendInLoop
    <3>2. Head(tasks).msg \in Messages \union {Garbage}
      <4>1. Head(tasks) \in Tasks
        BY <1>0, <3>1, HeadTailProperties
      <4> QED BY <4>1 DEF Tasks
    <3>3. PICK data \in {UnitsOf(Head(tasks).msg), UnitsOf(Garbage)} :
            SendInLoop(data, Tail(tasks))
      BY <2>1 DEF RunSendInLoop
    <3>4. data \in Seq(Units)
      BY <3>2, UnitsTyped
    <3> QED BY <1>0, <2>1, <3>1, <3>3, <3>4, SendNever DEF RunSendInLoop
  <2>2. CASE RunShutdownInLoop \/ RunUserFunctor \/ ConnectDestoryed
    BY <1>5, <2>2 DEF RunShutdownInLoop, RunUserFunctor, ConnectDestoryed
  <2>3. ~ConnectEstablished
    BY <1>5 DEF ConnectEstablished
  <2> QED BY <1>6, <2>1, <2>2, <2>3 DEF RunFunctor
<1>7. CASE RemoveConnectionInLoop \/ ServerDestroyed
  BY <1>0, <1>7, PushedNever DEF RemoveConnectionInLoop, ServerDestroyed, Functors
<1> QED BY <1>1, <1>2, <1>3, <1>4, <1>6, <1>7 DEF Next

LEMMA StepBefore == IndInv /\ [Next]_vars => BeforeEstablished'
<1> SUFFICES ASSUME IndInv, [Next]_vars PROVE BeforeEstablished'
  OBVIOUS
<1>0. TypeOK /\ BeforeEstablished
  BY DEF IndInv
<1>1. ASSUME UNCHANGED <<state, tasks, channel, out, todo, user, downs, destroyed,
                         removing, call>>
      PROVE  BeforeEstablished'
  BY <1>0, <1>1 DEF BeforeEstablished, channel
<1>2. CASE UNCHANGED vars
  BY <1>1, <1>2 DEF vars, stream, history, base
<1>3. CASE Next /\ state # "kConnecting"
  BY <1>3, NeverAgain, NeverBefore
<1>4. CASE Next /\ state = "kConnecting"
  <2>1. CASE Peer \/ \E m \in Messages : StringDestroyed(m)
    BY <1>1, <2>1 DEF Peer, PeerSends, PeerCloses, PeerResets, StringDestroyed,
       stream, history, base
  <2>2. CASE ConnectEstablished
    <3>1. NeverEstablishes(Tail(tasks))
      BY <1>0, <2>2, RunsFirst DEF ConnectEstablished
    <3> QED BY <2>2, <3>1, NeverBefore DEF ConnectEstablished
  <2>3. CASE ServerDestroyed
    <3>1. /\ tasks' = Pushed(tasks, "connectDestoryed")
          /\ UNCHANGED <<state, channel, out, todo, user, downs, destroyed,
                         removing, call>>
      BY <2>3 DEF ServerDestroyed, stream, history
    <3>2. /\ tasks \in Seq(Tasks) /\ tasks # << >> /\ Len(tasks) \in Nat \ {0}
      BY <1>0, <1>4, EmptySeq DEF TypeOK, BeforeEstablished
    <3>3. /\ tasks' \in Seq(Tasks)
          /\ Len(tasks') = Len(tasks) + 1
          /\ \A i \in 1 .. Len(tasks) : tasks'[i] = tasks[i]
          /\ tasks'[Len(tasks) + 1].fn = "connectDestoryed"
      BY <3>1, <3>2, PushedTyped DEF Functors
    <3>4. tasks' # << >> /\ Head(tasks') = Head(tasks)
      <4>1. Head(tasks) = tasks[1] /\ Head(tasks') = tasks'[1]
        BY <3>2, <3>3
      <4>2. tasks' # << >>
        BY <3>2, <3>3, EmptySeq
      <4> QED BY <3>2, <3>3, <4>1, <4>2
    <3>5. \A i \in 1 .. Len(tasks') :
            tasks'[i].fn = "connectEstablished" => i = 1
      BY <1>0, <3>2, <3>3 DEF BeforeEstablished
    <3> QED BY <1>0, <1>4, <3>1, <3>4, <3>5 DEF BeforeEstablished, channel
  <2> QED BY <1>4, <2>1, <2>2, <2>3, NothingBefore
<1> QED BY <1>2, <1>3, <1>4

-----------------------------------------------------------------------------
(* One handleEvent closes at most once.                                    *)

(* The rest of the callbacks, on a channel left as it was or, after the    *)
(* one that closes, deaf.                                                  *)
LEMMA RestCloses ==
  ASSUME TypeOK, ClosesOnce, NEW name \in Callbacks, Callback(name), user' # "last",
         \/ events' = events /\ index' = index
         \/ name \in Closing /\ events' = {}
  PROVE  ClosesOnce'
<1>1. /\ todo # << >> /\ Head(todo) = name /\ todo' = Tail(todo)
      /\ todo \in Seq(Callbacks)
  BY DEF Callback, TypeOK
<1>2. /\ Len(todo) \in Nat \ {0}
      /\ Len(todo') = Len(todo) - 1
      /\ \A i \in 1 .. Len(todo') : todo'[i] = todo[i + 1]
      /\ todo[1] = name
  BY <1>1, HeadTailProperties, EmptySeq
<1>3. ASSUME NEW i \in 1 .. Len(todo'), NEW j \in 1 .. Len(todo'),
             i < j, todo'[i] \in Closing
      PROVE  todo'[j] \notin Closing
  <2>1. /\ i + 1 \in 1 .. Len(todo) /\ j + 1 \in 1 .. Len(todo) /\ i + 1 < j + 1
        /\ todo[i + 1] \in Closing /\ todo'[j] = todo[j + 1]
    BY <1>2, <1>3
  <2> QED BY <2>1 DEF ClosesOnce
<1>4. ASSUME NEW i \in 1 .. Len(todo'), name \in Closing
      PROVE  todo'[i] \notin Closing
  <2>1. /\ 1 \in 1 .. Len(todo) /\ i + 1 \in 1 .. Len(todo) /\ 1 < i + 1
        /\ todo'[i] = todo[i + 1]
    BY <1>2
  <2> QED BY <1>2, <1>4, <2>1 DEF ClosesOnce
<1>5. ASSUME NEW i \in 1 .. Len(todo')
      PROVE  /\ todo'[i] \in Closing => index' = "kAdded"
             /\ todo'[i] = "write" => i = Len(todo')
  <2>1. i + 1 \in 1 .. Len(todo) /\ todo'[i] = todo[i + 1]
    BY <1>2
  <2> QED BY <1>2, <1>4, <2>1 DEF ClosesOnce
<1>6. IsWriting' => index' = "kAdded"
  BY <1>1 DEF ClosesOnce, IsWriting
<1> QED BY <1>3, <1>5, <1>6 DEF ClosesOnce

LEMMA NothingCloses ==
  ASSUME todo' = << >>
  PROVE  ClosesOnce'
  BY DEF ClosesOnce

LEMMA ClosesUntouched ==
  ASSUME ClosesOnce, UNCHANGED <<todo, events, index>>, user' = user \/ user' = "none"
  PROVE  ClosesOnce'
  BY DEF ClosesOnce, IsWriting

LEMMA StepCloses == IndInv /\ [Next]_vars => ClosesOnce'
<1> SUFFICES ASSUME IndInv, [Next]_vars PROVE ClosesOnce'
  OBVIOUS
<1>0. TypeOK /\ ClosesOnce /\ BeforeEstablished /\ Registered
  BY DEF IndInv
<1>1. CASE \/ UNCHANGED vars \/ OwnerShutdown \/ Peer \/ RemoveConnectionInLoop
           \/ ServerDestroyed
           \/ \E m \in Messages : StringDestroyed(m)
           \/ \E t \in Others, m \in Messages : SendChecked(t, m)
           \/ \E t \in Others : ForeignCall(t) \/ ShutdownChecked(t)
  BY <1>0, <1>1, ClosesUntouched DEF vars, OwnerShutdown, Peer, PeerSends,
     PeerCloses, PeerResets, RemoveConnectionInLoop, ServerDestroyed,
     StringDestroyed, SendChecked, ForeignCall, SendQueued, ShutdownStored,
     ShutdownQueued, ShutdownChecked, channel
<1>2. CASE UserReturns
  <2>1. CASE user = "last"
    <3>1. todo' = << >>
      BY <1>0, <1>2, <2>1 DEF UserReturns, ClosesOnce
    <3> QED BY <3>1, NothingCloses
  <2>2. CASE user # "last"
    BY <1>0, <1>2, <2>2, ClosesUntouched DEF UserReturns
  <2> QED BY <2>1, <2>2
<1>3. ASSUME NEW m \in Messages, OwnerSend(m) PROVE ClosesOnce'
  <2>1. /\ SendInLoop(UnitsOf(m), tasks) /\ UNCHANGED <<todo, user>>
        /\ index = "kAdded"
    BY <1>0, <1>3 DEF OwnerSend, Registered
  <2>2. index' = "kAdded"
    <3>1. \/ UNCHANGED <<out, channel>>
          \/ index' = IF IsWriting THEN index ELSE "kAdded"
      BY <1>0, <2>1, UnitsTyped, SendEffect DEF TypeOK
    <3> QED BY <2>1, <3>1 DEF channel
  <2> QED BY <1>0, <2>1, <2>2 DEF ClosesOnce
<1>4. CASE HandleEvent
  <2>1. PICK writable \in BOOLEAN : PolledEvents(writable)
    BY <1>4 DEF HandleEvent
  <2>2. /\ todo' = Reported(writable) /\ index' = "kAdded" /\ user' = "none"
    BY <2>1 DEF PolledEvents, LoopIdle, channel
  <2>3. \A i, j \in 1 .. Len(todo') :
          i < j /\ todo'[i] \in Closing => todo'[j] \notin Closing
    BY <2>2, ReportedTyped
  <2>4. \A i \in 1 .. Len(todo') : todo'[i] = "write" => i = Len(todo')
    BY <2>2, ReportedTyped
  <2> QED BY <2>2, <2>3, <2>4 DEF ClosesOnce
<1>5. CASE CloseEvent \/ ReadEnd
  <2>1. PICK name \in Closing : Callback(name)
    BY <1>5 DEF CloseEvent, ReadEnd, Closing
  <2>2. events' = {} /\ user' = "down" /\ ~IsWriting'
    BY <1>5 DEF CloseEvent, ReadEnd, HandleClose, Update, IsWriting
  <2> QED BY <1>0, <2>1, <2>2, RestCloses DEF Callbacks, Closing
<1>6. CASE ErrorEvent \/ ReadError \/ ReadData \/ WriteNothing
  <2>1. PICK name \in Callbacks : Callback(name)
    BY <1>6 DEF ErrorEvent, ReadError, ReadData, WriteNothing, Callbacks
  <2>2. events' = events /\ index' = index
    BY <1>6 DEF ErrorEvent, ReadError, ReadData, WriteNothing, channel
  <2>3. user' \in {user, "message"}
    BY <1>6 DEF ErrorEvent, ReadError, ReadData, WriteNothing, channel
  <2>4. user' # "last"
    BY <2>1, <2>3 DEF Callback
  <2> QED BY <1>0, <2>1, <2>2, <2>4, RestCloses
<1>7. ASSUME NEW n \in 1 .. Len(out), WriteSome(n) PROVE ClosesOnce'
  <2>1. todo # << >> /\ Head(todo) = "write" /\ todo' = Tail(todo)
    BY <1>7 DEF WriteSome, Callback
  <2>2. /\ 1 \in 1 .. Len(todo) /\ todo[1] = "write" /\ todo' \in Seq(Callbacks)
        /\ Len(todo') = Len(todo) - 1
    BY <1>0, <2>1, HeadTailProperties, EmptySeq DEF TypeOK
  <2>3. Len(todo') = 0
    BY <1>0, <2>2 DEF ClosesOnce
  <2>4. todo' = << >>
    BY <2>2, <2>3, EmptySeq
  <2> QED BY <2>4, NothingCloses
<1>8. CASE RunFunctor
  <2>1. PICK name : Functor(name)
    BY <1>8 DEF RunFunctor, ConnectEstablished, RunSendInLoop,
       RunShutdownInLoop, RunUserFunctor, ConnectDestoryed
  <2>2. todo' = << >>
    BY <1>8, <2>1 DEF Functor, LoopIdle, RunFunctor, ConnectEstablished,
       RunSendInLoop, RunShutdownInLoop, RunUserFunctor, ConnectDestoryed
  <2> QED BY <2>2, NothingCloses
<1> QED
  BY <1>1, <1>2, <1>3, <1>4, <1>5, <1>6, <1>7, <1>8 DEF Next, LoopCallback,
     HandleWrite

-----------------------------------------------------------------------------
(* The theorems.                                                           *)

LEMMA InitInv == Init => IndInv
<1> SUFFICES ASSUME Init PROVE IndInv
  OBVIOUS
<1>1. TypeOK /\ StreamInOrder
  BY InitSound DEF Sound
<1>2. tasks = << Task("connectEstablished") >> /\ Len(tasks) = 1
  BY DEF Init
<1>3. BeforeEstablished
  BY <1>2 DEF Init, BeforeEstablished, Task
<1> QED
  BY <1>1, <1>3 DEF Init, IndInv, NothingStuck, DownOnce, NeverAddsNothing,
     Registered, ClosesOnce, DeafWhenDown, IsWriting

LEMMA StepInv == IndInv /\ [Next]_vars => IndInv'
<1> SUFFICES ASSUME IndInv, [Next]_vars PROVE IndInv'
  OBVIOUS
<1>1. TypeOK' /\ StreamInOrder'
  BY StepSound DEF IndInv, Sound
<1>2. ChannelRight'
  BY UserStepRight, ForeignStepRight, CallbackStepRight, FunctorStepRight,
     SurroundingsStepRight DEF Next
<1> QED BY <1>1, <1>2, StepBefore, StepCloses DEF IndInv, ChannelRight

(* IndInv: the types, the stream, the channel's registration, and what the *)
(* loop still has to run, together.                                        *)
THEOREM Inductive == SafeSpec => []IndInv
  BY InitInv, StepInv, PTL DEF SafeSpec

(* StreamInOrder: what the kernel took and what waits in outputBuffer_ is, *)
(* in order and without a gap, what sendInLoop took, however direct writes,*)
(* partial writes and flushes (sendInLoop, handleWrite) are interleaved.   *)
THEOREM InOrder == SafeSpec => []StreamInOrder
<1>1. IndInv => StreamInOrder
  BY DEF IndInv
<1> QED BY <1>1, Inductive, PTL

(* NothingStuck: data waits in outputBuffer_ of a live connection only     *)
(* while its channel asks epoll for EPOLLOUT.                              *)
THEOREM BufferedDataIsFlushed == SafeSpec => []NothingStuck
<1>1. IndInv => NothingStuck
  BY DEF IndInv
<1> QED BY <1>1, Inductive, PTL

(* DownOnce: handleClose and connectDestoryed between them tell the user   *)
(* of the end at most once, and from then on the channel is out of epoll,  *)
(* unless another thread's shutdown() has taken kDisconnected back.        *)
THEOREM EndsOnce == SafeSpec => []DownOnce
<1>1. IndInv => DownOnce
  BY DEF IndInv
<1> QED BY <1>1, Inductive, PTL

(* NeverAddsNothing: no channel is put in epoll without an interest, even  *)
(* where the connection is closed twice.                                   *)
THEOREM RegisteredWithInterest == SafeSpec => []NeverAddsNothing
<1>1. IndInv => NeverAddsNothing
  BY DEF IndInv
<1> QED BY <1>1, Inductive, PTL

LEMMA StepFin ==
  IndInv /\ [Next]_vars =>
    (wrShut' /\ ~wrShut => out' = << >> \/ downs > 0 \/ destroyed)
<1> SUFFICES ASSUME IndInv, [Next]_vars, wrShut', ~wrShut
             PROVE  out' = << >> \/ downs > 0 \/ destroyed
  OBVIOUS
<1>0. NothingStuck /\ TypeOK
  BY DEF IndInv
<1>1. wrShut' # wrShut
  OBVIOUS
<1>2. ASSUME ShutdownInLoop, out' = out
      PROVE  out' = << >> \/ downs > 0 \/ destroyed
  <2>1. ~IsWriting
    BY <1>2 DEF ShutdownInLoop
  <2> QED BY <1>0, <1>2, <2>1 DEF NothingStuck, TypeOK
<1>3. CASE OwnerShutdown \/ RunShutdownInLoop
  BY <1>2, <1>3 DEF OwnerShutdown, RunShutdownInLoop, stream
<1>4. ASSUME NEW n \in 1 .. Len(out), WriteSome(n) PROVE out' = << >>
  <2>1. ~(n < Len(out)) /\ out' = SubSeq(out, n + 1, Len(out))
    BY <1>1, <1>4 DEF WriteSome
  <2>2. out \in Seq(Units)
    BY <1>0 DEF TypeOK
  <2>3. n = Len(out) /\ n \in 0 .. Len(out)
    BY <2>1, <2>2, LenProperties
  <2> QED BY <2>1, <2>2, <2>3, NothingLeft
<1>5. \/ OwnerShutdown \/ RunShutdownInLoop
      \/ \E n \in 1 .. Len(out) : WriteSome(n)
  BY <1>1 DEF Next, vars, socket, UserReturns, OwnerSend, StringDestroyed,
     SendChecked, ForeignCall, SendQueued, ShutdownStored, ShutdownQueued,
     ShutdownChecked, HandleEvent, PolledEvents, LoopCallback, CloseEvent,
     ErrorEvent, ReadData, ReadEnd, ReadError, HandleWrite, WriteNothing,
     RunFunctor, ConnectEstablished, RunSendInLoop, RunUserFunctor,
     ConnectDestoryed, RemoveConnectionInLoop, ServerDestroyed, Peer, PeerSends,
     PeerCloses, PeerResets
<1> QED BY <1>3, <1>4, <1>5

(* FinAfterData: the half-close of a live connection comes after the last  *)
(* byte it was given, whether shutdown() finds outputBuffer_ empty or      *)
(* handleWrite drains it later.                                            *)
THEOREM HalfCloseIsLast == SafeSpec => FinAfterData
<1>1. IndInv /\ [Next]_vars =>
        [wrShut' /\ ~wrShut => out' = << >> \/ downs > 0 \/ destroyed]_vars
  BY StepFin
<1> QED BY <1>1, Inductive, PTL DEF SafeSpec, FinAfterData
=============================================================================

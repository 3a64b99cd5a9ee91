--------------------------- MODULE ConnectionLife ---------------------------
(***************************************************************************)
(* What a TcpServer promises about its connections, seen from the user who *)
(* set the connection callback: told "up" once, then "down" once, then the *)
(* object and its descriptor are gone; only a server that is itself being  *)
(* destroyed may drop a connection without a word.  Which loop does what,  *)
(* and who holds the references meanwhile, is the business of TcpServer.   *)
(***************************************************************************)
CONSTANT Conns

VARIABLES
  life,             \* per connection, one of Lives
  closing           \* the server is being destroyed, or its process has ended

vars == <<life, closing>>

Lives == {"none", "accepted", "up", "down", "freed"}

Init ==
  /\ life = [c \in Conns |-> "none"]
  /\ closing = FALSE

Moves(c, from, to) ==
  /\ life[c] = from
  /\ life' = [life EXCEPT ![c] = to]
  /\ UNCHANGED closing

Accept(c) == ~closing /\ Moves(c, "none", "accepted")
TellUp(c) == Moves(c, "accepted", "up")
TellDown(c) == Moves(c, "up", "down")

(* A single-threaded server accepts and tells "up" in one go.              *)
AcceptUp(c) == ~closing /\ Moves(c, "none", "up")

Releasable == {"down"} \union (IF closing THEN {"accepted", "up"} ELSE {})

(* The last references of some connections go.                             *)
Release(S) ==
  /\ \A c \in S : life[c] \in Releasable
  /\ life' = [c \in Conns |-> IF c \in S THEN "freed" ELSE life[c]]
  /\ UNCHANGED closing

Close ==
  /\ closing' = TRUE
  /\ UNCHANGED life

(* The process ends: the kernel takes back every descriptor.               *)
Exit ==
  /\ closing' = TRUE
  /\ life' = [c \in Conns |-> IF life[c] = "none" THEN "none" ELSE "freed"]

Next ==
  \/ \E c \in Conns : Accept(c) \/ TellUp(c) \/ TellDown(c) \/ AcceptUp(c)
  \/ \E S \in SUBSET Conns : Release(S)
  \/ Close
  \/ Exit

SafeSpec == Init /\ [][Next]_vars
=============================================================================

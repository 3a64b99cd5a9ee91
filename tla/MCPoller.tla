------------------------------ MODULE MCPoller ------------------------------
(* Small instances of Poller.                                              *)
EXTENDS Poller, TLC

(* Channels are interchangeable, and so are descriptors.                   *)
MCSymmetry == Permutations(Channels) \union Permutations(Fds)
=============================================================================

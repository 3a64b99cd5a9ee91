------------------------------ MODULE MCBuffer ------------------------------
(* Chunks of every length from none to three, with two different bytes.    *)
EXTENDS Buffer

MCChunks == {<< >>, <<1>>, <<2, 1>>, <<1, 2, 2>>}
=============================================================================

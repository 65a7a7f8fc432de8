--------------------------- MODULE MCJitterBuffer ---------------------------
(***************************************************************************)
(* JitterBuffer with minimalSize 2 and maxSize 3 in place of 5 and 32, and  *)
(* sequence numbers 0 .. MCLastSeq: enough to overflow, to be late, to run  *)
(* dry and be primed again.                                                 *)
(***************************************************************************)
EXTENDS JitterBuffer

CONSTANT MCLastSeq  \* bound on the sequence numbers

MCSeqNums == 0 .. MCLastSeq
=============================================================================

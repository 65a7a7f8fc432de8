------------------------- MODULE MCCapturePipeline --------------------------
(***************************************************************************)
(* CapturePipeline with rings of a few samples.                             *)
(***************************************************************************)
EXTENDS CapturePipeline

\* A device block smaller than a ring and one larger.
DeviceCalls == {2, 5}
=============================================================================

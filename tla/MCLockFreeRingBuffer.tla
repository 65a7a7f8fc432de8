------------------------ MODULE MCLockFreeRingBuffer ------------------------
(***************************************************************************)
(* LockFreeRingBuffer with a ring of a few samples.                         *)
(***************************************************************************)
EXTENDS LockFreeRingBuffer, TLC

\* Two device block sizes, one smaller and one larger than the ring.
DeviceCalls == {1, 4}

\* A device block smaller than a frame and one as large as the ring.
PlaybackCalls == {1, 5}
=============================================================================

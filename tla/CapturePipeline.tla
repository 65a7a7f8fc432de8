--------------------------- MODULE CapturePipeline ---------------------------
(***************************************************************************)
(* The way of a sample from the microphone into a packet, over three        *)
(* threads and two rings (src/src/audioIO.hpp, src/src/AudioTransmission.hpp *)
(* and src/src/LockFreeRingBuffer.hpp):                                     *)
(*                                                                          *)
(*   data_micro --noiseCancellation--> audio_processing_worker_thread       *)
(*              --recordBuffer--> writeData --> wolfSSL_write               *)
(*                                                                          *)
(* The device and the worker run as long as the process; writeData runs     *)
(* while there is a connection.  A step is one enqueue or dequeue, so that  *)
(* each ring is filled and emptied at the same time.  The waits inside the  *)
(* rings are in LockFreeRingBuffer; here a reader takes a block once the    *)
(* whole of it is there.  Samples are numbered as they are recorded.        *)
(***************************************************************************)
EXTENDS Naturals, Sequences, FiniteSets

CONSTANTS
  Capacity,   \* RING_SIZE
  Room,       \* the most samples a ring's blocks ever hold
  Half,       \* frame_size of the noise worker
  Frame,      \* FRAME_SIZE
  Calls,      \* numbers of samples the device delivers in one callback
  MaxSamples  \* bound: samples recorded in a behaviour

ASSUME PipelineAssumption ==
  /\ Capacity \in Nat /\ Room \in Nat /\ Capacity <= Room
  /\ Half \in 1 .. Capacity /\ Frame \in 1 .. Capacity
  /\ Calls \subseteq Nat \ {0}
  /\ MaxSamples \in Nat

VARIABLES
  noiseCancellation,  \* the ring that the device fills
  recordBuffer,       \* the ring that the worker fills (buffer of audioInput)
  cur,      \* the next sample the callback enqueues
  made,     \* the last sample of its block
  bpc,      \* the worker: "wait" (readBlocking), "take" or "give"
  block,    \* the samples it holds
  wpc,      \* writeData: "off", "wait" (readBlocking), "take" or "send"
  frame,    \* the samples it holds
  running,  \* the flag of the connection
  out,      \* history: the samples handed to wolfSSL_write with success
  mark      \* history: <<last sample recorded, samples sent>> at connection

vars == <<noiseCancellation, recordBuffer, cur, made, bpc, block, wpc, frame,
          running, out, mark>>
micVars    == <<cur, made>>
workerVars == <<bpc, block>>
writerVars == <<wpc, frame, running, out, mark>>

Init ==
  /\ noiseCancellation = <<>> /\ recordBuffer = <<>>
  /\ cur = 1 /\ made = 0
  /\ bpc = "wait" /\ block = <<>>
  /\ wpc = "off" /\ frame = <<>> /\ running = FALSE
  /\ out = <<>> /\ mark = <<0, 0>>

-----------------------------------------------------------------------------
(* Slips that would be plausible; each takes the place of the definition it *)
(* is named after.                                                          *)
FullNever(ring)     == FALSE              \* write() waits for space
HasRoomAlways(ring) == TRUE               \* enqueue() in the place of try_enqueue()
AfterSendKept       == frame              \* the packet is taken for unsent

-----------------------------------------------------------------------------
(* LockFreeRingBuffer, sample by sample *)

HasRoom(ring) == Len(ring) < Room            \* try_enqueue may succeed
Full(ring)    == Len(ring) >= Capacity       \* try_enqueue may fail
There(ring, n) == Len(ring) >= n             \* readBlocking(n) goes on to read

-----------------------------------------------------------------------------
(* data_micro: write(in, nframes); of a block larger than the ring only the *)
(* end is tried.                                                            *)

Callback(n) ==
  /\ cur > made /\ made + n <= MaxSamples
  /\ made' = made + n
  /\ cur' = IF n > Capacity THEN made + n - Capacity + 1 ELSE made + 1
  /\ UNCHANGED <<noiseCancellation, recordBuffer, workerVars, writerVars>>

MicEnqueue ==
  /\ cur <= made /\ HasRoom(noiseCancellation)
  /\ noiseCancellation' = Append(noiseCancellation, cur)
  /\ cur' = cur + 1
  /\ UNCHANGED <<recordBuffer, made, workerVars, writerVars>>

MicGivesUp ==
  /\ cur <= made /\ Full(noiseCancellation)
  /\ cur' = made + 1
  /\ UNCHANGED <<noiseCancellation, recordBuffer, made, workerVars, writerVars>>

-----------------------------------------------------------------------------
(* audio_processing_worker_thread *)

WorkerReads ==
  /\ bpc = "wait" /\ There(noiseCancellation, Half)
  /\ bpc' = "take"
  /\ UNCHANGED <<noiseCancellation, recordBuffer, micVars, block, writerVars>>

WorkerTake ==
  /\ bpc = "take" /\ noiseCancellation # <<>>
  /\ block' = Append(block, Head(noiseCancellation))
  /\ noiseCancellation' = Tail(noiseCancellation)
  /\ bpc' = IF Len(block') = Half THEN "give" ELSE "take"
  /\ UNCHANGED <<recordBuffer, micVars, writerVars>>

\* buffer.write(temp2, frame_size).  Denoising changes what a sample sounds
\* like, not which one it is.
WorkerGive ==
  /\ bpc = "give" /\ block # <<>> /\ HasRoom(recordBuffer)
  /\ recordBuffer' = Append(recordBuffer, Head(block))
  /\ block' = Tail(block)
  /\ UNCHANGED <<noiseCancellation, micVars, bpc, writerVars>>

\* try_enqueue failed: the rest of the block is lost.
WorkerDrops ==
  /\ bpc = "give" /\ block # <<>> /\ Full(recordBuffer)
  /\ block' = <<>>
  /\ UNCHANGED <<noiseCancellation, recordBuffer, micVars, bpc, writerVars>>

WorkerLoops ==
  /\ bpc = "give" /\ block = <<>>
  /\ bpc' = "wait"
  /\ UNCHANGED <<noiseCancellation, recordBuffer, micVars, block, writerVars>>

-----------------------------------------------------------------------------
(* writeData.  controlThread starts it after connect() and joins it before  *)
(* it connects again; neither resets a ring.                                *)

Connect ==
  /\ wpc = "off" /\ ~ running
  /\ running' = TRUE /\ wpc' = "wait"
  /\ mark' = <<cur - 1, Len(out)>>
  /\ UNCHANGED <<noiseCancellation, recordBuffer, micVars, workerVars, frame, out>>

\* readData timed out, a write failed for good, or main stops.
Disconnect ==
  /\ running
  /\ running' = FALSE
  /\ UNCHANGED <<noiseCancellation, recordBuffer, micVars, workerVars, wpc,
                 frame, out, mark>>

\* while (running): readBlocking, which returns 0 after a time.
WriterReads ==
  /\ wpc = "wait" /\ There(recordBuffer, Frame)
  /\ wpc' = "take"
  /\ UNCHANGED <<noiseCancellation, recordBuffer, micVars, workerVars, frame,
                 running, out, mark>>

WriterTake ==
  /\ wpc = "take" /\ Len(frame) < Frame /\ recordBuffer # <<>>
  /\ frame' = Append(frame, Head(recordBuffer))
  /\ recordBuffer' = Tail(recordBuffer)
  /\ UNCHANGED <<noiseCancellation, micVars, workerVars, wpc, running, out, mark>>

\* opus_encode_float; a failure loses the frame.
WriterEncodes(ok) ==
  /\ wpc = "take" /\ Len(frame) = Frame
  /\ IF ok THEN wpc' = "send" /\ frame' = frame
           ELSE wpc' = "wait" /\ frame' = <<>>
  /\ UNCHANGED <<noiseCancellation, recordBuffer, micVars, workerVars, running,
                 out, mark>>

\* What is left of the packet once wolfSSL_write took it.
AfterSend == <<>>

\* wolfSSL_write took the packet, maybe after WANT_WRITE and WANT_READ.
WriterSent ==
  /\ wpc = "send" /\ running
  /\ out' = out \o frame
  /\ frame' = AfterSend
  /\ wpc' = "wait"
  /\ UNCHANGED <<noiseCancellation, recordBuffer, micVars, workerVars, running, mark>>

\* while (running && !packet_sent): the packet of a lost connection is lost.
WriterGivesUp ==
  /\ wpc = "send" /\ ~ running
  /\ frame' = <<>> /\ wpc' = "wait"
  /\ UNCHANGED <<noiseCancellation, recordBuffer, micVars, workerVars, running,
                 out, mark>>

WriterEnds ==
  /\ wpc = "wait" /\ ~ running
  /\ wpc' = "off"
  /\ UNCHANGED <<noiseCancellation, recordBuffer, micVars, workerVars, frame,
                 running, out, mark>>

Mic    == MicEnqueue \/ MicGivesUp \/ \E n \in Calls : Callback(n)
Worker == WorkerReads \/ WorkerTake \/ WorkerGive \/ WorkerDrops \/ WorkerLoops
Writer == \/ WriterReads \/ WriterTake \/ WriterSent \/ WriterGivesUp
          \/ WriterEnds \/ \E ok \in BOOLEAN : WriterEncodes(ok)

Next == Mic \/ Worker \/ Writer \/ Connect \/ Disconnect

Spec == Init /\ [][Next]_vars

\* The worker's loop never ends.
FairSpec == Spec /\ WF_vars(Worker)

-----------------------------------------------------------------------------
Elements(s) == {s[i] : i \in 1 .. Len(s)}

\* Every packet is a whole frame of recorded samples, in the order of
\* recording, and no sample is sent twice, over any number of connections.
Stream == INSTANCE SampleStream WITH
  newest <- cur - 1,
  inFlight <- Elements(noiseCancellation) \cup Elements(block)
                \cup Elements(recordBuffer) \cup Elements(frame),
  sent <- out

StreamSpec == Stream!Spec

\* Nothing empties the rings between two connections, so a new connection
\* begins with sound from before it; there is never more of that than fits
\* in the two rings and in the hands of the worker.
StaleBounded ==
  Cardinality({i \in DOMAIN out : i > mark[2] /\ out[i] <= mark[1]})
    <= 2 * Room + Half

\* A block that the worker has begun to read is all there, and so is a frame
\* for writeData, however the other side of the ring interleaves.
NeverShort ==
  /\ bpc = "take" => Len(noiseCancellation) + Len(block) >= Half
  /\ wpc = "take" => Len(recordBuffer) + Len(frame) >= Frame

\* The worker does not wait for writeData: a block in the first ring is taken
\* out of it, and the worker comes back for the next one, connected or not
\* and whatever the second ring holds.
WorkerNeverBlocked ==
  /\ (Len(noiseCancellation) >= Half) ~> (bpc = "give")
  /\ (bpc = "give") ~> (bpc = "wait")
=============================================================================

------------------------- MODULE LockFreeRingBuffer -------------------------
(***************************************************************************)
(* The sample queue between two threads (src/src/LockFreeRingBuffer.hpp),   *)
(* in the two ways the client uses it:                                      *)
(*                                                                          *)
(*   capture    a producer calls write(), a consumer calls readBlocking():  *)
(*              microphone callback -> noise worker -> writeData();         *)
(*   playback   mixer() calls waitForSpace() and then writeNoOverwrite(),   *)
(*              the cubeb callback calls read() and pads with silence.      *)
(*                                                                          *)
(* One step is one call of the queue or of a semaphore, so the two threads  *)
(* interleave inside every method.  Samples are numbered in the order in    *)
(* which they are produced.  A timed wait may expire whenever the code      *)
(* looks at the clock, or when no token is there.                           *)
(***************************************************************************)
EXTENDS Naturals, Sequences

CONSTANTS
  Capacity,    \* capacity, in samples
  Room,        \* the most samples the queue's blocks ever hold
  Frame,       \* FRAME_SIZE
  Calls,       \* numbers of samples the audio device moves in one callback
  MaxSamples   \* bound: samples produced in a behaviour

ASSUME RingAssumption ==
  /\ Capacity \in Nat
  /\ Room \in Nat
  /\ Capacity <= Room
  /\ Frame \in 1 .. Capacity
  /\ Calls \subseteq Nat \ {0}
  /\ MaxSamples \in Nat

VARIABLES
  queue,       \* the samples in moodycamel::ReaderWriterQueue
  dataReady,   \* tokens of the semaphore dataReady
  spaceReady,  \* tokens of the semaphore spaceReady
  wpc,         \* where the producer is
  cur,         \* the next sample it enqueues
  made,        \* the last sample of its current block
  written,     \* samples enqueued by the current call
  rpc,         \* where the consumer is
  want,        \* samples its current call asks for
  got,         \* samples it has taken so far
  out          \* history: the samples the consumer has taken

queueVars    == <<queue, dataReady, spaceReady>>
producerVars == <<wpc, cur, made, written>>
consumerVars == <<rpc, want, got, out>>
vars         == <<queueVars, producerVars, consumerVars>>

Init ==
  /\ queue = <<>>
  /\ dataReady = 0
  /\ spaceReady = 0
  /\ wpc = "idle" /\ cur = 1 /\ made = 0 /\ written = 0
  /\ rpc = "idle" /\ want = 0 /\ got = 0 /\ out = <<>>

-----------------------------------------------------------------------------
(* Slips that would be plausible in this class; each is put in the place of *)
(* the action it is named after to see that a property notices.             *)

EnqueueNewestFirst ==          \* the block is written from its end
  /\ wpc = "write" /\ cur <= made /\ Len(queue) < Room
  /\ queue' = Append(queue, made)
  /\ made' = made - 1
  /\ written' = written + 1
  /\ UNCHANGED <<dataReady, spaceReady, wpc, cur, consumerVars>>

WriteReturnSilent ==           \* dataReady.release() only for a full ring
  /\ wpc = "write" /\ cur > made
  /\ dataReady' = IF Len(queue) >= Capacity THEN dataReady + 1 ELSE dataReady
  /\ wpc' = "idle"
  /\ UNCHANGED <<queue, spaceReady, cur, made, written, consumerVars>>

TimedOutReads ==               \* a timed out wait goes on to read()
  /\ rpc = "wait" /\ dataReady = 0
  /\ rpc' = "take" /\ got' = 0
  /\ UNCHANGED <<queueVars, producerVars, want, out>>

EnoughOneMore ==               \* size_approx() > frames
  /\ rpc = "check" /\ Len(queue) > want
  /\ rpc' = "take" /\ got' = 0
  /\ UNCHANGED <<queueVars, producerVars, want, out>>

WriteNoOverwriteTrusting ==    \* the room is not checked again
  /\ wpc = "mix"
  /\ cur' = made + 1 /\ made' = made + Frame /\ written' = 0
  /\ wpc' = "write"
  /\ UNCHANGED <<queueVars, consumerVars>>

ReadReturnSilent ==            \* spaceReady.release() only when read is full
  /\ rpc = "take" /\ (got = want \/ queue = <<>>)
  /\ spaceReady' = IF got = want THEN spaceReady + 1 ELSE spaceReady
  /\ rpc' = "idle"
  /\ UNCHANGED <<queue, dataReady, producerVars, want, got, out>>

-----------------------------------------------------------------------------
(* moodycamel::ReaderWriterQueue: try_enqueue never fails below the         *)
(* capacity asked for; its blocks may take more, up to Room.                *)

\* try_enqueue(src[i]) succeeds; write() and writeNoOverwrite() go on alike.
Enqueue ==
  /\ wpc = "write" /\ cur <= made /\ Len(queue) < Room
  /\ queue' = Append(queue, cur)
  /\ cur' = cur + 1
  /\ written' = written + 1
  /\ UNCHANGED <<dataReady, spaceReady, wpc, made, consumerVars>>

\* try_enqueue(src[i]) fails: the rest of the block is given up.
EnqueueFails ==
  /\ wpc = "write" /\ cur <= made /\ Len(queue) >= Capacity
  /\ cur' = made + 1
  /\ UNCHANGED <<queueVars, wpc, made, written, consumerVars>>

\* The end of both methods: release dataReady if anything was written.
WriteReturn ==
  /\ wpc = "write" /\ cur > made
  /\ dataReady' = IF written > 0 THEN dataReady + 1 ELSE dataReady
  /\ wpc' = "idle"
  /\ UNCHANGED <<queue, spaceReady, cur, made, written, consumerVars>>

-----------------------------------------------------------------------------
(* The producer's calls *)

\* write(src, n): of a block larger than the ring only the end is tried.
Write(n) ==
  /\ wpc = "idle" /\ made + n <= MaxSamples
  /\ made' = made + n
  /\ cur' = IF n > Capacity THEN made + n - Capacity + 1 ELSE made + 1
  /\ written' = 0
  /\ wpc' = "write"
  /\ UNCHANGED <<queueVars, consumerVars>>

\* mixer() calls waitForSpace(FRAME_SIZE, &stopFlag).  While mixer() runs
\* stopFlag is never set (Client!StopFlagLast), so that return is left out.
WaitForSpace ==
  /\ wpc = "idle" /\ made + Frame <= MaxSamples
  /\ wpc' = "check"
  /\ UNCHANGED <<queueVars, cur, made, written, consumerVars>>

\* capacity - sz >= frames, in unsigned arithmetic: true when sz > capacity.
HasSpace == Len(queue) > Capacity \/ Len(queue) + Frame <= Capacity

SpaceFound ==
  /\ wpc = "check" /\ HasSpace
  /\ wpc' = "mix"
  /\ UNCHANGED <<queueVars, cur, made, written, consumerVars>>

\* now >= deadline: returns false, and mixer() calls again.
SpaceDeadline ==
  /\ wpc = "check" /\ ~ HasSpace
  /\ wpc' = "idle"
  /\ UNCHANGED <<queueVars, cur, made, written, consumerVars>>

SpaceWait ==
  /\ wpc = "check" /\ ~ HasSpace
  /\ wpc' = "wait"
  /\ UNCHANGED <<queueVars, cur, made, written, consumerVars>>

SpaceToken ==
  /\ wpc = "wait" /\ spaceReady > 0
  /\ spaceReady' = spaceReady - 1
  /\ wpc' = "check"
  /\ UNCHANGED <<queue, dataReady, cur, made, written, consumerVars>>

\* try_acquire_for timed out: returns true, with or without space.
SpaceTimedOut ==
  /\ wpc = "wait" /\ spaceReady = 0
  /\ wpc' = "mix"
  /\ UNCHANGED <<queueVars, cur, made, written, consumerVars>>

\* mixer() has popped and mixed a frame and calls writeNoOverwrite: the
\* frame is entered sample by sample, or is lost as a whole.
WriteNoOverwrite ==
  /\ wpc = "mix"
  /\ made' = made + Frame
  /\ written' = 0
  /\ IF Len(queue) + Frame > Capacity
     THEN cur' = made + Frame + 1 /\ wpc' = "idle"
     ELSE cur' = made + 1 /\ wpc' = "write"
  /\ UNCHANGED <<queueVars, consumerVars>>

-----------------------------------------------------------------------------
(* The consumer's calls *)

\* read(dst, n) from the device callback.
Read(n) ==
  /\ rpc = "idle"
  /\ rpc' = "take" /\ want' = n /\ got' = 0
  /\ UNCHANGED <<queueVars, producerVars, out>>

Dequeue ==
  /\ rpc = "take" /\ got < want /\ queue # <<>>
  /\ queue' = Tail(queue)
  /\ got' = got + 1
  /\ out' = Append(out, Head(queue))
  /\ UNCHANGED <<dataReady, spaceReady, producerVars, rpc, want>>

\* The end of read().  What is missing in dst is silence, which out omits.
ReadReturn ==
  /\ rpc = "take" /\ (got = want \/ queue = <<>>)
  /\ spaceReady' = IF got > 0 THEN spaceReady + 1 ELSE spaceReady
  /\ rpc' = "idle"
  /\ UNCHANGED <<queue, dataReady, producerVars, want, got, out>>

ReadBlocking ==
  /\ rpc = "idle"
  /\ rpc' = "check" /\ want' = Frame
  /\ UNCHANGED <<queueVars, producerVars, got, out>>

Enough ==
  /\ rpc = "check" /\ Len(queue) >= want
  /\ rpc' = "take" /\ got' = 0
  /\ UNCHANGED <<queueVars, producerVars, want, out>>

\* now >= deadline: returns 0.
DataDeadline ==
  /\ rpc = "check" /\ Len(queue) < want
  /\ rpc' = "idle" /\ got' = 0
  /\ UNCHANGED <<queueVars, producerVars, want, out>>

DataWait ==
  /\ rpc = "check" /\ Len(queue) < want
  /\ rpc' = "wait"
  /\ UNCHANGED <<queueVars, producerVars, want, got, out>>

DataToken ==
  /\ rpc = "wait" /\ dataReady > 0
  /\ dataReady' = dataReady - 1
  /\ rpc' = "check"
  /\ UNCHANGED <<queue, spaceReady, producerVars, want, got, out>>

\* try_acquire_for timed out: returns 0.
DataTimedOut ==
  /\ rpc = "wait" /\ dataReady = 0
  /\ rpc' = "idle" /\ got' = 0
  /\ UNCHANGED <<queueVars, producerVars, want, out>>

-----------------------------------------------------------------------------
Fill == Enqueue \/ EnqueueFails \/ WriteReturn
Take == Dequeue \/ ReadReturn

TakeBlocking ==
  \/ ReadBlocking \/ Enough \/ DataDeadline \/ DataWait \/ DataToken
  \/ DataTimedOut \/ Take

WaitSpace ==
  \/ WaitForSpace \/ SpaceFound \/ SpaceDeadline \/ SpaceWait \/ SpaceToken
  \/ SpaceTimedOut

CaptureNext  == Fill \/ TakeBlocking \/ \E n \in Calls : Write(n)
PlaybackNext == Fill \/ WaitSpace \/ WriteNoOverwrite \/ Take
                  \/ \E n \in Calls : Read(n)

CaptureSpec  == Init /\ [][CaptureNext]_vars
PlaybackSpec == Init /\ [][PlaybackNext]_vars

\* writeData() and the noise worker call readBlocking in an endless loop.
FairCaptureSpec == CaptureSpec /\ WF_vars(TakeBlocking)

-----------------------------------------------------------------------------
\* Every variable has the shape the code gives it.
TypeOK ==
  /\ queue \in Seq(Nat)
  /\ out \in Seq(Nat)
  /\ dataReady \in Nat /\ spaceReady \in Nat
  /\ cur \in Nat /\ made \in Nat /\ written \in Nat
  /\ want \in Nat /\ got \in Nat
  /\ wpc \in {"idle", "check", "wait", "mix", "write"}
  /\ rpc \in {"idle", "check", "wait", "take"}

Increasing(s) == \A i, j \in DOMAIN s : i < j => s[i] < s[j]

\* The consumer sees samples in the order they were produced, none twice,
\* however the threads interleave and whatever write() gave up.
InOrder ==
  /\ Increasing(out)
  /\ Increasing(queue)
  /\ \A i \in DOMAIN out, j \in DOMAIN queue : out[i] < queue[j]

\* How much readBlocking has taken of a frame that it has not yet all.
Part == IF rpc = "take" /\ got < want THEN got ELSE 0

\* A capture ring by itself keeps the promise of the whole capture side: to
\* its reader it is a stream of whole frames, in order and without repetition,
\* however the steps of write() and readBlocking() interleave.
Stream == INSTANCE SampleStream WITH
  newest <- cur - 1,
  inFlight <- {queue[i] : i \in 1 .. Len(queue)}
                \cup {out[i] : i \in Len(out) - Part + 1 .. Len(out)},
  sent <- SubSeq(out, 1, Len(out) - Part)

RingStream == Stream!Spec

\* "size >= frames => read returns exactly frames": once readBlocking has
\* seen a frame, the whole frame stays there for it to take.
NeverShort == rpc = "take" => got <= want /\ Len(queue) >= want - got

\* No wakeup is lost: a reader that would sleep until its timeout although a
\* frame is there has a token to take, or one on its way.
NoLostData ==
  (rpc = "wait" /\ Len(queue) >= want) =>
    dataReady > 0 \/ (wpc = "write" /\ written > 0)

\* The same for mixer(): when the device callback has made space and has
\* returned, waitForSpace finds a token.
NoLostSpace ==
  (wpc = "wait" /\ HasSpace) => spaceReady > 0 \/ (rpc = "take" /\ got > 0)

\* mixer() never fills the ring beyond its capacity, although the room is
\* checked once and the samples are entered one by one.
WithinCapacity == Len(queue) <= Capacity

\* writeNoOverwrite is all or nothing: a frame it has begun to enter fits,
\* so that try_enqueue does not fail in the middle of it.
NeverTorn ==
  (wpc = "write" /\ cur <= made) => Len(queue) + (made - cur) < Capacity

\* The oldest sample of a whole frame does not stay in the ring for ever,
\* however the producer goes on.
FullFrameTaken == \A s \in 1 .. MaxSamples :
  (Len(queue) >= Frame /\ Head(queue) = s) ~> (queue = <<>> \/ Head(queue) # s)

-----------------------------------------------------------------------------
(* What the comments of the file say and the code does not do. *)

\* "binary semaphores: they do not accumulate counters".
SemaphoresBinary == dataReady <= 1 /\ spaceReady <= 1

\* "waiting for space for the mixer": a wait that ended well found space.
SpaceWhenMixing == wpc = "mix" => HasSpace
=============================================================================

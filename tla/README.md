# AsahiSpeak: TLA+ models and proofs

AsahiSpeak is a voice chat: a client records, encodes and sends audio frames
over DTLS/UDP, a server relays each frame to the other members of the talker's
channel, and the listeners reorder, mix and play them. The program's own code is
`src/src/` (about 2150 lines of C++); wolfSSL and Opus are vendored, cubeb,
CLI11, ReNameNoise and moodycamel's `ReaderWriterQueue` are submodules. This
directory models the parts in which threads, timeouts and buffers meet.

## Inventory

| Part | State | Operations | Who calls it |
| --- | --- | --- | --- |
| `jitterbuffer.hpp` | `sequence`, ordered map `buffer`, `primed` | `push`, `pop` (one mutex) | `readData()` pushes, `mixer()` pops, one buffer per talker |
| `server.cpp` | `sessions`, `sessionsHash`, `usersInChannels`; per session `handshake_done`, `username`/`channel`, `last_used` | `mainUdpServer`, `processIncoming`, `freeAfkClient`, `~SessionData` | two threads, one mutex `delAndAt`, which the scan does not take |
| `LockFreeRingBuffer.hpp` | sample queue, semaphores `dataReady`, `spaceReady` | `read`, `write`, `writeNoOverwrite`, `waitForSpace`, `readBlocking` (`reset`, `notifyAll` unused) | one producer and one consumer thread per ring |
| `AudioTransmission.hpp` | `running`, `stopFlag`, `isReconect`, `ssl`, `sock`, `users` | `controlThread`, `connect`, `readData`, `writeData`, `mixer`, `stopTransmission` | five threads |
| `audioIO.hpp` | three rings, cubeb streams | device callbacks, noise worker | cubeb's threads, one worker |
| `udpNonBlocking.hpp` | the descriptor `m_sock` | construction, move, `close`, destruction, `wait_timeout` | `controlThread` and the three threads that wait on it |
| `network.hpp`, `cmd.hpp`, `main.cpp` | packet layout, the parsed command line | name resolution, `parseCli`, start-up | `main()` |
| `audio.hpp` | denoiser state, `DoubleBuffer` | filters, `swap` | the noise worker (one filter); `DoubleBuffer` nobody |

Interaction: microphone callback -> `noiseCancellation` ring -> noise worker ->
record ring -> `writeData()` -> server `mainUdpServer` -> `wolfSSL_write` to the
channel -> `readData()` -> jitter buffer of the talker -> `mixer()` -> playback
ring -> speaker callback.

What is hard here: the server's eviction thread works on decisions made without
the lock; the ring's methods interleave at every sample; the client tears down
and rebuilds a connection that four threads use, for four different reasons
(timeout, failed write, failed read, stop); packets come late, twice or not at
all; client and server each have a timer and neither tells the other what it did;
addresses, hashes and channels change their width on the way. `PROJECT.json` lists the hazards line by line.

What makes each part correct: the jitter buffer plays in order and loses only
what it must; the server's tables name the same clients and a frame reaches live
members of one channel only; a ring is a FIFO that loses no wakeup, never tears
a frame and stays within its capacity; the client's connections do not overlap,
its session is not used after it was freed, and it reconnects when it should; no
descriptor is closed twice or lost; over reconnections, evictions and reused ports a
client is neither locked out nor left talking to nobody, never hears itself, and is
heard again by listeners that kept its old buffer.

## Modules

| Module | Models | Proofs |
| --- | --- | --- |
| `JitterBuffer` (`MCJitterBuffer`) | class `JitterBuffer` | `JitterBufferProofs` |
| `InOrderPlayout` | abstract: the promise to the mixer, implemented by `JitterBuffer` | |
| `Server` | the server's tables and its two threads | `ServerProofs` |
| `ChannelRoom` | abstract: the promise to the clients, implemented by `Server` | |
| `LockFreeRingBuffer` (`MCLockFreeRingBuffer`) | the ring with its threads, as capture ring and as playback ring | `RingProofs` |
| `Client` | the connection life cycle | `ClientProofs` |
| `Addressing` | `addr_hash`, the 32-bit key of `users`, the widths of a channel number | `VoiceChatProofs` |
| `VoiceChat` (`MCVoiceChat`), on `Addressing` | clients, server and network composed, with the timers of both sides | `VoiceChatProofs` |
| `CapturePipeline` (`MCCapturePipeline`) | microphone callback, noise worker and `writeData()` over two rings | `CaptureProofs` |
| `SampleStream` | abstract: the promise to the listeners, implemented by `CapturePipeline` and by one capture ring of `LockFreeRingBuffer` | |
| `UdpSocket` | class `NonBlockingUdpSocket` | `SocketProofs` |
| `ControlSocket`, on `UdpSocket` | how `AudioTransmission` uses its socket | `SocketProofs` |
| `Conversation` (`MCConversation`), on `JitterBuffer` | a talker that reconnects and a listener that kept its buffer | `ConversationProofs` |
| `Startup` | the client's `main()` from the command line to the constructor of `AudioTransmission` | |

The modules meet where the components do. `Client` and `Server` have every thread and
lock of one side; `VoiceChat` keeps of each side what the other can see. Likewise
`LockFreeRingBuffer` has the waits and semaphores of one ring, and `CapturePipeline`
chains two rings without them. `Conversation` takes `JitterBuffer` as it is and adds
the sender. The three abstract modules are instantiated `WITH` refinement mappings
(`PlayoutSpec`, `RoomSpec`, `StreamSpec`, `RingStream`), checked by TLC and proved.
`RingStream` is what joins the two levels of the capture side: a single ring with its
semaphores and waits is already a `SampleStream`, the pipeline of two again is one.

Every module has "slips": mistakes that would be plausible in the code, each a variant
of one definition. With the variant in its place the property named for it in
`PROJECT.json` (`mutants`) fails; they are no part of the specifications.

### JitterBuffer

`push` and `pop` hold one mutex throughout, so a call is a step. `push` has three
paths (`PushLate`, `PushFull`, `PushRoom`), `pop` two that change something
(`PopEmpty`, `PopFrame`). The map is a function from sequence numbers to frames.
`offered` and `played` are history. Both the eviction of a frame by a duplicate
of another one and the missing `primed = true` of the overflow path are kept.

### Server

The tables are kept as a function (`sessions`) and as counts of occurrences
(`sessionsHash`, `usersInChannels`), because a duplicate entry would matter and
the order does not. `mainUdpServer` is `Receive`, `Insert`, `PushBack`,
`Process...`; it holds `delAndAt` whenever `mainPc # "recv"`. `freeAfkClient` is
`ScanStart`, `ScanOne`, `ScanEnd` (no lock), `Delete` (needs the lock), `Sleep`.
What wolfSSL makes of a datagram is a free choice among the results that
`processIncoming` tells apart. The result of `processIncoming` is ignored by its
caller, hence one action for all failures. `Tick` is a second; `idle` is
`lastUse()` counted up to the timeout; `expired` is history.

The scan's data races (the vector reallocates or the map rehashes under the
iteration) are undefined: `ScanRaces` is the bad outcome and ends the process with
`fault = "race"`, the other actions are the harmless one. A failed `wolfSSL_new`
is an exception that leaves the thread (`fault = "throw"`).

### LockFreeRingBuffer

One step is one `try_enqueue`, `try_dequeue`, `size_approx` or semaphore call.
Samples are numbered in order of production, so that order and loss can be stated.
The queue is external: `try_enqueue` does not fail below the capacity the queue
was made for, may go on succeeding up to `Room` (its blocks are rounded up) and
fails there. The semaphores are counters: `std::binary_semaphore::release` does not
saturate in libstdc++. The deadline may have passed whenever the code looks at the
clock, and `try_acquire_for` may time out when no token is there. `CaptureSpec` is
`write` against `readBlocking`, `PlaybackSpec` is `waitForSpace` and
`writeNoOverwrite` against `read`. The test of `stopFlag` in `waitForSpace` is left
out because `Client!StopFlagLast` shows that it never fires. The silence that the
speaker callback pads with is not recorded in `out`.

### Client

One program counter per thread. The control thread's `New`, `Connect`, three
joins, `Free`, `LoopEnd` follow `controlThread()`; `ConnectThrows` stands for every
exception of `connect()`, of the socket's constructor and for a session that
`wolfSSL_new` did not make. The waits inside `connect()` change nothing and are left
out. A thread is inside `wolfSSL_read`/`wolfSSL_write` between `ReadBegin`/`WriteBegin`
and the action that ends the call, holding `sslMtx`; the mixer holds `mixerMtx`
between `MixBegin` and `MixEnd`; `Emplace` does not take it. `stopTransmission()` is
three steps (test, clear, free). Use of a freed session, a second free and
`Emplace` under a running iteration either do no harm or end the process (`fault`).
`Exit` is the end of `main()`: the destructor of `AudioTransmission` meets a joinable
`controlthread`, which terminates the process. `wolfSSL_Cleanup()` before it is left
out: it frees library globals that this model does not have.

### Addressing and VoiceChat

An endpoint is `<<address, port>>`. `addr_hash` is a sum, because the shifted address
and the port do not overlap; `XorIsSum`, an assumption of `MCVoiceChat`, compares it
with the exclusive or of the code. `UserKey` is the conversion of the hash to the
`uint32_t` key of `users`, which loses the address. `ToInt` and `ToUChar` are what
happens to `--channel` (unsigned int, int, unsigned char).

In `VoiceChat` a client is connecting, up, deaf or down, has the port of its present
socket and the seconds since a datagram arrived (`readData()` gives up after five).
Deaf is a client whose reader left its loop on an error of `select()` or of
`wolfSSL_read` (`ReaderEnds`): `running` stays set, the writer talks on, and nobody
measures silence any more. The server
has sessions by hash with `handshake_done`, `last_used` (`idle`) and channel
membership (`joined`), and `freeAfkClient` as `Scan` and `Delete`. The field `current`
stands for DTLS: a session and a connection understand each other only if they made
the handshake together, and `Abandon` for the keys that are gone with a connection; no
variable of the code holds either. Where a datagram goes is decided by the address of
its session alone (`Reached`), understood or not. `Hello`, `ConnectDone`, `AcceptLate` are the handshake, whose
last flight may be lost; `Audio` is a frame that is relayed and answered; of the
datagrams it causes any subset arrives. `AudioUnknown` is a frame for a session that
was freed: the server makes a session for whatever comes first, and this one
understands nothing. `TimeoutReconnect` makes a new socket, for which the system may
hand out any port, also the old one. `Quit` covers every way a client ends. `Tick` is a
second; a timeout that is due fires before the next one.

One thing is assumed of wolfSSL: a session that understands nothing sends nothing.
`UnservedNoticed` rests on it, since an alert would count as a sign of life to
`readData()`, which only asks whether the socket is readable. It also needs a living
reader: a client that is deaf when its session is freed talks to nobody until it is
stopped.

`OnlyOthersHear` is about what the relay sends and to which sockets. `processIncoming`
leaves out one hash, the talker's present one, while the sessions of its former
connections may still be members of the channel; what is sent to those goes to the ports
they were made from. That none of them is the talker's present port, and that every
other member is reached at its present one, is what the property says.

### CapturePipeline

One step is one enqueue or dequeue of `noiseCancellation` or `recordBuffer`. The
microphone callback is `Callback`, `MicEnqueue`, `MicGivesUp` (`write()`, with its
truncation of a block larger than the ring); the worker is `WorkerReads`, `WorkerTake`,
`WorkerGive` or `WorkerDrops`, `WorkerLoops`; `writeData()` is `WriterReads` to
`WriterEnds`, started and ended by `Connect` and `Disconnect`. Denoising changes what a
sample sounds like, not which one it is. A reader takes a block once all of it is
there; that this is what `readBlocking` does, in spite of its waits, is `NeverShort` and
`NoLostData` of `LockFreeRingBuffer`. `mark` remembers what had been recorded when the
present connection began.

### UdpSocket and ControlSocket

`UdpSocket` has the objects' handles (`m_sock`), their lifetimes and the system's table
of descriptors (`owner`), in which the rest of the process (`Foreign`) takes and
returns numbers too: a descriptor closed twice would close somebody else's.
Construction is two steps, because `set_socket_nonblocking` may fail after `socket()`
succeeded and the destructor does not run then. `SockSpec` allows every sequence of
calls the class permits. `ControlSocket` restricts it to what `controlThread()` does:
construct `sock_`, move it over `sock` (which closes the old descriptor), lend the
handle to wolfSSL and the threads, free the session, destroy the empty `sock_`.

### Conversation

`writeData()` numbers its packets from 0 in every connection, and a listener's `users`
table is cleared only by the listener's own reconnection. A talker that gets its old
port again has its old key, so its new packets meet the old jitter buffer, which takes
them for late. The frames of `JitterBuffer` are here the number of the talker's
connection. `Talk`, `Reconnect`, `Lose`, `FirstArrives` (makes the `User` and, with its
number, the buffer), `Arrives`, `Undecodable` (`opus_decode_float` fails), `Mix`. The network
loses and reorders. The listener's own reconnection is left out: it empties the table
and can only help. Another talker with the same port meets the same buffer; that is
the case of two frames for one number in `JitterBuffer`.

### Startup

`Parse`, `Resolve` (the loop over the answers of `getaddrinfo`), `Devices`,
`Transmission`. Some failures end the process, others are only printed by
`error_handling`, after which the start goes on.

## Runs

| Run | Instance | States | Shows |
| --- | --- | --- | --- |
| `jitter` | sequence numbers 0..4, two frames, `minimalSize` 2, `maxSize` 3 | 83,913 | order, bound, loss only when full, refinement of `InOrderPlayout`, waiting frames leave |
| `server` | 3 clients, 2 channels, timeout 1 | 319,566 | tables agree, relay targets are live, no null session, refinement of `ChannelRoom` (nobody loses a channel who was not silent), silent sessions are freed |
| `ring_capture` | capacity 3, room 4, frame 2, blocks 1 and 4, 8 samples | 26,793 | refinement of `SampleStream`, whole frames, no lost wakeup, the samples of a whole frame leave |
| `ring_playback` | capacity 5, room 6, frame 2, reads of 1 and 5, 12 samples | 32,217 | whole frames enter, no lost wakeup |
| `client` | 2 talkers, 3 frames per connection | 83,366 | the connection life cycle, teardown and reconnection |
| `voice_chat` | 2 clients, 2 ports, words of 8, bytes of 4, timeout 1, silence 2 | 222,284 | who shares a key, who meets in a channel, what is said reaches exactly the others there, a lost session is noticed, an old one makes way |
| `capture_pipeline` | capacity 2, room 3, blocks and frames of 2, device blocks 2 and 5, 10 samples | 1,313,404 | refinement of `SampleStream`, how much old sound a connection begins with, the worker is never blocked |
| `control_socket` | two objects, 4 descriptors | 384 | one owner, usable handle, one socket |
| `conversation` | sequence numbers 0..6, buffer of 3, 2 packets in flight, 1 lost, 4 former numbers | 123,920 | refused only for numbers used before; heard again |
| `ring_tokens`, `ring_space` | as the rings above | | two comments of the ring that the code contradicts |
| `startup_aims` | up to 2 answers of the resolver | | an IPv6 host the client does not aim at |

Bounds. `maxSize` 3 with 5 numbers lets the buffer overflow, be late, run dry and
be primed again. Three clients of the server are a talker, a listener and one that is
freed while the others go on; two channels tell a wrong channel from the right one;
a timeout of one second already separates the scan from the eviction, in between which
everything may happen. A ring of 3 with blocks of 4 samples overflows in the middle of
a block and uses the truncation of `write()`; frames of 2 in a ring of 5 leave an odd
sample of room. In `voice_chat` two clients with two ports have equal and different
ports, leave sessions behind and come back to them; the channels 3 and 7 are congruent,
and 7 is a negative int (all pairs of numbers are compared by `AllPairsOfChannels`, an
assumption of `MCVoiceChat`). It was also checked with a timeout of 2 (1,458,120 states).
In `capture_pipeline` 10 samples overflow both rings while no connection is up and
fill frames of the next one. In `conversation` the former connection uses four numbers
and the present one up to seven, so that it comes past them even with a loss. Four
descriptors are the two of a replacement and two for the rest of the process. The
number of reconnections, of stops in progress and of evictions is bounded nowhere but
in `conversation` (one reconnection) and by the samples in `capture_pipeline`.

Deadlock is checked except where the system stops: a process that ended
(`control_socket`, `startup_aims`) and a talker out of numbers (`conversation`).

Fairness. `jitter`: `WF(Pop)`, the mixer pops on every round. `server`: weak fairness of
the clock, of `freeAfkClient` and of `mainUdpServer` while it holds the lock (no call
there blocks), and strong fairness of `Reap`: `std::mutex` promises no order, so that the
lock is not denied to `freeAfkClient` for ever is an assumption on the platform.
`ring_capture`: weak fairness of the reading loop. `client`: weak fairness of the four
threads, because every wait in them is timed (`connect()` gives up after 300 seconds);
none of the user. Under weak fairness the reader may time out, fail or go on as it
likes. `voice_chat`: weak fairness of the clock, of scan and eviction and of a due
timeout of a client whose reader lives; none of the network, the handshake or the talkers, so that both liveness
properties hold although every datagram may be lost. `capture_pipeline`: weak fairness of
the worker, whose loop is endless; none of the device or of `writeData()`.
`conversation`: the talker talks, the mixer pops, and each packet arrives unless it is
one of the lost ones; there it says that the network delivers again after a loss.

### Findings

* `ring_tokens`: the semaphores are said not to accumulate and do.
* `ring_space`: `waitForSpace` returns true after a timed out wait without space, and
  the mixed frame is lost.
* `startup_aims`: a name or address is offered and resolved as IPv4 or IPv6, and the
  constructor of `AudioTransmission` parses IPv4 only, prints the failure and goes on with
  an uninitialised address.

### What the code does not promise

The models contain outcomes against which the code has no protection, and no property
hides them: a client that spoke between scan and eviction is freed all the
same (`RoomSpec` says only that it had been silent before); after
`stopTransmission()` the session may be used after it was freed, or freed twice; a
stop during the handshake has no effect; a stop that races with the reader's timeout
is followed by a reconnection; a failed read leaves the connection without a reader
until a write fails, and if its session is freed meanwhile it is never told
(`UnservedNoticed` needs a reader); frames fewer than `minimalSize` are held for as long
as their talker pauses (`WaitingFramesLeave` needs a buffer that plays); a full capture
ring drops samples (`RingStream` says only what becomes of the rest); two talkers with equal ports share one decoder and one buffer
(`KeyIsPort`); channel 256 is channel 0 (`ChannelsMeet`); a new connection begins with
sound from before it (`StaleBounded` says how much); a reconnected talker with its old
port is not heard until it has passed its old numbers, that is for as long as it had
talked before (`DeafOnlyForFormer`), and where an old frame still waits under a number
`try_emplace` keeps the old one. A client that comes back to its old port waits until
the server has freed the old session.

Beside the models: `LockFreeRingBuffer::write` is headed as a write with overwriting and
drops the newest samples (`MicGivesUp`, `WorkerDrops`), and a server whose `bind` fails
prints that and starts its threads all the same (`server.cpp:373`).

## Proofs

Most theorems are invariance proofs (`Init`, one case per action, `PTL`). Beside them
there are two action properties, six refinements (the four mappings above,
`Conversation` of `InOrderPlayout` and `ControlSocket` of `UdpSocket`) and the injectivity
of the hash.

* `JitterBufferProofs`, for every `MinimalSize <= MaxSize` and every set of sequence
  numbers: `PlayedInOrder` and the refinement need `NothingLateWaits` (everything that
  waits is at or after `sequence`, everything played before it); `Bounded` and
  `EnoughMeansPrimed` need each other's cardinality facts about `try_emplace` and
  `erase`, stated as lemmas. `LossesAreOldest` and `WaitingComesNearer` are action
  properties; the second is the ranking behind `WaitingFramesLeave`: a waiting frame `k`
  is `k - sequence` numbers away from its turn, never further than before and nearer
  with every frame played.
* `ServerProofs`, for all sets of clients and channels and every timeout: the tables
  agree only together with where the two threads are (`ThreadsAgree`: the main thread's
  session exists from `push` on; what the scan has still to visit exists, because
  only the scanning thread removes sessions) and with `SessionsSound`. `RoomHolds` is the
  refinement of `ChannelRoom`: a channel's list is its room, and a client is silent from
  when its idle time reaches the timeout until it is freed. Registration is a
  stutter, the first audio frame is `Join`, a second of the clock `FallSilent`, the
  eviction `Leave`; it rests on the tables agreeing and on victims having expired.
* `RingProofs`, for every capacity, room, frame and block size: order needs that every
  sample in the queue or taken is older than the next one to be entered. `NeverShort`
  and `NoLostData` rest on there being one consumer, `NeverTorn` and `NoLostSpace` on
  there being one producer. `RingStreamHolds` uses all of them: what `readBlocking` has of
  an unfinished frame is still in flight, the dequeue that completes it is the `Send`,
  a sample that is entered or given up is a `Record`; `NeverShort` excludes a read that
  ends in the middle of a frame. `FrameInv` adds that what was taken of the frame is
  the end of what was taken at all.
* `ClientProofs`, for any number of talkers and frames: what was joined has ended
  (`JoinsAgree`), the session lives exactly as long as the connection until a stop
  (`SslLives`), and `running` is cleared only for a cause that survives until the loop
  looks at `isReconect` (`CauseKept`).
* `VoiceChatProofs`, for all clients, ports, channels, timeouts and widths: `addr_hash` is
  injective because a port is below `Word`; hence every session is filed under the hash
  of its own address (`AtOwnHash`), from which `HashIdentifies` and `KeyIsPort` follow.
  `OnlyOthersHear` follows too: a session sends to the present socket of a client exactly
  if it is filed under the hash of that socket (`SendsHere`). `ChannelsMeet` is arithmetic: because a byte divides a
  word, neither the conversion to int, which may subtract a word, nor the one to
  unsigned char changes a number modulo the byte (`WholeBytes`, `ByteOfChannel`).
* `CaptureProofs`, for rings, blocks, frames and device calls of any size: the four
  places a sample can be in (ring, worker's hands, ring, writer's hands) are each
  increasing (`Rising`) and in order among each other (`Chain`), pairwise because any of
  them may be empty. With that a sent frame is the oldest in flight, and every step is
  `Record`, `Lose`, `Send` or a stutter of `SampleStream`. `StaleBounded` needs `StaleInv`:
  the old samples that were sent on this connection and those that are still in one of
  the four places are together no more than the places could hold when it began; no
  step adds an old one (`NothingOldAdded`), moving one keeps the sum.
* `SocketProofs`: `OneOwner` and `NoLeak` for any sequence of calls on any number of
  sockets (`SockSpec`), from the types, `LifeAgrees` (only a constructed object holds a
  descriptor) and each other. `ControlImplements`: the client is such a sequence of calls,
  so both hold of it as well. For `ControlSocket`, `Place` says what `sock` and `sock_` hold
  at each point of the loop; `HandleUsable` and `OneSocket` follow.
* `ConversationProofs`, for every size of buffer, network and number of losses: every
  number that the listener holds or that is under way was used by one of the two
  connections (`UsedInv`), so `sequence` never passes them. `PlayoutOverReconnection` and
  `BufferOverReconnection` carry the jitter buffer's guarantees over to the composition:
  the two steps that make the `User` also set `sequence`, which no step of
  `JitterBuffer` does, and `TalkInv` says that the buffer is then empty and nothing has
  been played.

Assumptions: `SizeAssumption`, `ServerAssumption`, `RingAssumption`, `ClientAssumption`,
`WordAssumption`, `ByteAssumption`, `ChatAssumption`, `PipelineAssumption`,
`SocketAssumption`, `ControlAssumption`, `ConversationAssumption`, each evaluated by TLC on
the instances. Model-checked only: the liveness properties (`WaitingFramesLeave`,
`SilentSessionsFreed`, `FullFrameTaken`, `TeardownCompletes`, `TimeoutReconnects`,
`UnservedNoticed`, `OldSessionMakesWay`, `WorkerNeverBlocked`, `HeardAgain`), which are out
of the prover's reach; every invariant, action property and refinement of the runs is
proved. Proved only: `TypeOK` of `Server`, `Client`, `VoiceChat` and the rings,
`NothingLateWaits`, `ComesNearer`, `TalkerKnown`, `WithinCapacity`, `InOrder` and
`NoFreshVictim` (on which the refinements of the runs rest), `HashIdentifies`, `NoLeak`.

## Not modelled

* wolfSSL, Opus, cubeb, CLI11, ReNameNoise: third party; their results are free
  choices. They are nearly all of the repository's lines.
* The denoisers of `audio.hpp`, the mixing sum and the soft clipping: floating point.
  `DoubleBuffer` is used nowhere.
* Start-up of the server: straight-line calls whose failures are printed.
* `bind_to`, `send_to`, `receive_from`, `notifyAll`, `reset`, `retransmitHandshake`,
  `handle_sigint`, `setClientVolume`: never called or empty. `mute` and `unmute` set a flag
  that no code in use reads. `stop()` and the destructors of the audio devices run only
  while the process ends.
* The ciphers and curves chosen in `network.hpp` and the macros of `user_settings.h`:
  configuration.

## Plan

1. A bound on the sessions that a reconnecting client leaves behind at the server, from
   its silence and the server's timeout.
2. The safety halves of the other liveness properties, as `ComesNearer` is for
   `WaitingFramesLeave`.
3. `CapturePipeline` with the semaphores of `LockFreeRingBuffer` in both rings, if a bound
   can be found that TLC finishes; the playback side (mixer over several buffers into
   one ring) likewise.
4. The listener's own reconnection in `Conversation`.

------------------------------- MODULE Client -------------------------------
(***************************************************************************)
(* The connection life cycle of the client: class AudioTransmission         *)
(* (src/src/AudioTransmission.hpp) and the calls main() makes on it.        *)
(*                                                                          *)
(* Five threads share the object:                                           *)
(*   control   connects, starts the other three, joins them, frees the      *)
(*             session and starts over if isReconect is set;                *)
(*   reader    readData(), writer writeData(), mixer mixer();               *)
(*   user      main(): stopTransmission() and then the end of the process.  *)
(*                                                                          *)
(* What a frame contains, and how long a wait takes, is left open.  Using   *)
(* a freed session and changing the user table under a running iteration    *)
(* are undefined: either nothing bad happens, or the process dies and fault *)
(* says of what.                                                            *)
(***************************************************************************)
EXTENDS Naturals, FiniteSets

CONSTANTS
  Talkers,    \* keys of the users table: clientHash as uint32_t
  MaxFrames   \* bound: frames encoded on one connection

ASSUME ClientAssumption == MaxFrames \in Nat

VARIABLES
  running, stopFlag, isReconect,
  ssl,          \* "none", "null", "live" or "freed"
  users,        \* the talkers that have a decoder and a jitter buffer
  cpc,          \* control thread
  rpc, talker,  \* reader; the sender of the packet it handles
  wpc, sendSeq, \* writer; the number of the next frame
  mpc,          \* mixer
  upc,          \* main thread
  sent,         \* history: frames sent on this connection
  writeFailed,  \* history: wolfSSL_write failed for good
  fault         \* why the process died, or "none"

flags      == <<running, stopFlag, isReconect>>
readerVars == <<rpc, talker>>
writerVars == <<wpc, sendSeq, sent, writeFailed>>
vars == <<flags, ssl, users, cpc, readerVars, writerVars, mpc, upc, fault>>

Up == fault = "none"

\* sslMtx is held inside wolfSSL_read and wolfSSL_write, mixerMtx while the
\* mixer walks through users.
SslMtxFree   == rpc # "read" /\ wpc # "write"
MixerMtxFree == mpc # "mix"

\* The threads of a connection: not started yet, or ended.
Quiet  == {"off", "done"}
Joined == rpc \in Quiet /\ wpc \in Quiet /\ mpc \in Quiet
Joins  == {"joinRead", "joinWrite", "joinMixer"}

\* A call on the session that a thread begins, or during which it was freed.
UseSsl == fault' \in (IF ssl = "freed" THEN {"none", "uaf"} ELSE {"none"})

Init ==
  /\ running = FALSE /\ stopFlag = FALSE /\ isReconect = TRUE
  /\ ssl = "none"
  /\ users = {}
  /\ cpc = "loop"
  /\ rpc = "off" /\ talker \in Talkers
  /\ wpc = "off" /\ sendSeq = 0 /\ sent = {} /\ writeFailed = FALSE
  /\ mpc = "off"
  /\ upc = "run"
  /\ fault = "none"

-----------------------------------------------------------------------------
(* Slips that would be plausible in this class; each is put in the place of *)
(* the action it is named after to see that a property notices.             *)

JoinReadOnly ==                \* write.join() forgotten
  /\ Up /\ cpc = "joinRead" /\ rpc = "done"
  /\ cpc' = "joinMixer"
  /\ UNCHANGED <<flags, ssl, users, readerVars, writerVars, mpc, upc, fault>>

JoinMixerDetached ==           \* mixer_.detach()
  /\ Up /\ cpc = "joinMixer"
  /\ cpc' = "free"
  /\ UNCHANGED <<flags, ssl, users, readerVars, writerVars, mpc, upc, fault>>

FreeKeepsUsers ==              \* users.clear() forgotten
  /\ Up /\ cpc = "free"
  /\ fault' \in (IF ssl = "freed" THEN {"none", "double"} ELSE {"none"})
  /\ ssl' = "freed" /\ cpc' = "loop"
  /\ UNCHANGED <<flags, users, readerVars, writerVars, mpc, upc>>

ReaderTimeoutForgets ==        \* isReconect left as it is
  /\ Up /\ rpc = "wait"
  /\ running' = FALSE /\ rpc' = "done"
  /\ UNCHANGED <<stopFlag, isReconect, ssl, users, cpc, talker, writerVars, mpc,
                 upc, fault>>

ReaderTimeoutStays ==          \* running left as it is
  /\ Up /\ rpc = "wait"
  /\ isReconect' = TRUE /\ rpc' = "done"
  /\ UNCHANGED <<running, stopFlag, ssl, users, cpc, talker, writerVars, mpc,
                 upc, fault>>

WriteDoneAgain ==              \* packet_sent is not set
  /\ Up /\ wpc = "write"
  /\ UseSsl
  /\ wpc' = "send" /\ sent' = sent \cup {sendSeq - 1}
  /\ UNCHANGED <<flags, ssl, users, cpc, readerVars, sendSeq, writeFailed, mpc,
                 upc>>

WriteFailsStops ==             \* stopFlag is set as well
  /\ Up /\ wpc = "write"
  /\ UseSsl
  /\ running' = FALSE /\ stopFlag' = TRUE
  /\ writeFailed' = TRUE /\ wpc' = "top"
  /\ UNCHANGED <<isReconect, ssl, users, cpc, readerVars, sendSeq, sent, mpc, upc>>

MixerTopStopFlag ==            \* while (!stopFlag)
  /\ Up /\ mpc = "top"
  /\ mpc' = IF stopFlag THEN "done" ELSE "space"
  /\ UNCHANGED <<flags, ssl, users, cpc, readerVars, writerVars, upc, fault>>

-----------------------------------------------------------------------------
(* controlThread *)

\* wolfSSL_new, which may fail with nothing but a message, and a new socket.
New ==
  /\ Up /\ cpc = "loop" /\ ~ stopFlag /\ isReconect
  /\ ssl' \in {"live", "null"}
  /\ isReconect' = FALSE
  /\ cpc' = "connect"
  /\ UNCHANGED <<running, stopFlag, users, readerVars, writerVars, mpc, upc, fault>>

\* Nobody asked for another connection: stopFlag = true and the thread ends.
LoopEnd ==
  /\ Up /\ cpc = "loop" /\ (stopFlag \/ ~ isReconect)
  /\ stopFlag' = TRUE
  /\ cpc' = "ended"
  /\ UNCHANGED <<running, isReconect, ssl, users, readerVars, writerVars, mpc,
                 upc, fault>>

\* connect() succeeds and the three threads are started.
Connect ==
  /\ Up /\ cpc = "connect" /\ ~ stopFlag /\ ssl # "null"
  /\ UseSsl
  /\ running' = TRUE
  /\ rpc' = "top" /\ wpc' = "top" /\ mpc' = "top"
  /\ sendSeq' = 0 /\ sent' = {}
  /\ cpc' = "joinRead"
  /\ UNCHANGED <<stopFlag, isReconect, ssl, users, talker, writeFailed, upc>>

\* connect() throws (no answer within 300 seconds, too many retransmissions,
\* a refused handshake, stopFlag), or the socket cannot be made: an exception
\* that leaves the thread ends the process.
ConnectThrows ==
  /\ Up /\ cpc = "connect"
  /\ fault' = "terminate"
  /\ UNCHANGED <<flags, ssl, users, cpc, readerVars, writerVars, mpc, upc>>

JoinRead ==
  /\ Up /\ cpc = "joinRead" /\ rpc = "done"
  /\ cpc' = "joinWrite"
  /\ UNCHANGED <<flags, ssl, users, readerVars, writerVars, mpc, upc, fault>>

JoinWrite ==
  /\ Up /\ cpc = "joinWrite" /\ wpc = "done"
  /\ cpc' = "joinMixer"
  /\ UNCHANGED <<flags, ssl, users, readerVars, writerVars, mpc, upc, fault>>

JoinMixer ==
  /\ Up /\ cpc = "joinMixer" /\ mpc = "done"
  /\ cpc' = "free"
  /\ UNCHANGED <<flags, ssl, users, readerVars, writerVars, mpc, upc, fault>>

\* wolfSSL_free(ssl); users.clear().
Free ==
  /\ Up /\ cpc = "free"
  /\ fault' \in (IF ssl = "freed" THEN {"none", "double"} ELSE {"none"})
  /\ ssl' = "freed"
  /\ users' = {}
  /\ cpc' = "loop"
  /\ UNCHANGED <<flags, readerVars, writerVars, mpc, upc>>

-----------------------------------------------------------------------------
(* readData *)

ReaderTop ==
  /\ Up /\ rpc = "top"
  /\ rpc' = IF running THEN "wait" ELSE "done"
  /\ UNCHANGED <<flags, ssl, users, cpc, talker, writerVars, mpc, upc, fault>>

\* Nothing came for five seconds: connect again.
ReaderTimeout ==
  /\ Up /\ rpc = "wait"
  /\ isReconect' = TRUE
  /\ running' = FALSE
  /\ rpc' = "done"
  /\ UNCHANGED <<stopFlag, ssl, users, cpc, talker, writerVars, mpc, upc, fault>>

\* select failed, or stopFlag is set: the thread ends, running stays as it is.
ReaderQuits ==
  /\ Up /\ rpc = "wait"
  /\ rpc' = "done"
  /\ UNCHANGED <<flags, ssl, users, cpc, talker, writerVars, mpc, upc, fault>>

\* A datagram is there; sslMtx is taken and wolfSSL_read called.
ReadBegin ==
  /\ Up /\ rpc = "wait" /\ ~ stopFlag /\ SslMtxFree
  /\ UseSsl
  /\ rpc' = "read"
  /\ UNCHANGED <<flags, ssl, users, cpc, talker, writerVars, mpc, upc>>

\* No record yet, or one that is no audio packet: go on.
ReadNothing ==
  /\ Up /\ rpc = "read"
  /\ UseSsl
  /\ rpc' = "top"
  /\ UNCHANGED <<flags, ssl, users, cpc, talker, writerVars, mpc, upc>>

\* A critical error: the thread ends, running stays as it is.
ReadFails ==
  /\ Up /\ rpc = "read"
  /\ UseSsl
  /\ rpc' = "done"
  /\ UNCHANGED <<flags, ssl, users, cpc, talker, writerVars, mpc, upc>>

\* An audio packet of t.
ReadAudio(t) ==
  /\ Up /\ rpc = "read"
  /\ UseSsl
  /\ talker' = t
  /\ rpc' = IF t \in users THEN "decode" ELSE "emplace"
  /\ UNCHANGED <<flags, ssl, users, cpc, writerVars, mpc, upc>>

\* users.emplace WITHOUT mixerMtx: it races with the mixer's iteration.
Emplace ==
  /\ Up /\ rpc = "emplace"
  /\ users' = users \cup {talker}
  /\ fault' \in (IF MixerMtxFree THEN {"none"} ELSE {"none", "race"})
  /\ rpc' = "decode"
  /\ UNCHANGED <<flags, ssl, cpc, talker, writerVars, mpc, upc>>

\* opus_decode_float gives a whole frame, or the packet is dropped.
Decode ==
  /\ Up /\ rpc = "decode"
  /\ rpc' \in {"push", "top"}
  /\ UNCHANGED <<flags, ssl, users, cpc, talker, writerVars, mpc, upc, fault>>

\* users[clientHash]->push(...) under mixerMtx (JitterBuffer models it).
Push ==
  /\ Up /\ rpc = "push" /\ MixerMtxFree
  /\ rpc' = "top"
  /\ UNCHANGED <<flags, ssl, users, cpc, talker, writerVars, mpc, upc, fault>>

-----------------------------------------------------------------------------
(* writeData *)

WriterTop ==
  /\ Up /\ wpc = "top"
  /\ wpc' = IF running THEN "record" ELSE "done"
  /\ UNCHANGED <<flags, ssl, users, cpc, readerVars, sendSeq, sent, writeFailed,
                 mpc, upc, fault>>

\* readBlocking timed out or the encoder failed.
RecordNothing ==
  /\ Up /\ wpc = "record"
  /\ wpc' = "top"
  /\ UNCHANGED <<flags, ssl, users, cpc, readerVars, sendSeq, sent, writeFailed,
                 mpc, upc, fault>>

\* A frame is encoded and numbered.
Record ==
  /\ Up /\ wpc = "record" /\ sendSeq < MaxFrames
  /\ sendSeq' = sendSeq + 1
  /\ wpc' = "send"
  /\ UNCHANGED <<flags, ssl, users, cpc, readerVars, sent, writeFailed, mpc, upc,
                 fault>>

\* The inner loop ends because running was cleared; the frame is dropped.
WriterGivesUp ==
  /\ Up /\ wpc = "send" /\ ~ running
  /\ wpc' = "top"
  /\ UNCHANGED <<flags, ssl, users, cpc, readerVars, sendSeq, sent, writeFailed,
                 mpc, upc, fault>>

WriteBegin ==
  /\ Up /\ wpc = "send" /\ running /\ SslMtxFree
  /\ UseSsl
  /\ wpc' = "write"
  /\ UNCHANGED <<flags, ssl, users, cpc, readerVars, sendSeq, sent, writeFailed,
                 mpc, upc>>

WriteDone ==
  /\ Up /\ wpc = "write"
  /\ UseSsl
  /\ sent' = sent \cup {sendSeq - 1}
  /\ wpc' = "top"
  /\ UNCHANGED <<flags, ssl, users, cpc, readerVars, sendSeq, writeFailed, mpc,
                 upc>>

\* WANT_WRITE or WANT_READ: wait a little and try the same frame again.
WriteRetry ==
  /\ Up /\ wpc = "write"
  /\ UseSsl
  /\ wpc' = "send"
  /\ UNCHANGED <<flags, ssl, users, cpc, readerVars, sendSeq, sent, writeFailed,
                 mpc, upc>>

\* A critical error ends the connection, and does not ask for another one.
WriteFails ==
  /\ Up /\ wpc = "write"
  /\ UseSsl
  /\ running' = FALSE
  /\ writeFailed' = TRUE
  /\ wpc' = "top"
  /\ UNCHANGED <<stopFlag, isReconect, ssl, users, cpc, readerVars, sendSeq, sent,
                 mpc, upc>>

-----------------------------------------------------------------------------
(* mixer *)

MixerTop ==
  /\ Up /\ mpc = "top"
  /\ mpc' = IF running THEN "space" ELSE "done"
  /\ UNCHANGED <<flags, ssl, users, cpc, readerVars, writerVars, upc, fault>>

\* waitForSpace returned false: end on stopFlag, else try again.
NoSpace ==
  /\ Up /\ mpc = "space"
  /\ mpc' = IF stopFlag THEN "done" ELSE "top"
  /\ UNCHANGED <<flags, ssl, users, cpc, readerVars, writerVars, upc, fault>>

\* mixerMtx is taken and the iteration over users begins.
MixBegin ==
  /\ Up /\ mpc = "space"
  /\ mpc' = "mix"
  /\ UNCHANGED <<flags, ssl, users, cpc, readerVars, writerVars, upc, fault>>

\* Every buffer was popped; the frame goes to readBuffer (LockFreeRingBuffer).
MixEnd ==
  /\ Up /\ mpc = "mix"
  /\ mpc' = "top"
  /\ UNCHANGED <<flags, ssl, users, cpc, readerVars, writerVars, upc, fault>>

-----------------------------------------------------------------------------
(* main: stopTransmission() and the end of the process *)

\* if (running): without a connection the call does nothing.
Stop ==
  /\ Up /\ upc = "run"
  /\ upc' = IF running THEN "clear" ELSE "stopped"
  /\ UNCHANGED <<flags, ssl, users, cpc, readerVars, writerVars, mpc, fault>>

StopClear ==
  /\ Up /\ upc = "clear"
  /\ running' = FALSE
  /\ upc' = "free"
  /\ UNCHANGED <<stopFlag, isReconect, ssl, users, cpc, readerVars, writerVars,
                 mpc, fault>>

\* wolfSSL_free(ssl) while the other threads still run.
StopFree ==
  /\ Up /\ upc = "free"
  /\ fault' \in (IF ssl = "freed" THEN {"none", "double"} ELSE {"none"})
  /\ ssl' = IF ssl = "null" THEN "null" ELSE "freed"
  /\ upc' = "stopped"
  /\ UNCHANGED <<flags, users, cpc, readerVars, writerVars, mpc>>

\* main returns: the destructor meets controlthread, which nobody joined.
Exit ==
  /\ Up /\ upc = "stopped"
  /\ fault' = "terminate"
  /\ UNCHANGED <<flags, ssl, users, cpc, readerVars, writerVars, mpc, upc>>

Dead == ~ Up /\ UNCHANGED vars

-----------------------------------------------------------------------------
Control == \/ New \/ LoopEnd \/ Connect \/ ConnectThrows
           \/ JoinRead \/ JoinWrite \/ JoinMixer \/ Free
Reader  == \/ ReaderTop \/ ReaderTimeout \/ ReaderQuits \/ ReadBegin
           \/ ReadNothing \/ ReadFails \/ Emplace \/ Decode \/ Push
           \/ \E t \in Talkers : ReadAudio(t)
Writer  == \/ WriterTop \/ RecordNothing \/ Record \/ WriterGivesUp
           \/ WriteBegin \/ WriteDone \/ WriteRetry \/ WriteFails
Mixer   == MixerTop \/ NoSpace \/ MixBegin \/ MixEnd
User    == Stop \/ StopClear \/ StopFree \/ Exit

Next == Control \/ Reader \/ Writer \/ Mixer \/ User \/ Dead

Spec == Init /\ [][Next]_vars

\* Every wait in the code is timed and the scheduler is fair to the threads;
\* the user need never stop.
FairSpec ==
  /\ Spec
  /\ WF_vars(Control)
  /\ WF_vars(Reader)
  /\ WF_vars(Writer)
  /\ WF_vars(Mixer)

-----------------------------------------------------------------------------
\* Every variable has the shape the code gives it.
TypeOK ==
  /\ running \in BOOLEAN /\ stopFlag \in BOOLEAN /\ isReconect \in BOOLEAN
  /\ ssl \in {"none", "null", "live", "freed"}
  /\ users \subseteq Talkers
  /\ cpc \in {"loop", "connect", "free", "ended"} \cup Joins
  /\ rpc \in {"off", "top", "wait", "read", "emplace", "decode", "push", "done"}
  /\ talker \in Talkers
  /\ wpc \in {"off", "top", "record", "send", "write", "done"}
  /\ sendSeq \in 0 .. MaxFrames
  /\ sent \subseteq 0 .. MaxFrames
  /\ writeFailed \in BOOLEAN
  /\ mpc \in {"off", "top", "space", "mix", "done"}
  /\ upc \in {"run", "clear", "free", "stopped"}
  /\ fault \in {"none", "terminate", "uaf", "double", "race"}

\* Without stopTransmission the session is neither used after it was freed
\* nor freed twice, over any number of reconnections.
SslSafeUntilStop == fault \in {"uaf", "double"} => upc # "run"

\* While the control thread makes or frees a session no thread of the last
\* connection is left.
OneConnection == cpc \notin Joins => Joined

\* stopFlag is set when everything is over.  The tests of stopFlag in
\* connect(), readData(), mixer() and waitForSpace() therefore never fire.
StopFlagLast == stopFlag => cpc = "ended" /\ Joined

\* A connection begins with an empty users table, so that no jitter buffer
\* of the last one judges its sequence numbers.
NoStaleUsers == cpc = "connect" => users = {}

\* The client gives up only if a write failed for good or the user stopped
\* it: a silent server is never a reason.
GivesUpForCause == stopFlag => writeFailed \/ upc # "run"

\* A frame is never sent twice, however often wolfSSL_write asks to retry.
SentOnce == wpc \in {"send", "write"} => sendSeq - 1 \notin sent

\* The packet being decoded belongs to a talker of the table, although the
\* control thread clears it: users[clientHash] never makes a null entry.
TalkerKnown == rpc \in {"decode", "push"} => talker \in users

\* Once running is cleared, by whomever, the connection is taken down.
TeardownCompletes == (cpc \in Joins /\ ~ running) ~> (cpc \notin Joins \/ ~ Up)

\* A server that went silent leads to another connection attempt.
TimeoutReconnects == (isReconect /\ cpc \in Joins) ~> (cpc = "connect" \/ ~ Up)
=============================================================================

---------------------------- MODULE JitterBuffer ----------------------------
(***************************************************************************)
(* The per-talker reordering buffer of the client (src/src/jitterbuffer.hpp).*)
(* readData() pushes a decoded frame under its wire sequence number,        *)
(* mixer() pops the oldest one.  Both methods run under one mutex, so each  *)
(* call is one step.                                                        *)
(*                                                                          *)
(* A std::map is a function from the sequence numbers it holds to frames;   *)
(* buffer.begin() is the entry with the smallest key.                       *)
(***************************************************************************)
EXTENDS Naturals, Sequences, FiniteSets

CONSTANTS
  SeqNums,      \* the sequence numbers that packets carry
  Frames,       \* decoded audio frames
  MinimalSize,  \* minimalSize: frames needed before playback starts (5)
  MaxSize       \* maxSize: frames kept at most (32)

ASSUME SizeAssumption ==
  /\ SeqNums \subseteq Nat
  /\ MinimalSize \in Nat \ {0}
  /\ MaxSize \in Nat
  /\ MinimalSize <= MaxSize

VARIABLES
  sequence,  \* frames below this number are too late
  buffer,    \* frames waiting to be played, by sequence number
  primed,    \* playback is under way
  offered,   \* history: every <<sequence number, frame>> ever pushed
  played     \* history: the <<sequence number, frame>> pairs pop returned

vars == <<sequence, buffer, primed, offered, played>>

Size(b) == Cardinality(DOMAIN b)

\* std::map::try_emplace: an entry that exists is kept as it is.
TryEmplace(b, k, f) ==
  IF k \in DOMAIN b
  THEN b
  ELSE [x \in DOMAIN b \cup {k} |-> IF x = k THEN f ELSE b[x]]

Erase(b, k) == [x \in DOMAIN b \ {k} |-> b[x]]

IsBegin(b, k) == k \in DOMAIN b /\ \A x \in DOMAIN b : k <= x

-----------------------------------------------------------------------------
\* Slips that would be plausible in this class; each is put in the place of
\* the action it is named after to see that a property notices.
PushRoomOneMore(k, f) ==         \* "buffer.size() > maxSize"
  /\ sequence <= k
  /\ Size(buffer) <= MaxSize
  /\ buffer' = TryEmplace(buffer, k, f)
  /\ primed' = (primed \/ Size(buffer') >= MinimalSize)
  /\ offered' = offered \cup {<<k, f>>}
  /\ UNCHANGED <<sequence, played>>

PushRoomPrimesLate(k, f) ==      \* "buffer.size() > minimalSize"
  /\ sequence <= k
  /\ Size(buffer) < MaxSize
  /\ buffer' = TryEmplace(buffer, k, f)
  /\ primed' = (primed \/ Size(buffer') > MinimalSize)
  /\ offered' = offered \cup {<<k, f>>}
  /\ UNCHANGED <<sequence, played>>

PushRoomMovedFrom(k, f) ==       \* the frame was moved from before it is stored
  /\ sequence <= k
  /\ Size(buffer) < MaxSize
  /\ buffer' = TryEmplace(buffer, k, "moved-from")
  /\ primed' = (primed \/ Size(buffer') >= MinimalSize)
  /\ offered' = offered \cup {<<k, f>>}
  /\ UNCHANGED <<sequence, played>>

PushFullEarly(k, f) ==           \* evicts at minimalSize instead of maxSize
  /\ sequence <= k
  /\ Size(buffer) >= MinimalSize
  /\ \E b \in DOMAIN buffer :
        /\ IsBegin(buffer, b)
        /\ buffer' = TryEmplace(Erase(buffer, b), k, f)
  /\ offered' = offered \cup {<<k, f>>}
  /\ UNCHANGED <<sequence, primed, played>>

PopFrameNoIncrement ==           \* without "++sequence"
  /\ primed
  /\ \E k \in DOMAIN buffer :
        /\ IsBegin(buffer, k)
        /\ buffer' = Erase(buffer, k)
        /\ sequence' = k
        /\ played' = Append(played, <<k, buffer[k]>>)
  /\ UNCHANGED <<primed, offered>>

PopFrameSkips ==                 \* "sequence += maxSize"
  /\ primed
  /\ \E k \in DOMAIN buffer :
        /\ IsBegin(buffer, k)
        /\ buffer' = Erase(buffer, k)
        /\ sequence' = k + MaxSize
        /\ played' = Append(played, <<k, buffer[k]>>)
  /\ UNCHANGED <<primed, offered>>

PopFrameAnyOrder ==              \* an unordered_map in place of the map
  /\ primed
  /\ \E k \in DOMAIN buffer :
        /\ buffer' = Erase(buffer, k)
        /\ sequence' = k + 1
        /\ played' = Append(played, <<k, buffer[k]>>)
  /\ UNCHANGED <<primed, offered>>

PopFrameInTurn ==                \* waits for the frame that is next in turn
  /\ primed
  /\ sequence \in DOMAIN buffer
  /\ buffer' = Erase(buffer, sequence)
  /\ sequence' = sequence + 1
  /\ played' = Append(played, <<sequence, buffer[sequence]>>)
  /\ UNCHANGED <<primed, offered>>

PopFrameUnprimes ==              \* every pop asks for minimalSize frames again
  /\ primed
  /\ \E k \in DOMAIN buffer :
        /\ IsBegin(buffer, k)
        /\ buffer' = Erase(buffer, k)
        /\ sequence' = k + 1
        /\ played' = Append(played, <<k, buffer[k]>>)
  /\ primed' = FALSE
  /\ UNCHANGED offered

-----------------------------------------------------------------------------
\* JitterBuffer(startSequence): made for the first packet of a talker.
Init ==
  /\ sequence \in SeqNums
  /\ buffer = [x \in {} |-> 0]
  /\ primed = FALSE
  /\ offered = {}
  /\ played = << >>

\* push of a frame whose turn has passed: dropped.
PushLate(k, f) ==
  /\ sequence > k
  /\ offered' = offered \cup {<<k, f>>}
  /\ UNCHANGED <<sequence, buffer, primed, played>>

\* push into a full buffer: the oldest frame makes room, even when k is
\* already there and nothing is added.
PushFull(k, f) ==
  /\ sequence <= k
  /\ Size(buffer) >= MaxSize
  /\ \E b \in DOMAIN buffer :
        /\ IsBegin(buffer, b)
        /\ buffer' = TryEmplace(Erase(buffer, b), k, f)
  /\ offered' = offered \cup {<<k, f>>}
  /\ UNCHANGED <<sequence, primed, played>>

\* push with room left; reaching minimalSize frames starts playback.
PushRoom(k, f) ==
  /\ sequence <= k
  /\ Size(buffer) < MaxSize
  /\ buffer' = TryEmplace(buffer, k, f)
  /\ primed' = (primed \/ Size(buffer') >= MinimalSize)
  /\ offered' = offered \cup {<<k, f>>}
  /\ UNCHANGED <<sequence, played>>

Push(k, f) == PushLate(k, f) \/ PushFull(k, f) \/ PushRoom(k, f)

\* pop of a buffer that ran dry: playback stops until it is primed again.
PopEmpty ==
  /\ primed
  /\ DOMAIN buffer = {}
  /\ primed' = FALSE
  /\ UNCHANGED <<sequence, buffer, offered, played>>

\* pop returns the oldest frame; anything up to it is late from now on.
\* (A pop that is not primed returns false and changes nothing.)
PopFrame ==
  /\ primed
  /\ \E k \in DOMAIN buffer :
        /\ IsBegin(buffer, k)
        /\ buffer' = Erase(buffer, k)
        /\ sequence' = k + 1
        /\ played' = Append(played, <<k, buffer[k]>>)
  /\ UNCHANGED <<primed, offered>>

Pop == PopEmpty \/ PopFrame

Next == Pop \/ \E k \in SeqNums, f \in Frames : Push(k, f)

\* mixer() calls pop for every talker on every round of its loop.
Spec == Init /\ [][Next]_vars
FairSpec == Spec /\ WF_vars(Pop)

-----------------------------------------------------------------------------
\* Every variable has the shape the class gives it.
TypeOK ==
  /\ sequence \in Nat
  /\ DOMAIN buffer \subseteq SeqNums
  /\ IsFiniteSet(DOMAIN buffer)
  /\ buffer \in [DOMAIN buffer -> Frames]
  /\ primed \in BOOLEAN
  /\ offered \subseteq SeqNums \X Frames
  /\ played \in Seq(SeqNums \X Frames)

\* The mixer hears a talker's frames in strictly increasing sequence order:
\* never a frame twice, never one from before a frame already played.
PlayedInOrder ==
  \A i, j \in 1 .. Len(played) : i < j => played[i][1] < played[j][1]

\* push never lets the map outgrow maxSize.
Bounded == Size(buffer) <= MaxSize

\* Playback is never withheld from a buffer that holds minimalSize frames,
\* although the overflow path of push does not set primed.
EnoughMeansPrimed == Size(buffer) >= MinimalSize => primed

\* A step of push loses at most one waiting frame, the oldest, and only when
\* the buffer is at maxSize; otherwise frames leave only by being played.
LossOnlyWhenFull ==
  [][\A k \in DOMAIN buffer \ DOMAIN buffer' :
        /\ IsBegin(buffer, k)
        /\ played' = played => Size(buffer) = MaxSize]_vars

\* Once playback is under way every waiting frame leaves the buffer, played
\* or pushed out, as long as the mixer keeps popping.
WaitingFramesLeave ==
  \A k \in SeqNums : (primed /\ k \in DOMAIN buffer) ~> (k \notin DOMAIN buffer)

-----------------------------------------------------------------------------
\* Why playback stays in order: whatever order packets arrive in and whatever
\* is evicted, pop has not yet passed any frame that waits, has passed every
\* frame it returned, and the frames that wait were really pushed.
NothingLateWaits ==
  /\ \A k \in DOMAIN buffer : sequence <= k /\ <<k, buffer[k]>> \in offered
  /\ \A i \in 1 .. Len(played) : played[i][1] < sequence

-----------------------------------------------------------------------------
\* What the mixer is promised: frames that were pushed, in order.
Playout == INSTANCE InOrderPlayout WITH offered <- offered, played <- played

\* The buffer implements that promise: every pop plays a frame that readData
\* pushed, after every frame played before it.
PlayoutSpec == Playout!Spec

=============================================================================

------------------------------- MODULE Server -------------------------------
(***************************************************************************)
(* The voice server (src/src/server.cpp): the session table, the channel    *)
(* index and the two threads that share them.                               *)
(*                                                                          *)
(*   mainUdpServer   receives a datagram, takes delAndAt, finds or makes    *)
(*                   the sender's session and lets it process the datagram; *)
(*   freeAfkClient   scans sessionsHash WITHOUT the lock for sessions that  *)
(*                   were idle for SERVER_TIME_OUT seconds, then frees them *)
(*                   one by one under the lock, then sleeps.                *)
(*                                                                          *)
(* A client is known by the hash of its address.  The vectors sessionsHash  *)
(* and usersInChannels[c] are kept as the number of times each hash occurs  *)
(* in them: order never matters, a duplicate would.  What wolfSSL makes of  *)
(* a datagram is a free choice among the results the code tells apart.      *)
(*                                                                          *)
(* The scan's data races are undefined behaviour: each one either does no   *)
(* harm or takes the server down, which fault records.                      *)
(***************************************************************************)
EXTENDS Naturals, FiniteSets

CONSTANTS
  Hashes,      \* address hashes of clients
  Channels,    \* channel numbers (0 .. 255)
  NoChannel,   \* the channel of a session that has not said its name yet
  Timeout      \* SERVER_TIME_OUT, in seconds

ASSUME ServerAssumption ==
  /\ NoChannel \notin Channels
  /\ Timeout \in Nat \ {0}

VARIABLES
  sessions,         \* the live SessionData objects, by hash
  sessionsHash,     \* occurrences of each hash in the vector
  usersInChannels,  \* per channel, occurrences of each hash
  mainPc,           \* where mainUdpServer is
  mainHash,         \* the sender of the datagram it handles
  afkPc,            \* where freeAfkClient is
  toScan,           \* hashes its scan has still to visit
  forDelete,        \* hashSessionsForDelete, entries not erased yet
  dangling,         \* the vector moved under the running scan
  sleepLeft,        \* seconds until freeAfkClient wakes up
  fault             \* why the process died, or "none"

vars == <<sessions, sessionsHash, usersInChannels, mainPc, mainHash, afkPc,
          toScan, forDelete, dangling, sleepLeft, fault>>

mainVars == <<mainPc, mainHash>>
afkVars  == <<afkPc, toScan, forDelete, dangling, sleepLeft>>
tables   == <<sessions, sessionsHash, usersInChannels>>

\* username.has_value() and channel are set together: channel # NoChannel.
\* idle is lastUse(), counted up to Timeout; expired is history: this
\* session has been idle for Timeout seconds at some time of its life.
Session == [handshake_done : BOOLEAN,
            channel        : Channels \cup {NoChannel},
            idle           : 0 .. Timeout,
            expired        : BOOLEAN]

NewSession == [handshake_done |-> FALSE, channel |-> NoChannel,
               idle |-> 0, expired |-> FALSE]

Up == fault = "none"

\* delAndAt is held from the lookup to the end of processIncoming.
DelAndAtFree == mainPc = "recv"

\* The users a frame of a session in channel c is relayed to.
Recipients(c, h) == {u \in Hashes \ {h} : usersInChannels[c][u] > 0}

-----------------------------------------------------------------------------
(* Slips that would be plausible in this file; each is put in the place of *)
(* the action it is named after to see that a property notices.            *)

ReceivePushesAlways(h) ==      \* push_back moved out of the else branch
  /\ Up /\ mainPc = "recv"
  /\ mainHash' = h
  /\ mainPc' = IF h \in DOMAIN sessions THEN "push" ELSE "insert"
  /\ UNCHANGED <<tables, afkVars, fault>>

ProcessAudioUnchecked(c) ==    \* data accepted before the handshake is done
  /\ Up /\ mainPc = "process"
  /\ sessions' = [sessions EXCEPT ![mainHash].channel = c, ![mainHash].idle = 0]
  /\ sessions[mainHash].channel = NoChannel
  /\ usersInChannels' = [usersInChannels EXCEPT ![c][mainHash] = @ + 1]
  /\ mainPc' = "recv"
  /\ UNCHANGED <<sessionsHash, mainHash, afkVars, fault>>

ScanOneEarly(h) ==             \* idle one second too few
  /\ Up /\ afkPc = "scan" /\ h \in toScan
  /\ toScan' = toScan \ {h}
  /\ forDelete' = IF sessions[h].idle >= Timeout - 1
                  THEN forDelete \cup {h} ELSE forDelete
  /\ UNCHANGED <<tables, mainVars, afkPc, dangling, sleepLeft, fault>>

ScanEndClears ==               \* the list is cleared before it is used
  /\ Up /\ afkPc = "scan" /\ toScan = {}
  /\ afkPc' = "delete"
  /\ forDelete' = {}
  /\ UNCHANGED <<tables, mainVars, toScan, dangling, sleepLeft, fault>>

DestroyKeepsHash(h) ==         \* sessionsHash is forgotten
  /\ usersInChannels' =
       [c \in Channels |-> [usersInChannels[c] EXCEPT ![h] = 0]]
  /\ UNCHANGED sessionsHash

DestroyKeepsChannel(h) ==      \* usersInChannels is forgotten
  /\ sessionsHash' = [sessionsHash EXCEPT ![h] = 0]
  /\ UNCHANGED usersInChannels

-----------------------------------------------------------------------------
Init ==
  /\ sessions = [h \in {} |-> NewSession]
  /\ sessionsHash = [h \in Hashes |-> 0]
  /\ usersInChannels = [c \in Channels |-> [h \in Hashes |-> 0]]
  /\ mainPc = "recv"
  /\ mainHash \in Hashes
  /\ afkPc = "sleep"
  /\ toScan = {}
  /\ forDelete = {}
  /\ dangling = FALSE
  /\ sleepLeft = 0
  /\ fault = "none"

-----------------------------------------------------------------------------
(* mainUdpServer *)

\* recvfrom returned a datagram of h; sessions.count(h) decides the branch.
Receive(h) ==
  /\ Up /\ mainPc = "recv"
  /\ mainHash' = h
  /\ mainPc' = IF h \in DOMAIN sessions THEN "process" ELSE "insert"
  /\ UNCHANGED <<tables, afkVars, fault>>

\* sessions.insert({h, make_unique<SessionData>(...)}).
Insert ==
  /\ Up /\ mainPc = "insert"
  /\ sessions' = [x \in DOMAIN sessions \cup {mainHash} |->
                    IF x = mainHash THEN NewSession ELSE sessions[x]]
  /\ mainPc' = "push"
  /\ UNCHANGED <<sessionsHash, usersInChannels, mainHash, afkVars, fault>>

\* wolfSSL_new failed: the constructor's exception leaves the thread.
InsertThrows ==
  /\ Up /\ mainPc = "insert"
  /\ fault' = "throw"
  /\ UNCHANGED <<tables, mainVars, afkVars>>

\* sessionsHash.push_back(h).  Whether size() = capacity(), so that the
\* elements move, is left open.
PushBack ==
  /\ Up /\ mainPc = "push"
  /\ sessionsHash' = [sessionsHash EXCEPT ![mainHash] = @ + 1]
  /\ \E moved \in BOOLEAN : dangling' = (dangling \/ (moved /\ afkPc = "scan"))
  /\ mainPc' = "process"
  /\ UNCHANGED <<sessions, usersInChannels, mainHash, afkPc, toScan, forDelete,
                 sleepLeft, fault>>

\* processIncoming when nothing comes of the datagram: the injection or the
\* read fails, the handshake wants more, the record has another size or the
\* peer closed.  The result is ignored, last_used is not touched.
ProcessNothing ==
  /\ Up /\ mainPc = "process"
  /\ mainPc' = "recv"
  /\ UNCHANGED <<tables, mainHash, afkVars, fault>>

\* wolfSSL_accept succeeded.  The function returns before updateLastUsed().
ProcessAccept ==
  /\ Up /\ mainPc = "process"
  /\ ~ sessions[mainHash].handshake_done
  /\ sessions' = [sessions EXCEPT ![mainHash].handshake_done = TRUE]
  /\ mainPc' = "recv"
  /\ UNCHANGED <<sessionsHash, usersInChannels, mainHash, afkVars, fault>>

\* A whole networkDataAudio for channel c.  The first one names the user and
\* enters it in its channel; each one is relayed and refreshes last_used.
\* users[u].get() of a hash without a session would be a null pointer.
ProcessAudio(c) ==
  /\ Up /\ mainPc = "process"
  /\ sessions[mainHash].handshake_done
  /\ LET first == sessions[mainHash].channel = NoChannel
         chan  == IF first THEN c ELSE sessions[mainHash].channel
     IN  /\ sessions' = [sessions EXCEPT ![mainHash].channel = chan,
                                         ![mainHash].idle = 0]
         /\ usersInChannels' =
              IF first THEN [usersInChannels EXCEPT ![c][mainHash] = @ + 1]
                       ELSE usersInChannels
         /\ fault' = IF Recipients(chan, mainHash) \subseteq DOMAIN sessions
                     THEN "none" ELSE "null"
  /\ mainPc' = "recv"
  /\ UNCHANGED <<sessionsHash, mainHash, afkVars>>

-----------------------------------------------------------------------------
(* freeAfkClient *)

\* The sleep is over; the range-for takes its iterators.
ScanStart ==
  /\ Up /\ afkPc = "sleep" /\ sleepLeft = 0
  /\ afkPc' = "scan"
  /\ toScan' = {h \in Hashes : sessionsHash[h] > 0}
  /\ dangling' = FALSE
  /\ UNCHANGED <<tables, mainVars, forDelete, sleepLeft, fault>>

\* One turn of the scan: sessions[h].get()->lastUse() >= SERVER_TIME_OUT.
\* sessions[h] of an unknown hash would insert a null pointer.
ScanOne(h) ==
  /\ Up /\ afkPc = "scan" /\ h \in toScan
  /\ toScan' = toScan \ {h}
  /\ IF h \in DOMAIN sessions
     THEN /\ forDelete' = IF sessions[h].idle >= Timeout
                          THEN forDelete \cup {h} ELSE forDelete
          /\ UNCHANGED fault
     ELSE /\ fault' = "null"
          /\ UNCHANGED forDelete
  /\ UNCHANGED <<tables, mainVars, afkPc, dangling, sleepLeft>>

\* The scan reads the vector or the map while mainUdpServer changes it, or
\* goes on in memory the vector has left, and it goes wrong.
ScanRaces ==
  /\ Up
  /\ \/ afkPc = "sleep" /\ sleepLeft = 0 /\ mainPc = "push"
     \/ afkPc = "scan" /\ toScan # {} /\ (dangling \/ mainPc = "insert")
  /\ fault' = "race"
  /\ UNCHANGED <<tables, mainVars, afkVars>>

ScanEnd ==
  /\ Up /\ afkPc = "scan" /\ toScan = {}
  /\ afkPc' = "delete"
  /\ UNCHANGED <<tables, mainVars, toScan, forDelete, dangling, sleepLeft, fault>>

\* ~SessionData takes h out of its channel and out of sessionsHash.
Destroy(h) ==
  /\ usersInChannels' =
       [c \in Channels |-> IF sessions[h].channel = c
                           THEN [usersInChannels[c] EXCEPT ![h] = 0]
                           ELSE usersInChannels[c]]
  /\ sessionsHash' = [sessionsHash EXCEPT ![h] = 0]

\* sessions.erase(h) under delAndAt, without looking at lastUse() again.
Delete(h) ==
  /\ Up /\ afkPc = "delete" /\ h \in forDelete
  /\ DelAndAtFree
  /\ forDelete' = forDelete \ {h}
  /\ Destroy(h)
  /\ sessions' = [x \in DOMAIN sessions \ {h} |-> sessions[x]]
  /\ UNCHANGED <<mainVars, afkPc, toScan, dangling, sleepLeft, fault>>

Sleep ==
  /\ Up /\ afkPc = "delete" /\ forDelete = {}
  /\ afkPc' = "sleep"
  /\ sleepLeft' = Timeout
  /\ UNCHANGED <<tables, mainVars, toScan, forDelete, dangling, fault>>

-----------------------------------------------------------------------------
\* steady_clock advances by a second.
Tick ==
  /\ Up
  /\ sessions' = [h \in DOMAIN sessions |->
        LET s == sessions[h]
            i == IF s.idle < Timeout THEN s.idle + 1 ELSE Timeout
        IN  [s EXCEPT !.idle = i, !.expired = @ \/ i = Timeout]]
  /\ sleepLeft' = IF sleepLeft > 0 THEN sleepLeft - 1 ELSE 0
  /\ UNCHANGED <<sessionsHash, usersInChannels, mainVars, afkPc, toScan,
                 forDelete, dangling, fault>>

\* A process that died stays dead.
Dead == ~ Up /\ UNCHANGED vars

Process == ProcessNothing \/ ProcessAccept \/ \E c \in Channels : ProcessAudio(c)

MainLocked == Insert \/ InsertThrows \/ PushBack \/ Process
Main == MainLocked \/ \E h \in Hashes : Receive(h)

Scan == ScanStart \/ ScanRaces \/ ScanEnd \/ Sleep \/ \E h \in Hashes : ScanOne(h)
Reap == \E h \in Hashes : Delete(h)

Next == Main \/ Scan \/ Reap \/ Tick \/ Dead

Spec == Init /\ [][Next]_vars

\* The clock runs, a thread that is not waiting for a packet or for the lock
\* goes on, and the lock does not starve freeAfkClient for ever.
FairSpec ==
  /\ Spec
  /\ WF_vars(Tick)
  /\ WF_vars(MainLocked)
  /\ WF_vars(Scan)
  /\ SF_vars(Reap)

-----------------------------------------------------------------------------
Pcs == {"recv", "insert", "push", "process"}
Faults == {"none", "throw", "race", "null"}

\* Every variable has the shape the code gives it.
TypeOK ==
  /\ DOMAIN sessions \subseteq Hashes
  /\ sessions \in [DOMAIN sessions -> Session]
  /\ sessionsHash \in [Hashes -> Nat]
  /\ usersInChannels \in [Channels -> [Hashes -> Nat]]
  /\ mainPc \in Pcs
  /\ mainHash \in Hashes
  /\ afkPc \in {"sleep", "scan", "delete"}
  /\ toScan \subseteq Hashes
  /\ forDelete \subseteq Hashes
  /\ dangling \in BOOLEAN
  /\ sleepLeft \in 0 .. Timeout
  /\ fault \in Faults

\* sessions and sessionsHash list the same clients, each once, except for
\* the client that is being registered between insert and push_back.
RegistryAgrees ==
  \A h \in Hashes :
    sessionsHash[h] = IF h \in DOMAIN sessions /\ ~ (mainPc = "push" /\ h = mainHash)
                      THEN 1 ELSE 0

\* usersInChannels lists exactly the live sessions that named a channel,
\* each once and under that channel only: also after a session was freed and
\* the same address came back.
ChannelIndexAgrees ==
  \A c \in Channels, h \in Hashes :
    usersInChannels[c][h] =
      IF h \in DOMAIN sessions /\ sessions[h].channel = c THEN 1 ELSE 0

\* Whoever a frame is relayed to is a live session of the same channel that
\* has finished its DTLS handshake.
RelayTargetsLive ==
  \A h \in DOMAIN sessions :
    sessions[h].channel # NoChannel =>
      \A u \in Recipients(sessions[h].channel, h) :
        /\ u \in DOMAIN sessions
        /\ sessions[u].handshake_done
        /\ sessions[u].channel = sessions[h].channel

\* No thread ever dereferences the null pointer that operator[] of the
\* session map would create for an unknown hash.
NoNullSession == fault # "null"

\* freeAfkClient never frees a session that was never idle for Timeout
\* seconds.  (It may free one that has just become active again: the
\* decision is made by the scan and not repeated under the lock.)
NoFreshVictim ==
  \A h \in forDelete : h \in DOMAIN sessions /\ sessions[h].expired

\* The server implements ChannelRoom: a frame is relayed along a channel's
\* list, and whatever the two threads do to the tables in between, that list
\* changes only by a client's first frame and by the freeing of one that had
\* been silent.
Room == INSTANCE ChannelRoom WITH
  room <- [c \in Channels |-> {h \in Hashes : usersInChannels[c][h] > 0}],
  silent <- {h \in DOMAIN sessions : sessions[h].expired}

RoomSpec == Room!Spec

\* A session whose client went silent is freed, unless it speaks again.
SilentSessionsFreed ==
  \A h \in Hashes :
    (h \in DOMAIN sessions /\ sessions[h].idle = Timeout)
      ~> (h \notin DOMAIN sessions \/ sessions[h].idle < Timeout \/ ~ Up)
=============================================================================

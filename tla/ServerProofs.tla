---------------------------- MODULE ServerProofs ----------------------------
(***************************************************************************)
(* The server's table invariants, for every set of clients and channels and *)
(* every timeout.                                                           *)
(***************************************************************************)
EXTENDS Server, TLAPS

(***************************************************************************)
(* The table invariants are not inductive alone: they depend on where the   *)
(* two threads are.  mainUdpServer works on a session that exists from      *)
(* "push" on and not before; only freeAfkClient removes sessions, and it    *)
(* does so when its scan has nothing left to visit, so what the scan has    *)
(* still to visit, and what it chose to free, exists.                       *)
(***************************************************************************)
ThreadsAgree ==
  /\ mainPc \in {"push", "process"} => mainHash \in DOMAIN sessions
  /\ mainPc = "insert" => mainHash \notin DOMAIN sessions
  /\ afkPc # "scan" => toScan = {}
  /\ toScan \subseteq DOMAIN sessions

SessionsSound ==
  \A h \in DOMAIN sessions :
    /\ sessions[h].channel # NoChannel => sessions[h].handshake_done
    /\ sessions[h].idle >= Timeout => sessions[h].expired

IInv ==
  /\ TypeOK
  /\ ThreadsAgree
  /\ SessionsSound
  /\ RegistryAgrees
  /\ ChannelIndexAgrees
  /\ NoFreshVictim
  /\ NoNullSession

\* A server that has just started satisfies the inductive invariant.
LEMMA InitInv == Init => IInv
<1> SUFFICES ASSUME Init PROVE IInv
  OBVIOUS
<1>1. DOMAIN sessions = {}
  BY DEF Init
<1>a. sessions \in [DOMAIN sessions -> Session]
  BY <1>1 DEF Init
<1>b. /\ sessionsHash \in [Hashes -> Nat]
      /\ usersInChannels \in [Channels -> [Hashes -> Nat]]
  BY DEF Init
<1>c. sleepLeft \in 0 .. Timeout
  BY ServerAssumption DEF Init
<1>2. TypeOK
  BY <1>1, <1>a, <1>b, <1>c DEF Init, TypeOK, Pcs, Faults
<1>3. ThreadsAgree /\ SessionsSound /\ NoFreshVictim /\ NoNullSession
  BY <1>1 DEF Init, ThreadsAgree, SessionsSound, NoFreshVictim, NoNullSession
<1>4. RegistryAgrees /\ ChannelIndexAgrees
  BY <1>1 DEF Init, RegistryAgrees, ChannelIndexAgrees
<1> QED
  BY <1>2, <1>3, <1>4 DEF IInv

\* Registering a client: the receive, the insert and the push_back.
LEMMA RegisterInv ==
  ASSUME IInv,
         \/ \E h \in Hashes : Receive(h)
         \/ Insert
         \/ InsertThrows
         \/ PushBack
  PROVE  IInv'
<1> USE DEF tables, mainVars, afkVars
<1>1. ASSUME NEW h \in Hashes, Receive(h)
      PROVE  IInv'
  <2>1. TypeOK' /\ ThreadsAgree'
    BY <1>1 DEF Receive, IInv, TypeOK, ThreadsAgree, Pcs
  <2> QED
    BY <1>1, <2>1 DEF Receive, IInv, SessionsSound, RegistryAgrees,
         ChannelIndexAgrees, NoFreshVictim, NoNullSession
<1>2. CASE Insert
  <2>1. /\ DOMAIN sessions' = DOMAIN sessions \cup {mainHash}
        /\ sessions'[mainHash] = NewSession
        /\ \A x \in DOMAIN sessions : x # mainHash /\ sessions'[x] = sessions[x]
    BY <1>2 DEF Insert, IInv, ThreadsAgree
  <2>2. /\ NewSession \in Session
        /\ NewSession.channel = NoChannel /\ NewSession.idle = 0
    BY ServerAssumption DEF NewSession, Session
  <2>3. sessions' \in [DOMAIN sessions' -> Session]
    BY <1>2, <2>1, <2>2 DEF Insert, IInv, TypeOK
  <2>4. TypeOK'
    BY <1>2, <2>1, <2>3 DEF Insert, IInv, TypeOK, Pcs
  <2>5. ThreadsAgree' /\ NoFreshVictim' /\ NoNullSession'
    BY <1>2, <2>1 DEF Insert, IInv, ThreadsAgree, NoFreshVictim, NoNullSession
  <2>6. SessionsSound'
    BY <2>1, <2>2, ServerAssumption DEF IInv, SessionsSound
  <2>7. RegistryAgrees'
    BY <1>2, <2>1 DEF Insert, IInv, TypeOK, ThreadsAgree, RegistryAgrees
  <2>8. ChannelIndexAgrees'
    BY <1>2, <2>1, <2>2, ServerAssumption DEF Insert, IInv, ThreadsAgree,
         ChannelIndexAgrees
  <2> QED
    BY <2>4, <2>5, <2>6, <2>7, <2>8 DEF IInv
<1>3. CASE InsertThrows
  BY <1>3 DEF InsertThrows, IInv, TypeOK, ThreadsAgree, SessionsSound, RegistryAgrees,
       ChannelIndexAgrees, NoFreshVictim, NoNullSession, Faults
<1>4. CASE PushBack
  <2>1. TypeOK'
    BY <1>4 DEF PushBack, IInv, TypeOK, Pcs
  <2>2. ThreadsAgree' /\ SessionsSound' /\ ChannelIndexAgrees' /\ NoFreshVictim'
        /\ NoNullSession'
    BY <1>4 DEF PushBack, IInv, ThreadsAgree, SessionsSound, ChannelIndexAgrees,
         NoFreshVictim, NoNullSession
  <2>3. RegistryAgrees'
    BY <1>4 DEF PushBack, IInv, TypeOK, ThreadsAgree, RegistryAgrees
  <2> QED
    BY <2>1, <2>2, <2>3 DEF IInv
<1> QED
  BY <1>1, <1>2, <1>3, <1>4

\* A session that named a channel and was just used is a session.
LEMMA RefreshedSession ==
  ASSUME NEW s \in Session, NEW c \in Channels
  PROVE  [s EXCEPT !.channel = c, !.idle = 0] \in Session
<1>1. 0 \in 0 .. Timeout
  BY ServerAssumption
<1> QED
  BY <1>1 DEF Session

\* processIncoming, with each of its outcomes.
LEMMA ProcessInv ==
  ASSUME IInv, Process
  PROVE  IInv'
<1> USE DEF tables, mainVars, afkVars
<1>h. mainPc = "process" /\ mainHash \in DOMAIN sessions /\ mainHash \in Hashes
  BY DEF Process, ProcessNothing, ProcessAccept, ProcessAudio, IInv, ThreadsAgree,
         TypeOK
<1>1. CASE ProcessNothing
  BY <1>1 DEF ProcessNothing, IInv, TypeOK, ThreadsAgree, SessionsSound,
       RegistryAgrees, ChannelIndexAgrees, NoFreshVictim, NoNullSession, Pcs
<1>2. CASE ProcessAccept
  <2>1. /\ DOMAIN sessions' = DOMAIN sessions
        /\ sessions' \in [DOMAIN sessions -> Session]
    BY <1>2, <1>h DEF ProcessAccept, IInv, TypeOK, Session
  <2>2. \A x \in DOMAIN sessions :
          /\ sessions'[x].channel = sessions[x].channel
          /\ sessions'[x].idle = sessions[x].idle
          /\ sessions'[x].expired = sessions[x].expired
          /\ sessions[x].handshake_done => sessions'[x].handshake_done
    BY <1>2, <1>h DEF ProcessAccept, IInv, TypeOK, Session
  <2>3. TypeOK'
    BY <1>2, <2>1 DEF ProcessAccept, IInv, TypeOK, Pcs
  <2>4. ThreadsAgree' /\ SessionsSound' /\ NoFreshVictim' /\ NoNullSession'
    BY <1>2, <2>1, <2>2 DEF ProcessAccept, IInv, ThreadsAgree, SessionsSound,
         NoFreshVictim, NoNullSession
  <2>5. RegistryAgrees' /\ ChannelIndexAgrees'
    BY <1>2, <2>1, <2>2 DEF ProcessAccept, IInv, RegistryAgrees, ChannelIndexAgrees
  <2> QED
    BY <2>3, <2>4, <2>5 DEF IInv
<1>3. ASSUME NEW c \in Channels, ProcessAudio(c)
      PROVE  IInv'
  <2> DEFINE first == sessions[mainHash].channel = NoChannel
             chan  == IF first THEN c ELSE sessions[mainHash].channel
  <2>1. chan \in Channels /\ sessions[mainHash] \in Session
    BY <1>h DEF IInv, TypeOK, Session
  <2>2. /\ DOMAIN sessions' = DOMAIN sessions
        /\ sessions' \in [DOMAIN sessions -> Session]
    <3> DEFINE new == [sessions[mainHash] EXCEPT !.channel = chan, !.idle = 0]
    <3>1. sessions' = [sessions EXCEPT ![mainHash] = new]
      BY <1>3, <1>h DEF ProcessAudio
    <3>2. new \in Session
      <4> HIDE DEF chan
      <4> QED
        BY <2>1, RefreshedSession
    <3> HIDE DEF new
    <3> QED
      BY <3>1, <3>2 DEF IInv, TypeOK
  <2>3. /\ sessions'[mainHash].channel = chan
        /\ sessions'[mainHash].idle = 0
        /\ sessions'[mainHash].handshake_done
        /\ sessions'[mainHash].expired = sessions[mainHash].expired
        /\ \A x \in DOMAIN sessions \ {mainHash} : sessions'[x] = sessions[x]
    BY <1>3, <1>h, <2>1 DEF ProcessAudio, IInv, TypeOK, Session
  <2>4. usersInChannels' = IF first
                           THEN [usersInChannels EXCEPT ![c][mainHash] = @ + 1]
                           ELSE usersInChannels
    BY <1>3 DEF ProcessAudio
  <2>5. usersInChannels' \in [Channels -> [Hashes -> Nat]]
    BY <1>h, <2>4 DEF IInv, TypeOK
  <2>6. Recipients(chan, mainHash) \subseteq DOMAIN sessions
    BY <2>1 DEF Recipients, IInv, ChannelIndexAgrees
  <2>7. fault' = "none"
    BY <1>3, <2>6 DEF ProcessAudio
  <2>8. TypeOK'
    BY <1>3, <2>2, <2>5, <2>7 DEF ProcessAudio, IInv, TypeOK, Pcs, Faults
  <2>9. ThreadsAgree' /\ NoNullSession' /\ NoFreshVictim'
    BY <1>3, <1>h, <2>2, <2>3, <2>7 DEF ProcessAudio, IInv, ThreadsAgree, NoNullSession,
         NoFreshVictim
  <2>10. SessionsSound'
    <3> SUFFICES ASSUME NEW x \in DOMAIN sessions
                 PROVE  /\ sessions'[x].channel # NoChannel
                             => sessions'[x].handshake_done
                        /\ sessions'[x].idle >= Timeout => sessions'[x].expired
      BY <2>2 DEF SessionsSound
    <3>1. CASE x = mainHash
      BY <2>3, <3>1, ServerAssumption
    <3>2. CASE x # mainHash
      BY <2>3, <3>2 DEF IInv, SessionsSound
    <3> QED
      BY <3>1, <3>2
  <2>11. RegistryAgrees'
    BY <1>3, <1>h, <2>2 DEF ProcessAudio, IInv, RegistryAgrees
  <2>12. ChannelIndexAgrees'
    <3> SUFFICES ASSUME NEW d \in Channels, NEW x \in Hashes
                 PROVE  usersInChannels'[d][x] =
                          IF x \in DOMAIN sessions /\ sessions'[x].channel = d
                          THEN 1 ELSE 0
      BY <2>2 DEF ChannelIndexAgrees
    <3>1. usersInChannels[d][x] =
            IF x \in DOMAIN sessions /\ sessions[x].channel = d THEN 1 ELSE 0
      BY DEF IInv, ChannelIndexAgrees
    <3>2. CASE x # mainHash
      <4>1. usersInChannels'[d][x] = usersInChannels[d][x]
        BY <1>h, <2>4, <3>2 DEF IInv, TypeOK
      <4> QED
        BY <2>3, <3>1, <3>2, <4>1
    <3>3. CASE x = mainHash /\ ~ first
      BY <1>h, <2>3, <2>4, <3>1, <3>3
    <3>4. CASE x = mainHash /\ first
      <4>1. usersInChannels'[d][x] = IF d = c THEN usersInChannels[d][x] + 1
                                              ELSE usersInChannels[d][x]
        BY <1>h, <2>4, <3>4 DEF IInv, TypeOK
      <4>2. usersInChannels[d][x] = 0
        BY <3>1, <3>4, ServerAssumption
      <4> QED
        BY <1>h, <2>3, <3>4, <4>1, <4>2
    <3> QED
      BY <3>2, <3>3, <3>4
  <2> QED
    BY <2>8, <2>9, <2>10, <2>11, <2>12 DEF IInv
<1> QED
  BY <1>1, <1>2, <1>3 DEF Process

\* freeAfkClient's scan, which changes no table, and its sleep.
LEMMA ScanInv ==
  ASSUME IInv, Scan
  PROVE  IInv'
<1> USE DEF tables, mainVars, afkVars
<1>1. CASE ScanStart
  <2>1. {h \in Hashes : sessionsHash[h] > 0} \subseteq DOMAIN sessions
    BY DEF IInv, RegistryAgrees
  <2> QED
    BY <1>1, <2>1 DEF ScanStart, IInv, TypeOK, ThreadsAgree, SessionsSound,
         RegistryAgrees, ChannelIndexAgrees, NoFreshVictim, NoNullSession
<1>2. CASE ScanRaces
  BY <1>2 DEF ScanRaces, IInv, TypeOK, ThreadsAgree, SessionsSound, RegistryAgrees,
       ChannelIndexAgrees, NoFreshVictim, NoNullSession, Faults
<1>3. CASE ScanEnd
  BY <1>3 DEF ScanEnd, IInv, TypeOK, ThreadsAgree, SessionsSound, RegistryAgrees,
       ChannelIndexAgrees, NoFreshVictim, NoNullSession
<1>4. CASE Sleep
  <2>1. Timeout \in 0 .. Timeout
    BY ServerAssumption
  <2> QED
    BY <1>4, <2>1 DEF Sleep, IInv, TypeOK, ThreadsAgree, SessionsSound,
         RegistryAgrees, ChannelIndexAgrees, NoFreshVictim, NoNullSession
<1>5. ASSUME NEW h \in Hashes, ScanOne(h)
      PROVE  IInv'
  <2>1. h \in DOMAIN sessions
    BY <1>5 DEF ScanOne, IInv, ThreadsAgree
  <2>2. /\ forDelete' = IF sessions[h].idle >= Timeout
                        THEN forDelete \cup {h} ELSE forDelete
        /\ fault' = fault /\ toScan' = toScan \ {h}
    BY <1>5, <2>1 DEF ScanOne
  <2>3. NoFreshVictim'
    BY <1>5, <2>1, <2>2 DEF ScanOne, IInv, SessionsSound, NoFreshVictim
  <2>4. TypeOK' /\ ThreadsAgree'
    BY <1>5, <2>2 DEF ScanOne, IInv, TypeOK, ThreadsAgree
  <2> QED
    BY <1>5, <2>2, <2>3, <2>4 DEF ScanOne, IInv, SessionsSound, RegistryAgrees,
         ChannelIndexAgrees, NoNullSession
<1> QED
  BY <1>1, <1>2, <1>3, <1>4, <1>5 DEF Scan

\* Freeing a session: erase and ~SessionData.
LEMMA ReapInv ==
  ASSUME IInv, Reap
  PROVE  IInv'
<1> USE DEF tables, mainVars, afkVars
<1>1. PICK h \in Hashes : Delete(h)
  BY DEF Reap
<1>2. /\ DOMAIN sessions' = DOMAIN sessions \ {h}
      /\ \A x \in DOMAIN sessions \ {h} : sessions'[x] = sessions[x]
      /\ sessions' \in [DOMAIN sessions' -> Session]
  BY <1>1 DEF Delete, Destroy, IInv, TypeOK
<1>3. /\ mainPc = "recv" /\ mainPc' = "recv"
      /\ afkPc = "delete" /\ toScan = {} /\ toScan' = {}
      /\ h \in DOMAIN sessions
  BY <1>1 DEF Delete, Destroy, DelAndAtFree, IInv, ThreadsAgree, NoFreshVictim
<1>4. /\ usersInChannels' \in [Channels -> [Hashes -> Nat]]
      /\ \A c \in Channels, x \in Hashes :
           usersInChannels'[c][x] =
             IF sessions[h].channel = c /\ x = h THEN 0 ELSE usersInChannels[c][x]
  BY <1>1 DEF Delete, Destroy, IInv, TypeOK
<1>5. TypeOK'
  BY <1>1, <1>2, <1>4 DEF Delete, Destroy, IInv, TypeOK
<1>6. ThreadsAgree' /\ SessionsSound' /\ NoFreshVictim' /\ NoNullSession'
  BY <1>1, <1>2, <1>3 DEF Delete, Destroy, IInv, ThreadsAgree, SessionsSound, NoFreshVictim,
       NoNullSession
<1>7. RegistryAgrees'
  BY <1>1, <1>2, <1>3 DEF Delete, Destroy, IInv, TypeOK, RegistryAgrees
<1>8. ChannelIndexAgrees'
  BY <1>2, <1>3, <1>4 DEF IInv, ChannelIndexAgrees
<1> QED
  BY <1>5, <1>6, <1>7, <1>8 DEF IInv

\* The clock ages sessions and nothing else.
LEMMA TickInv ==
  ASSUME IInv, Tick
  PROVE  IInv'
<1> USE DEF tables, mainVars, afkVars
<1> DEFINE age(s) == IF s.idle < Timeout THEN s.idle + 1 ELSE Timeout
<1>1. /\ DOMAIN sessions' = DOMAIN sessions
      /\ \A x \in DOMAIN sessions :
           sessions'[x] = [sessions[x] EXCEPT !.idle = age(sessions[x]),
                             !.expired = @ \/ age(sessions[x]) = Timeout]
  BY DEF Tick
<1>2. \A x \in DOMAIN sessions :
        /\ sessions[x] \in Session
        /\ age(sessions[x]) \in 0 .. Timeout
  BY ServerAssumption DEF IInv, TypeOK, Session
<1> HIDE DEF age
<1>3. \A x \in DOMAIN sessions :
        /\ sessions'[x] \in Session
        /\ sessions'[x].channel = sessions[x].channel
        /\ sessions'[x].handshake_done = sessions[x].handshake_done
        /\ sessions'[x].idle = age(sessions[x])
        /\ sessions'[x].expired = (sessions[x].expired \/ age(sessions[x]) = Timeout)
  BY <1>1, <1>2 DEF Session
<1>4. sessions' \in [DOMAIN sessions -> Session]
  BY <1>1, <1>3 DEF Tick
<1>a. sleepLeft' \in 0 .. Timeout
  <2>1. Timeout \in Nat /\ sleepLeft \in 0 .. Timeout
    BY ServerAssumption DEF IInv, TypeOK
  <2>2. sleepLeft' = IF sleepLeft > 0 THEN sleepLeft - 1 ELSE 0
    BY DEF Tick
  <2> QED
    BY ONLY <2>1, <2>2
<1>5. TypeOK'
  BY <1>1, <1>4, <1>a DEF Tick, IInv, TypeOK
<1>6. ThreadsAgree' /\ NoFreshVictim' /\ NoNullSession'
  BY <1>1, <1>3 DEF Tick, IInv, ThreadsAgree, NoFreshVictim, NoNullSession
<1>7. SessionsSound'
  <2> SUFFICES ASSUME NEW x \in DOMAIN sessions
               PROVE  /\ sessions'[x].channel # NoChannel
                           => sessions'[x].handshake_done
                      /\ sessions'[x].idle >= Timeout => sessions'[x].expired
    BY <1>1 DEF SessionsSound
  <2>1. sessions'[x].channel # NoChannel => sessions'[x].handshake_done
    BY <1>3 DEF IInv, SessionsSound
  <2>2. age(sessions[x]) >= Timeout => age(sessions[x]) = Timeout
    BY <1>2, ServerAssumption
  <2> QED
    BY <1>3, <2>1, <2>2
<1>8. RegistryAgrees'
  BY <1>1 DEF Tick, IInv, RegistryAgrees
<1>9. ChannelIndexAgrees'
  <2> SUFFICES ASSUME NEW c \in Channels, NEW h \in Hashes
               PROVE  usersInChannels'[c][h] =
                        IF h \in DOMAIN sessions' /\ sessions'[h].channel = c
                        THEN 1 ELSE 0
    BY DEF ChannelIndexAgrees
  <2>1. usersInChannels' = usersInChannels
    BY DEF Tick
  <2>2. usersInChannels[c][h] =
          IF h \in DOMAIN sessions /\ sessions[h].channel = c THEN 1 ELSE 0
    BY DEF IInv, ChannelIndexAgrees
  <2>3. h \in DOMAIN sessions => sessions'[h].channel = sessions[h].channel
    BY <1>3
  <2>4. DOMAIN sessions' = DOMAIN sessions
    BY <1>1
  <2> QED
    BY ONLY <2>1, <2>2, <2>3, <2>4
<1> QED
  BY <1>5, <1>6, <1>7, <1>8, <1>9 DEF IInv

\* Every step of the server keeps the inductive invariant.
LEMMA NextInv == IInv /\ [Next]_vars => IInv'
<1> SUFFICES ASSUME IInv, [Next]_vars PROVE IInv'
  OBVIOUS
<1>1. CASE Main
  BY <1>1, RegisterInv, ProcessInv DEF Main, MainLocked
<1>2. CASE Scan
  BY <1>2, ScanInv
<1>3. CASE Reap
  BY <1>3, ReapInv
<1>4. CASE Tick
  BY <1>4, TickInv
<1>5. CASE UNCHANGED vars
  BY <1>5 DEF vars, IInv, TypeOK, ThreadsAgree, SessionsSound, RegistryAgrees,
       ChannelIndexAgrees, NoFreshVictim, NoNullSession
<1> QED
  BY <1>1, <1>2, <1>3, <1>4, <1>5 DEF Next, Dead

\* The inductive invariant holds throughout.
THEOREM ServerInvariant == Spec => []IInv
<1>1. Init => IInv
  BY InitInv
<1>2. IInv /\ [Next]_vars => IInv'
  BY NextInv
<1> QED
  BY <1>1, <1>2, PTL DEF Spec

\* Type correctness of the server's tables and threads.
THEOREM TypeCorrect == Spec => []TypeOK
<1>1. IInv => TypeOK
  BY DEF IInv
<1> QED
  BY <1>1, ServerInvariant, PTL

\* The session map and the list of hashes name the same clients, each once,
\* although freeAfkClient and mainUdpServer change them in turn.
THEOREM RegistryCorrect == Spec => []RegistryAgrees
<1>1. IInv => RegistryAgrees
  BY DEF IInv
<1> QED
  BY <1>1, ServerInvariant, PTL

\* The channel index lists exactly the live sessions of each channel.
THEOREM ChannelIndexCorrect == Spec => []ChannelIndexAgrees
<1>1. IInv => ChannelIndexAgrees
  BY DEF IInv
<1> QED
  BY <1>1, ServerInvariant, PTL

\* No frame is relayed across channels, to a freed session or to one that
\* has not finished its handshake.
THEOREM RelayCorrect == Spec => []RelayTargetsLive
<1>1. IInv => RelayTargetsLive
  <2> SUFFICES ASSUME IInv, NEW h \in DOMAIN sessions,
                      sessions[h].channel # NoChannel,
                      NEW u \in Recipients(sessions[h].channel, h)
               PROVE  /\ u \in DOMAIN sessions
                      /\ sessions[u].handshake_done
                      /\ sessions[u].channel = sessions[h].channel
    BY DEF RelayTargetsLive
  <2>1. sessions[h].channel \in Channels
    BY DEF IInv, TypeOK, Session
  <2>2. u \in DOMAIN sessions /\ sessions[u].channel = sessions[h].channel
    BY <2>1 DEF Recipients, IInv, ChannelIndexAgrees
  <2> QED
    BY <2>2 DEF IInv, SessionsSound
<1> QED
  BY <1>1, ServerInvariant, PTL

\* No null session is ever dereferenced, by the relay or by the scan.
THEOREM NoNullDereference == Spec => []NoNullSession
<1>1. IInv => NoNullSession
  BY DEF IInv
<1> QED
  BY <1>1, ServerInvariant, PTL

\* Only a session that has been silent for the timeout is ever chosen.
THEOREM VictimsExpired == Spec => []NoFreshVictim
<1>1. IInv => NoFreshVictim
  BY DEF IInv
<1> QED
  BY <1>1, ServerInvariant, PTL

-----------------------------------------------------------------------------
(***************************************************************************)
(* The server implements ChannelRoom.  Listed and Silent are the abstract   *)
(* variables; by ChannelIndexAgrees a client is listed where its session    *)
(* says.                                                                    *)
(***************************************************************************)
Listed == [c \in Channels |-> {h \in Hashes : usersInChannels[c][h] > 0}]
Silent == {h \in DOMAIN sessions : sessions[h].expired}

\* A client is listed exactly in the channel of its session.
LEMMA ListedBySession ==
  ASSUME IInv, NEW c \in Channels
  PROVE  Listed[c] = {h \in DOMAIN sessions : sessions[h].channel = c}
  BY DEF Listed, IInv, TypeOK, ChannelIndexAgrees

\* processIncoming: the first frame joins, everything else shows nothing.
LEMMA AudioStep ==
  ASSUME IInv, IInv', NEW c \in Channels, ProcessAudio(c)
  PROVE  Room!Next \/ UNCHANGED Room!vars
<1>h. mainHash \in DOMAIN sessions /\ mainHash \in Hashes
  BY DEF ProcessAudio, IInv, ThreadsAgree, TypeOK
<1>1. /\ DOMAIN sessions' = DOMAIN sessions
      /\ \A x \in DOMAIN sessions : sessions'[x].expired = sessions[x].expired
      /\ \A x \in DOMAIN sessions \ {mainHash} :
           sessions'[x].channel = sessions[x].channel
      /\ sessions'[mainHash].channel =
           IF sessions[mainHash].channel = NoChannel THEN c
           ELSE sessions[mainHash].channel
  BY <1>h DEF ProcessAudio, IInv, TypeOK, Session
<1>2. Silent' = Silent
  BY <1>1 DEF Silent
<1>3. \A d \in Channels :
        /\ Listed[d] = {h \in DOMAIN sessions : sessions[h].channel = d}
        /\ Listed'[d] = {h \in DOMAIN sessions : sessions'[h].channel = d}
  <2>1. ASSUME NEW d \in Channels
        PROVE  Listed'[d] = {h \in DOMAIN sessions' : sessions'[h].channel = d}
    BY DEF Listed, IInv, TypeOK, ChannelIndexAgrees
  <2> QED
    BY <1>1, <2>1, ListedBySession
<1>4. CASE sessions[mainHash].channel = NoChannel
  <2>1. \A d \in Channels : mainHash \notin Listed[d]
    BY <1>3, <1>4, ServerAssumption
  <2>2. \A d \in Channels :
          Listed'[d] = IF d = c THEN Listed[d] \cup {mainHash} ELSE Listed[d]
    <3> SUFFICES ASSUME NEW d \in Channels, NEW x
                 PROVE  x \in Listed'[d] <=>
                          x \in Listed[d] \/ (d = c /\ x = mainHash)
      BY <2>1
    <3>1. CASE x = mainHash
      BY <1>h, <1>1, <1>3, <1>4, <2>1, <3>1
    <3>2. CASE x # mainHash
      BY <1>1, <1>3, <3>2
    <3> QED
      BY <3>1, <3>2
  <2>3. Listed' = [Listed EXCEPT ![c] = @ \cup {mainHash}]
    BY <2>2 DEF Listed
  <2>4. PICK h \in Hashes : h = mainHash
    BY <1>h
  <2>5. Room!Join(h, c)
    BY <1>2, <2>1, <2>3, <2>4 DEF Room!Join, Room!Absent, Listed, Silent
  <2> QED
    BY <2>5 DEF Room!Next
<1>5. CASE sessions[mainHash].channel # NoChannel
  <2>1. usersInChannels' = usersInChannels
    BY <1>5 DEF ProcessAudio
  <2> QED
    BY <1>2, <2>1 DEF Room!vars, Silent
<1> QED
  BY <1>4, <1>5

\* freeAfkClient frees a client that had been silent.
LEMMA DeleteStep ==
  ASSUME IInv, NEW h \in Hashes, Delete(h)
  PROVE  Room!Leave(h)
<1>1. h \in DOMAIN sessions /\ sessions[h].expired
  BY DEF Delete, IInv, NoFreshVictim
<1>2. /\ DOMAIN sessions' = DOMAIN sessions \ {h}
      /\ \A x \in DOMAIN sessions \ {h} : sessions'[x] = sessions[x]
  BY DEF Delete
<1>3. Silent' = Silent \ {h} /\ h \in Silent
  BY <1>1, <1>2 DEF Silent
<1>4. \A c \in Channels, x \in Hashes :
        usersInChannels'[c][x] =
          IF sessions[h].channel = c /\ x = h THEN 0 ELSE usersInChannels[c][x]
  BY DEF Delete, Destroy, IInv, TypeOK
<1>5. \A c \in Channels : sessions[h].channel # c => usersInChannels[c][h] = 0
  BY DEF IInv, ChannelIndexAgrees
<1>6. Listed' = [c \in Channels |-> Listed[c] \ {h}]
  <2>1. ASSUME NEW c \in Channels
        PROVE  {x \in Hashes : usersInChannels'[c][x] > 0}
                 = {x \in Hashes : usersInChannels[c][x] > 0} \ {h}
    BY <1>4, <1>5
  <2> QED
    BY <2>1 DEF Listed
<1> QED
  BY <1>3, <1>6 DEF Room!Leave, Listed, Silent

\* The clock, and mainUdpServer until a frame is understood.
LEMMA QuietStep ==
  ASSUME IInv,
         \/ Tick \/ Scan \/ Insert \/ InsertThrows \/ PushBack
         \/ ProcessNothing \/ ProcessAccept \/ \E h \in Hashes : Receive(h)
  PROVE  Room!FallSilent
<1> USE DEF tables, mainVars, afkVars
<1>1. usersInChannels' = usersInChannels
  BY DEF Tick, Scan, ScanStart, ScanRaces, ScanEnd, Sleep, ScanOne, Insert,
         InsertThrows, PushBack, ProcessNothing, ProcessAccept, Receive
<1>2. Silent \subseteq Silent' /\ Silent' \subseteq Hashes
  <2>0. DOMAIN sessions \subseteq Hashes /\ mainHash \in Hashes
    BY DEF IInv, TypeOK
  <2>1. CASE Tick
    <3>1. /\ DOMAIN sessions' = DOMAIN sessions
          /\ \A x \in DOMAIN sessions : sessions[x].expired => sessions'[x].expired
      BY <2>1 DEF Tick, IInv, TypeOK, Session
    <3> QED
      BY <2>0, <3>1 DEF Silent
  <2>2. CASE Insert
    <3>1. /\ DOMAIN sessions' = DOMAIN sessions \cup {mainHash}
          /\ \A x \in DOMAIN sessions : sessions'[x] = sessions[x]
      BY <2>2 DEF Insert, IInv, ThreadsAgree
    <3> QED
      BY <2>0, <3>1 DEF Silent
  <2>3. CASE ProcessAccept
    <3>1. /\ DOMAIN sessions' = DOMAIN sessions
          /\ \A x \in DOMAIN sessions : sessions'[x].expired = sessions[x].expired
      BY <2>3 DEF ProcessAccept, IInv, TypeOK, Session
    <3> QED
      BY <2>0, <3>1 DEF Silent
  <2>4. CASE ~ Tick /\ ~ Insert /\ ~ ProcessAccept
    <3>1. sessions' = sessions
      BY <2>4 DEF Scan, ScanStart, ScanRaces, ScanEnd, Sleep, ScanOne,
                  InsertThrows, PushBack, ProcessNothing, Receive
    <3> QED
      BY <2>0, <3>1 DEF Silent
  <2> QED
    BY <2>1, <2>2, <2>3, <2>4
<1> QED
  BY <1>1, <1>2 DEF Room!FallSilent, Silent

\* Three tables, two threads and a scan without the lock behave to the
\* clients like one set of members per channel (mainUdpServer, freeAfkClient).
THEOREM RoomHolds == Spec => RoomSpec
<1>1. Init => Room!Init
  <2> SUFFICES ASSUME Init PROVE Room!Init
    OBVIOUS
  <2>1. DOMAIN sessions = {} /\ \A c \in Channels, h \in Hashes : usersInChannels[c][h] = 0
    BY DEF Init
  <2> QED
    BY <2>1 DEF Room!Init
<1>2. IInv /\ IInv' /\ [Next]_vars => [Room!Next]_(Room!vars)
  <2> SUFFICES ASSUME IInv, IInv', [Next]_vars
               PROVE  Room!Next \/ UNCHANGED Room!vars
    OBVIOUS
  <2>1. CASE Main
    BY <2>1, QuietStep, AudioStep DEF Main, MainLocked, Process, Room!Next
  <2>2. CASE Reap
    BY <2>2, DeleteStep DEF Reap, Room!Next
  <2>3. CASE Scan \/ Tick
    BY <2>3, QuietStep DEF Room!Next
  <2>4. CASE UNCHANGED vars
    BY <2>4 DEF vars, Room!vars
  <2> QED
    BY <2>1, <2>2, <2>3, <2>4 DEF Next, Dead
<1> QED
  BY <1>1, <1>2, ServerInvariant, PTL DEF Spec, RoomSpec, Room!Spec
=============================================================================

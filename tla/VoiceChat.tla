----------------------------- MODULE VoiceChat ------------------------------
(***************************************************************************)
(* Clients and server together: who is connected to whom, as the timers on  *)
(* both sides see it.  A client that hears nothing for five seconds makes a *)
(* new socket and connects again (src/src/AudioTransmission.hpp); the       *)
(* server frees a session that sent no audio for SERVER_TIME_OUT seconds    *)
(* (src/src/server.cpp).  Neither tells the other, so that a client may     *)
(* talk to a session that is gone, and sessions may outlive their client.   *)
(*                                                                          *)
(* A datagram is delivered within the second or lost.  DTLS lets a session  *)
(* and a connection understand each other only if they made the handshake   *)
(* together: "current" says that a session belongs to its client's present  *)
(* connection.  The reader of a client may end on an error of select() or   *)
(* of wolfSSL_read while the writer goes on: such a client is "deaf", talks *)
(* as before and measures no silence any more.  What else happens inside    *)
(* each side is in Server and Client.                                       *)
(***************************************************************************)
EXTENDS Addressing

CONSTANTS
  Clients,    \* the addresses of the clients
  Ports,      \* the ports their sockets may get
  ChannelOf,  \* what each client was given as --channel
  Timeout,    \* SERVER_TIME_OUT, in seconds
  Silence     \* seconds without a datagram until readData() gives up

ASSUME ChatAssumption ==
  /\ Clients \subseteq Nat
  /\ Ports \subseteq 0 .. Word - 1
  /\ ChannelOf \in [Clients -> 0 .. Word - 1]
  /\ Timeout \in Nat \ {0}
  /\ Silence \in Nat \ {0}

VARIABLES
  state,      \* per client: "connecting", "up", "deaf" or "down"
  port,       \* per client: the port of its present socket
  silence,    \* per client: seconds since a datagram arrived
  sessions,   \* the server's sessions, by hash
  forDelete,  \* hashSessionsForDelete
  sleepLeft   \* seconds until freeAfkClient scans again

vars == <<state, port, silence, sessions, forDelete, sleepLeft>>

Endpoints == Clients \X Ports
Session == [addr : Endpoints, handshake_done : BOOLEAN, current : BOOLEAN,
            joined : BOOLEAN, idle : 0 .. Timeout]

\* A session is made for whatever datagram comes first; only the beginning
\* of a handshake makes one that its client can use.
NewSession(ep, usable) ==
  [addr |-> ep, handshake_done |-> FALSE, current |-> usable,
   joined |-> FALSE, idle |-> 0]

Here(c)   == <<c, port[c]>>
Hash(c)   == addr_hash(Here(c))
Known(c)  == Hash(c) \in DOMAIN sessions
Mine(c)   == Known(c) /\ sessions[Hash(c)].current
Served(c) == Mine(c) /\ sessions[Hash(c)].handshake_done

\* The writer runs, with or without the reader.
Talking(c) == state[c] \in {"up", "deaf"}

\* A slip: the packet has the channel as an int.
ChanInt(h) == ToInt(ChannelOf[sessions[h].addr[1]])

\* The channel a session is in: data->channel of its client's packets.
Chan(h) == ToUChar(ToInt(ChannelOf[sessions[h].addr[1]]))

\* A slip: the relay does not leave out the talker.
RecipientsAll(h) ==
  {u \in DOMAIN sessions : sessions[u].joined /\ Chan(u) = Chan(h)}

\* usersInChannels[channel] without the talker.
Recipients(h) ==
  {u \in DOMAIN sessions \ {h} : sessions[u].joined /\ Chan(u) = Chan(h)}

\* The keys of the former connection of c are gone: the sessions it leaves
\* behind stay as they are but nobody understands them.
Abandon(c) ==
  [h \in DOMAIN sessions |-> [sessions[h] EXCEPT
     !.current = @ /\ sessions[h].addr[1] # c]]

\* sessions.insert({hash, make_unique<SessionData>(...)}).
InsertSession(c, usable) ==
  sessions' = [h \in DOMAIN sessions \cup {Hash(c)} |->
     IF h = Hash(c) THEN NewSession(Here(c), usable) ELSE sessions[h]]

\* Clients whose present socket gets what the sessions of D send: a datagram
\* goes to the address of its session, whoever is there now.
Reached(D) ==
  {c \in Clients : state[c] # "down" /\ \E u \in D : sessions[u].addr = Here(c)}

Init ==
  /\ state = [c \in Clients |-> "connecting"]
  /\ port \in [Clients -> Ports]
  /\ silence = [c \in Clients |-> 0]
  /\ sessions = [h \in {} |-> 0]
  /\ forDelete = {}
  /\ sleepLeft = 0

-----------------------------------------------------------------------------
(* Slips that would be plausible; each takes the place of the definition it *)
(* is named after.                                                          *)

\* updateLastUsed() first thing in processIncoming.
HelloRefreshes(c) ==
  /\ state[c] = "connecting"
  /\ IF Known(c)
     THEN sessions' = [sessions EXCEPT ![Hash(c)].idle = 0]
     ELSE \E usable \in BOOLEAN : InsertSession(c, usable)
  /\ UNCHANGED <<state, port, silence, forDelete, sleepLeft>>

\* The pong is sent for every datagram, understood or not.
AudioUnknownPongs(c) ==
  /\ Talking(c) /\ ~ Known(c)
  /\ InsertSession(c, FALSE)
  /\ silence' = [silence EXCEPT ![c] = 0]
  /\ UNCHANGED <<state, port, forDelete, sleepLeft>>

-----------------------------------------------------------------------------
(* Connecting *)

\* A first flight of the handshake reaches the server.  A session that is
\* already there for this address drops it and is not refreshed.  Whether
\* the handshake can begin afresh is up to how far the client thought it was.
Hello(c) ==
  /\ state[c] = "connecting" /\ ~ Known(c)
  /\ \E usable \in BOOLEAN : InsertSession(c, usable)
  /\ UNCHANGED <<state, port, silence, forDelete, sleepLeft>>

\* wolfSSL_connect succeeds; the server may still miss the last flight.
ConnectDone(c) ==
  /\ state[c] = "connecting" /\ Mine(c)
  /\ state' = [state EXCEPT ![c] = "up"]
  /\ silence' = [silence EXCEPT ![c] = 0]
  /\ \E done \in BOOLEAN :
        sessions' = [sessions EXCEPT ![Hash(c)].handshake_done = @ \/ done]
  /\ UNCHANGED <<port, forDelete, sleepLeft>>

\* wolfSSL_accept succeeds later on.
AcceptLate(c) ==
  /\ Talking(c) /\ Mine(c) /\ ~ Served(c)
  /\ sessions' = [sessions EXCEPT ![Hash(c)].handshake_done = TRUE]
  /\ UNCHANGED <<state, port, silence, forDelete, sleepLeft>>

-----------------------------------------------------------------------------
(* Talking *)

\* A frame reaches its session: relayed to the channel and answered by a
\* pong.  D is who gets what the server sends; sendto may fail, the network
\* may lose it.
Audio(c, D) ==
  /\ Talking(c) /\ Served(c)
  /\ sessions' = [sessions EXCEPT ![Hash(c)].joined = TRUE, ![Hash(c)].idle = 0]
  /\ silence' = [x \in Clients |-> IF x \in Reached(D) THEN 0 ELSE silence[x]]
  /\ UNCHANGED <<state, port, forDelete, sleepLeft>>

\* A frame for a session that is gone makes one that understands nothing.
AudioUnknown(c) ==
  /\ Talking(c) /\ ~ Known(c)
  /\ InsertSession(c, FALSE)
  /\ UNCHANGED <<state, port, silence, forDelete, sleepLeft>>

\* Five seconds without a datagram: another socket, another session.  The
\* system may hand out the port that was just given back.
TimeoutReconnect(c) ==
  /\ state[c] = "up" /\ silence[c] = Silence
  /\ state' = [state EXCEPT ![c] = "connecting"]
  /\ \E p \in Ports : port' = [port EXCEPT ![c] = p]
  /\ silence' = [silence EXCEPT ![c] = 0]
  /\ sessions' = Abandon(c)
  /\ UNCHANGED <<forDelete, sleepLeft>>

\* select() or wolfSSL_read fails for good: the reader leaves its loop with
\* running still set.  The writer goes on and nobody waits for silence.
ReaderEnds(c) ==
  /\ state[c] = "up"
  /\ state' = [state EXCEPT ![c] = "deaf"]
  /\ silence' = [silence EXCEPT ![c] = 0]
  /\ UNCHANGED <<port, sessions, forDelete, sleepLeft>>

\* A stop, a failed write or an exception of connect() ends the client.
Quit(c) ==
  /\ state[c] # "down"
  /\ state' = [state EXCEPT ![c] = "down"]
  /\ sessions' = Abandon(c)
  /\ UNCHANGED <<port, silence, forDelete, sleepLeft>>

-----------------------------------------------------------------------------
(* freeAfkClient and the clock *)

Scan ==
  /\ sleepLeft = 0 /\ forDelete = {}
  /\ forDelete' = {h \in DOMAIN sessions : sessions[h].idle >= Timeout}
  /\ sleepLeft' = Timeout
  /\ UNCHANGED <<state, port, silence, sessions>>

Delete(h) ==
  /\ h \in forDelete
  /\ sessions' = [x \in DOMAIN sessions \ {h} |-> sessions[x]]
  /\ forDelete' = forDelete \ {h}
  /\ UNCHANGED <<state, port, silence, sleepLeft>>

\* A second passes once everything that is due has been done.
Tick ==
  /\ forDelete = {} /\ sleepLeft > 0
  /\ \A c \in Clients : state[c] = "up" => silence[c] < Silence
  /\ sleepLeft' = sleepLeft - 1
  /\ silence' = [c \in Clients |->
                   IF state[c] = "up" THEN silence[c] + 1 ELSE silence[c]]
  /\ sessions' = [h \in DOMAIN sessions |-> [sessions[h] EXCEPT
                    !.idle = IF @ < Timeout THEN @ + 1 ELSE Timeout]]
  /\ UNCHANGED <<state, port, forDelete>>

Talk(c) ==
  \/ AudioUnknown(c)
  \/ Known(c) /\ \E D \in SUBSET (Recipients(Hash(c)) \cup {Hash(c)}) : Audio(c, D)

ClientStep(c) ==
  \/ Hello(c) \/ ConnectDone(c) \/ AcceptLate(c) \/ Talk(c)
  \/ TimeoutReconnect(c) \/ ReaderEnds(c) \/ Quit(c)

Reap == \E h \in forDelete : Delete(h)
Next == Scan \/ Reap \/ Tick \/ \E c \in Clients : ClientStep(c)

Spec == Init /\ [][Next]_vars

\* The clock runs, the server's scan goes on and a due timeout fires at a
\* client whose reader is alive.
\* Nothing is assumed of the network, of the handshake or of the talkers.
FairSpec ==
  /\ Spec
  /\ WF_vars(Tick) /\ WF_vars(Scan) /\ WF_vars(Reap)
  /\ \A c \in Clients : WF_vars(TimeoutReconnect(c))

-----------------------------------------------------------------------------
\* Every variable has the shape the code gives it.
TypeOK ==
  /\ state \in [Clients -> {"connecting", "up", "deaf", "down"}]
  /\ port \in [Clients -> Ports]
  /\ silence \in [Clients -> 0 .. Silence]
  /\ DOMAIN sessions \subseteq {addr_hash(ep) : ep \in Endpoints}
  /\ sessions \in [DOMAIN sessions -> Session]
  /\ forDelete \subseteq DOMAIN sessions
  /\ sleepLeft \in 0 .. Timeout

\* A datagram is always handed to the session of its own sender: addr_hash
\* never takes one endpoint for another.
HashIdentifies == \A h \in DOMAIN sessions :
  \A ep \in Endpoints : addr_hash(ep) = h => sessions[h].addr = ep

\* Two talkers share a decoder and a jitter buffer at a listener if and only
\* if their ports are equal: the key keeps the port and loses the address.
KeyIsPort == \A h, u \in DOMAIN sessions :
  UserKey(h) = UserKey(u) <=> sessions[h].addr[2] = sessions[u].addr[2]

\* What a talker says is sent to the present sockets of exactly the others of
\* its channel.  It never comes back to its own, although sessions of its
\* former connections are members too and only its present hash is skipped;
\* and no other member is missed for an old session that has its place.
OnlyOthersHear == \A c \in Clients : Served(c) =>
  Reached(Recipients(Hash(c))) =
    {x \in Clients \ {c} : /\ state[x] # "down" /\ Known(x)
                           /\ sessions[Hash(x)].joined
                           /\ Chan(Hash(x)) = Chan(Hash(c))}

\* Two clients are in one channel if and only if what they were given as
\* --channel is congruent, and the server's table has an entry for it: a
\* channel of the command line is not checked anywhere.
ChannelsMeet == \A h, u \in DOMAIN sessions :
  LET asked(x) == ChannelOf[sessions[x].addr[1]]
  IN  /\ Chan(h) \in 0 .. Byte - 1
      /\ sessions[u].joined /\ u # h =>
           (u \in Recipients(h) <=> (asked(u) - asked(h)) % Byte = 0)

\* A client whose session was freed under it, or never finished on the other
\* side, notices as long as its reader lives: nothing the server sends can
\* keep it waiting.  A deaf client is never told.
UnservedNoticed == \A c \in Clients :
  (state[c] = "up" /\ ~ Served(c)) ~> (state[c] # "up" \/ Served(c))

\* A client that comes back from a port whose old session is still there is
\* not locked out: its own datagrams do not keep that session alive.
OldSessionMakesWay == \A c \in Clients :
  (state[c] = "connecting" /\ Known(c) /\ ~ Mine(c))
    ~> (state[c] # "connecting" \/ ~ Known(c) \/ Mine(c))
=============================================================================

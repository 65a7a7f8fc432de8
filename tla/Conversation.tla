---------------------------- MODULE Conversation -----------------------------
(***************************************************************************)
(* A talker and a listener's jitter buffer for it, over a network that      *)
(* loses and reorders, when the talker reconnects.  writeData numbers its   *)
(* packets from 0 in every connection, while the listener keeps the User    *)
(* and its buffer: users is cleared only by the listener's own              *)
(* reconnection, and its key keeps only the port, so that a talker that     *)
(* gets its old port again (or another talker with that port) meets the     *)
(* buffer of the former connection.  The frames of JitterBuffer are here    *)
(* the connection they come from: 1, the former, or 2, the present one.     *)
(***************************************************************************)
EXTENDS JitterBuffer

CONSTANTS
  InFlight,    \* bound: packets in the network at one time
  MaxLost,     \* bound: packets lost or not decoded
  LastFormer   \* bound: numbers the former connection uses

ASSUME ConversationAssumption == {1, 2} \subseteq Frames

VARIABLES
  conn,     \* the talker's connection
  sendSeq,  \* sendSeq_ of writeData
  former,   \* history: sendSeq_ at the end of the former connection
  net,      \* packets in the network, <<sequence number, connection>>
  lost,     \* packets lost or not decoded so far
  known     \* the listener has a User for the talker

talkerVars == <<conn, sendSeq, former>>
allVars == <<vars, talkerVars, net, lost, known>>

TalkInit ==
  /\ Init /\ sequence = 0
  /\ conn = 1 /\ sendSeq = 0 /\ former = 0
  /\ net = {} /\ lost = 0 /\ known = FALSE

\* writeData sends a packet.
Talk ==
  /\ sendSeq \in SeqNums /\ Cardinality(net) < InFlight
  /\ conn = 1 => sendSeq < LastFormer
  /\ net' = net \cup {<<sendSeq, conn>>}
  /\ sendSeq' = sendSeq + 1
  /\ UNCHANGED <<vars, conn, former, lost, known>>

\* The talker reconnects; a new writeData starts at 0.
Reconnect ==
  /\ conn = 1
  /\ conn' = 2 /\ former' = sendSeq /\ sendSeq' = 0
  /\ UNCHANGED <<vars, net, lost, known>>

Lose(p) ==
  /\ lost < MaxLost
  /\ net' = net \ {p} /\ lost' = lost + 1
  /\ UNCHANGED <<vars, talkerVars, known>>

\* readData: the first packet makes the User and, with its own number, the
\* buffer; then it is pushed like every other.
FirstArrives(p) ==
  /\ ~ known /\ known' = TRUE
  /\ net' = net \ {p}
  /\ sequence' = p[1]
  /\ buffer' = TryEmplace(buffer, p[1], p[2])
  /\ primed' = (MinimalSize <= 1)
  /\ offered' = {p}
  /\ UNCHANGED <<played, talkerVars, lost>>

Arrives(p) ==
  /\ known
  /\ net' = net \ {p}
  /\ Push(p[1], p[2])
  /\ UNCHANGED <<talkerVars, lost, known>>

\* opus_decode_float fails: the User is made, nothing is pushed.
Undecodable(p) ==
  /\ lost < MaxLost
  /\ net' = net \ {p} /\ lost' = lost + 1
  /\ known' = TRUE
  /\ sequence' = IF known THEN sequence ELSE p[1]
  /\ UNCHANGED <<buffer, primed, offered, played, talkerVars>>

Mix == Pop /\ UNCHANGED <<talkerVars, net, lost, known>>

Receive(p) == p \in net /\ (FirstArrives(p) \/ Arrives(p))

TalkNext ==
  \/ Talk \/ Reconnect \/ Mix
  \/ \E p \in net : Lose(p) \/ Undecodable(p) \/ Receive(p)

TalkSpec == TalkInit /\ [][TalkNext]_allVars

\* The talker talks, the mixer pops, and a packet arrives unless it is lost
\* or cannot be decoded.
TalkFairSpec ==
  /\ TalkSpec /\ WF_allVars(Talk) /\ WF_allVars(Mix)
  /\ \A p \in SeqNums \X {1, 2} : WF_allVars(Receive(p))

-----------------------------------------------------------------------------
\* The listener is deaf to the present connection only for numbers that the
\* former one used: nothing makes it wait for more than was ever sent.
DeafOnlyForFormer == sequence <= sendSeq \/ (conn = 2 /\ sequence <= former)

\* The reconnected talker is heard again, although its numbers begin below
\* what the listener has already played.
HeardAgain == (conn = 2) ~> (\E i \in DOMAIN played : played[i][2] = 2)
=============================================================================

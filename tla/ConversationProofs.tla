------------------------- MODULE ConversationProofs --------------------------
(***************************************************************************)
(* How long a reconnected talker can go unheard, and what the listener is   *)
(* promised in spite of it, for every buffer size and every network.        *)
(***************************************************************************)
EXTENDS Conversation, JitterBufferProofs

\* Some connection has used number k.
Used(k) == k < sendSeq \/ (conn = 2 /\ k < former)

(***************************************************************************)
(* Only numbers that were used are on their way or wait in the buffer, so   *)
(* that a pop cannot move sequence beyond them.                             *)
(***************************************************************************)
UsedInv ==
  /\ sequence \in Nat /\ sendSeq \in Nat /\ former \in Nat /\ conn \in {1, 2}
  /\ net \subseteq Nat \X {1, 2}
  /\ \A p \in net : Used(p[1])
  /\ DOMAIN buffer \subseteq Nat
  /\ \A k \in DOMAIN buffer : Used(k)
  /\ DeafOnlyForFormer

\* The domain of a map that got an entry or lost one.
LEMMA MapDomains == \A b, k, f :
  /\ DOMAIN TryEmplace(b, k, f) = DOMAIN b \cup {k}
  /\ DOMAIN Erase(b, k) = DOMAIN b \ {k}
<1>1. \A b, k, f : DOMAIN TryEmplace(b, k, f) = DOMAIN b \cup {k}
  <2> SUFFICES ASSUME NEW b, NEW k, NEW f
               PROVE  DOMAIN TryEmplace(b, k, f) = DOMAIN b \cup {k}
    OBVIOUS
  <2>1. CASE k \in DOMAIN b
    BY <2>1 DEF TryEmplace
  <2>2. CASE k \notin DOMAIN b
    BY <2>2 DEF TryEmplace
  <2> QED
    BY <2>1, <2>2
<1>2. \A b, k : DOMAIN Erase(b, k) = DOMAIN b \ {k}
  BY DEF Erase
<1> QED
  BY <1>1, <1>2

\* Nothing has been sent.
LEMMA TalkInitInv == TalkInit => UsedInv
  BY DEF TalkInit, Init, UsedInv, DeafOnlyForFormer

\* The talker's steps and the losses.
LEMMA SendInv ==
  ASSUME UsedInv, Talk \/ Reconnect \/ \E p \in net : Lose(p)
  PROVE  UsedInv'
<1> USE DEF vars, talkerVars
<1>1. CASE Talk
  <2>1. /\ sendSeq' = sendSeq + 1 /\ former' = former /\ conn' = conn
        /\ net' = net \cup {<<sendSeq, conn>>}
        /\ buffer' = buffer /\ sequence' = sequence
    BY <1>1 DEF Talk
  <2>2. \A k \in Nat : Used(k) => Used(k)'
    BY <2>1 DEF UsedInv, Used
  <2>3. \A k \in Nat : k = sendSeq => Used(k)'
    BY <2>1 DEF UsedInv, Used
  <2>4. \A p \in net' : p \in Nat \X {1, 2} /\ (p \in net \/ p[1] = sendSeq)
    BY <2>1 DEF UsedInv
  <2>5. \A p \in net' : Used(p[1])'
    BY <2>2, <2>3, <2>4 DEF UsedInv
  <2>6. net' \subseteq Nat \X {1, 2}
    BY <2>4
  <2> QED
    BY <2>1, <2>2, <2>5, <2>6 DEF UsedInv, DeafOnlyForFormer
<1>2. CASE Reconnect
  <2>1. /\ conn = 1 /\ conn' = 2 /\ former' = sendSeq /\ sendSeq' = 0
        /\ net' = net /\ buffer' = buffer /\ sequence' = sequence
    BY <1>2 DEF Reconnect
  <2>2. \A k \in Nat : Used(k) => Used(k)'
    BY <2>1 DEF UsedInv, Used
  <2> QED
    BY <2>1, <2>2 DEF UsedInv, DeafOnlyForFormer
<1>3. ASSUME NEW p \in net, Lose(p) PROVE UsedInv'
  BY <1>3 DEF Lose, UsedInv, Used, DeafOnlyForFormer
<1> QED
  BY <1>1, <1>2, <1>3

\* The listener's steps.
LEMMA ListenInv ==
  ASSUME UsedInv, Mix \/ \E p \in net : Undecodable(p) \/ Receive(p)
  PROVE  UsedInv'
<1> USE DEF talkerVars
<1>0. sendSeq' = sendSeq /\ former' = former /\ conn' = conn /\ net' \subseteq net
  BY DEF Mix, Receive, FirstArrives, Arrives, Undecodable
<1>1. \A k : Used(k)' <=> Used(k)
  BY <1>0 DEF Used
<1>2. ASSUME NEW p \in net, Undecodable(p) \/ Receive(p)
      PROVE  /\ DOMAIN buffer' \subseteq DOMAIN buffer \cup {p[1]}
             /\ sequence' \in {sequence, p[1]}
  <2>1. CASE FirstArrives(p)
    BY <2>1, MapDomains DEF FirstArrives
  <2>2. CASE Arrives(p)
    <3>1. CASE PushLate(p[1], p[2])
      BY <3>1 DEF PushLate
    <3>2. CASE PushRoom(p[1], p[2])
      BY <3>2, MapDomains DEF PushRoom
    <3>3. CASE PushFull(p[1], p[2])
      <4>1. PICK b \in DOMAIN buffer :
              buffer' = TryEmplace(Erase(buffer, b), p[1], p[2])
        BY <3>3 DEF PushFull
      <4> DEFINE e == Erase(buffer, b)
      <4>a. DOMAIN e = DOMAIN buffer \ {b}
        BY MapDomains
      <4> HIDE DEF e
      <4>b. DOMAIN TryEmplace(e, p[1], p[2]) = DOMAIN e \cup {p[1]}
        BY MapDomains
      <4>2. DOMAIN buffer' = (DOMAIN buffer \ {b}) \cup {p[1]}
        BY <4>1, <4>a, <4>b DEF e
      <4> QED
        BY <3>3, <4>2 DEF PushFull
    <3> QED
      BY <2>2, <3>1, <3>2, <3>3 DEF Arrives, Push
  <2>3. CASE Undecodable(p)
    BY <2>3 DEF Undecodable
  <2> QED
    BY <1>2, <2>1, <2>2, <2>3 DEF Receive
<1>3. ASSUME Mix
      PROVE  /\ DOMAIN buffer' \subseteq DOMAIN buffer
             /\ sequence' = sequence \/ \E k \in DOMAIN buffer : sequence' = k + 1
  <2>1. CASE PopEmpty
    BY <2>1 DEF PopEmpty
  <2>2. CASE PopFrame
    <3>1. PICK k \in DOMAIN buffer : buffer' = Erase(buffer, k) /\ sequence' = k + 1
      BY <2>2 DEF PopFrame
    <3>2. DOMAIN buffer' = DOMAIN buffer \ {k}
      BY <3>1, MapDomains
    <3> QED
      BY <3>1, <3>2
  <2> QED
    BY <1>3, <2>1, <2>2 DEF Mix, Pop
<1>4. ASSUME NEW p \in net, Undecodable(p) \/ Receive(p) PROVE UsedInv'
  BY <1>0, <1>1, <1>2, <1>4 DEF UsedInv, Used, DeafOnlyForFormer
<1>5. ASSUME Mix PROVE UsedInv'
  BY <1>0, <1>1, <1>3, <1>5 DEF UsedInv, Used, DeafOnlyForFormer
<1> QED
  BY <1>4, <1>5

\* A listener never refuses a frame of the present connection whose number
\* no connection of the talker has used before.
THEOREM DeafOnlyForFormerHolds == TalkSpec => []DeafOnlyForFormer
<1>1. UsedInv /\ [TalkNext]_allVars => UsedInv'
  <2> SUFFICES ASSUME UsedInv, [TalkNext]_allVars PROVE UsedInv'
    OBVIOUS
  <2>1. CASE UNCHANGED allVars
    BY <2>1 DEF allVars, vars, talkerVars, UsedInv, Used, DeafOnlyForFormer
  <2>2. CASE TalkNext
    <3>1. \/ Talk \/ Reconnect \/ \E p \in net : Lose(p)
          \/ Mix \/ \E p \in net : Undecodable(p) \/ Receive(p)
      BY <2>2 DEF TalkNext
    <3> QED
      BY <3>1, SendInv, ListenInv
  <2> QED
    BY <2>1, <2>2
<1>2. UsedInv => DeafOnlyForFormer
  BY DEF UsedInv
<1> QED
  BY TalkInitInv, <1>1, <1>2, PTL DEF TalkSpec

-----------------------------------------------------------------------------
(***************************************************************************)
(* The order of playback survives the composition.  The steps in which a    *)
(* packet makes the User move sequence and are no steps of JitterBuffer;    *)
(* they keep its invariant because a listener that has no User yet has      *)
(* nothing in the buffer and has played nothing.                            *)
(***************************************************************************)
TalkInv ==
  /\ IInv
  /\ net \subseteq SeqNums \X {1, 2}
  /\ conn \in {1, 2}
  /\ ~ known => DOMAIN buffer = {} /\ ~ primed /\ offered = {} /\ played = << >>

\* The first packet of a talker finds an empty buffer and is alone in it.
LEMMA FirstStep ==
  ASSUME TalkInv, NEW p \in net, FirstArrives(p)
  PROVE  IInv' /\ Playout!Next
<1>1. /\ p[1] \in SeqNums /\ p[2] \in Frames /\ p = <<p[1], p[2]>> /\ p[1] \in Nat
  <2>1. PICK a \in SeqNums, c \in {1, 2} : p = <<a, c>>
    BY DEF TalkInv
  <2> QED
    BY <2>1, ConversationAssumption, SizeAssumption
<1>2. /\ DOMAIN buffer = {} /\ offered = {} /\ played = << >> /\ IsMap(buffer)
      /\ Size(buffer) = 0
  <2>1. DOMAIN buffer = {} /\ offered = {} /\ played = << >>
    BY DEF TalkInv, FirstArrives
  <2> QED
    BY <2>1, FS_EmptySet DEF TalkInv, IInv, TypeOK, IsMap, Size
<1>3. /\ sequence' = p[1] /\ buffer' = TryEmplace(buffer, p[1], p[2])
      /\ primed' = (MinimalSize <= 1) /\ offered' = {p} /\ played' = played
  BY DEF FirstArrives
<1>4. /\ IsMap(buffer') /\ DOMAIN buffer' = {p[1]} /\ buffer'[p[1]] = p[2]
      /\ Size(buffer') = 1
  <2>1. PICK k \in SeqNums, f \in Frames : k = p[1] /\ f = p[2]
    BY <1>1
  <2> DEFINE b == TryEmplace(buffer, k, f)
  <2>2. /\ IsMap(b) /\ DOMAIN b = DOMAIN buffer \cup {k}
        /\ k \notin DOMAIN buffer => b[k] = f
        /\ Size(b) = IF k \in DOMAIN buffer THEN Size(buffer) ELSE Size(buffer) + 1
    BY <1>2, TryEmplaceFacts, Zenon
  <2> HIDE DEF b
  <2>3. IsMap(b) /\ DOMAIN b = {k} /\ b[k] = f /\ Size(b) = 1
    BY <1>2, <2>2
  <2>4. buffer' = b
    BY <1>3, <2>1 DEF b
  <2> QED
    BY <2>1, <2>3, <2>4
<1>5. TypeOK'
  <2>1. primed' \in BOOLEAN
    BY <1>3
  <2>2. offered' \subseteq SeqNums \X Frames
    BY <1>1, <1>3
  <2>3. played' \in Seq(SeqNums \X Frames)
    BY <1>2, <1>3
  <2> QED
    BY <1>1, <1>3, <1>4, <2>1, <2>2, <2>3 DEF TypeOK, IsMap
<1>6. NothingLateWaits' /\ PlayedInOrder'
  <2>1. Len(played') = 0
    BY <1>2, <1>3
  <2>2. p[1] <= p[1]
    BY <1>1
  <2> QED
    BY <1>1, <1>3, <1>4, <2>1, <2>2 DEF NothingLateWaits, PlayedInOrder
<1>7. Bounded' /\ EnoughMeansPrimed'
  <2>1. 1 <= MaxSize /\ (1 >= MinimalSize <=> MinimalSize <= 1)
    BY SizeAssumption
  <2> QED
    BY <1>3, <1>4, <2>1 DEF Bounded, EnoughMeansPrimed
<1>8. Playout!Offer(p[1], p[2])
  BY <1>1, <1>2, <1>3 DEF Playout!Offer
<1> QED
  BY <1>1, <1>5, <1>6, <1>7, <1>8 DEF IInv, Playout!Next

\* A first packet that cannot be decoded makes an empty buffer.
LEMMA UndecodableStep ==
  ASSUME TalkInv, NEW p \in net, Undecodable(p)
  PROVE  IInv' /\ UNCHANGED Playout!vars
<1>1. UNCHANGED <<buffer, primed, offered, played>>
  BY DEF Undecodable
<1>2. CASE known
  <2>1. sequence' = sequence
    BY <1>2 DEF Undecodable
  <2> QED
    BY <1>1, <2>1, NextInv DEF vars, TalkInv, Playout!vars
<1>3. CASE ~ known
  <2>1. sequence' = p[1] /\ DOMAIN buffer = {} /\ played = << >>
    BY <1>3 DEF Undecodable, TalkInv
  <2>2. sequence' \in Nat
    BY <2>1, SizeAssumption DEF TalkInv
  <2>3. TypeOK'
    BY <1>1, <2>2 DEF TalkInv, IInv, TypeOK
  <2>4. NothingLateWaits'
    <3>1. Len(played') = 0
      BY <1>1, <2>1
    <3> QED
      BY <1>1, <2>1, <3>1 DEF NothingLateWaits
  <2> QED
    BY <1>1, <2>3, <2>4
       DEF TalkInv, IInv, PlayedInOrder, Bounded, EnoughMeansPrimed, Playout!vars
<1> QED
  BY <1>2, <1>3

\* Every step keeps the invariant of the listener's buffer, and is a step of
\* the abstract playback.
LEMMA TalkStep ==
  ASSUME TalkInv, [TalkNext]_allVars
  PROVE  TalkInv' /\ [Playout!Next]_(Playout!vars)
<1> USE DEF talkerVars
<1>1. ASSUME UNCHANGED vars
      PROVE  IInv' /\ UNCHANGED Playout!vars
  BY <1>1, NextInv DEF TalkInv, vars, Playout!vars
<1>2. CASE Talk
  <2>1. UNCHANGED vars /\ conn' = conn /\ known' = known
        /\ net' = net \cup {<<sendSeq, conn>>} /\ sendSeq \in SeqNums
    BY <1>2 DEF Talk
  <2> QED
    BY <1>1, <2>1 DEF TalkInv, vars
<1>3. CASE Reconnect
  BY <1>1, <1>3 DEF Reconnect, TalkInv, vars
<1>4. ASSUME NEW p \in net, Lose(p) PROVE TalkInv' /\ UNCHANGED Playout!vars
  BY <1>1, <1>4 DEF Lose, TalkInv, vars
<1>5. ASSUME NEW p \in net, Undecodable(p) PROVE TalkInv' /\ UNCHANGED Playout!vars
  <2>1. net' \subseteq net /\ conn' = conn /\ known'
    BY <1>5 DEF Undecodable
  <2> QED
    BY <1>5, <2>1, UndecodableStep DEF TalkInv
<1>6. ASSUME NEW p \in net, FirstArrives(p) PROVE TalkInv' /\ Playout!Next
  <2>1. net' \subseteq net /\ conn' = conn /\ known'
    BY <1>6 DEF FirstArrives
  <2> QED
    BY <1>6, <2>1, FirstStep DEF TalkInv
<1>7. ASSUME NEW p \in net, Arrives(p) PROVE TalkInv' /\ Playout!Next
  <2>1. net' \subseteq net /\ conn' = conn /\ known' = known /\ known
        /\ Push(p[1], p[2])
    BY <1>7 DEF Arrives
  <2>2. p[1] \in SeqNums /\ p[2] \in Frames
    BY ConversationAssumption DEF TalkInv
  <2>3. IInv'
    BY <2>1, <2>2, NextInv DEF Next, TalkInv
  <2>4. Playout!Offer(p[1], p[2])
    BY <2>1 DEF Push, PushLate, PushFull, PushRoom, Playout!Offer
  <2> QED
    BY <2>1, <2>2, <2>3, <2>4 DEF TalkInv, Playout!Next
<1>8. CASE Mix
  <2>1. net' = net /\ conn' = conn /\ known' = known /\ Pop
    BY <1>8 DEF Mix
  <2>2. IInv' /\ [Playout!Next]_(Playout!vars)
    BY <2>1, NextInv, PlayoutStep DEF Next, TalkInv
  <2>3. known
    BY <2>1 DEF Pop, PopEmpty, PopFrame, TalkInv
  <2> QED
    BY <2>1, <2>2, <2>3 DEF TalkInv
<1>9. CASE UNCHANGED allVars
  BY <1>1, <1>9 DEF allVars, TalkInv, vars
<1> QED
  BY <1>2, <1>3, <1>4, <1>5, <1>6, <1>7, <1>8, <1>9 DEF TalkNext, Receive

\* The invariant of the listener's buffer holds throughout a conversation.
LEMMA TalkHolds == TalkSpec => []TalkInv
<1>1. TalkInit => TalkInv
  BY InitInv DEF TalkInit, Init, TalkInv
<1>2. TalkInv /\ [TalkNext]_allVars => TalkInv'
  BY TalkStep
<1> QED
  BY <1>1, <1>2, PTL DEF TalkSpec

\* Across losses, reordering and a reconnection that numbers its packets from
\* 0 again, the mixer gets only frames that arrived, in increasing order:
\* packets of two connections mix in one buffer but never play backwards.
THEOREM PlayoutOverReconnection == TalkSpec => PlayoutSpec
<1>1. TalkInit => Playout!Init
  BY DEF TalkInit, Init, Playout!Init
<1>2. TalkInv /\ [TalkNext]_allVars => [Playout!Next]_(Playout!vars)
  BY TalkStep
<1> QED
  BY <1>1, <1>2, TalkHolds, PTL DEF TalkSpec, PlayoutSpec, Playout!Spec

\* The listener's buffer keeps its bounds and starts playing at minimalSize
\* frames also when a packet that could not be decoded made it.
THEOREM BufferOverReconnection ==
  TalkSpec => [](PlayedInOrder /\ Bounded /\ EnoughMeansPrimed)
<1>1. TalkInv => PlayedInOrder /\ Bounded /\ EnoughMeansPrimed
  BY DEF TalkInv, IInv
<1> QED
  BY <1>1, TalkHolds, PTL
=============================================================================

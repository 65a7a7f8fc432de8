---------------------------- MODULE SocketProofs -----------------------------
(***************************************************************************)
(* Descriptors are neither closed twice nor lost by NonBlockingUdpSocket,   *)
(* whatever the calls, and the client's use of it keeps one at a time, for  *)
(* every set of objects and descriptors.                                    *)
(***************************************************************************)
EXTENDS ControlSocket, FiniteSetTheorems, TLAPS

SockType ==
  /\ m_sock \in [Objects -> Fds \cup {INVALID_SOCKET}]
  /\ life \in [Objects -> {"none", "building", "alive"}]
  /\ owner \in [Fds -> {"free", "ours", "foreign"}]

\* What is not there holds nothing; what is half built holds something.
LifeAgrees == \A o \in Objects :
  /\ life[o] = "none" => ~ Holds(o)
  /\ life[o] = "building" => Holds(o)

SockInv == SockType /\ LifeAgrees /\ OneOwner /\ NoLeak

\* Before the first constructor nothing is open.
LEMMA SockInitInv == SockInit => SockInv
  BY DEF SockInit, SockInv, SockType, LifeAgrees, OneOwner, NoLeak, Holds

\* Opening a descriptor and the end of the constructor.
LEMMA ConstructInv ==
  ASSUME SockInv, NEW o \in Objects,
         \/ \E fd \in Fds : ConstructOpen(o, fd)
         \/ ConstructOk(o)
  PROVE  SockInv'
<1>1. ASSUME NEW fd \in Fds, ConstructOpen(o, fd)
      PROVE  SockInv'
  <2>1. SockType'
    BY <1>1 DEF ConstructOpen, SockInv, SockType
  <2>2. LifeAgrees' /\ OneOwner'
    BY <1>1, SocketAssumption DEF ConstructOpen, SockInv, SockType, LifeAgrees,
         OneOwner, Holds
  <2>3. NoLeak'
    BY <1>1 DEF ConstructOpen, SockInv, SockType, LifeAgrees, NoLeak, Holds
  <2> QED
    BY <2>1, <2>2, <2>3 DEF SockInv
<1>2. CASE ConstructOk(o)
  BY <1>2 DEF ConstructOk, SockInv, SockType, LifeAgrees, OneOwner, NoLeak, Holds
<1> QED
  BY <1>1, <1>2

\* close(), in each of the places that call it for good.
LEMMA CloseInv ==
  ASSUME SockInv, NEW o \in Objects,
         ConstructFails(o) \/ Close(o) \/ Destroy(o)
  PROVE  SockInv'
<1> USE DEF ConstructFails, Close, Destroy
<1>1. SockType'
  BY DEF SockInv, SockType, Closed
<1>2. \A fd \in Fds : owner'[fd] = "ours" <=> owner[fd] = "ours" /\ fd # m_sock[o]
  BY SocketAssumption DEF Closed, SockInv, SockType
<1>3. m_sock' = [m_sock EXCEPT ![o] = INVALID_SOCKET]
  OBVIOUS
<1>4. \A p \in Objects : p # o => life'[p] = life[p]
  BY DEF SockInv, SockType
<1>5. life'[o] \in {"none", "alive"}
  BY DEF SockInv, SockType
<1>6. LifeAgrees'
  BY <1>3, <1>4, <1>5 DEF SockInv, SockType, LifeAgrees, Holds
<1>7. OneOwner'
  BY <1>2, <1>3 DEF SockInv, SockType, OneOwner, Holds
<1>8. NoLeak'
  BY <1>2, <1>3, <1>4 DEF SockInv, SockType, NoLeak
<1> QED
  BY <1>1, <1>6, <1>7, <1>8 DEF SockInv

\* Both moves.
LEMMA MoveInv ==
  ASSUME SockInv, NEW o \in Objects, NEW other \in Objects,
         MoveConstruct(o, other) \/ MoveAssign(o, other)
  PROVE  SockInv'
<1> USE DEF MoveConstruct, MoveAssign, AfterMove
<1>0. o # other
  BY DEF SockInv, SockType
<1>1. SockType'
  BY DEF SockInv, SockType, Closed
<1>2. \A fd \in Fds : owner'[fd] = "ours" <=> owner[fd] = "ours" /\ fd # m_sock[o]
  <2>1. CASE MoveConstruct(o, other)
    BY <2>1, SocketAssumption DEF SockInv, SockType, LifeAgrees, Holds
  <2>2. CASE MoveAssign(o, other)
    BY <2>2, SocketAssumption DEF Closed, SockInv, SockType
  <2> QED
    BY <2>1, <2>2
<1>3. /\ m_sock'[o] = m_sock[other] /\ m_sock'[other] = INVALID_SOCKET
      /\ \A p \in Objects : p # o /\ p # other => m_sock'[p] = m_sock[p]
  BY <1>0 DEF SockInv, SockType
<1>4. /\ \A p \in Objects : p # o => life'[p] = life[p]
      /\ life'[o] = "alive" /\ life'[other] = "alive"
  BY <1>0 DEF SockInv, SockType
<1>5. LifeAgrees'
  BY <1>3, <1>4 DEF SockInv, SockType, LifeAgrees, Holds
<1>6. OneOwner'
  <2>1. ASSUME NEW p \in Objects, Holds(p)'
        PROVE  owner'[m_sock'[p]] = "ours"
    BY <1>0, <1>2, <1>3, <2>1 DEF SockInv, SockType, OneOwner, Holds
  <2>2. ASSUME NEW p \in Objects, NEW q \in Objects, Holds(p)', m_sock'[p] = m_sock'[q]
        PROVE  p = q
    BY <1>0, <1>3, <2>2 DEF SockInv, SockType, OneOwner, Holds
  <2> QED
    BY <2>1, <2>2 DEF OneOwner
<1>7. NoLeak'
  <2> SUFFICES ASSUME NEW fd \in Fds, owner'[fd] = "ours"
               PROVE  \E p \in Objects : m_sock'[p] = fd /\ life'[p] # "none"
    BY DEF NoLeak
  <2>1. PICK p \in Objects : m_sock[p] = fd /\ life[p] # "none"
    BY <1>2 DEF SockInv, NoLeak
  <2>2. p # o
    BY <1>2, <2>1
  <2>3. CASE p = other
    BY <1>3, <1>4, <2>1, <2>3
  <2>4. CASE p # other
    BY <1>3, <1>4, <2>1, <2>2, <2>4
  <2> QED
    BY <2>3, <2>4
<1> QED
  BY <1>1, <1>5, <1>6, <1>7 DEF SockInv

\* What the rest of the process does.
LEMMA ForeignInv ==
  ASSUME SockInv, NEW fd \in Fds, Foreign(fd)
  PROVE  SockInv'
<1>1. SockType'
  BY DEF Foreign, SockInv, SockType
<1>2. \A x \in Fds : owner'[x] = "ours" <=> owner[x] = "ours"
  BY DEF Foreign, SockInv, SockType
<1>3. LifeAgrees' /\ OneOwner' /\ NoLeak'
  BY <1>2 DEF Foreign, SockInv, SockType, LifeAgrees, OneOwner, NoLeak, Holds
<1> QED
  BY <1>1, <1>3 DEF SockInv

\* Doing nothing.
LEMMA StutterInv == SockInv /\ UNCHANGED sockVars => SockInv'
  BY DEF sockVars, SockInv, SockType, LifeAgrees, OneOwner, NoLeak, Holds

\* The invariant holds under any sequence of calls.
LEMMA SockHolds == SockSpec => []SockInv
<1>1. SockInv /\ [SockNext]_sockVars => SockInv'
  BY ConstructInv, CloseInv, MoveInv, ForeignInv, StutterInv DEF SockNext
<1> QED
  BY SockInitInv, <1>1, PTL DEF SockSpec

\* Whatever sequence of calls is made on whatever objects, no close() or
\* destructor closes a descriptor that belongs to somebody else.
THEOREM OneOwnerHolds == SockSpec => []OneOwner
<1>1. SockInv => OneOwner
  BY DEF SockInv
<1> QED
  BY SockHolds, <1>1, PTL

\* Nor is a descriptor lost, also when a constructor throws.
THEOREM NoLeakHolds == SockSpec => []NoLeak
<1>1. SockInv => NoLeak
  BY DEF SockInv
<1> QED
  BY SockHolds, <1>1, PTL

-----------------------------------------------------------------------------
(***************************************************************************)
(* Where controlThread is says which of its two objects exist and which     *)
(* one holds a descriptor; no other object exists.                          *)
(***************************************************************************)
Pcs == {"member", "local", "move", "setfd", "run", "free", "ended", "terminated"}

Place ==
  /\ pc \in Pcs
  /\ \A o \in Objects \ {sock, sock_} : life[o] = "none"
  /\ pc = "member" => life[sock] # "alive" /\ life[sock_] = "none"
  /\ pc = "local" => life[sock_] # "alive"
  /\ pc \notin {"member", "terminated"} => life[sock] = "alive" /\ Holds(sock)
  /\ pc = "move" => life[sock_] = "alive" /\ Holds(sock_)
  /\ pc \notin {"local", "move"} => ~ Holds(sock_)
  /\ pc \in {"run", "free"} => sslFd = m_sock[sock]

IInv == SockInv /\ Place

\* The beginning.
LEMMA InitInv == Init => IInv
  BY SockInitInv, ControlAssumption
     DEF Init, SockInit, IInv, Place, Pcs, Holds

\* Every step of the client keeps the invariant.
LEMMA StepInv == IInv /\ [Next]_vars => IInv'
<1> SUFFICES ASSUME IInv, [Next]_vars PROVE IInv'
  OBVIOUS
<1> USE ControlAssumption, SocketAssumption
<1>0. SockInv /\ Place /\ SockType /\ LifeAgrees
  BY DEF IInv, SockInv
<1>1. ASSUME NEW fd \in Fds, Opens("member", sock, fd) \/ Opens("local", sock_, fd)
      PROVE  IInv'
  <2>1. SockInv'
    BY <1>0, <1>1, ConstructInv DEF Opens
  <2>2. Place'
    BY <1>0, <1>1 DEF Opens, ConstructOpen, Place, SockType, Holds
  <2> QED
    BY <2>1, <2>2 DEF IInv
<1>2. CASE Refused("member", sock) \/ Refused("local", sock_)
  <2>1. SockInv'
    BY <1>0, <1>2, StutterInv DEF Refused
  <2>2. ~ Holds(sock_)
    BY <1>0, <1>2 DEF Refused, Place, LifeAgrees
  <2>3. Place'
    BY <1>0, <1>2, <2>2 DEF Refused, sockVars, Place, Holds, Pcs
  <2> QED
    BY <2>1, <2>3 DEF IInv
<1>3. CASE Opened("member", sock, "local") \/ Opened("local", sock_, "move")
  <2>1. SockInv'
    BY <1>0, <1>3, ConstructInv, CloseInv DEF Opened
  <2>2. Place'
    BY <1>0, <1>3 DEF Opened, ConstructOk, ConstructFails, Place, SockType,
         LifeAgrees, Holds, Pcs
  <2> QED
    BY <2>1, <2>2 DEF IInv
<1>4. CASE Moves
  <2>1. SockInv'
    BY <1>0, <1>4, MoveInv DEF Moves
  <2>2. Place'
    BY <1>0, <1>4 DEF Moves, MoveAssign, AfterMove, Place, SockType, Holds, Pcs
  <2> QED
    BY <2>1, <2>2 DEF IInv
<1>5. CASE SetsFd \/ Leaves
  <2>1. SockInv'
    BY <1>0, <1>5, StutterInv DEF SetsFd, Leaves
  <2>2. Place'
    BY <1>0, <1>5 DEF SetsFd, Leaves, sockVars, Place, Holds, Pcs
  <2> QED
    BY <2>1, <2>2 DEF IInv
<1>6. CASE Frees
  <2>1. SockInv'
    BY <1>0, <1>6, CloseInv DEF Frees
  <2>2. Place'
    BY <1>0, <1>6 DEF Frees, Destroy, Place, SockType, Holds, Pcs
  <2> QED
    BY <2>1, <2>2 DEF IInv
<1>7. CASE Elsewhere
  <2>1. SockInv'
    BY <1>0, <1>7, ForeignInv DEF Elsewhere
  <2>2. Place'
    BY <1>0, <1>7 DEF Elsewhere, Foreign, Place, Holds
  <2> QED
    BY <2>1, <2>2 DEF IInv
<1>8. CASE UNCHANGED vars
  BY <1>0, <1>8, StutterInv DEF vars, sockVars, IInv, Place, Holds
<1> QED
  BY <1>1, <1>2, <1>3, <1>4, <1>5, <1>6, <1>7, <1>8 DEF Next

\* Every step of the client calls the class as it may be called, or leaves
\* its objects alone: the client's socket handling implements the class's
\* protocol, so that whatever holds of any sequence of calls holds of it.
THEOREM ControlImplements == Spec => SockSpec
<1>1. Init => SockInit
  BY DEF Init
<1>2. [Next]_vars => [SockNext]_sockVars
  <2> SUFFICES ASSUME [Next]_vars PROVE [SockNext]_sockVars
    OBVIOUS
  <2> USE ControlAssumption
  <2>1. ASSUME NEW fd \in Fds, Opens("member", sock, fd) \/ Opens("local", sock_, fd)
        PROVE  SockNext
    BY <2>1 DEF Opens, SockNext
  <2>2. CASE Opened("member", sock, "local") \/ Opened("local", sock_, "move")
    BY <2>2 DEF Opened, SockNext
  <2>3. CASE Moves
    BY <2>3 DEF Moves, SockNext
  <2>4. CASE Frees
    BY <2>4 DEF Frees, SockNext
  <2>5. CASE Elsewhere
    BY <2>5 DEF Elsewhere, SockNext
  <2>6. CASE Refused("member", sock) \/ Refused("local", sock_) \/ SetsFd \/ Leaves
    BY <2>6 DEF Refused, SetsFd, Leaves
  <2>7. CASE UNCHANGED vars
    BY <2>7 DEF vars, sockVars
  <2> QED
    BY <2>1, <2>2, <2>3, <2>4, <2>5, <2>6, <2>7 DEF Next
<1> QED
  BY <1>1, <1>2, PTL DEF Spec, SockSpec

\* Over any number of reconnections no descriptor of the client has two
\* owners, and none is closed after the system gave it to somebody else.
THEOREM ControlOneOwner == Spec => []OneOwner
  BY ControlImplements, OneOwnerHolds, PTL

\* Over any number of reconnections no descriptor of the client is lost.
THEOREM ControlNoLeak == Spec => []NoLeak
  BY ControlImplements, NoLeakHolds, PTL

\* wolfSSL and the threads never use a descriptor that is closed or that has
\* become somebody else's.
THEOREM HandleUsableHolds == Spec => []HandleUsable
<1>1. IInv => HandleUsable
  BY ControlAssumption DEF IInv, Place, SockInv, OneOwner, HandleUsable
<1> QED
  BY InitInv, StepInv, <1>1, PTL DEF Spec

\* A set with at most the elements x and y has at most two.
LEMMA AtMostTwo ==
  ASSUME NEW x, NEW y, NEW S, S \subseteq {x, y}
  PROVE  Cardinality(S) \in Nat /\ Cardinality(S) <= 2
         /\ (x = y => Cardinality(S) <= 1)
<1>1. IsFiniteSet({x}) /\ Cardinality({x}) = 1
  BY FS_Singleton
<1>2. IsFiniteSet({x} \cup {y}) /\ Cardinality({x} \cup {y}) \in {1, 2}
  BY <1>1, FS_AddElement
<1>3. {x, y} = {x} \cup {y}
  OBVIOUS
<1>4. Cardinality({x, y}) \in {1, 2} /\ IsFiniteSet({x, y})
  BY <1>2, <1>3
<1>5. Cardinality(S) <= Cardinality({x, y}) /\ IsFiniteSet(S)
  BY <1>4, FS_Subset
<1>6. Cardinality(S) \in Nat
  BY <1>5, FS_CardinalityType
<1>7. x = y => {x, y} = {x}
  OBVIOUS
<1> QED
  BY <1>1, <1>4, <1>5, <1>6, <1>7

\* Reconnecting any number of times leaves the client with one descriptor.
THEOREM OneSocketHolds == Spec => []OneSocket
<1>1. IInv => OneSocket
  <2> SUFFICES ASSUME IInv PROVE OneSocket
    OBVIOUS
  <2> DEFINE S == {fd \in Fds : owner[fd] = "ours"}
  <2>1. S \subseteq {m_sock[sock], m_sock[sock_]}
    BY DEF IInv, SockInv, NoLeak, Place
  <2>2. ~ Holds(sock_) => S \subseteq {m_sock[sock], m_sock[sock]}
    BY <2>1, SocketAssumption DEF Holds
  <2> HIDE DEF S
  <2>3. Cardinality(S) <= 2 /\ (~ Holds(sock_) => Cardinality(S) <= 1)
    BY <2>1, <2>2, AtMostTwo
  <2> QED
    BY <2>3 DEF IInv, Place, OneSocket, S
<1> QED
  BY InitInv, StepInv, <1>1, PTL DEF Spec
=============================================================================

------------------------------ MODULE UdpSocket ------------------------------
(***************************************************************************)
(* class NonBlockingUdpSocket (src/src/udpNonBlocking.hpp): objects that    *)
(* own a descriptor and hand it on by moving.  The process has other        *)
(* descriptors too (cubeb, the resolver), and the system gives a number     *)
(* away again as soon as it is closed, so that a descriptor closed twice    *)
(* closes somebody else's.  Any sequence of calls the class permits.        *)
(***************************************************************************)
EXTENDS Naturals, FiniteSets

CONSTANTS Objects, Fds, INVALID_SOCKET

ASSUME SocketAssumption == INVALID_SOCKET \notin Fds

VARIABLES
  m_sock,  \* the descriptor of each object
  life,    \* per object: "none", "building" (in the constructor) or "alive"
  owner    \* per descriptor, what the system knows: "free", "ours", "foreign"

sockVars == <<m_sock, life, owner>>

SockInit ==
  /\ m_sock = [o \in Objects |-> INVALID_SOCKET]
  /\ life = [o \in Objects |-> "none"]
  /\ owner = [fd \in Fds |-> "free"]

-----------------------------------------------------------------------------
(* Slips that would be plausible; each takes the place of the definition it *)
(* is named after.                                                          *)
AfterMoveKept(o) == m_sock[o]               \* the other one keeps its handle
ClosedNothing(o) == owner                   \* close() forgotten

-----------------------------------------------------------------------------
\* m_sock of an object that was moved from.
AfterMove(o) == INVALID_SOCKET

\* close(): what it does to the system's table.
Closed(o) ==
  IF m_sock[o] = INVALID_SOCKET THEN owner
  ELSE [owner EXCEPT ![m_sock[o]] = "free"]

\* socket() succeeds; a failure throws before anything is held.
ConstructOpen(o, fd) ==
  /\ life[o] = "none" /\ owner[fd] = "free"
  /\ owner' = [owner EXCEPT ![fd] = "ours"]
  /\ m_sock' = [m_sock EXCEPT ![o] = fd]
  /\ life' = [life EXCEPT ![o] = "building"]

\* set_socket_nonblocking() succeeds ...
ConstructOk(o) ==
  /\ life[o] = "building"
  /\ life' = [life EXCEPT ![o] = "alive"]
  /\ UNCHANGED <<m_sock, owner>>

\* ... or fails: close() and throw; the destructor does not run.
ConstructFails(o) ==
  /\ life[o] = "building"
  /\ owner' = Closed(o)
  /\ m_sock' = [m_sock EXCEPT ![o] = INVALID_SOCKET]
  /\ life' = [life EXCEPT ![o] = "none"]

\* NonBlockingUdpSocket(NonBlockingUdpSocket&& other).
MoveConstruct(o, other) ==
  /\ life[o] = "none" /\ life[other] = "alive"
  /\ m_sock' = [m_sock EXCEPT ![o] = m_sock[other], ![other] = AfterMove(other)]
  /\ life' = [life EXCEPT ![o] = "alive"]
  /\ UNCHANGED owner

\* operator=(NonBlockingUdpSocket&& other), which checks for itself.
MoveAssign(o, other) ==
  /\ life[o] = "alive" /\ life[other] = "alive" /\ o # other
  /\ owner' = Closed(o)
  /\ m_sock' = [m_sock EXCEPT ![o] = m_sock[other], ![other] = AfterMove(other)]
  /\ UNCHANGED life

Close(o) ==
  /\ life[o] = "alive"
  /\ owner' = Closed(o)
  /\ m_sock' = [m_sock EXCEPT ![o] = INVALID_SOCKET]
  /\ UNCHANGED life

Destroy(o) ==
  /\ life[o] = "alive"
  /\ owner' = Closed(o)
  /\ m_sock' = [m_sock EXCEPT ![o] = INVALID_SOCKET]
  /\ life' = [life EXCEPT ![o] = "none"]

\* The rest of the process opens and closes descriptors of its own.
Foreign(fd) ==
  /\ owner[fd] # "ours"
  /\ owner' = [owner EXCEPT ![fd] = IF @ = "free" THEN "foreign" ELSE "free"]
  /\ UNCHANGED <<m_sock, life>>

SockNext ==
  \/ \E o \in Objects :
        \/ \E fd \in Fds : ConstructOpen(o, fd)
        \/ ConstructOk(o) \/ ConstructFails(o) \/ Close(o) \/ Destroy(o)
        \/ \E other \in Objects : MoveConstruct(o, other) \/ MoveAssign(o, other)
  \/ \E fd \in Fds : Foreign(fd)

SockSpec == SockInit /\ [][SockNext]_sockVars

-----------------------------------------------------------------------------
Holds(o) == m_sock[o] # INVALID_SOCKET

\* No descriptor has two owners ("copying is forbidden to avoid closing a
\* descriptor twice"), so no close() or destructor can close a descriptor
\* that the system has meanwhile given to somebody else.
OneOwner ==
  /\ \A o \in Objects : Holds(o) => owner[m_sock[o]] = "ours"
  /\ \A o, p \in Objects : Holds(o) /\ m_sock[o] = m_sock[p] => o = p

\* No descriptor is lost: each one the class opened is in the hands of an
\* object that will close it, also when a constructor throws.
NoLeak == \A fd \in Fds : owner[fd] = "ours" =>
  \E o \in Objects : m_sock[o] = fd /\ life[o] # "none"
=============================================================================

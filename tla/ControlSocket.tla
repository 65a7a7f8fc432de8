---------------------------- MODULE ControlSocket ----------------------------
(***************************************************************************)
(* How AudioTransmission uses its socket (src/src/AudioTransmission.hpp):   *)
(* every connection makes a new NonBlockingUdpSocket, moves it over the     *)
(* member sock, whose old descriptor is thereby closed, and lends the       *)
(* descriptor to wolfSSL and to three threads that wait on it.              *)
(***************************************************************************)
EXTENDS UdpSocket

CONSTANTS sock, sock_  \* the member and the local variable of controlThread

ASSUME ControlAssumption ==
  sock # sock_ /\ sock \in Objects /\ sock_ \in Objects

VARIABLES
  pc,    \* where the constructor or controlThread is
  sslFd  \* the descriptor wolfSSL has (wolfSSL_set_fd), if any

vars == <<sockVars, pc, sslFd>>

Init == SockInit /\ pc = "member" /\ sslFd = INVALID_SOCKET

\* A slip: sock is closed together with the connection.
LeavesClosed == pc = "run" /\ Close(sock) /\ pc' = "free" /\ UNCHANGED sslFd

-----------------------------------------------------------------------------
\* The constructors: of the member with the AudioTransmission, of the local
\* variable in every iteration.  What they throw ends the process.
Opens(at, o, fd) == pc = at /\ ConstructOpen(o, fd) /\ UNCHANGED <<pc, sslFd>>

\* socket() fails.
Refused(at, o) ==
  /\ pc = at /\ life[o] = "none" /\ pc' = "terminated"
  /\ UNCHANGED <<sockVars, sslFd>>

Opened(at, o, next) ==
  /\ pc = at
  /\ \/ ConstructOk(o) /\ pc' = next
     \/ ConstructFails(o) /\ pc' = "terminated"
  /\ UNCHANGED sslFd

\* sock = std::move(sock_).
Moves == pc = "move" /\ MoveAssign(sock, sock_) /\ pc' = "setfd" /\ UNCHANGED sslFd

\* wolfSSL_set_fd(ssl, sock.get_handle()).
SetsFd ==
  /\ pc = "setfd" /\ pc' = "run"
  /\ sslFd' = m_sock[sock]
  /\ UNCHANGED sockVars

\* connect(), then the threads until they are joined; connect() may throw.
Leaves ==
  /\ pc = "run" /\ pc' \in {"free", "terminated"}
  /\ UNCHANGED <<sockVars, sslFd>>

\* wolfSSL_free(ssl), which leaves the descriptor open, and the end of the
\* scope of sock_.  Without isReconect the loop ends.
Frees ==
  /\ pc = "free" /\ Destroy(sock_)
  /\ sslFd' = INVALID_SOCKET
  /\ pc' \in {"local", "ended"}

Elsewhere ==
  /\ pc # "terminated"
  /\ \E fd \in Fds : Foreign(fd)
  /\ UNCHANGED <<pc, sslFd>>

Next ==
  \/ \E fd \in Fds : Opens("member", sock, fd) \/ Opens("local", sock_, fd)
  \/ Refused("member", sock) \/ Refused("local", sock_)
  \/ Opened("member", sock, "local") \/ Opened("local", sock_, "move")
  \/ Moves \/ SetsFd \/ Leaves \/ Frees \/ Elsewhere

Spec == Init /\ [][Next]_vars

-----------------------------------------------------------------------------
\* The descriptor that wolfSSL and the threads use is open, ours and the one
\* of sock as long as they use it; it is closed only by the move of the next
\* connection, after they are gone.
HandleUsable ==
  /\ pc \in {"setfd", "run", "free"} => Holds(sock) /\ owner[m_sock[sock]] = "ours"
  /\ pc \in {"run", "free"} => sslFd = m_sock[sock]

\* However often the client reconnects, it holds one descriptor; a second
\* one only while it replaces the first.
OneSocket ==
  Cardinality({fd \in Fds : owner[fd] = "ours"})
    <= IF pc \in {"local", "move"} THEN 2 ELSE 1
=============================================================================

SPECIFICATION Spec
CONSTANTS
  Objects = {sock, sock_}
  sock = sock
  sock_ = sock_
  Fds = {3, 4, 5, 6}
  INVALID_SOCKET = INVALID_SOCKET
INVARIANTS
  OneOwner
  HandleUsable
  OneSocket
CHECK_DEADLOCK FALSE

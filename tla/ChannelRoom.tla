----------------------------- MODULE ChannelRoom -----------------------------
(***************************************************************************)
(* What the server promises to its clients, whatever tables, threads and    *)
(* locks are behind it: a client is in one channel at most and stays there  *)
(* until it leaves, and nobody is made to leave who was not silent for the  *)
(* timeout since it came.  A client that left comes back like a new one.    *)
(***************************************************************************)
CONSTANTS Hashes, Channels

VARIABLES
  room,   \* per channel, the clients that its frames are relayed to
  silent  \* the clients that have been silent for the timeout

vars == <<room, silent>>

Init == room = [c \in Channels |-> {}] /\ silent = {}

Absent(h) == \A c \in Channels : h \notin room[c]

\* The first frame of h names its channel.
Join(h, c) ==
  /\ Absent(h)
  /\ room' = [room EXCEPT ![c] = @ \cup {h}]
  /\ UNCHANGED silent

\* A second passes.
FallSilent ==
  /\ silent' \in SUBSET Hashes /\ silent \subseteq silent'
  /\ UNCHANGED room

\* h is freed, with everything that is known of it.
Leave(h) ==
  /\ h \in silent
  /\ room' = [c \in Channels |-> room[c] \ {h}]
  /\ silent' = silent \ {h}

Next ==
  \/ FallSilent
  \/ \E h \in Hashes : Leave(h) \/ \E c \in Channels : Join(h, c)

Spec == Init /\ [][Next]_vars
=============================================================================

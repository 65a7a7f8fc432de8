--------------------------- MODULE InOrderPlayout ---------------------------
(***************************************************************************)
(* What a talker's playback promises to the mixer, whatever buffering is    *)
(* behind it: only frames that arrived are played, and each one carries a   *)
(* larger sequence number than every frame played before it.  Frames may be *)
(* skipped; nothing is said about how long one waits.                       *)
(***************************************************************************)
EXTENDS Naturals, Sequences

CONSTANTS SeqNums, Frames

VARIABLES
  offered,  \* the <<sequence number, frame>> pairs that arrived
  played    \* the pairs handed to the mixer, in order

vars == <<offered, played>>

Init == offered = {} /\ played = << >>

Offer(k, f) ==
  /\ offered' = offered \cup {<<k, f>>}
  /\ UNCHANGED played

Play(p) ==
  /\ p \in offered
  /\ \A i \in 1 .. Len(played) : played[i][1] < p[1]
  /\ played' = Append(played, p)
  /\ UNCHANGED offered

Next ==
  \/ \E k \in SeqNums, f \in Frames : Offer(k, f)
  \/ \E p \in offered : Play(p)

Spec == Init /\ [][Next]_vars
=============================================================================

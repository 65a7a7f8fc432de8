---------------------------- MODULE SampleStream ----------------------------
(***************************************************************************)
(* What the capture side of the client promises to the listeners, whatever  *)
(* buffers and threads are in between: every packet is a whole frame of     *)
(* recorded samples, samples go out in the order of recording and none goes *)
(* out twice.  Samples may be lost at any time.                             *)
(***************************************************************************)
EXTENDS Naturals, Sequences

CONSTANTS Frame, MaxSamples

VARIABLES
  newest,    \* the last sample recorded so far
  inFlight,  \* the samples recorded and neither sent nor lost
  sent       \* the samples that were sent, in order

vars == <<newest, inFlight, sent>>

Init == newest = 0 /\ inFlight = {} /\ sent = <<>>

\* The device records; all but the last of the new samples may be lost at
\* once.
Record ==
  /\ newest' \in newest + 1 .. MaxSamples
  /\ inFlight' \in {inFlight, inFlight \cup {newest'}}
  /\ UNCHANGED sent

Lose ==
  /\ inFlight' \subseteq inFlight
  /\ UNCHANGED <<newest, sent>>

\* Packet p holds the oldest samples in flight.
Send(p) ==
  /\ Len(p) = Frame
  /\ \A i, j \in 1 .. Len(p) : i < j => p[i] < p[j]
  /\ \A i \in 1 .. Len(p) : p[i] \in inFlight
  /\ inFlight' = inFlight \ {p[i] : i \in 1 .. Len(p)}
  /\ \A i \in 1 .. Len(p) : \A s \in inFlight' : p[i] < s
  /\ sent' = sent \o p
  /\ UNCHANGED newest

Next ==
  \/ Record
  \/ Lose
  \/ Send(SubSeq(sent', Len(sent) + 1, Len(sent')))

Spec == Init /\ [][Next]_vars
=============================================================================

---------------------------- MODULE MCVoiceChat -----------------------------
(***************************************************************************)
(* VoiceChat with a few addresses and ports.  Both clients end up in one    *)
(* channel, one of them by way of a negative int.                           *)
(***************************************************************************)
EXTENDS VoiceChat, Bitwise

AskedChannels == [c \in Clients |-> IF c = 1 THEN 3 ELSE 7]

\* The sum that stands for the hash is the exclusive or of the code.
ASSUME XorIsSum == \A ep \in Endpoints :
  addr_hash(ep) = (0 ^^ (ep[1] * Word)) ^^ ep[2]

\* Whatever pair of numbers is given as --channel, one byte is sent for both
\* exactly if they are congruent; the two clients above are one such pair.
ASSUME AllPairsOfChannels == \A a, b \in 0 .. Word - 1 :
  ToUChar(ToInt(a)) = ToUChar(ToInt(b)) <=> (a - b) % Byte = 0
=============================================================================

----------------------------- MODULE Addressing -----------------------------
(***************************************************************************)
(* How a client is named: the server keys its sessions by a 64-bit hash of  *)
(* the address a datagram came from (addr_hash in src/src/server.cpp), and  *)
(* a listener keys its users by that hash cut to 32 bits                    *)
(* (src/src/AudioTransmission.hpp).  An endpoint is <<address, port>>.      *)
(* And how a channel is named: an unsigned int on the command line, an int  *)
(* in the client, an unsigned char in the packet.                           *)
(***************************************************************************)
EXTENDS Integers

CONSTANTS
  Word,  \* 2^32, the values of a uint32_t and of an unsigned int
  Byte   \* 2^8, the values of an unsigned char

ASSUME WordAssumption == Word \in Nat \ {0}
ASSUME ByteAssumption == Byte \in Nat \ {0} /\ Word % Byte = 0

\* h ^= address << 32; h ^= port.  The two do not overlap, so the exclusive
\* or is a sum (MCVoiceChat compares it with the bitwise operation).
addr_hash(ep) == ep[1] * Word + ep[2]

\* A slip: the key is the half with the address.
UserKeyHigh(h) == h \div Word

\* The uint64_t clientHash as the uint32_t key of users.
UserKey(h) == h % Word

\* unsigned int to int (the parameter numchannel_), two's complement.
ToInt(n) == IF n < Word \div 2 THEN n ELSE n - Word

\* int to unsigned char (send->channel = numchannel).
ToUChar(n) == n % Byte
=============================================================================

--------------------------- MODULE MCConversation ---------------------------
(***************************************************************************)
(* Conversation with a jitter buffer of three and a few sequence numbers.   *)
(***************************************************************************)
EXTENDS Conversation

CONSTANT MCLastSeq  \* bound on the sequence numbers

MCSeqNums == 0 .. MCLastSeq
=============================================================================

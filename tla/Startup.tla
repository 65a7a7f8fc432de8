------------------------------- MODULE Startup -------------------------------
(***************************************************************************)
(* From the command line to the first datagram: main of the client          *)
(* (src/src/main.cpp, cmd.hpp, the constructors of audioIO.hpp and          *)
(* AudioTransmission.hpp) and resolve_ip_or_dns (network.hpp).  Some        *)
(* failures end the process; others are only printed (error_handling) and   *)
(* the start goes on without what failed.                                   *)
(*                                                                          *)
(* An address is its family and whether it can be written as a string       *)
(* (inet_ntop).  A host is an address, or a name with the list of answers   *)
(* that getaddrinfo gives; the empty list stands for its failure.           *)
(***************************************************************************)
EXTENDS Naturals, Sequences

CONSTANT MaxAnswers  \* bound: answers of the resolver

Address == [family : {"AF_INET", "AF_INET6", "other"}, text : BOOLEAN]

\* What --address may be.
Hosts ==
  [literal : {FALSE}, answers : UNION {[1 .. n -> Address] : n \in 0 .. MaxAnswers}]
  \cup
  [literal : {TRUE}, answers :
     {<<[family |-> f, text |-> TRUE]>> : f \in {"AF_INET", "AF_INET6"}}]

VARIABLES
  pc,    \* how far main is
  host,  \* the value of --address
  ip,    \* which of the answers data.ip is; 0 before
  peer   \* server_addr.sin_addr

vars == <<pc, host, ip, peer>>

Init == pc = "parse" /\ host \in Hosts /\ ip = 0 /\ peer = "unset"

-----------------------------------------------------------------------------
\* An answer that the loop of resolve_ip_or_dns returns.
Usable(a) == a.family \in {"AF_INET", "AF_INET6"} /\ a.text

\* The loop over the answers; 0 when none is left.
Search(answers) ==
  LET from[i \in 1 .. Len(answers) + 1] ==
        IF i > Len(answers) THEN 0
        ELSE IF Usable(answers[i]) THEN i ELSE from[i + 1]
  IN from[1]

\* inet_pton(AF_INET, ip, ...) in the constructor of AudioTransmission.
Parses(a) == a.family = "AF_INET"

-----------------------------------------------------------------------------
Goes(from, to) == pc = from /\ pc' = to

\* parseCli: a parse error exits; an address literal is taken as it is.
Parse ==
  /\ \/ Goes("parse", "exited") /\ UNCHANGED ip
     \/ host.literal /\ Goes("parse", "micro") /\ ip' = 1
     \/ ~ host.literal /\ Goes("parse", "resolve") /\ UNCHANGED ip
  /\ UNCHANGED <<host, peer>>

\* The rest of resolve_ip_or_dns; it throws if nothing is found.
Resolve ==
  /\ ip' = Search(host.answers)
  /\ Goes("resolve", IF ip' = 0 THEN "terminated" ELSE "micro")
  /\ UNCHANGED <<host, peer>>

\* audioInput and audioOut throw if their stream cannot be made; what
\* cubeb_init returns is only printed.
Devices ==
  /\ \/ Goes("micro", "dinamic") \/ Goes("dinamic", "transmission")
     \/ Goes("micro", "terminated") \/ Goes("dinamic", "terminated")
  /\ UNCHANGED <<host, ip, peer>>

\* AudioTransmission(...).  If inet_pton refuses the address that is printed
\* and server_addr.sin_addr keeps what happened to be in memory.
Transmission ==
  /\ Goes("transmission", "started")
  /\ peer' \in IF Parses(host.answers[ip]) THEN {"host"} ELSE {"host", "elsewhere"}
  /\ UNCHANGED <<host, ip>>

Next == Parse \/ Resolve \/ Devices \/ Transmission

Spec == Init /\ [][Next]_vars

-----------------------------------------------------------------------------
(* What the repository says and the code does not do. *)

\* "--address - ip or dns" (README) and "return IPv4 and IPv6" (network.hpp):
\* a client that has started aims at the host it was given.
AimsAtHost == pc = "started" => peer = "host"
=============================================================================

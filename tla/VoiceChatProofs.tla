--------------------------- MODULE VoiceChatProofs ---------------------------
(***************************************************************************)
(* Who a session belongs to and who hears whom, for every set of clients    *)
(* and ports, every word size and all timeouts.                             *)
(***************************************************************************)
EXTENDS VoiceChat, TLAPS

(***************************************************************************)
(* A session sits at the hash of its own address.                           *)
(***************************************************************************)
AtOwnHash == \A h \in DOMAIN sessions : addr_hash(sessions[h].addr) = h

IInv == TypeOK /\ AtOwnHash

-----------------------------------------------------------------------------
\* A larger address moves the hash by a whole word at least.
LEMMA Shifted == \A a, b \in Nat : a < b => (a + 1) * Word <= b * Word
<1> SUFFICES ASSUME NEW a \in Nat, NEW b \in Nat, a < b
             PROVE  (a + 1) * Word <= b * Word
  OBVIOUS
<1>1. PICK k \in Nat : b = (a + 1) + k
  <2> WITNESS b - (a + 1) \in Nat
  <2> QED OBVIOUS
<1>2. b * Word = (a + 1) * Word + k * Word
  BY <1>1, WordAssumption
<1>3. k * Word \in Nat /\ (a + 1) * Word \in Nat
  BY WordAssumption
<1> QED
  BY <1>2, <1>3

\* addr_hash is injective: address and port stay in their own halves of the
\* 64 bits (server.cpp, addr_hash).
THEOREM HashInjective ==
  \A x, y \in Nat \X (0 .. Word - 1) : addr_hash(x) = addr_hash(y) => x = y
<1> SUFFICES ASSUME NEW a \in Nat, NEW p \in 0 .. Word - 1,
                    NEW b \in Nat, NEW q \in 0 .. Word - 1,
                    a * Word + p = b * Word + q
             PROVE  a = b /\ p = q
  BY DEF addr_hash
<1>0. a * Word \in Nat /\ b * Word \in Nat
  BY WordAssumption
<1>1. ~ (a < b)
  <2> SUFFICES ASSUME a < b PROVE FALSE
    OBVIOUS
  <2>1. (a + 1) * Word <= b * Word
    BY Shifted
  <2>2. (a + 1) * Word = a * Word + Word
    BY WordAssumption
  <2> QED
    BY <2>1, <2>2, <1>0, WordAssumption
<1>2. ~ (b < a)
  <2> SUFFICES ASSUME b < a PROVE FALSE
    OBVIOUS
  <2>1. (b + 1) * Word <= a * Word
    BY Shifted
  <2>2. (b + 1) * Word = b * Word + Word
    BY WordAssumption
  <2> QED
    BY <2>1, <2>2, <1>0, WordAssumption
<1>3. a = b
  BY <1>1, <1>2
<1> QED
  BY <1>3, <1>0, WordAssumption

\* Cut to a word, the hash is the port.
LEMMA KeyPort == \A x \in Nat \X (0 .. Word - 1) : UserKey(addr_hash(x)) = x[2]
<1> SUFFICES ASSUME NEW a \in Nat, NEW p \in 0 .. Word - 1
             PROVE  (a * Word + p) % Word = p
  BY DEF UserKey, addr_hash
<1> QED
  BY WordAssumption

\* Endpoints are what the two facts above are about.
LEMMA EndpointsFit == Endpoints \subseteq Nat \X (0 .. Word - 1)
  BY ChatAssumption DEF Endpoints

\* Dividing by the size of a byte.
LEMMA Division == \A x \in Int :
  /\ x % Byte \in 0 .. Byte - 1 /\ x \div Byte \in Int
  /\ x = (x \div Byte) * Byte + (x % Byte)
  BY ByteAssumption

\* The remainder is the only one in its range.
LEMMA Remainder == \A q \in Int : \A r \in 0 .. Byte - 1 :
  (q * Byte + r) % Byte = r
  BY ByteAssumption

\* Whole bytes do not change the remainder.
LEMMA WholeBytes == \A x, k \in Int : (x - k * Byte) % Byte = x % Byte
<1> SUFFICES ASSUME NEW x \in Int, NEW k \in Int
             PROVE  (x - k * Byte) % Byte = x % Byte
  OBVIOUS
<1>1. PICK q \in Int, r \in 0 .. Byte - 1 : x = q * Byte + r
  BY Division
<1>2. q - k \in Int /\ (q - k) * Byte = q * Byte - k * Byte
  BY ByteAssumption
<1>3. x - k * Byte = (q - k) * Byte + r
  BY <1>1, <1>2, ByteAssumption
<1> QED
  BY <1>1, <1>2, <1>3, Remainder

\* Equal remainders are a difference of whole bytes.
LEMMA Congruent == \A x, y \in Int : x % Byte = y % Byte <=> (x - y) % Byte = 0
<1> SUFFICES ASSUME NEW x \in Int, NEW y \in Int
             PROVE  x % Byte = y % Byte <=> (x - y) % Byte = 0
  OBVIOUS
<1>0. 0 \in 0 .. Byte - 1
  BY ByteAssumption
<1>1. ASSUME x % Byte = y % Byte PROVE (x - y) % Byte = 0
  <2>1. PICK q \in Int, r \in 0 .. Byte - 1 : x = q * Byte + r /\ r = x % Byte
    BY Division
  <2>2. PICK k \in Int : y = k * Byte + r
    BY <1>1, <2>1, Division
  <2>3. q - k \in Int /\ (q - k) * Byte = q * Byte - k * Byte
    BY ByteAssumption
  <2>4. x - y = (q - k) * Byte + 0
    <3>1. q * Byte \in Int /\ k * Byte \in Int
      BY ByteAssumption
    <3> QED
      BY <2>1, <2>2, <2>3, <3>1
  <2> QED
    BY <2>3, <2>4, <1>0, Remainder
<1>2. ASSUME (x - y) % Byte = 0 PROVE x % Byte = y % Byte
  <2>1. PICK k \in Int : x - y = k * Byte + 0
    BY <1>2, Division
  <2>2. k * Byte \in Int
    BY ByteAssumption
  <2>3. y = x - k * Byte
    BY <2>1, <2>2
  <2> QED
    BY <2>3, WholeBytes
<1> QED
  BY <1>1, <1>2

\* What arrives of a channel number is its low byte: the conversion to int
\* takes a word off or nothing, and a word is so many whole bytes.
LEMMA ByteOfChannel == \A n \in 0 .. Word - 1 : ToUChar(ToInt(n)) = n % Byte
<1> SUFFICES ASSUME NEW n \in 0 .. Word - 1 PROVE ToInt(n) % Byte = n % Byte
  BY DEF ToUChar
<1> DEFINE k == Word \div Byte
<1>1. k \in Int /\ Word = k * Byte
  <2>1. Word \in Int /\ Word % Byte = 0
    BY WordAssumption, ByteAssumption
  <2>2. k \in Int /\ Word = k * Byte + 0
    BY <2>1, Division
  <2>3. k * Byte \in Int
    BY <2>2, ByteAssumption
  <2> QED
    BY <2>2, <2>3
<1> HIDE DEF k
<1>2. (n - Word) % Byte = n % Byte
  BY <1>1, WholeBytes, WordAssumption
<1> QED
  BY <1>2 DEF ToInt

-----------------------------------------------------------------------------
\* A step that adds no session and moves none keeps them at their hashes.
LEMMA SessionsKept ==
  ASSUME IInv, DOMAIN sessions' \subseteq DOMAIN sessions,
         \A h \in DOMAIN sessions' : sessions'[h].addr = sessions[h].addr
  PROVE  AtOwnHash'
  BY DEF IInv, AtOwnHash

\* What InsertSession leaves.
LEMMA InsertInv ==
  ASSUME IInv, NEW c \in Clients, NEW usable \in BOOLEAN, ~ Known(c),
         InsertSession(c, usable),
         state' = state, port' = port, silence' \in [Clients -> 0 .. Silence],
         forDelete' = forDelete, sleepLeft' = sleepLeft
  PROVE  IInv'
<1> DEFINE s == NewSession(Here(c), usable)
<1>1. Here(c) \in Endpoints
  BY DEF IInv, TypeOK, Here, Endpoints
<1>2. s \in Session /\ s.addr = Here(c)
  BY <1>1, ChatAssumption DEF NewSession, Session
<1> HIDE DEF s
<1>3. /\ DOMAIN sessions' = DOMAIN sessions \cup {Hash(c)}
      /\ sessions'[Hash(c)] = s
      /\ \A h \in DOMAIN sessions : h # Hash(c) /\ sessions'[h] = sessions[h]
  BY DEF InsertSession, Known, s
<1>4. sessions' \in [DOMAIN sessions' -> Session]
  BY <1>2, <1>3 DEF InsertSession, IInv, TypeOK
<1>5. DOMAIN sessions' \subseteq {addr_hash(ep) : ep \in Endpoints}
  BY <1>1, <1>3 DEF IInv, TypeOK, Hash
<1>6. TypeOK'
  BY <1>3, <1>4, <1>5 DEF IInv, TypeOK
<1>7. AtOwnHash'
  BY <1>2, <1>3 DEF IInv, AtOwnHash, Hash
<1> QED
  BY <1>6, <1>7 DEF IInv

\* What Abandon leaves: the same sessions where they were.
LEMMA AbandonInv ==
  ASSUME IInv, NEW c \in Clients, sessions' = Abandon(c),
         port' \in [Clients -> Ports],
         state' \in [Clients -> {"connecting", "up", "deaf", "down"}],
         silence' \in [Clients -> 0 .. Silence],
         forDelete' = forDelete, sleepLeft' = sleepLeft
  PROVE  IInv'
<1>1. /\ DOMAIN sessions' = DOMAIN sessions
      /\ sessions' = [h \in DOMAIN sessions |-> sessions'[h]]
  BY DEF Abandon
<1>2. ASSUME NEW h \in DOMAIN sessions
      PROVE  sessions'[h] \in Session /\ sessions'[h].addr = sessions[h].addr
  <2>1. sessions[h] \in Session
    BY DEF IInv, TypeOK
  <2>2. sessions'[h] = [sessions[h] EXCEPT
                          !.current = sessions[h].current /\ sessions[h].addr[1] # c]
    BY DEF Abandon
  <2>3. (sessions[h].current /\ sessions[h].addr[1] # c) \in BOOLEAN
    OBVIOUS
  <2> QED
    BY <2>1, <2>2, <2>3 DEF Session
<1>3. sessions' \in [DOMAIN sessions' -> Session]
  BY <1>1, <1>2
<1>4. TypeOK'
  BY <1>1, <1>3 DEF IInv, TypeOK
<1> QED
  BY <1>1, <1>2, <1>4, SessionsKept DEF IInv

-----------------------------------------------------------------------------
\* Initially there is no session.
LEMMA InitInv == Init => IInv
<1> SUFFICES ASSUME Init PROVE IInv
  OBVIOUS
<1>1. DOMAIN sessions = {}
  BY DEF Init
<1>2. sessions \in [DOMAIN sessions -> Session]
  BY <1>1 DEF Init
<1>3. silence \in [Clients -> 0 .. Silence] /\ sleepLeft \in 0 .. Timeout
  BY ChatAssumption DEF Init
<1>4. state \in [Clients -> {"connecting", "up", "deaf", "down"}]
  BY DEF Init
<1> QED
  BY <1>1, <1>2, <1>3, <1>4 DEF Init, IInv, TypeOK, AtOwnHash

\* Every step of a client keeps the invariant.
LEMMA ClientStepInv ==
  ASSUME IInv, NEW c \in Clients, ClientStep(c)
  PROVE  IInv'
<1>0. silence \in [Clients -> 0 .. Silence] /\ 0 \in 0 .. Silence
  BY ChatAssumption DEF IInv, TypeOK
<1>1. CASE Hello(c)
  BY <1>0, <1>1, InsertInv DEF Hello
<1>2. CASE ConnectDone(c)
  <2>1. PICK done \in BOOLEAN :
          sessions' = [sessions EXCEPT ![Hash(c)].handshake_done = @ \/ done]
    BY <1>2 DEF ConnectDone
  <2>2. (sessions[Hash(c)].handshake_done \/ done) \in BOOLEAN
    OBVIOUS
  <2>3. /\ DOMAIN sessions' = DOMAIN sessions
        /\ sessions' \in [DOMAIN sessions -> Session]
        /\ \A h \in DOMAIN sessions : sessions'[h].addr = sessions[h].addr
    BY <2>1, <2>2 DEF IInv, TypeOK, Session
  <2>4. AtOwnHash'
    BY <1>2, <2>3, SessionsKept DEF ConnectDone
  <2>5. /\ state' \in [Clients -> {"connecting", "up", "deaf", "down"}]
        /\ silence' \in [Clients -> 0 .. Silence]
    BY <1>0, <1>2 DEF ConnectDone, IInv, TypeOK
  <2> QED
    BY <1>2, <2>3, <2>4, <2>5 DEF ConnectDone, IInv, TypeOK
<1>3. CASE AcceptLate(c)
  <2>1. TRUE \in BOOLEAN
    OBVIOUS
  <2>2. /\ DOMAIN sessions' = DOMAIN sessions
        /\ sessions' \in [DOMAIN sessions -> Session]
        /\ \A h \in DOMAIN sessions : sessions'[h].addr = sessions[h].addr
    BY <1>3, <2>1 DEF AcceptLate, IInv, TypeOK, Session
  <2>3. AtOwnHash'
    BY <1>3, <2>2, SessionsKept DEF AcceptLate
  <2> QED
    BY <1>3, <2>2, <2>3 DEF AcceptLate, IInv, TypeOK
<1>4. CASE AudioUnknown(c)
  BY <1>0, <1>4, InsertInv DEF AudioUnknown
<1>5. ASSUME NEW D, Audio(c, D)
      PROVE  IInv'
  <2> DEFINE k == Hash(c)
  <2>1. TRUE \in BOOLEAN /\ 0 \in 0 .. Timeout
    BY ChatAssumption
  <2>2. k \in DOMAIN sessions
    BY <1>5 DEF Audio, Served, Mine, Known
  <2> HIDE DEF k
  <2>3. /\ DOMAIN sessions' = DOMAIN sessions
        /\ sessions' = [h \in DOMAIN sessions |-> sessions'[h]]
    BY <1>5 DEF Audio
  <2>4. ASSUME NEW h \in DOMAIN sessions
        PROVE  sessions'[h] \in Session /\ sessions'[h].addr = sessions[h].addr
    <3>1. sessions[h] \in Session
      BY DEF IInv, TypeOK
    <3>2. CASE h # k
      BY <1>5, <2>2, <3>1, <3>2 DEF Audio, k
    <3>3. CASE h = k
      <4>1. sessions'[k] = [[sessions[k] EXCEPT !.joined = TRUE] EXCEPT !.idle = 0]
        BY <1>5, <2>2 DEF Audio, k
      <4>2. [sessions[k] EXCEPT !.joined = TRUE] \in Session
        BY <2>1, <3>1, <3>3 DEF Session
      <4> QED
        BY <2>1, <3>1, <3>3, <4>1, <4>2 DEF Session
    <3> QED
      BY <3>2, <3>3
  <2>5. sessions' \in [DOMAIN sessions' -> Session]
    BY <2>3, <2>4
  <2>6. AtOwnHash'
    BY <1>5, <2>3, <2>4, SessionsKept DEF Audio
  <2>7. silence' \in [Clients -> 0 .. Silence]
    BY <1>0, <1>5 DEF Audio
  <2> QED
    BY <1>5, <2>3, <2>5, <2>6, <2>7 DEF Audio, IInv, TypeOK
<1>6. CASE TimeoutReconnect(c)
  <2>1. PICK p \in Ports : port' = [port EXCEPT ![c] = p]
    BY <1>6 DEF TimeoutReconnect
  <2>2. port' \in [Clients -> Ports]
    BY <2>1 DEF IInv, TypeOK
  <2>3. /\ state' \in [Clients -> {"connecting", "up", "deaf", "down"}]
        /\ silence' \in [Clients -> 0 .. Silence]
    BY <1>0, <1>6 DEF TimeoutReconnect, IInv, TypeOK
  <2> QED
    BY <1>6, <2>2, <2>3, AbandonInv DEF TimeoutReconnect
<1>7. CASE Quit(c)
  <2>1. /\ state' \in [Clients -> {"connecting", "up", "deaf", "down"}]
        /\ port' \in [Clients -> Ports]
    BY <1>7 DEF Quit, IInv, TypeOK
  <2> QED
    BY <1>0, <1>7, <2>1, AbandonInv DEF Quit
<1>8. CASE ReaderEnds(c)
  <2>1. /\ state' \in [Clients -> {"connecting", "up", "deaf", "down"}]
        /\ silence' \in [Clients -> 0 .. Silence]
    BY <1>0, <1>8 DEF ReaderEnds, IInv, TypeOK
  <2>2. AtOwnHash'
    BY <1>8 DEF ReaderEnds, IInv, AtOwnHash
  <2> QED
    BY <1>8, <2>1, <2>2 DEF ReaderEnds, IInv, TypeOK
<1> QED
  BY <1>1, <1>2, <1>3, <1>4, <1>5, <1>6, <1>7, <1>8 DEF ClientStep, Talk

\* The scan, the erasures and the clock keep the invariant.
LEMMA ServerStepInv ==
  ASSUME IInv, Scan \/ Reap \/ Tick
  PROVE  IInv'
<1>1. CASE Scan
  <2>1. Timeout \in 0 .. Timeout
    BY ChatAssumption
  <2>2. AtOwnHash'
    BY <1>1, SessionsKept DEF Scan
  <2> QED
    BY <1>1, <2>1, <2>2 DEF Scan, IInv, TypeOK
<1>2. CASE Reap
  <2>1. PICK h \in forDelete : Delete(h)
    BY <1>2 DEF Reap
  <2>2. /\ DOMAIN sessions' = DOMAIN sessions \ {h}
        /\ sessions' \in [DOMAIN sessions' -> Session]
        /\ \A x \in DOMAIN sessions' : sessions'[x] = sessions[x]
    BY <2>1 DEF Delete, IInv, TypeOK
  <2>3. AtOwnHash'
    BY <2>1, <2>2, SessionsKept DEF Delete
  <2> QED
    BY <2>1, <2>2, <2>3 DEF Delete, IInv, TypeOK
<1>3. CASE Tick
  <2>1. /\ DOMAIN sessions' = DOMAIN sessions
        /\ sessions' = [h \in DOMAIN sessions |-> sessions'[h]]
    BY <1>3 DEF Tick
  <2>2. ASSUME NEW h \in DOMAIN sessions
        PROVE  sessions'[h] \in Session /\ sessions'[h].addr = sessions[h].addr
    <3>1. sessions[h] \in Session
      BY DEF IInv, TypeOK
    <3> DEFINE i == IF sessions[h].idle < Timeout THEN sessions[h].idle + 1 ELSE Timeout
    <3>2. sessions'[h] = [sessions[h] EXCEPT !.idle = i]
      BY <1>3 DEF Tick
    <3>3. i \in 0 .. Timeout
      BY <3>1, ChatAssumption DEF Session
    <3> QED
      BY <3>1, <3>2, <3>3 DEF Session
  <2>3. sessions' \in [DOMAIN sessions' -> Session]
    BY <2>1, <2>2
  <2>4. AtOwnHash'
    BY <1>3, <2>1, <2>2, SessionsKept DEF Tick
  <2>5. sleepLeft' \in 0 .. Timeout
    BY <1>3, ChatAssumption DEF Tick, IInv, TypeOK
  <2>6. silence' \in [Clients -> 0 .. Silence]
    BY <1>3, ChatAssumption DEF Tick, IInv, TypeOK
  <2> QED
    BY <1>3, <2>1, <2>3, <2>4, <2>5, <2>6 DEF Tick, IInv, TypeOK
<1> QED
  BY <1>1, <1>2, <1>3

\* The inductive invariant holds in every reachable state.
THEOREM Inductive == Spec => []IInv
<1>1. IInv /\ [Next]_vars => IInv'
  <2> SUFFICES ASSUME IInv, [Next]_vars PROVE IInv'
    OBVIOUS
  <2>1. CASE UNCHANGED vars
    BY <2>1 DEF vars, IInv, TypeOK, AtOwnHash
  <2>2. CASE Next
    BY <2>2, ClientStepInv, ServerStepInv DEF Next
  <2> QED
    BY <2>1, <2>2
<1> QED
  BY InitInv, <1>1, PTL DEF Spec

-----------------------------------------------------------------------------
\* The variables keep their shape.
THEOREM TypeCorrect == Spec => []TypeOK
<1>1. IInv => TypeOK
  BY DEF IInv
<1> QED
  BY Inductive, <1>1, PTL

\* mainUdpServer always hands a datagram to the session of its own sender.
THEOREM HashIdentifiesHolds == Spec => []HashIdentifies
<1>1. IInv => HashIdentifies
  <2> SUFFICES ASSUME IInv, NEW h \in DOMAIN sessions, NEW ep \in Endpoints,
                      addr_hash(ep) = h
               PROVE  sessions[h].addr = ep
    BY DEF HashIdentifies
  <2>1. sessions[h].addr \in Endpoints
    BY DEF IInv, TypeOK, Session
  <2>2. addr_hash(sessions[h].addr) = addr_hash(ep)
    BY DEF IInv, AtOwnHash
  <2> QED
    BY <2>1, <2>2, EndpointsFit, HashInjective
<1> QED
  BY Inductive, <1>1, PTL

\* readData's users map merges exactly the talkers with equal ports.
THEOREM KeyIsPortHolds == Spec => []KeyIsPort
<1>1. IInv => KeyIsPort
  <2> SUFFICES ASSUME IInv, NEW h \in DOMAIN sessions
               PROVE  UserKey(h) = sessions[h].addr[2]
    BY DEF KeyIsPort
  <2>1. sessions[h].addr \in Endpoints
    BY DEF IInv, TypeOK, Session
  <2>2. addr_hash(sessions[h].addr) = h
    BY DEF IInv, AtOwnHash
  <2> QED
    BY <2>1, <2>2, EndpointsFit, KeyPort
<1> QED
  BY Inductive, <1>1, PTL

\* A session sends to the present socket of a client exactly if it is filed
\* under the hash of that socket.
LEMMA SendsHere ==
  ASSUME IInv, NEW x \in Clients, NEW u \in DOMAIN sessions
  PROVE  sessions[u].addr = Here(x) <=> u = Hash(x)
<1>1. Here(x) \in Endpoints
  BY DEF IInv, TypeOK, Here, Endpoints
<1>2. sessions[u].addr \in Endpoints /\ addr_hash(sessions[u].addr) = u
  BY DEF IInv, TypeOK, Session, AtOwnHash
<1>3. addr_hash(sessions[u].addr) = addr_hash(Here(x)) => sessions[u].addr = Here(x)
  BY <1>1, <1>2, EndpointsFit, HashInjective
<1> QED
  BY <1>2, <1>3 DEF Hash

\* The relay reaches the present sockets of exactly the others of the
\* talker's channel, never the talker's own (processIncoming, sendCallback).
THEOREM OnlyOthersHearHolds == Spec => []OnlyOthersHear
<1>1. IInv => OnlyOthersHear
  <2> SUFFICES ASSUME IInv, NEW c \in Clients, NEW x \in Clients
               PROVE  (\E u \in Recipients(Hash(c)) : sessions[u].addr = Here(x))
                        <=> /\ x # c /\ Known(x) /\ sessions[Hash(x)].joined
                            /\ Chan(Hash(x)) = Chan(Hash(c))
    BY DEF OnlyOthersHear, Reached
  <2>1. \A u \in Recipients(Hash(c)) : sessions[u].addr = Here(x) <=> u = Hash(x)
    BY SendsHere DEF Recipients
  <2>2. Hash(x) \in Recipients(Hash(c))
          <=> /\ Hash(x) # Hash(c) /\ Known(x) /\ sessions[Hash(x)].joined
              /\ Chan(Hash(x)) = Chan(Hash(c))
    BY DEF Recipients, Known
  <2>3. Hash(x) = Hash(c) <=> x = c
    <3>1. Here(x) \in Endpoints /\ Here(c) \in Endpoints
      BY DEF IInv, TypeOK, Here, Endpoints
    <3>2. addr_hash(Here(x)) = addr_hash(Here(c)) => Here(x) = Here(c)
      BY <3>1, EndpointsFit, HashInjective
    <3> QED
      BY <3>2 DEF Hash, Here
  <2> QED
    BY <2>1, <2>2, <2>3
<1> QED
  BY Inductive, <1>1, PTL

\* Who meets whom in a channel is decided by the low byte of --channel alone,
\* on both sides of the zero of an int (writeData, processIncoming).
THEOREM ChannelsMeetHolds == Spec => []ChannelsMeet
<1>1. IInv => ChannelsMeet
  <2> SUFFICES ASSUME IInv, NEW h \in DOMAIN sessions, NEW u \in DOMAIN sessions
               PROVE  LET asked(x) == ChannelOf[sessions[x].addr[1]]
                      IN  /\ Chan(h) \in 0 .. Byte - 1
                          /\ sessions[u].joined /\ u # h =>
                               (u \in Recipients(h)
                                  <=> (asked(u) - asked(h)) % Byte = 0)
    BY DEF ChannelsMeet
  <2> DEFINE a(x) == ChannelOf[sessions[x].addr[1]]
  <2>1. ASSUME NEW x \in DOMAIN sessions
        PROVE  a(x) \in 0 .. Word - 1 /\ Chan(x) = a(x) % Byte
    <3>1. sessions[x].addr \in Endpoints
      BY DEF IInv, TypeOK, Session
    <3>2. a(x) \in 0 .. Word - 1
      BY <3>1, ChatAssumption DEF Endpoints
    <3> QED
      BY <3>2, ByteOfChannel DEF Chan
  <2>2. /\ a(h) \in 0 .. Word - 1 /\ Chan(h) = a(h) % Byte
        /\ a(u) \in 0 .. Word - 1 /\ Chan(u) = a(u) % Byte
    BY <2>1
  <2>3. a(h) \in Int /\ a(u) \in Int
    BY <2>2, WordAssumption
  <2>4. Chan(h) \in 0 .. Byte - 1
    BY <2>2, <2>3, Division
  <2>5. Chan(u) = Chan(h) <=> (a(u) - a(h)) % Byte = 0
    BY <2>2, <2>3, Congruent
  <2> QED
    BY <2>4, <2>5 DEF Recipients
<1> QED
  BY Inductive, <1>1, PTL
=============================================================================

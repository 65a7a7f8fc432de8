---------------------------- MODULE ClientProofs ----------------------------
(***************************************************************************)
(* Proofs about the connection life cycle, for any number of talkers,       *)
(* frames and reconnections.                                                *)
(***************************************************************************)
EXTENDS Client, TLAPS

\* A thread the control thread has joined has ended.
JoinsAgree ==
  /\ OneConnection
  /\ cpc = "joinWrite" => rpc = "done"
  /\ cpc = "joinMixer" => rpc = "done" /\ wpc = "done"

\* Until the user stops the client the session lives exactly as long as the
\* connection.
SslLives ==
  upc = "run" =>
    /\ fault \notin {"uaf", "double"}
    /\ cpc = "connect" => ssl \in {"live", "null"}
    /\ cpc \in Joins \cup {"free"} => ssl = "live"

\* There is a reason to leave the connection, or to have left it.
Cause == isReconect \/ writeFailed \/ upc # "run"

\* The writer ends only after running was cleared, and running is cleared
\* only for a cause, which lasts until the loop looks at isReconect.
CauseKept ==
  /\ wpc = "done" /\ cpc \in Joins => ~ running
  /\ cpc \in Joins /\ ~ running => Cause
  /\ cpc \in {"free", "loop"} => Cause
  /\ stopFlag => writeFailed \/ upc # "run"

\* The users table is empty between two connections, and only the reader
\* adds to it.
UsersAgree ==
  /\ cpc \in {"loop", "connect"} => users = {}
  /\ TalkerKnown

\* A frame that is being sent is newer than all that were sent.
SentAgrees ==
  /\ \A n \in sent : n < sendSeq
  /\ wpc \in {"send", "write"} =>
       sendSeq > 0 /\ \A n \in sent : n < sendSeq - 1

IInv ==
  /\ TypeOK /\ JoinsAgree /\ StopFlagLast /\ SslLives /\ CauseKept
  /\ UsersAgree /\ SentAgrees

-----------------------------------------------------------------------------
\* A client that has just been started has no threads, users or session.
LEMMA InitInv == Init => IInv
<1> SUFFICES ASSUME Init PROVE IInv
  OBVIOUS
<1> USE ClientAssumption DEF Init
<1>1. TypeOK
  <2>1. running \in BOOLEAN /\ stopFlag \in BOOLEAN /\ isReconect \in BOOLEAN
    BY Zenon
  <2>2. writeFailed \in BOOLEAN
    BY Zenon
  <2> QED
    BY <2>1, <2>2 DEF TypeOK, Joins
<1>2. JoinsAgree /\ StopFlagLast
  BY DEF JoinsAgree, OneConnection, Joined, Quiet, Joins, StopFlagLast
<1>3. SslLives
  BY DEF SslLives, Joins
<1>4. CauseKept
  BY DEF CauseKept, Cause, Joins
<1>5. UsersAgree /\ SentAgrees
  BY DEF UsersAgree, TalkerKnown, SentAgrees
<1> QED
  BY <1>1, <1>2, <1>3, <1>4, <1>5 DEF IInv

\* The control thread: it leaves the joins only when all threads ended.
LEMMA ControlInv == IInv /\ Control => IInv'
<1> SUFFICES ASSUME IInv, Control PROVE IInv'
  OBVIOUS
<1> USE ClientAssumption
    DEF IInv, TypeOK, JoinsAgree, OneConnection, Joined, Quiet, Joins, StopFlagLast,
        SslLives, CauseKept, Cause, UsersAgree, TalkerKnown, SentAgrees, flags,
        readerVars, writerVars, UseSsl, Up
<1>1. CASE New
  <2>1. TypeOK'
    <3>1. (running \in BOOLEAN /\ stopFlag \in BOOLEAN /\ isReconect \in BOOLEAN)'
      BY <1>1, Zenon DEF New
    <3>2. (writeFailed \in BOOLEAN)'
      BY <1>1, Zenon DEF New
    <3> QED
      BY <1>1, <3>1, <3>2 DEF New
  <2>2. JoinsAgree' /\ StopFlagLast' /\ SslLives'
    BY <1>1 DEF New
  <2>3. CauseKept'
    BY <1>1 DEF New
  <2>4. UsersAgree' /\ SentAgrees'
    BY <1>1 DEF New
  <2> QED
    BY <2>1, <2>2, <2>3, <2>4
<1>2. CASE LoopEnd
  BY <1>2 DEF LoopEnd
<1>3. CASE Connect
  BY <1>3 DEF Connect
<1>4. CASE ConnectThrows
  BY <1>4 DEF ConnectThrows
<1>5. CASE JoinRead
  BY <1>5 DEF JoinRead
<1>6. CASE JoinWrite
  BY <1>6 DEF JoinWrite
<1>7. CASE JoinMixer
  BY <1>7 DEF JoinMixer
<1>8. CASE Free
  BY <1>8 DEF Free
<1> QED
  BY <1>1, <1>2, <1>3, <1>4, <1>5, <1>6, <1>7, <1>8 DEF Control

\* The reader: it is alive, so the control thread waits for it.
LEMMA ReaderInv == IInv /\ Reader => IInv'
<1> SUFFICES ASSUME IInv, Reader PROVE IInv'
  OBVIOUS
<1> USE ClientAssumption
    DEF IInv, TypeOK, JoinsAgree, OneConnection, Joined, Quiet, Joins, StopFlagLast,
        SslLives, CauseKept, Cause, UsersAgree, TalkerKnown, SentAgrees, flags,
        readerVars, writerVars, UseSsl, Up
<1>1. CASE ReaderTop
  BY <1>1 DEF ReaderTop
<1>2. CASE ReaderTimeout
  <2>1. TypeOK'
    BY <1>2 DEF ReaderTimeout
  <2>2. JoinsAgree' /\ StopFlagLast' /\ SslLives'
    BY <1>2 DEF ReaderTimeout
  <2>3. CauseKept'
    BY <1>2 DEF ReaderTimeout
  <2>4. UsersAgree' /\ SentAgrees'
    BY <1>2 DEF ReaderTimeout
  <2> QED
    BY <2>1, <2>2, <2>3, <2>4
<1>3. CASE ReaderQuits
  BY <1>3 DEF ReaderQuits
<1>4. CASE ReadBegin
  BY <1>4 DEF ReadBegin
<1>5. CASE ReadNothing
  BY <1>5 DEF ReadNothing
<1>6. CASE ReadFails
  BY <1>6 DEF ReadFails
<1>7. CASE Emplace
  BY <1>7 DEF Emplace
<1>8. CASE Decode
  BY <1>8 DEF Decode
<1>9. CASE Push
  BY <1>9 DEF Push
<1>10. ASSUME NEW t \in Talkers, ReadAudio(t) PROVE IInv'
  BY <1>10 DEF ReadAudio
<1> QED
  BY <1>1, <1>2, <1>3, <1>4, <1>5, <1>6, <1>7, <1>8, <1>9, <1>10 DEF Reader

\* The writer: the only thread that numbers and sends frames.
LEMMA WriterInv == IInv /\ Writer => IInv'
<1> SUFFICES ASSUME IInv, Writer PROVE IInv'
  OBVIOUS
<1> USE ClientAssumption
    DEF IInv, TypeOK, JoinsAgree, OneConnection, Joined, Quiet, Joins, StopFlagLast,
        SslLives, CauseKept, Cause, UsersAgree, TalkerKnown, SentAgrees, flags,
        readerVars, writerVars, UseSsl, Up
<1>1. CASE WriterTop
  BY <1>1 DEF WriterTop
<1>2. CASE RecordNothing
  BY <1>2 DEF RecordNothing
<1>3. CASE Record
  BY <1>3 DEF Record
<1>4. CASE WriterGivesUp
  BY <1>4 DEF WriterGivesUp
<1>5. CASE WriteBegin
  BY <1>5 DEF WriteBegin
<1>6. CASE WriteDone
  BY <1>6 DEF WriteDone
<1>7. CASE WriteRetry
  BY <1>7 DEF WriteRetry
<1>8. CASE WriteFails
  <2>1. TypeOK'
    <3>1. (running \in BOOLEAN /\ stopFlag \in BOOLEAN /\ isReconect \in BOOLEAN)'
      BY <1>8, Zenon DEF WriteFails
    <3>2. (writeFailed \in BOOLEAN)'
      BY <1>8, Zenon DEF WriteFails
    <3> QED
      BY <1>8, <3>1, <3>2 DEF WriteFails
  <2>2. JoinsAgree' /\ StopFlagLast' /\ SslLives'
    BY <1>8 DEF WriteFails
  <2>3. CauseKept'
    BY <1>8 DEF WriteFails
  <2>4. UsersAgree' /\ SentAgrees'
    BY <1>8 DEF WriteFails
  <2> QED
    BY <2>1, <2>2, <2>3, <2>4
<1> QED
  BY <1>1, <1>2, <1>3, <1>4, <1>5, <1>6, <1>7, <1>8 DEF Writer

\* The mixer and the main thread.
LEMMA OthersInv == IInv /\ (Mixer \/ User) => IInv'
<1> SUFFICES ASSUME IInv, Mixer \/ User PROVE IInv'
  OBVIOUS
<1> USE ClientAssumption
    DEF IInv, TypeOK, JoinsAgree, OneConnection, Joined, Quiet, Joins, StopFlagLast,
        SslLives, CauseKept, Cause, UsersAgree, TalkerKnown, SentAgrees, flags,
        readerVars, writerVars, UseSsl, Up
<1>1. CASE MixerTop
  BY <1>1 DEF MixerTop
<1>2. CASE NoSpace
  BY <1>2 DEF NoSpace
<1>3. CASE MixBegin
  BY <1>3 DEF MixBegin
<1>4. CASE MixEnd
  BY <1>4 DEF MixEnd
<1>5. CASE Stop
  BY <1>5 DEF Stop
<1>6. CASE StopClear
  <2>1. TypeOK'
    <3>1. (running \in BOOLEAN /\ stopFlag \in BOOLEAN /\ isReconect \in BOOLEAN)'
      BY <1>6, Zenon DEF StopClear
    <3>2. (writeFailed \in BOOLEAN)'
      BY <1>6, Zenon DEF StopClear
    <3> QED
      BY <1>6, <3>1, <3>2 DEF StopClear
  <2>2. JoinsAgree' /\ StopFlagLast' /\ SslLives'
    BY <1>6 DEF StopClear
  <2>3. CauseKept'
    BY <1>6 DEF StopClear
  <2>4. UsersAgree' /\ SentAgrees'
    BY <1>6 DEF StopClear
  <2> QED
    BY <2>1, <2>2, <2>3, <2>4
<1>7. CASE StopFree
  BY <1>7 DEF StopFree
<1>8. CASE Exit
  BY <1>8 DEF Exit
<1> QED
  BY <1>1, <1>2, <1>3, <1>4, <1>5, <1>6, <1>7, <1>8 DEF Mixer, User

\* A step that changes nothing.
LEMMA StutterInv == IInv /\ UNCHANGED vars => IInv'
BY DEF IInv, TypeOK, JoinsAgree, OneConnection, Joined, Quiet, Joins, StopFlagLast,
   SslLives, CauseKept, Cause, UsersAgree, TalkerKnown, SentAgrees, flags,
   readerVars, writerVars, vars

\* The inductive invariant holds throughout.
THEOREM ClientInvariant == Spec => []IInv
<1>1. Init => IInv
  BY InitInv
<1>2. IInv /\ [Next]_vars => IInv'
  BY ControlInv, ReaderInv, WriterInv, OthersInv, StutterInv DEF Next, Dead
<1> QED
  BY <1>1, <1>2, PTL DEF Spec

\* Until stopTransmission is called the DTLS session is never used after
\* wolfSSL_free and never freed twice.
THEOREM SessionSafe == Spec => []SslSafeUntilStop
<1>1. IInv => SslSafeUntilStop
  BY DEF IInv, SslLives, SslSafeUntilStop
<1> QED
  BY <1>1, ClientInvariant, PTL

\* The threads of two connections never overlap.
THEOREM ConnectionsSeparate == Spec => []OneConnection
<1>1. IInv => OneConnection
  BY DEF IInv, JoinsAgree
<1> QED
  BY <1>1, ClientInvariant, PTL

\* stopFlag is set only when every thread has ended.
THEOREM StopFlagIsLast == Spec => []StopFlagLast
<1>1. IInv => StopFlagLast
  BY DEF IInv
<1> QED
  BY <1>1, ClientInvariant, PTL

\* The control thread ends only after a failed write or a stop.
THEOREM GivesUpOnlyForCause == Spec => []GivesUpForCause
<1>1. IInv => GivesUpForCause
  BY DEF IInv, CauseKept, GivesUpForCause
<1> QED
  BY <1>1, ClientInvariant, PTL

\* The threads and flags of the client keep their types.
THEOREM TypeCorrect == Spec => []TypeOK
<1>1. IInv => TypeOK
  BY DEF IInv
<1> QED
  BY <1>1, ClientInvariant, PTL

\* Every connection begins with an empty users table.
THEOREM UsersFresh == Spec => []NoStaleUsers
<1>1. IInv => NoStaleUsers
  BY DEF IInv, UsersAgree, NoStaleUsers
<1> QED
  BY <1>1, ClientInvariant, PTL

\* No packet is decoded for a talker that is not in the users table.
THEOREM DecodedAreKnown == Spec => []TalkerKnown
<1>1. IInv => TalkerKnown
  BY DEF IInv, UsersAgree
<1> QED
  BY <1>1, ClientInvariant, PTL

\* No frame is sent twice on a connection.
THEOREM FramesSentOnce == Spec => []SentOnce
<1>1. IInv => SentOnce
  BY DEF IInv, TypeOK, SentAgrees, SentOnce
<1> QED
  BY <1>1, ClientInvariant, PTL
=============================================================================

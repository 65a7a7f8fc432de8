--------------------------- MODULE CaptureProofs ----------------------------
(***************************************************************************)
(* The capture pipeline implements SampleStream, for rings, blocks, frames  *)
(* and device calls of any size and any number of connections.              *)
(***************************************************************************)
EXTENDS CapturePipeline, FiniteSetTheorems, TLAPS

Samples == Seq(Nat)
Up(s) == \A i, j \in 1 .. Len(s) : i < j => s[i] < s[j]
Before(S, T) == \A x \in S, y \in T : x < y

\* The variables' shape, and what each thread holds where.
Shape ==
  /\ noiseCancellation \in Samples /\ recordBuffer \in Samples
  /\ block \in Samples /\ frame \in Samples /\ out \in Samples
  /\ cur \in Nat /\ cur >= 1 /\ made \in Nat
  /\ cur <= made + 1 /\ made <= MaxSamples
  /\ bpc \in {"wait", "take", "give"}
  /\ wpc \in {"off", "wait", "take", "send"}

Hands ==
  /\ bpc = "wait" => block = <<>>
  /\ bpc = "take" => Len(block) < Half
  /\ wpc \in {"off", "wait"} => frame = <<>>
  /\ wpc = "take" => Len(frame) <= Frame
  /\ wpc = "send" => Len(frame) = Frame

(***************************************************************************)
(* The four places a sample can be in are in order, the last thread's hands *)
(* first, and each of them is increasing.  All pairs are compared, since    *)
(* any of the places may be empty.                                          *)
(***************************************************************************)
Rising == Up(noiseCancellation) /\ Up(block) /\ Up(recordBuffer) /\ Up(frame)

F == Elements(frame)
R == Elements(recordBuffer)
B == Elements(block)
N == Elements(noiseCancellation)

Chain ==
  /\ Before(F, R) /\ Before(F, B) /\ Before(F, N)
  /\ Before(R, B) /\ Before(R, N) /\ Before(B, N)
  /\ \A x \in F \cup R \cup B \cup N : x < cur

IInv == Shape /\ Hands /\ NeverShort /\ Rising /\ Chain

-----------------------------------------------------------------------------
\* The elements of the empty sequence.
LEMMA ElementsEmpty == Elements(<<>>) = {} /\ Up(<<>>) /\ <<>> \in Samples
  BY DEF Elements, Up, Samples

\* Elements of a sequence of samples are samples.
LEMMA ElementsNat == \A s \in Samples : Elements(s) \subseteq Nat
  BY DEF Elements, Samples

\* Appending a sample.
LEMMA ElementsAppend ==
  ASSUME NEW s \in Samples, NEW e \in Nat
  PROVE  /\ Append(s, e) \in Samples
         /\ Len(Append(s, e)) = Len(s) + 1
         /\ Elements(Append(s, e)) = Elements(s) \cup {e}
         /\ (Up(s) /\ \A x \in Elements(s) : x < e) => Up(Append(s, e))
<1> DEFINE t == Append(s, e)
<1>1. /\ t \in Samples /\ Len(t) = Len(s) + 1 /\ Len(s) \in Nat
      /\ t[Len(s) + 1] = e
      /\ \A i \in 1 .. Len(s) : t[i] = s[i]
  BY DEF Samples
<1> HIDE DEF t
<1>2. Elements(t) = Elements(s) \cup {e}
  <2>1. ASSUME NEW x \in Elements(t) PROVE x \in Elements(s) \cup {e}
    <3>1. PICK i \in 1 .. Len(t) : x = t[i]
      BY DEF Elements
    <3>2. i \in 1 .. Len(s) \/ i = Len(s) + 1
      BY <1>1
    <3> QED
      BY <1>1, <3>1, <3>2 DEF Elements
  <2>2. ASSUME NEW x \in Elements(s) PROVE x \in Elements(t)
    <3>1. PICK i \in 1 .. Len(s) : x = s[i]
      BY DEF Elements
    <3>2. i \in 1 .. Len(t) /\ t[i] = x
      BY <1>1, <3>1
    <3> QED
      BY <3>2 DEF Elements
  <2>3. e \in Elements(t)
    <3>1. Len(s) + 1 \in 1 .. Len(t)
      BY <1>1
    <3> QED
      BY <1>1, <3>1 DEF Elements
  <2> QED
    BY <2>1, <2>2, <2>3
<1>3. ASSUME Up(s), \A x \in Elements(s) : x < e
      PROVE  Up(t)
  <2> SUFFICES ASSUME NEW i \in 1 .. Len(t), NEW j \in 1 .. Len(t), i < j
               PROVE  t[i] < t[j]
    BY DEF Up
  <2>1. i \in 1 .. Len(s) /\ (j \in 1 .. Len(s) \/ j = Len(s) + 1)
    BY <1>1
  <2>2. s[i] < e
    BY <1>3, <2>1 DEF Elements
  <2> QED
    BY <1>1, <1>3, <2>1, <2>2 DEF Up
<1> QED
  BY <1>1, <1>2, <1>3 DEF t

\* Taking the first sample.
LEMMA ElementsTail ==
  ASSUME NEW s \in Samples, s # <<>>
  PROVE  /\ Tail(s) \in Samples /\ Head(s) \in Nat
         /\ Len(Tail(s)) = Len(s) - 1
         /\ Elements(s) = {Head(s)} \cup Elements(Tail(s))
         /\ Up(s) => Up(Tail(s)) /\ \A x \in Elements(Tail(s)) : Head(s) < x
<1> DEFINE t == Tail(s)
<1>1. /\ t \in Samples /\ Len(t) = Len(s) - 1 /\ Len(s) \in Nat /\ Len(s) >= 1
      /\ Head(s) = s[1] /\ s[1] \in Nat
      /\ \A i \in 1 .. Len(t) : t[i] = s[i + 1]
  BY DEF Samples
<1> HIDE DEF t
<1>2. Elements(s) = {Head(s)} \cup Elements(t)
  <2>1. ASSUME NEW x \in Elements(s) PROVE x \in {Head(s)} \cup Elements(t)
    <3>1. PICK i \in 1 .. Len(s) : x = s[i]
      BY DEF Elements
    <3>2. CASE i = 1
      BY <1>1, <3>1, <3>2
    <3>3. CASE i # 1
      <4>1. i - 1 \in 1 .. Len(t) /\ (i - 1) + 1 = i
        BY <1>1, <3>3
      <4>2. t[i - 1] = x
        BY <1>1, <3>1, <4>1
      <4> QED
        BY <4>1, <4>2 DEF Elements
    <3> QED
      BY <3>2, <3>3
  <2>2. ASSUME NEW x \in Elements(t) PROVE x \in Elements(s)
    <3>1. PICK i \in 1 .. Len(t) : x = t[i]
      BY DEF Elements
    <3>2. i + 1 \in 1 .. Len(s) /\ s[i + 1] = x
      BY <1>1, <3>1
    <3> QED
      BY <3>2 DEF Elements
  <2>3. Head(s) \in Elements(s)
    <3>1. 1 \in 1 .. Len(s)
      BY <1>1
    <3> QED
      BY <1>1, <3>1 DEF Elements
  <2> QED
    BY <2>1, <2>2, <2>3
<1>3. ASSUME Up(s)
      PROVE  Up(t) /\ \A x \in Elements(t) : Head(s) < x
  <2>1. ASSUME NEW i \in 1 .. Len(t), NEW j \in 1 .. Len(t), i < j
        PROVE  t[i] < t[j]
    <3>1. i + 1 \in 1 .. Len(s) /\ j + 1 \in 1 .. Len(s) /\ i + 1 < j + 1
      BY <1>1, <2>1
    <3> QED
      BY <1>1, <1>3, <3>1 DEF Up
  <2>2. ASSUME NEW x \in Elements(t) PROVE Head(s) < x
    <3>1. PICK i \in 1 .. Len(t) : x = t[i]
      BY DEF Elements
    <3>2. 1 \in 1 .. Len(s) /\ i + 1 \in 1 .. Len(s) /\ 1 < i + 1
      BY <1>1
    <3> QED
      BY <1>1, <1>3, <3>1, <3>2 DEF Up
  <2> QED
    BY <2>1, <2>2 DEF Up
<1> QED
  BY <1>1, <1>2, <1>3 DEF t

\* What was appended is what was added.
LEMMA AddedPart ==
  ASSUME NEW s \in Samples, NEW p \in Samples
  PROVE  SubSeq(s \o p, Len(s) + 1, Len(s \o p)) = p
  BY DEF Samples

-----------------------------------------------------------------------------
\* Everything starts empty.
LEMMA InitInv == Init => IInv
<1> SUFFICES ASSUME Init PROVE IInv
  OBVIOUS
<1>1. Shape /\ Rising
  BY ElementsEmpty, PipelineAssumption DEF Init, Shape, Rising
<1>2. Hands /\ NeverShort
  BY DEF Init, Hands, NeverShort
<1>3. F = {} /\ R = {} /\ B = {} /\ N = {}
  BY ElementsEmpty DEF Init, F, R, B, N
<1> QED
  BY <1>1, <1>2, <1>3 DEF IInv, Chain, Before

\* The samples of the four places are numbers.
LEMMA PlacesNat == Shape => F \cup R \cup B \cup N \subseteq Nat
  BY ElementsNat DEF Shape, F, R, B, N

\* The device callback.
LEMMA MicInv ==
  ASSUME IInv, Mic
  PROVE  IInv'
<1> USE DEF workerVars, writerVars
<1>0. F \cup R \cup B \cup N \subseteq Nat
  BY PlacesNat DEF IInv
<1>1. ASSUME NEW n \in Calls, Callback(n)
      PROVE  IInv'
  <2>1. n \in Nat /\ n >= 1 /\ Capacity \in Nat
    BY PipelineAssumption
  <2>2. cur' \in Nat /\ cur' >= cur /\ cur' <= made' + 1 /\ made' \in Nat
        /\ made' <= MaxSamples
    BY <1>1, <2>1, PipelineAssumption DEF Callback, IInv, Shape
  <2>3. F' = F /\ R' = R /\ B' = B /\ N' = N
    BY <1>1 DEF Callback, F, R, B, N
  <2>4. Chain'
    BY <1>0, <2>2, <2>3 DEF IInv, Chain, Before, Shape
  <2>5. Shape' /\ Hands' /\ NeverShort' /\ Rising'
    BY <1>1, <2>2 DEF Callback, IInv, Shape, Hands, NeverShort, Rising
  <2> QED
    BY <2>4, <2>5 DEF IInv
<1>2. CASE MicEnqueue
  <2>1. /\ noiseCancellation' \in Samples
        /\ Len(noiseCancellation') = Len(noiseCancellation) + 1
        /\ N' = N \cup {cur}
        /\ Up(noiseCancellation')
    BY <1>2, ElementsAppend DEF MicEnqueue, IInv, Shape, N, Rising, Chain
  <2>2. F' = F /\ R' = R /\ B' = B
    BY <1>2 DEF MicEnqueue, F, R, B
  <2>3. Chain'
    BY <1>0, <1>2, <2>1, <2>2 DEF MicEnqueue, IInv, Chain, Before, Shape
  <2>4. Shape' /\ Hands' /\ Rising'
    BY <1>2, <2>1 DEF MicEnqueue, IInv, Shape, Hands, Rising
  <2>5. NeverShort'
    BY <1>2, <2>1, PipelineAssumption DEF MicEnqueue, IInv, NeverShort, Shape, Samples
  <2> QED
    BY <2>3, <2>4, <2>5 DEF IInv
<1>3. CASE MicGivesUp
  <2>1. F' = F /\ R' = R /\ B' = B /\ N' = N
    BY <1>3 DEF MicGivesUp, F, R, B, N
  <2>2. cur' \in Nat /\ cur' >= cur /\ cur' = made' + 1 /\ made' = made
    BY <1>3 DEF MicGivesUp, IInv, Shape
  <2>3. Chain'
    BY <1>0, <2>1, <2>2 DEF IInv, Chain, Before, Shape
  <2>4. Shape' /\ Hands' /\ NeverShort' /\ Rising'
    BY <1>3, <2>2 DEF MicGivesUp, IInv, Shape, Hands, NeverShort, Rising
  <2> QED
    BY <2>3, <2>4 DEF IInv
<1> QED
  BY <1>1, <1>2, <1>3 DEF Mic

\* The noise worker.
LEMMA WorkerInv ==
  ASSUME IInv, Worker
  PROVE  IInv' /\ F' \cup R' \cup B' \cup N' \subseteq F \cup R \cup B \cup N
<1> USE DEF micVars, writerVars
<1>0. F \cup R \cup B \cup N \subseteq Nat
  BY PlacesNat DEF IInv
<1>a. Half \in Nat /\ Half >= 1
  BY PipelineAssumption
<1>1. CASE WorkerReads
  <2>1. F' = F /\ R' = R /\ B' = B /\ N' = N
    BY <1>1 DEF WorkerReads, F, R, B, N
  <2>2. Shape' /\ Rising' /\ Chain'
    BY <1>1, <2>1 DEF WorkerReads, IInv, Shape, Rising, Chain
  <2>3. Hands' /\ NeverShort'
    BY <1>1, <1>a DEF WorkerReads, IInv, Shape, Hands, NeverShort, There, Samples
  <2> QED
    BY <2>1, <2>2, <2>3 DEF IInv
<1>2. CASE WorkerTake
  <2> DEFINE h == Head(noiseCancellation)
  <2>1. /\ noiseCancellation' \in Samples /\ h \in Nat
        /\ Len(noiseCancellation') = Len(noiseCancellation) - 1
        /\ N = {h} \cup N' /\ Up(noiseCancellation')
        /\ \A x \in N' : h < x
    BY <1>2, ElementsTail DEF WorkerTake, IInv, Shape, N, Rising
  <2>2. \A x \in B : x < h
    BY <2>1 DEF IInv, Chain, Before
  <2>3. /\ block' \in Samples /\ Len(block') = Len(block) + 1
        /\ B' = B \cup {h} /\ Up(block')
    BY <1>2, <2>1, <2>2, ElementsAppend DEF WorkerTake, IInv, Shape, B, Rising
  <2>4. F' = F /\ R' = R
    BY <1>2 DEF WorkerTake, F, R
  <2> HIDE DEF h
  <2>5. Chain'
    BY <1>2, <2>1, <2>3, <2>4 DEF WorkerTake, IInv, Chain, Before
  <2>6. Shape' /\ Rising'
    BY <1>2, <2>1, <2>3 DEF WorkerTake, IInv, Shape, Rising
  <2>7. Len(block) \in Nat /\ Len(noiseCancellation) \in Nat
    BY DEF IInv, Shape, Samples
  <2>8. Hands'
    BY <1>2, <1>a, <2>3, <2>7 DEF WorkerTake, IInv, Hands
  <2>9. NeverShort'
    BY <1>2, <1>a, <2>1, <2>3, <2>7 DEF WorkerTake, IInv, NeverShort
  <2> QED
    BY <2>1, <2>3, <2>4, <2>5, <2>6, <2>8, <2>9 DEF IInv
<1>3. CASE WorkerGive
  <2> DEFINE h == Head(block)
  <2>1. /\ block' \in Samples /\ h \in Nat
        /\ B = {h} \cup B' /\ Up(block') /\ \A x \in B' : h < x
    BY <1>3, ElementsTail DEF WorkerGive, IInv, Shape, B, Rising
  <2>2. \A x \in R : x < h
    BY <2>1 DEF IInv, Chain, Before
  <2>3. /\ recordBuffer' \in Samples /\ Len(recordBuffer') = Len(recordBuffer) + 1
        /\ R' = R \cup {h} /\ Up(recordBuffer')
    BY <1>3, <2>1, <2>2, ElementsAppend DEF WorkerGive, IInv, Shape, R, Rising
  <2>4. F' = F /\ N' = N
    BY <1>3 DEF WorkerGive, F, N
  <2> HIDE DEF h
  <2>5. Chain'
    BY <1>3, <2>1, <2>3, <2>4 DEF WorkerGive, IInv, Chain, Before
  <2>6. Shape' /\ Rising'
    BY <1>3, <2>1, <2>3 DEF WorkerGive, IInv, Shape, Rising
  <2>7. Len(recordBuffer) \in Nat /\ Len(frame) \in Nat /\ Frame \in Nat
    BY PipelineAssumption DEF IInv, Shape, Samples
  <2>8. Hands' /\ NeverShort'
    BY <1>3, <2>3, <2>7 DEF WorkerGive, IInv, Hands, NeverShort
  <2> QED
    BY <2>1, <2>3, <2>4, <2>5, <2>6, <2>8 DEF IInv
<1>4. CASE WorkerDrops
  <2>1. F' = F /\ R' = R /\ N' = N /\ B' = {}
    BY <1>4, ElementsEmpty DEF WorkerDrops, F, R, B, N
  <2>2. Chain'
    BY <1>4, <2>1 DEF WorkerDrops, IInv, Chain, Before
  <2>3. Shape' /\ Rising'
    BY <1>4, ElementsEmpty DEF WorkerDrops, IInv, Shape, Rising
  <2>4. Hands' /\ NeverShort'
    BY <1>4 DEF WorkerDrops, IInv, Hands, NeverShort
  <2> QED
    BY <2>1, <2>2, <2>3, <2>4 DEF IInv
<1>5. CASE WorkerLoops
  <2>1. F' = F /\ R' = R /\ B' = B /\ N' = N
    BY <1>5 DEF WorkerLoops, F, R, B, N
  <2>2. Shape' /\ Hands' /\ NeverShort' /\ Rising' /\ Chain'
    BY <1>5, <2>1 DEF WorkerLoops, IInv, Shape, Hands, NeverShort, Rising, Chain
  <2> QED
    BY <2>1, <2>2 DEF IInv
<1> QED
  BY <1>1, <1>2, <1>3, <1>4, <1>5 DEF Worker

\* writeData, and the flag it runs by.
LEMMA WriterInv ==
  ASSUME IInv, Writer \/ Connect \/ Disconnect
  PROVE  IInv' /\ F' \cup R' \cup B' \cup N' \subseteq F \cup R \cup B \cup N
<1> USE DEF micVars, workerVars
<1>a. Frame \in Nat /\ Frame >= 1
  BY PipelineAssumption
<1>b. Len(recordBuffer) \in Nat /\ Len(frame) \in Nat
  BY DEF IInv, Shape, Samples
<1>1. CASE Connect \/ Disconnect \/ WriterReads \/ WriterEnds
  <2> USE DEF Connect, Disconnect, WriterReads, WriterEnds
  <2>1. F' = F /\ R' = R /\ B' = B /\ N' = N
    BY <1>1 DEF F, R, B, N
  <2>2. Shape' /\ Rising' /\ Chain'
    BY <1>1, <2>1 DEF IInv, Shape, Rising, Chain
  <2>3. Hands' /\ NeverShort'
    BY <1>1, <1>a, <1>b, ElementsEmpty DEF IInv, Shape, Hands, NeverShort, There
  <2> QED
    BY <2>1, <2>2, <2>3 DEF IInv
<1>2. CASE WriterTake
  <2> DEFINE h == Head(recordBuffer)
  <2>1. /\ recordBuffer' \in Samples /\ h \in Nat
        /\ Len(recordBuffer') = Len(recordBuffer) - 1
        /\ R = {h} \cup R' /\ Up(recordBuffer')
        /\ \A x \in R' : h < x
    BY <1>2, ElementsTail DEF WriterTake, IInv, Shape, R, Rising
  <2>2. \A x \in F : x < h
    BY <2>1 DEF IInv, Chain, Before
  <2>3. /\ frame' \in Samples /\ Len(frame') = Len(frame) + 1
        /\ F' = F \cup {h} /\ Up(frame')
    BY <1>2, <2>1, <2>2, ElementsAppend DEF WriterTake, IInv, Shape, F, Rising
  <2>4. B' = B /\ N' = N
    BY <1>2 DEF WriterTake, B, N
  <2> HIDE DEF h
  <2>5. Chain'
    BY <1>2, <2>1, <2>3, <2>4 DEF WriterTake, IInv, Chain, Before
  <2>6. Shape' /\ Rising'
    BY <1>2, <2>1, <2>3 DEF WriterTake, IInv, Shape, Rising
  <2>7. Hands'
    BY <1>2, <1>a, <1>b, <2>3 DEF WriterTake, IInv, Hands
  <2>8. NeverShort'
    BY <1>2, <1>a, <1>b, <2>1, <2>3 DEF WriterTake, IInv, NeverShort
  <2> QED
    BY <2>1, <2>3, <2>4, <2>5, <2>6, <2>7, <2>8 DEF IInv
<1>3. CASE (\E ok \in BOOLEAN : WriterEncodes(ok)) \/ WriterSent \/ WriterGivesUp
  <2>1. R' = R /\ B' = B /\ N' = N
    BY <1>3 DEF WriterEncodes, WriterSent, WriterGivesUp, R, B, N
  <2>2. \/ frame' = frame /\ wpc' = "send" /\ Len(frame) = Frame
        \/ frame' = <<>> /\ wpc' = "wait"
    BY <1>3 DEF WriterEncodes, WriterSent, WriterGivesUp, AfterSend
  <2>3. F' \subseteq F
    BY <2>2, ElementsEmpty DEF F
  <2>4. cur' = cur
    BY <1>3 DEF WriterEncodes, WriterSent, WriterGivesUp
  <2>5. Chain'
    BY <2>1, <2>3, <2>4 DEF IInv, Chain, Before
  <2>6. out' \in Samples
    <3>1. out \in Samples /\ frame \in Samples
      BY DEF IInv, Shape
    <3>2. out \o frame \in Samples
      BY <3>1 DEF Samples
    <3>3. out' = out \/ out' = out \o frame
      BY <1>3 DEF WriterEncodes, WriterSent, WriterGivesUp
    <3> QED
      BY <3>1, <3>2, <3>3
  <2>7. Shape' /\ Rising'
    BY <1>3, <2>2, <2>6, ElementsEmpty
       DEF WriterEncodes, WriterSent, WriterGivesUp, IInv, Shape, Rising
  <2>8. Hands' /\ NeverShort'
    BY <1>3, <2>2 DEF WriterEncodes, WriterSent, WriterGivesUp, IInv, Hands, NeverShort
  <2> QED
    BY <2>1, <2>3, <2>5, <2>7, <2>8 DEF IInv
<1> QED
  BY <1>1, <1>2, <1>3 DEF Writer

\* The inductive invariant holds in every reachable state.
THEOREM Inductive == Spec => []IInv
<1>1. IInv /\ [Next]_vars => IInv'
  <2> SUFFICES ASSUME IInv, [Next]_vars PROVE IInv'
    OBVIOUS
  <2>1. CASE UNCHANGED vars
    BY <2>1 DEF vars, IInv, Shape, Hands, NeverShort, Rising, Chain, F, R, B, N
  <2>2. CASE Next
    BY <2>2, MicInv, WorkerInv, WriterInv DEF Next
  <2> QED
    BY <2>1, <2>2
<1> QED
  BY InitInv, <1>1, PTL DEF Spec

\* readBlocking's "size >= frames, so read returns exactly frames" holds at
\* both rings of the capture side.
THEOREM NeverShortHolds == Spec => []NeverShort
<1>1. IInv => NeverShort
  BY DEF IInv
<1> QED
  BY Inductive, <1>1, PTL

-----------------------------------------------------------------------------
\* A step of the callback records or does nothing that shows.
LEMMA MicStep ==
  ASSUME IInv, Mic
  PROVE  Stream!Record \/ UNCHANGED Stream!vars
<1> USE DEF workerVars, writerVars
<1>0. cur \in Nat /\ cur >= 1 /\ made \in Nat /\ made <= MaxSamples
      /\ cur <= made + 1 /\ MaxSamples \in Nat /\ Capacity \in Nat
  BY PipelineAssumption DEF IInv, Shape
<1>1. ASSUME NEW n \in Calls, Callback(n)
      PROVE  Stream!Record \/ UNCHANGED Stream!vars
  <2>1. n \in Nat /\ n >= 1
    BY PipelineAssumption
  <2>2. cur' \in Nat /\ (cur' = cur \/ cur' - 1 \in (cur - 1) + 1 .. MaxSamples)
    BY <1>0, <1>1, <2>1 DEF Callback
  <2>3. CASE cur' = cur
    BY <1>1, <2>3 DEF Callback, Stream!vars
  <2>4. CASE cur' - 1 \in (cur - 1) + 1 .. MaxSamples
    BY <1>1, <2>4 DEF Callback, Stream!Record
  <2> QED
    BY <2>2, <2>3, <2>4
<1>2. CASE MicEnqueue
  <2>1. Elements(noiseCancellation') = Elements(noiseCancellation) \cup {cur}
    BY <1>0, <1>2, ElementsAppend DEF MicEnqueue, IInv, Shape
  <2>2. cur' - 1 = cur /\ cur' - 1 \in (cur - 1) + 1 .. MaxSamples
    BY <1>0, <1>2 DEF MicEnqueue
  <2>3. block' = block /\ recordBuffer' = recordBuffer /\ frame' = frame /\ out' = out
    BY <1>2 DEF MicEnqueue
  <2> QED
    BY <2>1, <2>2, <2>3 DEF Stream!Record
<1>3. CASE MicGivesUp
  <2>1. cur' - 1 \in (cur - 1) + 1 .. MaxSamples
    BY <1>0, <1>3 DEF MicGivesUp
  <2> QED
    BY <1>3, <2>1 DEF MicGivesUp, Stream!Record
<1> QED
  BY <1>1, <1>2, <1>3 DEF Mic

\* The client's capture side implements the sample stream: nothing is
\* invented, reordered or sent twice, and every packet is a whole frame.
THEOREM StreamHolds == Spec => StreamSpec
<1>1. Init => Stream!Init
  BY ElementsEmpty DEF Init, Stream!Init
<1>2. IInv /\ [Next]_vars => [Stream!Next]_(Stream!vars)
  <2> SUFFICES ASSUME IInv, [Next]_vars
               PROVE  [Stream!Next]_(Stream!vars)
    OBVIOUS
  <2>1. CASE Mic
    BY <2>1, MicStep DEF Stream!Next
  <2>2. CASE Worker
    <3>1. F' \cup R' \cup B' \cup N' \subseteq F \cup R \cup B \cup N
      BY <2>2, WorkerInv
    <3>2. cur' = cur /\ out' = out
      BY <2>2 DEF Worker, WorkerReads, WorkerTake, WorkerGive, WorkerDrops,
                  WorkerLoops, micVars, writerVars
    <3> QED
      BY <3>1, <3>2 DEF Stream!Next, Stream!Lose, F, R, B, N
  <2>3. CASE WriterSent
    <3>1. /\ Len(frame) = Frame /\ frame \in Samples /\ out \in Samples
          /\ Up(frame)
      BY <2>3 DEF WriterSent, IInv, Hands, Shape, Rising
    <3>2. out' = out \o frame /\ frame' = <<>> /\ cur' = cur
      BY <2>3 DEF WriterSent, AfterSend, micVars
    <3>3. R' = R /\ B' = B /\ N' = N /\ F' = {}
      BY <2>3, <3>2, ElementsEmpty DEF WriterSent, R, B, N, F, micVars, workerVars
    <3>4. F \cap (R \cup B \cup N) = {}
      <4>1. F \subseteq Nat
        BY <3>1, ElementsNat DEF F
      <4>2. ASSUME NEW x \in F, x \in R \cup B \cup N PROVE FALSE
        <5>1. x < x
          BY <4>2 DEF IInv, Chain, Before
        <5> QED
          BY <4>1, <5>1
      <4> QED
        BY <4>2
    <3>5. \A i \in 1 .. Len(frame) : frame[i] \in F
      BY DEF F, Elements
    <3>6. F = {frame[i] : i \in 1 .. Len(frame)}
      BY DEF F, Elements
    <3>7. (N' \cup B' \cup R' \cup F') = (N \cup B \cup R \cup F) \ F
      BY <3>3, <3>4
    <3>8. \A i \in 1 .. Len(frame) : \A x \in N' \cup B' \cup R' \cup F' : frame[i] < x
      BY <3>3, <3>5 DEF IInv, Chain, Before
    <3>9. Stream!Send(frame)
      BY <3>1, <3>2, <3>5, <3>6, <3>7, <3>8 DEF Stream!Send, Up, F, R, B, N
    <3>10. SubSeq(out', Len(out) + 1, Len(out')) = frame
      BY <3>1, <3>2, AddedPart
    <3> QED
      BY <3>9, <3>10 DEF Stream!Next
  <2>4. CASE (Writer /\ ~ WriterSent) \/ Connect \/ Disconnect
    <3>1. F' \cup R' \cup B' \cup N' \subseteq F \cup R \cup B \cup N
      BY <2>4, WriterInv
    <3>2. cur' = cur /\ out' = out
      BY <2>4 DEF Writer, WriterReads, WriterTake, WriterEncodes, WriterGivesUp,
                  WriterEnds, Connect, Disconnect, micVars
    <3> QED
      BY <3>1, <3>2 DEF Stream!Next, Stream!Lose, F, R, B, N
  <2>5. CASE UNCHANGED vars
    BY <2>5 DEF vars, Stream!vars
  <2> QED
    BY <2>1, <2>2, <2>3, <2>4, <2>5 DEF Next
<1> QED
  BY <1>1, <1>2, Inductive, PTL DEF Spec, StreamSpec, Stream!Spec

-----------------------------------------------------------------------------
(***************************************************************************)
(* How much old sound a connection can begin with.  What counts are the     *)
(* samples from before the connection that it has sent, together with those *)
(* that are still on their way: a step moves them from one to the other or  *)
(* loses them, since whatever the device records is new.                    *)
(***************************************************************************)
SentOld == {i \in DOMAIN out : i > mark[2] /\ out[i] <= mark[1]}
HeldOld == {x \in F \cup R \cup B \cup N : x <= mark[1]}

RoomKept ==
  /\ Len(noiseCancellation) <= Room /\ Len(recordBuffer) <= Room
  /\ Len(block) <= Half

MarkPast == mark \in Nat \X Nat /\ mark[1] < cur

OldBounded == Cardinality(SentOld) + Cardinality(HeldOld) <= 2 * Room + Half

StaleInv == RoomKept /\ MarkPast /\ OldBounded

\* A sequence has no more elements than places.
LEMMA ElementsFinite ==
  ASSUME NEW s \in Samples
  PROVE  /\ IsFiniteSet(Elements(s)) /\ Cardinality(Elements(s)) \in Nat
         /\ Cardinality(Elements(s)) <= Len(s)
<1>1. s \in Surjection(1 .. Len(s), Elements(s))
  BY DEF Samples, Surjection, Elements
<1>2. Len(s) \in Nat /\ IsFiniteSet(1 .. Len(s)) /\ Cardinality(1 .. Len(s)) = Len(s)
  <2>1. Len(s) \in Nat
    BY DEF Samples
  <2>2. \A n \in Nat : IsFiniteSet(1 .. n) /\ Cardinality(1 .. n) = n
    BY FS_Interval
  <2> QED
    BY <2>1, <2>2
<1> QED
  BY <1>1, <1>2, FS_Surjection, FS_CardinalityType

\* Of an increasing sequence that is put behind n others, the places with old
\* samples are no more than the old samples.
LEMMA OldPlaces ==
  ASSUME NEW s \in Samples, Up(s), NEW n \in Nat, NEW m \in Nat
  PROVE  LET I == {i \in n + 1 .. n + Len(s) : s[i - n] <= m}
             V == {x \in Elements(s) : x <= m}
         IN  IsFiniteSet(I) /\ Cardinality(I) <= Cardinality(V)
<1> DEFINE I == {i \in n + 1 .. n + Len(s) : s[i - n] <= m}
           V == {x \in Elements(s) : x <= m}
           f == [i \in I |-> s[i - n]]
<1>1. Len(s) \in Nat /\ \A i \in 1 .. Len(s) : s[i] \in Nat
  BY DEF Samples
<1>2. \A i \in I : i - n \in 1 .. Len(s) /\ f[i] = s[i - n]
  BY <1>1
<1>3. f \in [I -> V]
  BY <1>2 DEF Elements
<1>4. \A i, j \in I : f[i] = f[j] => i = j
  <2> SUFFICES ASSUME NEW i \in I, NEW j \in I, f[i] = f[j], i # j PROVE FALSE
    OBVIOUS
  <2>1. i - n \in 1 .. Len(s) /\ j - n \in 1 .. Len(s) /\ s[i - n] = s[j - n]
    BY <1>2
  <2>2. i - n < j - n \/ j - n < i - n
    BY <1>1
  <2>3. s[i - n] < s[j - n] \/ s[j - n] < s[i - n]
    BY <2>1, <2>2 DEF Up
  <2> QED
    BY <1>1, <2>1, <2>3
<1>5. f \in Injection(I, V)
  BY <1>3, <1>4 DEF Injection, IsInjective
<1>6. IsFiniteSet(V)
  BY ElementsFinite, FS_Subset
<1> HIDE DEF I, V, f
<1>7. IsFiniteSet(I) /\ Cardinality(I) <= Cardinality(V)
  BY <1>5, <1>6, FS_Injection
<1> QED
  BY <1>7 DEF I, V

\* The sets that are counted are finite.
LEMMA OldFinite ==
  ASSUME Shape
  PROVE  /\ IsFiniteSet(SentOld) /\ Cardinality(SentOld) \in Nat
         /\ IsFiniteSet(HeldOld) /\ Cardinality(HeldOld) \in Nat
<1>1. IsFiniteSet(F \cup R \cup B \cup N)
  BY ElementsFinite, FS_Union DEF Shape, F, R, B, N
<1>2. IsFiniteSet(DOMAIN out)
  BY FS_Interval DEF Shape, Samples
<1>3. IsFiniteSet(SentOld)
  BY <1>2, FS_Subset DEF SentOld
<1>4. IsFiniteSet(HeldOld)
  BY <1>1, FS_Subset DEF HeldOld
<1> QED
  BY <1>3, <1>4, FS_CardinalityType

\* A step that sends nothing and brings nothing old keeps the bound.
LEMMA NothingOldAdded ==
  ASSUME IInv, OldBounded, out' = out, mark' = mark, HeldOld' \subseteq HeldOld
  PROVE  OldBounded'
<1>1. SentOld' = SentOld
  BY DEF SentOld
<1>2. /\ Cardinality(SentOld) \in Nat
      /\ IsFiniteSet(HeldOld) /\ Cardinality(HeldOld) \in Nat
  BY OldFinite DEF IInv
<1>3. IsFiniteSet(HeldOld') /\ Cardinality(HeldOld') <= Cardinality(HeldOld)
  BY <1>2, FS_Subset
<1>4. Cardinality(HeldOld') \in Nat
  BY <1>3, FS_CardinalityType
<1>5. 2 * Room + Half \in Nat
  BY PipelineAssumption
<1> QED
  BY <1>1, <1>2, <1>3, <1>4, <1>5 DEF OldBounded

\* What the device records is new, and it fills its ring up to Room.
LEMMA MicStale ==
  ASSUME IInv, StaleInv, Mic
  PROVE  StaleInv'
<1> USE DEF workerVars, writerVars
<1>0. /\ cur \in Nat /\ made \in Nat /\ cur <= made + 1 /\ Capacity \in Nat
      /\ noiseCancellation \in Samples /\ Len(noiseCancellation) \in Nat
      /\ Room \in Nat
  BY PipelineAssumption DEF IInv, Shape, Samples
<1>1. cur' \in Nat /\ cur' >= cur
  <2>1. ASSUME NEW n \in Calls, Callback(n) PROVE cur' \in Nat /\ cur' >= cur
    <3>1. n \in Nat /\ n >= 1
      BY PipelineAssumption
    <3> QED
      BY <1>0, <2>1, <3>1 DEF Callback
  <2> QED
    BY <1>0, <2>1 DEF Mic, MicEnqueue, MicGivesUp
<1>2. /\ out' = out /\ mark' = mark /\ F' = F /\ R' = R /\ B' = B
      /\ recordBuffer' = recordBuffer /\ block' = block
  BY DEF Mic, Callback, MicEnqueue, MicGivesUp, F, R, B
<1>3. /\ N' = N \/ N' = N \cup {cur}
      /\ Len(noiseCancellation') <= Room
  <2>1. CASE MicEnqueue
    BY <1>0, <2>1, ElementsAppend DEF MicEnqueue, HasRoom, N
  <2>2. CASE ~ MicEnqueue
    BY <2>2 DEF Mic, Callback, MicGivesUp, N, StaleInv, RoomKept
  <2> QED
    BY <2>1, <2>2
<1>4. mark[1] \in Nat /\ mark[1] < cur /\ mark \in Nat \X Nat
  BY DEF StaleInv, MarkPast
<1>5. HeldOld' \subseteq HeldOld
  BY <1>0, <1>2, <1>3, <1>4 DEF HeldOld
<1>6. MarkPast'
  BY <1>0, <1>1, <1>2, <1>4 DEF MarkPast
<1>7. RoomKept'
  BY <1>2, <1>3 DEF StaleInv, RoomKept
<1> QED
  BY <1>2, <1>5, <1>6, <1>7, NothingOldAdded DEF StaleInv

\* The worker and writeData move samples or lose them.
LEMMA MoveStale ==
  ASSUME IInv, StaleInv, Worker \/ (Writer /\ ~ WriterSent) \/ Disconnect
  PROVE  StaleInv'
<1> USE DEF micVars, workerVars, writerVars
<1>1. F' \cup R' \cup B' \cup N' \subseteq F \cup R \cup B \cup N
  BY WorkerInv, WriterInv
<1>2. out' = out /\ mark' = mark /\ cur' = cur
  BY DEF Worker, WorkerReads, WorkerTake, WorkerGive, WorkerDrops, WorkerLoops,
         Writer, WriterReads, WriterTake, WriterEncodes, WriterGivesUp, WriterEnds,
         Disconnect
<1>3. HeldOld' \subseteq HeldOld
  BY <1>1, <1>2 DEF HeldOld
<1>4. MarkPast'
  BY <1>2 DEF StaleInv, MarkPast
<1>5. /\ Room \in Nat /\ Half \in Nat
      /\ noiseCancellation \in Samples /\ Len(noiseCancellation) \in Nat
      /\ recordBuffer \in Samples /\ Len(recordBuffer) \in Nat
      /\ block \in Samples /\ Len(block) \in Nat
  BY PipelineAssumption DEF IInv, Shape, Samples
<1>6. RoomKept'
  <2>1. CASE WorkerTake
    <3>1. Len(block) < Half /\ Len(block') = Len(block) + 1
      BY <1>5, <2>1, ElementsTail, ElementsAppend DEF WorkerTake, IInv, Hands
    <3>2. Len(noiseCancellation') = Len(noiseCancellation) - 1
      BY <1>5, <2>1, ElementsTail DEF WorkerTake
    <3> QED
      BY <1>5, <2>1, <3>1, <3>2 DEF WorkerTake, StaleInv, RoomKept
  <2>2. CASE WorkerGive
    <3>1. Len(recordBuffer) < Room /\ Len(recordBuffer') = Len(recordBuffer) + 1
      BY <1>5, <2>2, ElementsTail, ElementsAppend DEF WorkerGive, HasRoom
    <3>2. Len(block') = Len(block) - 1
      BY <1>5, <2>2, ElementsTail DEF WorkerGive
    <3> QED
      BY <1>5, <2>2, <3>1, <3>2 DEF WorkerGive, StaleInv, RoomKept
  <2>3. CASE WriterTake
    <3>1. Len(recordBuffer') = Len(recordBuffer) - 1
      BY <1>5, <2>3, ElementsTail DEF WriterTake
    <3> QED
      BY <1>5, <2>3, <3>1 DEF WriterTake, StaleInv, RoomKept
  <2>4. CASE WorkerDrops
    BY <1>5, <2>4 DEF WorkerDrops, StaleInv, RoomKept
  <2>5. CASE \/ WorkerReads \/ WorkerLoops \/ Disconnect
             \/ WriterReads \/ WriterGivesUp \/ WriterEnds
             \/ \E ok \in BOOLEAN : WriterEncodes(ok)
    BY <2>5 DEF WorkerReads, WorkerLoops, Disconnect, WriterReads, WriterGivesUp,
                WriterEnds, WriterEncodes, StaleInv, RoomKept
  <2> QED
    BY <2>1, <2>2, <2>3, <2>4, <2>5 DEF Worker, Writer
<1> QED
  BY <1>2, <1>3, <1>4, <1>6, NothingOldAdded DEF StaleInv

\* A packet takes its old samples out of what is held; its places in out are
\* as many.
LEMMA SentStale ==
  ASSUME IInv, StaleInv, WriterSent
  PROVE  StaleInv'
<1> USE DEF micVars, workerVars, writerVars
<1>1. /\ frame \in Samples /\ out \in Samples /\ Up(frame)
      /\ mark \in Nat \X Nat /\ mark[1] \in Nat /\ mark[2] \in Nat
      /\ Len(out) \in Nat /\ Len(frame) \in Nat
  BY DEF IInv, Shape, Rising, StaleInv, MarkPast, Samples
<1>2. /\ out' = out \o frame /\ frame' = <<>> /\ cur' = cur /\ mark' = mark
      /\ noiseCancellation' = noiseCancellation /\ block' = block
      /\ recordBuffer' = recordBuffer
  BY DEF WriterSent, AfterSend
<1>3. R' = R /\ B' = B /\ N' = N /\ F' = {}
  BY <1>2, ElementsEmpty DEF R, B, N, F
<1> DEFINE I == {i \in Len(out) + 1 .. Len(out) + Len(frame) :
                   frame[i - Len(out)] <= mark[1]}
           V == {x \in F : x <= mark[1]}
<1>4. IsFiniteSet(I) /\ Cardinality(I) <= Cardinality(V)
  BY <1>1, OldPlaces DEF F
<1>5. SentOld' \subseteq SentOld \cup I
  <2> SUFFICES ASSUME NEW i \in SentOld', i \notin SentOld PROVE i \in I
    OBVIOUS
  <2>1. /\ i \in 1 .. Len(out) + Len(frame) /\ i > mark[2]
        /\ (out \o frame)[i] <= mark[1]
    BY <1>1, <1>2 DEF SentOld, Samples
  <2>2. i \notin 1 .. Len(out)
    BY <1>1, <2>1 DEF SentOld, Samples
  <2>3. i \in Len(out) + 1 .. Len(out) + Len(frame)
    BY <1>1, <2>1, <2>2
  <2>4. (out \o frame)[i] = frame[i - Len(out)]
    BY <1>1, <2>3 DEF Samples
  <2> QED
    BY <2>1, <2>3, <2>4
<1>6. V \cap HeldOld' = {} /\ V \cup HeldOld' = HeldOld
  <2>1. F \subseteq Nat
    BY <1>1, ElementsNat DEF F
  <2>2. ASSUME NEW x \in F, x \in R \cup B \cup N PROVE FALSE
    <3>1. x < x
      BY <2>2 DEF IInv, Chain, Before
    <3> QED
      BY <2>1, <3>1
  <2> QED
    BY <1>2, <1>3, <2>2 DEF HeldOld
<1>7. /\ IsFiniteSet(SentOld) /\ Cardinality(SentOld) \in Nat
      /\ IsFiniteSet(HeldOld) /\ Cardinality(HeldOld) \in Nat
  BY OldFinite DEF IInv
<1> HIDE DEF I, V
<1>8. /\ IsFiniteSet(V) /\ IsFiniteSet(HeldOld')
      /\ Cardinality(V) \in Nat /\ Cardinality(HeldOld') \in Nat
      /\ Cardinality(HeldOld) = Cardinality(V) + Cardinality(HeldOld')
  <2>1. IsFiniteSet(V) /\ IsFiniteSet(HeldOld')
    BY <1>6, <1>7, FS_Subset
  <2>2. Cardinality(V) \in Nat /\ Cardinality(HeldOld') \in Nat
    BY <2>1, FS_CardinalityType
  <2>3. Cardinality(V \cup HeldOld')
          = Cardinality(V) + Cardinality(HeldOld') - Cardinality(V \cap HeldOld')
    BY <2>1, FS_Union
  <2> QED
    BY <1>6, <2>1, <2>2, <2>3, FS_EmptySet
<1>9. /\ IsFiniteSet(SentOld') /\ Cardinality(SentOld') \in Nat
      /\ Cardinality(SentOld') <= Cardinality(SentOld) + Cardinality(I)
  <2>1. /\ IsFiniteSet(SentOld \cup I)
        /\ Cardinality(SentOld \cup I) = Cardinality(SentOld) + Cardinality(I)
                                           - Cardinality(SentOld \cap I)
    BY <1>4, <1>7, FS_Union
  <2>2. Cardinality(SentOld \cap I) \in Nat /\ Cardinality(I) \in Nat
        /\ Cardinality(SentOld \cup I) \in Nat
    BY <1>4, <1>7, <2>1, FS_Intersection, FS_CardinalityType
  <2>3. IsFiniteSet(SentOld') /\ Cardinality(SentOld') <= Cardinality(SentOld \cup I)
    BY <1>5, <2>1, FS_Subset
  <2>4. Cardinality(SentOld') \in Nat
    BY <2>3, FS_CardinalityType
  <2> QED
    BY <1>7, <2>1, <2>2, <2>3, <2>4
<1>10. OldBounded'
  <2>1. 2 * Room + Half \in Nat
    BY PipelineAssumption
  <2>2. Cardinality(I) \in Nat
    BY <1>4, FS_CardinalityType
  <2> QED
    BY <1>4, <1>7, <1>8, <1>9, <2>1, <2>2 DEF StaleInv, OldBounded
<1>11. MarkPast' /\ RoomKept'
  BY <1>2 DEF StaleInv, MarkPast, RoomKept
<1> QED
  BY <1>10, <1>11 DEF StaleInv

\* A connection begins with what the rings and the worker hold: writeData of
\* the former one has ended with empty hands.
LEMMA ConnectStale ==
  ASSUME IInv, StaleInv, Connect
  PROVE  StaleInv'
<1> USE DEF micVars, workerVars
<1>1. /\ frame' = <<>> /\ cur' = cur /\ out' = out /\ mark' = <<cur - 1, Len(out)>>
      /\ noiseCancellation' = noiseCancellation /\ block' = block
      /\ recordBuffer' = recordBuffer
  BY DEF Connect, IInv, Hands
<1>2. R' = R /\ B' = B /\ N' = N /\ F' = {}
  BY <1>1, ElementsEmpty DEF R, B, N, F
<1>3. cur \in Nat /\ cur >= 1 /\ out \in Samples /\ Len(out) \in Nat
      /\ Room \in Nat /\ Half \in Nat
  BY PipelineAssumption DEF IInv, Shape, Samples
<1>4. SentOld' = {}
  BY <1>1, <1>3 DEF SentOld, Samples
<1>5. HeldOld' \subseteq R \cup B \cup N
  BY <1>2 DEF HeldOld
<1>6. /\ IsFiniteSet(R) /\ Cardinality(R) \in Nat /\ Cardinality(R) <= Room
      /\ IsFiniteSet(B) /\ Cardinality(B) \in Nat /\ Cardinality(B) <= Half
      /\ IsFiniteSet(N) /\ Cardinality(N) \in Nat /\ Cardinality(N) <= Room
  <2>1. /\ recordBuffer \in Samples /\ Len(recordBuffer) \in Nat
        /\ block \in Samples /\ Len(block) \in Nat
        /\ noiseCancellation \in Samples /\ Len(noiseCancellation) \in Nat
    BY DEF IInv, Shape, Samples
  <2>2. /\ IsFiniteSet(R) /\ Cardinality(R) \in Nat /\ Cardinality(R) <= Len(recordBuffer)
        /\ IsFiniteSet(B) /\ Cardinality(B) \in Nat /\ Cardinality(B) <= Len(block)
        /\ IsFiniteSet(N) /\ Cardinality(N) \in Nat
        /\ Cardinality(N) <= Len(noiseCancellation)
    BY <2>1, ElementsFinite DEF R, B, N
  <2> QED
    BY <1>3, <2>1, <2>2 DEF StaleInv, RoomKept
<1>7. /\ IsFiniteSet(R \cup B) /\ Cardinality(R \cup B) \in Nat
      /\ Cardinality(R \cup B) <= Room + Half
  <2>1. /\ IsFiniteSet(R \cup B)
        /\ Cardinality(R \cup B) = Cardinality(R) + Cardinality(B) - Cardinality(R \cap B)
    BY <1>6, FS_Union
  <2>2. Cardinality(R \cup B) \in Nat /\ Cardinality(R \cap B) \in Nat
    BY <1>6, <2>1, FS_Intersection, FS_CardinalityType
  <2> QED
    BY <1>3, <1>6, <2>1, <2>2
<1>8. /\ IsFiniteSet(R \cup B \cup N) /\ Cardinality(R \cup B \cup N) \in Nat
      /\ Cardinality(R \cup B \cup N) <= 2 * Room + Half
  <2> DEFINE S == R \cup B
  <2>0. IsFiniteSet(S) /\ Cardinality(S) \in Nat /\ Cardinality(S) <= Room + Half
    BY <1>7
  <2> HIDE DEF S
  <2>1. /\ IsFiniteSet(S \cup N)
        /\ Cardinality(S \cup N) = Cardinality(S) + Cardinality(N) - Cardinality(S \cap N)
    BY <1>6, <2>0, FS_Union
  <2>2. Cardinality(S \cup N) \in Nat /\ Cardinality(S \cap N) \in Nat
    BY <1>6, <2>1, FS_Intersection, FS_CardinalityType
  <2>3. Cardinality(S \cup N) <= 2 * Room + Half
    BY <1>3, <1>6, <2>0, <2>1, <2>2
  <2> QED
    BY <2>1, <2>2, <2>3 DEF S
<1>9. IsFiniteSet(HeldOld') /\ Cardinality(HeldOld') <= Cardinality(R \cup B \cup N)
  BY <1>5, <1>8, FS_Subset
<1>10. OldBounded'
  <2>1. Cardinality(HeldOld') \in Nat
    BY <1>9, FS_CardinalityType
  <2> QED
    BY <1>3, <1>4, <1>8, <1>9, <2>1, FS_EmptySet DEF OldBounded
<1>11. MarkPast' /\ RoomKept'
  BY <1>1, <1>3 DEF StaleInv, MarkPast, RoomKept
<1> QED
  BY <1>10, <1>11 DEF StaleInv

\* A new connection of the client never begins with more than two rings and a
\* block of sound from before it, however long there was none.
THEOREM StaleBoundedHolds == Spec => []StaleBounded
<1>1. Init => StaleInv
  <2> SUFFICES ASSUME Init PROVE StaleInv
    OBVIOUS
  <2>1. SentOld = {} /\ HeldOld = {}
    BY ElementsEmpty DEF Init, SentOld, HeldOld, F, R, B, N
  <2> QED
    BY <2>1, FS_EmptySet, PipelineAssumption
       DEF Init, StaleInv, RoomKept, MarkPast, OldBounded
<1>2. IInv /\ StaleInv /\ [Next]_vars => StaleInv'
  <2> SUFFICES ASSUME IInv, StaleInv, [Next]_vars PROVE StaleInv'
    OBVIOUS
  <2>1. CASE UNCHANGED vars
    BY <2>1 DEF vars, StaleInv, RoomKept, MarkPast, OldBounded, SentOld, HeldOld,
                F, R, B, N
  <2>2. CASE Next
    BY <2>2, MicStale, MoveStale, SentStale, ConnectStale DEF Next
  <2> QED
    BY <2>1, <2>2
<1>3. IInv /\ StaleInv => StaleBounded
  <2> SUFFICES ASSUME IInv, StaleInv PROVE Cardinality(SentOld) <= 2 * Room + Half
    BY DEF StaleBounded, SentOld
  <2>1. 2 * Room + Half \in Nat
    BY PipelineAssumption
  <2> QED
    BY <2>1, OldFinite DEF IInv, StaleInv, OldBounded
<1> QED
  BY <1>1, <1>2, <1>3, Inductive, PTL DEF Spec
=============================================================================

----------------------------- MODULE RingProofs -----------------------------
(***************************************************************************)
(* Proofs about the sample queue, for rings, frames and device blocks of    *)
(* any size.                                                                *)
(***************************************************************************)
EXTENDS LockFreeRingBuffer, TLAPS

\* Whatever either use of the ring does in a step.
AnyNext == CaptureNext \/ PlaybackNext

\* The producer has not passed the end of its block, and all samples in the
\* queue and behind it are older than the one it enqueues next.
Ordered ==
  /\ InOrder
  /\ cur <= made + 1
  /\ \A i \in DOMAIN queue : queue[i] < cur
  /\ \A i \in DOMAIN out : out[i] < cur

OrderInv == TypeOK /\ Ordered

-----------------------------------------------------------------------------
\* What appending does to a sequence of samples.
LEMMA AppendFacts ==
  ASSUME NEW s \in Seq(Nat), NEW e \in Nat
  PROVE  /\ Append(s, e) \in Seq(Nat)
         /\ DOMAIN Append(s, e) = DOMAIN s \cup {Len(s) + 1}
         /\ DOMAIN s = 1 .. Len(s)
         /\ \A i \in DOMAIN s : Append(s, e)[i] = s[i]
         /\ Append(s, e)[Len(s) + 1] = e
         /\ Len(Append(s, e)) = Len(s) + 1
OBVIOUS

\* What taking the first element does to a sequence of samples.
LEMMA TailFacts ==
  ASSUME NEW s \in Seq(Nat), s # <<>>
  PROVE  /\ Tail(s) \in Seq(Nat)
         /\ Head(s) = s[1] /\ Head(s) \in Nat
         /\ 1 \in DOMAIN s
         /\ Len(Tail(s)) = Len(s) - 1
         /\ \A i \in DOMAIN Tail(s) :
              i \in Nat /\ i >= 1 /\ i + 1 \in DOMAIN s /\ Tail(s)[i] = s[i + 1]
OBVIOUS

\* Appending something larger than everything keeps a sequence increasing.
LEMMA AppendIncreasing ==
  ASSUME NEW s \in Seq(Nat), NEW e \in Nat, Increasing(s),
         \A i \in DOMAIN s : s[i] < e
  PROVE  Increasing(Append(s, e))
<1> SUFFICES ASSUME NEW i \in DOMAIN Append(s, e), NEW j \in DOMAIN Append(s, e),
                    i < j
             PROVE  Append(s, e)[i] < Append(s, e)[j]
  BY DEF Increasing
<1>1. i \in DOMAIN s
  BY AppendFacts
<1>2. CASE j \in DOMAIN s
  BY <1>1, <1>2, AppendFacts DEF Increasing
<1>3. CASE j = Len(s) + 1
  BY <1>1, <1>3, AppendFacts
<1> QED
  BY <1>2, <1>3, AppendFacts

\* The initial state is typed and ordered.
LEMMA InitOrder == Init => OrderInv
BY DEF Init, OrderInv, TypeOK, Ordered, InOrder, Increasing

\* Every step of either use keeps the types.
LEMMA TypeStep == TypeOK /\ [AnyNext]_vars => TypeOK'
<1> SUFFICES ASSUME TypeOK, [AnyNext]_vars PROVE TypeOK'
  OBVIOUS
<1> USE RingAssumption DEF TypeOK, queueVars, producerVars, consumerVars
<1>1. CASE Fill
  <2>1. CASE Enqueue
    BY <2>1, AppendFacts DEF Enqueue
  <2>2. CASE EnqueueFails
    BY <2>2 DEF EnqueueFails
  <2>3. CASE WriteReturn
    BY <2>3 DEF WriteReturn
  <2> QED
    BY <1>1, <2>1, <2>2, <2>3 DEF Fill
<1>2. CASE Dequeue
  BY <1>2, TailFacts, AppendFacts DEF Dequeue
<1>3. CASE ReadReturn
  BY <1>3 DEF ReadReturn
<1>4. CASE ReadBlocking \/ Enough \/ DataDeadline \/ DataWait \/ DataTimedOut
  BY <1>4 DEF ReadBlocking, Enough, DataDeadline, DataWait, DataTimedOut
<1>5. CASE DataToken
  BY <1>5 DEF DataToken
<1>6. CASE WaitForSpace \/ SpaceFound \/ SpaceDeadline \/ SpaceWait \/ SpaceTimedOut
  BY <1>6 DEF WaitForSpace, SpaceFound, SpaceDeadline, SpaceWait, SpaceTimedOut
<1>7. CASE SpaceToken
  BY <1>7 DEF SpaceToken
<1>8. CASE WriteNoOverwrite
  BY <1>8 DEF WriteNoOverwrite
<1>9. ASSUME NEW n \in Calls, Write(n) \/ Read(n) PROVE TypeOK'
  BY <1>9 DEF Write, Read
<1>10. CASE UNCHANGED vars
  BY <1>10 DEF vars
<1> QED
  BY <1>1, <1>2, <1>3, <1>4, <1>5, <1>6, <1>7, <1>8, <1>9, <1>10
     DEF AnyNext, CaptureNext, PlaybackNext, TakeBlocking, Take, WaitSpace

\* Enqueueing keeps the order: the new sample is the newest of all.
LEMMA EnqueueOrder ==
  ASSUME OrderInv, Enqueue
  PROVE  Ordered'
<1>1. /\ queue \in Seq(Nat) /\ cur \in Nat /\ made \in Nat
      /\ queue' = Append(queue, cur) /\ cur' = cur + 1
      /\ made' = made /\ out' = out /\ cur <= made
  BY DEF OrderInv, TypeOK, Enqueue, consumerVars
<1>2. Increasing(queue)'
  BY <1>1, AppendIncreasing DEF OrderInv, Ordered, InOrder
<1>3. \A i \in DOMAIN queue' : queue'[i] < cur' /\ \A j \in DOMAIN out : out[j] < queue'[i]
  <2> SUFFICES ASSUME NEW i \in DOMAIN queue'
               PROVE  queue'[i] < cur' /\ \A j \in DOMAIN out : out[j] < queue'[i]
    OBVIOUS
  <2>1. CASE i \in DOMAIN queue
    <3>1. queue'[i] = queue[i]
      BY <1>1, <2>1, AppendFacts
    <3>2. queue[i] < cur
      BY <2>1 DEF OrderInv, Ordered
    <3>3. queue[i] \in Nat
      BY <2>1, <1>1
    <3> QED
      BY <1>1, <2>1, <3>1, <3>2, <3>3 DEF OrderInv, Ordered, InOrder
  <2>2. CASE i = Len(queue) + 1
    <3>1. queue'[i] = cur
      BY <1>1, <2>2, AppendFacts
    <3> QED
      BY <1>1, <3>1 DEF OrderInv, Ordered
  <2> QED
    BY <1>1, <2>1, <2>2, AppendFacts
<1>4. \A j \in DOMAIN out' : out'[j] < cur'
  <2>1. \A j \in DOMAIN out : out[j] \in Nat /\ out[j] < cur
    BY DEF OrderInv, TypeOK, Ordered
  <2> QED
    BY <1>1, <2>1
<1>5. Increasing(out)'
  BY <1>1 DEF OrderInv, Ordered, InOrder, Increasing
<1>6. cur' <= made' + 1
  BY <1>1
<1> QED
  BY <1>1, <1>2, <1>3, <1>4, <1>5, <1>6 DEF Ordered, InOrder

\* Dequeueing keeps the order: the oldest sample of the queue goes behind
\* everything that was taken before.
LEMMA DequeueOrder ==
  ASSUME OrderInv, Dequeue
  PROVE  Ordered'
<1>1. /\ queue \in Seq(Nat) /\ out \in Seq(Nat) /\ queue # <<>>
      /\ queue' = Tail(queue) /\ out' = Append(out, Head(queue))
      /\ cur' = cur /\ made' = made
  BY DEF OrderInv, TypeOK, Dequeue, producerVars
<1>2. /\ Head(queue) = queue[1] /\ Head(queue) \in Nat /\ 1 \in DOMAIN queue
  BY <1>1, TailFacts
<1>3. /\ Increasing(queue) /\ Increasing(out)
      /\ \A i \in DOMAIN out : out[i] < queue[1]
      /\ \A j \in DOMAIN queue : queue[j] < cur
      /\ \A i \in DOMAIN out, j \in DOMAIN queue : out[i] < queue[j]
      /\ \A i \in DOMAIN out : out[i] < cur
      /\ cur <= made + 1
  BY <1>2 DEF OrderInv, Ordered, InOrder
<1>4. Increasing(out)'
  BY <1>1, <1>2, <1>3, AppendIncreasing
<1>5. \A i \in DOMAIN queue' : i \in Nat /\ i >= 1 /\ i + 1 \in DOMAIN queue
                                /\ queue'[i] = queue[i + 1]
  BY <1>1, TailFacts
<1>6. Increasing(queue)'
  <2> SUFFICES ASSUME NEW i \in DOMAIN queue', NEW j \in DOMAIN queue', i < j
               PROVE  queue'[i] < queue'[j]
    BY DEF Increasing
  <2>1. i + 1 < j + 1
    BY <1>5
  <2> QED
    BY <1>3, <1>5, <2>1 DEF Increasing
<1>7. \A i \in DOMAIN out', j \in DOMAIN queue' : out'[i] < queue'[j]
  <2> SUFFICES ASSUME NEW i \in DOMAIN out', NEW j \in DOMAIN queue'
               PROVE  out'[i] < queue[j + 1]
    BY <1>5
  <2>1. CASE i \in DOMAIN out
    BY <2>1, <1>1, <1>2, <1>3, <1>5, AppendFacts
  <2>2. CASE i = Len(out) + 1
    <3>1. out'[i] = queue[1]
      BY <1>1, <1>2, <2>2, AppendFacts
    <3>2. 1 < j + 1 /\ j + 1 \in DOMAIN queue
      BY <1>5
    <3> QED
      BY <1>2, <1>3, <3>1, <3>2 DEF Increasing
  <2> QED
    BY <1>1, <1>2, <2>1, <2>2, AppendFacts
<1>8. \A j \in DOMAIN queue' : queue'[j] < cur'
  BY <1>1, <1>3, <1>5
<1>9. \A i \in DOMAIN out' : out'[i] < cur'
  <2> SUFFICES ASSUME NEW i \in DOMAIN out' PROVE out'[i] < cur
    BY <1>1
  <2>1. CASE i \in DOMAIN out
    BY <2>1, <1>1, <1>2, <1>3, AppendFacts
  <2>2. CASE i = Len(out) + 1
    BY <2>2, <1>1, <1>2, <1>3, AppendFacts
  <2> QED
    BY <1>1, <1>2, <2>1, <2>2, AppendFacts
<1> QED
  BY <1>1, <1>3, <1>4, <1>6, <1>7, <1>8, <1>9 DEF Ordered, InOrder

\* A step that leaves queue and out alone and lets cur only grow, up to the
\* end of its block, keeps the order.
LEMMA CurOrder ==
  ASSUME OrderInv, UNCHANGED <<queue, out>>,
         cur' \in Nat, cur' >= cur, cur' <= made' + 1
  PROVE  Ordered'
<1>1. \A i \in DOMAIN queue : queue[i] \in Nat /\ queue[i] < cur
  BY DEF OrderInv, TypeOK, Ordered
<1>2. \A i \in DOMAIN out : out[i] \in Nat /\ out[i] < cur
  BY DEF OrderInv, TypeOK, Ordered
<1>3. cur \in Nat
  BY DEF OrderInv, TypeOK
<1>4. \A i \in DOMAIN queue' : queue'[i] < cur'
  BY <1>1, <1>3
<1>5. \A i \in DOMAIN out' : out'[i] < cur'
  BY <1>2, <1>3
<1>6. InOrder'
  BY DEF OrderInv, Ordered, InOrder, Increasing
<1> QED
  BY <1>4, <1>5, <1>6 DEF Ordered

\* Every step of either use keeps the order.
LEMMA OrderStep == OrderInv /\ [AnyNext]_vars => OrderInv'
<1> SUFFICES ASSUME OrderInv, [AnyNext]_vars PROVE OrderInv'
  OBVIOUS
<1>1. TypeOK'
  BY TypeStep DEF OrderInv
<1>2. CASE Enqueue
  BY <1>1, <1>2, EnqueueOrder DEF OrderInv
<1>3. CASE Dequeue
  BY <1>1, <1>3, DequeueOrder DEF OrderInv
<1>4. /\ cur \in Nat /\ made \in Nat /\ cur <= made + 1
      /\ Capacity \in Nat /\ Frame \in Nat /\ \A n \in Calls : n \in Nat
  BY RingAssumption DEF OrderInv, TypeOK, Ordered
<1>5. ASSUME UNCHANGED <<queue, out, cur, made>> PROVE OrderInv'
  BY <1>1, <1>4, <1>5, CurOrder DEF OrderInv
<1>6. CASE EnqueueFails
  BY <1>1, <1>4, <1>6, CurOrder DEF EnqueueFails, queueVars, consumerVars, OrderInv
<1>7. CASE WriteReturn
  BY <1>5, <1>7 DEF WriteReturn, consumerVars
<1>8. CASE ReadReturn
  BY <1>5, <1>8 DEF ReadReturn, producerVars
<1>9. CASE ReadBlocking \/ Enough \/ DataDeadline \/ DataWait \/ DataTimedOut \/ DataToken
  BY <1>5, <1>9 DEF ReadBlocking, Enough, DataDeadline, DataWait, DataTimedOut,
     DataToken, queueVars, producerVars
<1>10. CASE WaitForSpace \/ SpaceFound \/ SpaceDeadline \/ SpaceWait \/ SpaceTimedOut
              \/ SpaceToken
  BY <1>5, <1>10 DEF WaitForSpace, SpaceFound, SpaceDeadline, SpaceWait,
     SpaceTimedOut, SpaceToken, queueVars, consumerVars
<1>11. CASE WriteNoOverwrite
  <2>1. UNCHANGED <<queue, out>> /\ made' = made + Frame
    BY <1>11 DEF WriteNoOverwrite, queueVars, consumerVars
  <2>2. cur' = made + Frame + 1 \/ cur' = made + 1
    BY <1>11 DEF WriteNoOverwrite
  <2>3. cur' \in Nat /\ cur' >= cur /\ cur' <= made' + 1
    BY <1>4, <2>1, <2>2
  <2> QED
    BY <1>1, <2>1, <2>3, CurOrder DEF OrderInv
<1>12. ASSUME NEW n \in Calls, Write(n) PROVE OrderInv'
  <2>1. UNCHANGED <<queue, out>> /\ made' = made + n
    BY <1>12 DEF Write, queueVars, consumerVars
  <2>2. cur' = IF n > Capacity THEN made + n - Capacity + 1 ELSE made + 1
    BY <1>12 DEF Write
  <2>3. cur' \in Nat /\ cur' >= cur /\ cur' <= made' + 1
    BY <1>4, <2>1, <2>2
  <2> QED
    BY <1>1, <2>1, <2>3, CurOrder DEF OrderInv
<1>13. ASSUME NEW n \in Calls, Read(n) PROVE OrderInv'
  BY <1>5, <1>13 DEF Read, queueVars, producerVars
<1>14. CASE UNCHANGED vars
  BY <1>5, <1>14 DEF vars, queueVars, producerVars, consumerVars
<1> QED
  BY <1>2, <1>3, <1>6, <1>7, <1>8, <1>9, <1>10, <1>11, <1>12, <1>13, <1>14
     DEF AnyNext, CaptureNext, PlaybackNext, Fill, TakeBlocking, Take, WaitSpace

\* The capture rings have the types and the order of OrderInv.
THEOREM CaptureOrdered == CaptureSpec => []OrderInv
<1>1. OrderInv /\ [CaptureNext]_vars => OrderInv'
  BY OrderStep DEF AnyNext
<1> QED
  BY <1>1, InitOrder, PTL DEF CaptureSpec

\* So has the playback ring.
THEOREM PlaybackOrdered == PlaybackSpec => []OrderInv
<1>1. OrderInv /\ [PlaybackNext]_vars => OrderInv'
  BY OrderStep DEF AnyNext
<1> QED
  BY <1>1, InitOrder, PTL DEF PlaybackSpec

\* Recorded samples reach the consumer in the order they were produced.
THEOREM CaptureInOrder == CaptureSpec => []InOrder
<1>1. OrderInv => InOrder
  BY DEF OrderInv, Ordered
<1> QED
  BY <1>1, CaptureOrdered, PTL

\* So do mixed samples.
THEOREM PlaybackInOrder == PlaybackSpec => []InOrder
<1>1. OrderInv => InOrder
  BY DEF OrderInv, Ordered
<1> QED
  BY <1>1, PlaybackOrdered, PTL
-----------------------------------------------------------------------------
(* Capture: readBlocking *)

CaptureInv == TypeOK /\ NeverShort /\ NoLostData

\* Every step of capture keeps readBlocking's promises.
LEMMA CaptureStep == CaptureInv /\ [CaptureNext]_vars => CaptureInv'
<1> SUFFICES ASSUME CaptureInv, [CaptureNext]_vars PROVE CaptureInv'
  OBVIOUS
<1>1. TypeOK'
  BY TypeStep DEF CaptureInv, AnyNext
<1>2. /\ queue \in Seq(Nat) /\ cur \in Nat /\ Len(queue) \in Nat /\ want \in Nat
      /\ got \in Nat /\ dataReady \in Nat /\ written \in Nat
      /\ Frame \in Nat
  BY RingAssumption DEF CaptureInv, TypeOK
<1> USE <1>2 DEF CaptureInv, NeverShort, NoLostData, queueVars, producerVars,
                 consumerVars
<1>3. CASE Enqueue
  <2>1. Len(queue') = Len(queue) + 1
    BY <1>3, AppendFacts DEF Enqueue
  <2> QED
    BY <1>1, <1>3, <2>1 DEF Enqueue
<1>4. CASE EnqueueFails
  BY <1>1, <1>4 DEF EnqueueFails
<1>5. CASE WriteReturn
  BY <1>1, <1>5 DEF WriteReturn
<1>6. CASE Dequeue
  <2>1. Len(queue') = Len(queue) - 1
    BY <1>6, TailFacts DEF Dequeue
  <2> QED
    BY <1>1, <1>6, <2>1 DEF Dequeue
<1>7. CASE ReadReturn
  BY <1>1, <1>7 DEF ReadReturn
<1>8. CASE ReadBlocking \/ Enough \/ DataDeadline \/ DataWait \/ DataTimedOut
  BY <1>1, <1>8 DEF ReadBlocking, Enough, DataDeadline, DataWait, DataTimedOut
<1>9. CASE DataToken
  BY <1>1, <1>9 DEF DataToken
<1>10. ASSUME NEW n \in Calls, Write(n) PROVE CaptureInv'
  BY <1>1, <1>10 DEF Write
<1>11. CASE UNCHANGED vars
  BY <1>1, <1>11 DEF vars
<1> QED
  BY <1>3, <1>4, <1>5, <1>6, <1>7, <1>8, <1>9, <1>10, <1>11
     DEF CaptureNext, Fill, TakeBlocking, Take

\* The invariant of readBlocking holds throughout.
LEMMA CaptureHolds == CaptureSpec => []CaptureInv
<1>1. Init => CaptureInv
  BY InitOrder DEF Init, CaptureInv, OrderInv, NeverShort, NoLostData
<1> QED
  BY <1>1, CaptureStep, PTL DEF CaptureSpec

\* The variables of a capture ring keep their types.
THEOREM CaptureTyped == CaptureSpec => []TypeOK
<1>1. CaptureInv => TypeOK
  BY DEF CaptureInv
<1> QED
  BY <1>1, CaptureHolds, PTL

\* readBlocking returns nothing or a whole frame.
THEOREM WholeFrames == CaptureSpec => []NeverShort
<1>1. CaptureInv => NeverShort
  BY DEF CaptureInv
<1> QED
  BY <1>1, CaptureHolds, PTL

\* The reader is never left asleep while a frame is there and nobody is
\* about to wake it.
THEOREM ReaderIsWoken == CaptureSpec => []NoLostData
<1>1. CaptureInv => NoLostData
  BY DEF CaptureInv
<1> QED
  BY <1>1, CaptureHolds, PTL

-----------------------------------------------------------------------------
(* A capture ring implements SampleStream *)

\* The producer stays within the samples of the behaviour; readBlocking asks
\* for a frame, and what it has of it is the end of what was taken.
FrameInv ==
  /\ made <= MaxSamples
  /\ rpc # "idle" => want = Frame
  /\ rpc = "take" => got <= Len(out)

RefineInv == OrderInv /\ CaptureInv /\ FrameInv

\* Every step of capture keeps FrameInv.
LEMMA FrameStep ==
  TypeOK /\ FrameInv /\ [CaptureNext]_vars => FrameInv'
<1> SUFFICES ASSUME TypeOK, FrameInv, [CaptureNext]_vars PROVE FrameInv'
  OBVIOUS
<1>1. /\ out \in Seq(Nat) /\ queue \in Seq(Nat) /\ Len(out) \in Nat /\ got \in Nat
      /\ made \in Nat
  BY DEF TypeOK
<1> USE <1>1 DEF FrameInv, queueVars, producerVars, consumerVars
<1>2. CASE Fill
  BY <1>2 DEF Fill, Enqueue, EnqueueFails, WriteReturn
<1>3. CASE Dequeue
  <2>1. Len(out') = Len(out) + 1
    BY <1>3, TailFacts, AppendFacts DEF Dequeue
  <2> QED
    BY <1>3, <2>1 DEF Dequeue
<1>4. CASE ReadReturn
  BY <1>4 DEF ReadReturn
<1>5. CASE ReadBlocking \/ Enough \/ DataDeadline \/ DataWait \/ DataTimedOut
             \/ DataToken
  BY <1>5 DEF ReadBlocking, Enough, DataDeadline, DataWait, DataTimedOut, DataToken
<1>6. ASSUME NEW n \in Calls, Write(n) PROVE FrameInv'
  BY <1>6 DEF Write
<1>7. CASE UNCHANGED vars
  BY <1>7 DEF vars
<1> QED
  BY <1>2, <1>3, <1>4, <1>5, <1>6, <1>7 DEF CaptureNext, TakeBlocking, Take

\* The invariant of the refinement holds throughout.
LEMMA RefineHolds == CaptureSpec => []RefineInv
<1>1. Init => FrameInv
  BY RingAssumption DEF Init, FrameInv
<1>2. CaptureInv => TypeOK
  BY DEF CaptureInv
<1>3. CaptureSpec => []FrameInv
  BY <1>1, <1>2, FrameStep, CaptureHolds, PTL DEF CaptureSpec
<1> QED
  BY <1>3, CaptureOrdered, CaptureHolds, PTL DEF RefineInv

\* A prefix does not see what is appended behind it.
LEMMA PrefixKept ==
  ASSUME NEW s \in Seq(Nat), NEW e \in Nat, NEW k \in 0 .. Len(s)
  PROVE  SubSeq(Append(s, e), 1, k) = SubSeq(s, 1, k)
<1>1. Append(s, e) \in Seq(Nat) /\ Len(Append(s, e)) = Len(s) + 1
  BY AppendFacts
<1>2. \A i \in 1 .. k : Append(s, e)[i] = s[i]
  BY AppendFacts
<1> QED
  BY <1>1, <1>2

\* A sequence is what precedes a place of it and what follows.
LEMMA SplitAt ==
  ASSUME NEW t \in Seq(Nat), NEW k \in 0 .. Len(t)
  PROVE  t = SubSeq(t, 1, k) \o SubSeq(t, k + 1, Len(t))
<1> DEFINE a == SubSeq(t, 1, k)
           b == SubSeq(t, k + 1, Len(t))
<1>1. a \in Seq(Nat) /\ Len(a) = k /\ \A i \in 1 .. k : a[i] = t[i]
  OBVIOUS
<1>2. b \in Seq(Nat) /\ Len(b) = Len(t) - k /\ \A i \in 1 .. Len(t) - k : b[i] = t[k + i]
  OBVIOUS
<1>0. k \in Nat /\ Len(t) \in Nat /\ k <= Len(t)
  OBVIOUS
<1> HIDE DEF a, b
<1>3. Len(a \o b) = Len(t) /\ a \o b \in Seq(Nat)
  BY <1>1, <1>2
<1>4. ASSUME NEW i \in 1 .. Len(t) PROVE (a \o b)[i] = t[i]
  <2>1. CASE i <= k
    BY <1>1, <1>2, <2>1
  <2>2. CASE i > k
    <3>1. i - k \in 1 .. Len(t) - k /\ k + (i - k) = i
      BY <2>2
    <3>2. b[i - k] = t[k + (i - k)]
      BY <1>2, <3>1
    <3>3. (a \o b)[i] = b[i - k]
      BY <1>1, <1>2, <2>2
    <3> QED
      BY <3>1, <3>2, <3>3
  <2>3. i <= k \/ i > k
    BY <1>0
  <2> QED
    BY <2>1, <2>2, <2>3
<1>5. t = a \o b
  <2> DEFINE u == a \o b
  <2> HIDE DEF u
  <2>1. u \in Seq(Nat) /\ Len(u) = Len(t) /\ \A i \in 1 .. Len(t) : u[i] = t[i]
    BY <1>3, <1>4 DEF u
  <2>2. u = t
    BY <2>1
  <2> QED
    BY <2>2 DEF u
<1> QED
  BY <1>5 DEF a, b

\* Where readBlocking is in its frame, as numbers.
LEMMA PartFacts ==
  ASSUME RefineInv
  PROVE  /\ Part \in Nat /\ Part <= Len(out)
         /\ cur \in Nat /\ made \in Nat /\ MaxSamples \in Nat
         /\ cur <= made + 1 /\ made <= MaxSamples
         /\ queue \in Seq(Nat) /\ out \in Seq(Nat)
         /\ Len(queue) \in Nat /\ Len(out) \in Nat
  BY RingAssumption
     DEF RefineInv, OrderInv, Ordered, TypeOK, CaptureInv, FrameInv, Part

\* While the ring and the reader's part of a frame stay as they are, the
\* producer records, losing the samples it skips, or nothing happens.
LEMMA SkipStep ==
  ASSUME RefineInv, RefineInv', UNCHANGED <<queue, out, Part>>, cur' >= cur
  PROVE  [Stream!Next]_(Stream!vars)
<1>1. CASE cur' = cur
  BY <1>1 DEF Stream!vars
<1>2. CASE cur' > cur
  <2>1. /\ cur \in Nat /\ cur' \in Nat /\ made' \in Nat /\ MaxSamples \in Nat
        /\ cur' <= made' + 1 /\ made' <= MaxSamples
    BY RingAssumption DEF RefineInv, OrderInv, TypeOK, Ordered, FrameInv
  <2>2. ASSUME NEW a \in Nat, NEW b \in Nat, NEW m \in Nat, NEW n \in Nat,
               b > a, b <= m + 1, m <= n
        PROVE  b - 1 \in (a - 1) + 1 .. n
    BY <2>2
  <2>5. cur' - 1 \in (cur - 1) + 1 .. MaxSamples
    BY <1>2, <2>1, <2>2
  <2>3. Stream!Record
    BY <2>5 DEF Stream!Record
  <2> QED
    BY <2>3 DEF Stream!Next
<1>3. cur \in Nat /\ cur' \in Nat
  BY DEF RefineInv, OrderInv, TypeOK
<1> QED
  BY <1>1, <1>2, <1>3

\* A sample that enters the queue is recorded.
LEMMA EnqueueStream ==
  ASSUME RefineInv, RefineInv', Enqueue
  PROVE  [Stream!Next]_(Stream!vars)
<1>1. /\ queue' = Append(queue, cur) /\ cur' = cur + 1 /\ made' = made
      /\ out' = out /\ cur <= made /\ Part' = Part
  BY DEF Enqueue, consumerVars, Part
<1>2. /\ queue \in Seq(Nat) /\ cur \in Nat /\ made \in Nat /\ made <= MaxSamples
      /\ MaxSamples \in Nat /\ Len(queue) \in Nat
  BY PartFacts
<1> DEFINE rest == {out[i] : i \in Len(out) - Part + 1 .. Len(out)}
           held == {queue[i] : i \in 1 .. Len(queue)}
<1>3. {queue'[i] : i \in 1 .. Len(queue')} = held \cup {cur}
  <2> DEFINE q == Append(queue, cur)
  <2>1. /\ Len(q) = Len(queue) + 1
        /\ \A i \in 1 .. Len(queue) : q[i] = queue[i]
        /\ q[Len(queue) + 1] = cur
    BY <1>2, AppendFacts
  <2> HIDE DEF q
  <2>2. 1 .. Len(q) = (1 .. Len(queue)) \cup {Len(queue) + 1}
    BY <1>2, <2>1
  <2>3. {q[i] : i \in 1 .. Len(q)} = held \cup {cur}
    BY <2>1, <2>2
  <2> QED
    BY <1>1, <2>3 DEF q
<1>4. cur' - 1 = cur /\ cur' - 1 \in (cur - 1) + 1 .. MaxSamples
  BY <1>1, <1>2
<1>5. {queue'[i] : i \in 1 .. Len(queue')} \cup rest = (held \cup rest) \cup {cur' - 1}
  BY <1>3, <1>4
<1>6. Stream!Record
  BY <1>1, <1>4, <1>5 DEF Stream!Record
<1> QED
  BY <1>6 DEF Stream!Next

\* While the frame is not complete, a sample that is taken stays in flight.
LEMMA DequeuePart ==
  ASSUME RefineInv, RefineInv', Dequeue, got + 1 < want
  PROVE  UNCHANGED Stream!vars
<1>1. /\ queue' = Tail(queue) /\ out' = Append(out, Head(queue)) /\ queue # <<>>
      /\ cur' = cur /\ Part = got /\ Part' = got + 1 /\ got \in Nat
  BY DEF Dequeue, producerVars, Part, RefineInv, OrderInv, TypeOK
<1>2. /\ queue \in Seq(Nat) /\ out \in Seq(Nat) /\ Part <= Len(out)
      /\ Len(queue) \in Nat /\ Len(out) \in Nat
  BY PartFacts
<1> DEFINE k == Len(out) - got
           h == Head(queue)
           q == Tail(queue)
           o == Append(out, h)
<1>3. /\ h = queue[1] /\ h \in Nat /\ Len(queue) >= 1
      /\ Len(q) = Len(queue) - 1
      /\ \A i \in 1 .. Len(q) : i + 1 \in 1 .. Len(queue) /\ q[i] = queue[i + 1]
  BY <1>1, <1>2
<1>4. /\ Len(o) = Len(out) + 1 /\ o[Len(out) + 1] = h
      /\ \A i \in 1 .. Len(out) : o[i] = out[i]
  BY <1>2, <1>3, AppendFacts
<1>5. k \in 0 .. Len(out) /\ Len(out) - Part = k /\ Len(o) - Part' = k
  BY <1>1, <1>2, <1>4
<1>6. SubSeq(o, 1, k) = SubSeq(out, 1, k)
  BY <1>2, <1>3, <1>5, PrefixKept
<1>7. {queue[i] : i \in 1 .. Len(queue)} = {q[i] : i \in 1 .. Len(q)} \cup {h}
  <2>1. ASSUME NEW i \in 1 .. Len(queue), i # 1
        PROVE  \E j \in 1 .. Len(q) : queue[i] = q[j]
    <3>1. i - 1 \in 1 .. Len(q) /\ (i - 1) + 1 = i
      BY <1>2, <1>3, <2>1
    <3> QED
      BY <1>3, <3>1
  <2>2. 1 \in 1 .. Len(queue)
    BY <1>2, <1>3
  <2> HIDE DEF q, h
  <2> QED
    BY <1>3, <2>1, <2>2
<1>8. {o[i] : i \in k + 1 .. Len(o)} = {out[i] : i \in k + 1 .. Len(out)} \cup {h}
  <2>1. k + 1 .. Len(o) = (k + 1 .. Len(out)) \cup {Len(out) + 1}
    BY <1>2, <1>4, <1>5
  <2>2. \A i \in k + 1 .. Len(out) : o[i] = out[i]
    BY <1>2, <1>4, <1>5
  <2> HIDE DEF k, o, h
  <2> QED
    BY <1>4, <2>1, <2>2
<1> HIDE DEF k, q, o, h
<1>9. queue' = q /\ out' = o
  BY <1>1 DEF q, o, h
<1>10. Len(out') - Part' = Len(out) - Part /\ Len(out) - Part = k
  BY <1>5, <1>9
<1>11. {queue'[i] : i \in 1 .. Len(queue')} \cup {out'[i] : i \in k + 1 .. Len(out')}
         = {queue[i] : i \in 1 .. Len(queue)} \cup {out[i] : i \in k + 1 .. Len(out)}
  <2>1. ASSUME NEW A, NEW B, NEW C, NEW D, A = B \cup {h}, D = C \cup {h}
        PROVE  B \cup D = A \cup C
    BY <2>1
  <2>2. {q[i] : i \in 1 .. Len(q)} \cup {o[i] : i \in k + 1 .. Len(o)}
          = {queue[i] : i \in 1 .. Len(queue)} \cup {out[i] : i \in k + 1 .. Len(out)}
    BY <1>7, <1>8, <2>1
  <2> QED
    BY <1>9, <2>2
<1> QED
  BY <1>1, <1>6, <1>9, <1>10, <1>11 DEF Stream!vars

\* The places of a frame of n samples behind place k, the last one at m + 1.
LEMMA FramePlaces ==
  ASSUME NEW k \in Nat, NEW m \in Nat, NEW n \in Nat, k <= m, m + 1 = k + n
  PROVE  /\ n \in 1 .. n
         /\ \A i \in k + 1 .. m : i - k \in 1 .. n /\ k + (i - k) = i /\ i \in 1 .. m
         /\ \A i \in 1 .. n : k + i # m + 1 => k + i \in k + 1 .. m /\ k + i \in 1 .. m
OBVIOUS

\* The sample at the head of queue r, of which q is left, becomes the last one
\* of o, in which it follows s; frame p is what o has behind place k.
Moved(r, q, s, o, p, k) ==
  /\ Len(r) = Len(q) + 1 /\ \A i \in 1 .. Len(q) : q[i] = r[i + 1]
  /\ Len(o) = Len(s) + 1 /\ \A i \in 1 .. Len(s) : o[i] = s[i]
  /\ o[Len(s) + 1] = r[1] /\ k <= Len(s)
  /\ Len(o) = k + Len(p) /\ \A i \in 1 .. Len(p) : p[i] = o[k + i]
  /\ \A i, j \in 1 .. Len(o) : i < j => o[i] < o[j]
  /\ \A i \in 1 .. Len(o), j \in 1 .. Len(q) : o[i] < q[j]

\* The samples in r and behind place k of s.
Held(r, s, k) == {r[i] : i \in 1 .. Len(r)} \cup {s[i] : i \in k + 1 .. Len(s)}

\* Of the samples in held, p has the oldest and left has the others.
Parted(p, held, left) ==
  /\ \A i, j \in 1 .. Len(p) : i < j => p[i] < p[j]
  /\ \A i \in 1 .. Len(p) : p[i] \in held
  /\ \A i \in 1 .. Len(p) : \A x \in left : p[i] < x
  /\ left = held \ {p[i] : i \in 1 .. Len(p)}

\* The frame that is complete is increasing, and it is what the ring and the
\* unfinished frame lose, all of it older than what is left.
LEMMA FrameLeaves ==
  ASSUME NEW r \in Seq(Nat), NEW q \in Seq(Nat), NEW s \in Seq(Nat),
         NEW o \in Seq(Nat), NEW p \in Seq(Nat), NEW k \in Nat,
         Moved(r, q, s, o, p, k)
  PROVE  Parted(p, Held(r, s, k), {q[i] : i \in 1 .. Len(q)})
<1> DEFINE held == Held(r, s, k)
           left == {q[i] : i \in 1 .. Len(q)}
<1> USE DEF Moved, Held
<1>1. Len(r) \in Nat /\ Len(q) \in Nat /\ Len(s) \in Nat /\ Len(o) \in Nat /\ Len(p) \in Nat
  OBVIOUS
<1>0. /\ Len(p) \in 1 .. Len(p)
      /\ \A i \in k + 1 .. Len(s) :
           i - k \in 1 .. Len(p) /\ k + (i - k) = i /\ i \in 1 .. Len(s)
      /\ \A i \in 1 .. Len(p) :
           k + i # Len(s) + 1 => k + i \in k + 1 .. Len(s) /\ k + i \in 1 .. Len(s)
  <2>1. Len(s) + 1 = k + Len(p)
    OBVIOUS
  <2> QED
    BY <1>1, <2>1, FramePlaces
<1>2. ASSUME NEW i \in 1 .. Len(p)
      PROVE  i \in Nat /\ k + i \in 1 .. Len(o) /\ p[i] = o[k + i]
  BY <1>1
<1>3. \A i, j \in 1 .. Len(p) : i < j => p[i] < p[j]
  <2> SUFFICES ASSUME NEW i \in 1 .. Len(p), NEW j \in 1 .. Len(p), i < j
               PROVE  p[i] < p[j]
    OBVIOUS
  <2>1. k + i < k + j
    BY <1>1
  <2> QED
    BY <1>2, <2>1
<1>4. \A i \in 1 .. Len(p) : \A x \in left : p[i] < x
  BY <1>2
<1>5. ASSUME NEW i \in 1 .. Len(p) PROVE p[i] \in held
  <2>1. CASE k + i = Len(s) + 1
    <3>1. p[i] = r[1] /\ 1 \in 1 .. Len(r)
      BY <1>1, <1>2, <2>1
    <3> QED
      BY <3>1
  <2>2. CASE k + i # Len(s) + 1
    <3>1. k + i \in k + 1 .. Len(s) /\ k + i \in 1 .. Len(s)
      BY <1>0, <2>2
    <3>2. p[i] = s[k + i]
      BY <1>2, <3>1
    <3> QED
      BY <3>1, <3>2
  <2> QED
    BY <2>1, <2>2
<1>6. ASSUME NEW x \in held, x \notin left
      PROVE  \E j \in 1 .. Len(p) : x = p[j]
  <2>1. ASSUME NEW i \in 1 .. Len(r), x = r[i] PROVE \E j \in 1 .. Len(p) : x = p[j]
    <3>1. i = 1
      <4> SUFFICES ASSUME i # 1 PROVE FALSE
        OBVIOUS
      <4>1. i - 1 \in 1 .. Len(q) /\ (i - 1) + 1 = i
        BY <1>1
      <4>2. x = q[i - 1]
        BY <2>1, <4>1
      <4> QED
        BY <1>6, <4>1, <4>2
    <3>2. Len(p) \in 1 .. Len(p) /\ k + Len(p) = Len(s) + 1
      BY <1>0
    <3>3. p[Len(p)] = r[1]
      BY <1>2, <3>2
    <3> QED
      BY <2>1, <3>1, <3>2, <3>3
  <2>2. ASSUME NEW i \in k + 1 .. Len(s), x = s[i] PROVE \E j \in 1 .. Len(p) : x = p[j]
    <3>1. i - k \in 1 .. Len(p) /\ k + (i - k) = i /\ i \in 1 .. Len(s)
      BY <1>0
    <3>2. p[i - k] = o[i] /\ o[i] = s[i]
      BY <1>2, <3>1
    <3> QED
      BY <2>2, <3>1, <3>2
  <2> QED
    BY <2>1, <2>2
<1>7. left \subseteq held
  <2> SUFFICES ASSUME NEW i \in 1 .. Len(q) PROVE q[i] \in held
    OBVIOUS
  <2>1. i + 1 \in 1 .. Len(r) /\ q[i] = r[i + 1]
    BY <1>1
  <2> QED
    BY <2>1
<1>8. ASSUME NEW i \in 1 .. Len(p) PROVE p[i] \notin left
  <2> SUFFICES ASSUME p[i] \in left PROVE FALSE
    OBVIOUS
  <2>1. PICK n \in Nat : n = p[i]
    BY <1>1
  <2>2. n < n
    BY <1>4, <2>1
  <2> QED
    BY <2>1, <2>2
<1>9. left = held \ {p[i] : i \in 1 .. Len(p)}
  <2>1. ASSUME NEW x \in left PROVE x \in held \ {p[i] : i \in 1 .. Len(p)}
    BY <1>7, <1>8
  <2>2. ASSUME NEW x \in held \ {p[i] : i \in 1 .. Len(p)} PROVE x \in left
    BY <1>6
  <2> QED
    BY <2>1, <2>2
<1> QED
  BY <1>3, <1>4, <1>5, <1>9 DEF Parted

\* The last sample of a frame completes it: the frame leaves as a whole, is
\* older than everything that stays, and goes behind what left before.
LEMMA DequeueLast ==
  ASSUME RefineInv, RefineInv', Dequeue, got + 1 = want
  PROVE  Stream!Next
<1>1. /\ queue' = Tail(queue) /\ out' = Append(out, Head(queue)) /\ queue # <<>>
      /\ cur' = cur /\ Part = got /\ Part' = 0 /\ got \in Nat
      /\ want = Frame
  BY DEF Dequeue, producerVars, Part, RefineInv, OrderInv, TypeOK, FrameInv
<1>2. /\ queue \in Seq(Nat) /\ out \in Seq(Nat) /\ got <= Len(out)
      /\ Len(queue) \in Nat /\ Len(out) \in Nat
  BY <1>1, PartFacts
<1> DEFINE k == Len(out) - got
           q == Tail(queue)
           o == Append(out, Head(queue))
           p == SubSeq(o, k + 1, Len(o))
           held == Held(queue, out, k)
           left == {q[i] : i \in 1 .. Len(q)}
<1>3. /\ Head(queue) = queue[1] /\ Head(queue) \in Nat
      /\ q \in Seq(Nat) /\ Len(queue) = Len(q) + 1 /\ Len(q) \in Nat
      /\ \A i \in 1 .. Len(q) : q[i] = queue[i + 1]
  BY <1>1, <1>2, TailFacts
<1>4. /\ o \in Seq(Nat) /\ Len(o) = Len(out) + 1 /\ o[Len(out) + 1] = queue[1]
      /\ \A i \in 1 .. Len(out) : o[i] = out[i]
  BY <1>2, <1>3, AppendFacts
<1>5. k \in 0 .. Len(out) /\ k \in Nat /\ k <= Len(out) /\ Len(out) + 1 = k + Frame
      /\ Frame \in Nat
  BY <1>1, <1>2
<1>6. SubSeq(o, 1, k) = SubSeq(out, 1, k) /\ Len(SubSeq(out, 1, k)) = k
  BY <1>2, <1>3, <1>5, PrefixKept
<1> HIDE DEF k, q, o
<1>7. p \in Seq(Nat) /\ Len(p) = Frame /\ \A i \in 1 .. Frame : p[i] = o[k + i]
  BY <1>4, <1>5
<1>8. queue' = q /\ out' = o
  BY <1>1 DEF q, o
<1>9. DOMAIN o = 1 .. Len(o) /\ DOMAIN q = 1 .. Len(q)
  BY <1>3, <1>4
<1>10. /\ \A i, j \in 1 .. Len(o) : i < j => o[i] < o[j]
       /\ \A i \in 1 .. Len(o), j \in 1 .. Len(q) : o[i] < q[j]
  <2>1. InOrder'
    BY DEF RefineInv, OrderInv, Ordered
  <2>2. /\ \A i, j \in DOMAIN o : i < j => o[i] < o[j]
        /\ \A i \in DOMAIN o, j \in DOMAIN q : o[i] < q[j]
    BY <1>8, <2>1 DEF InOrder, Increasing
  <2> QED
    BY <1>9, <2>2
<1> HIDE DEF p, held, left
<1>11. Parted(p, held, left)
  <2>1. Moved(queue, q, out, o, p, k)
    BY <1>2, <1>3, <1>4, <1>5, <1>7, <1>10 DEF Moved
  <2> QED
    BY <1>2, <1>3, <1>4, <1>5, <1>7, <2>1, FrameLeaves DEF held, left
<1>12. SubSeq(o, 1, Len(o)) = o
  BY <1>4
<1>13. o = SubSeq(out, 1, k) \o p
  <2>1. k \in 0 .. Len(o) /\ o \in Seq(Nat)
    BY <1>2, <1>4, <1>5
  <2>2. o = SubSeq(o, 1, k) \o p
    BY <2>1, SplitAt DEF p
  <2> QED
    BY <1>6, <2>2
<1>14. Len(out) - Part = k /\ Len(out') - Part' = Len(o) /\ Len(o) \in Nat
  BY <1>1, <1>2, <1>4, <1>8 DEF k
<1>15. {queue'[i] : i \in 1 .. Len(queue')}
         \cup {out'[i] : i \in Len(out') - Part' + 1 .. Len(out')} = left
  <2>1. {o[i] : i \in Len(o) + 1 .. Len(o)} = {}
    BY <1>14
  <2> QED
    BY <1>8, <1>14, <2>1 DEF left
<1>16. {queue[i] : i \in 1 .. Len(queue)}
         \cup {out[i] : i \in Len(out) - Part + 1 .. Len(out)} = held
  BY <1>14 DEF held, Held
<1>17. SubSeq(out', 1, Len(out') - Part') = o /\ SubSeq(out, 1, Len(out) - Part) = SubSeq(out, 1, k)
  BY <1>8, <1>12, <1>14
<1> DEFINE e == SubSeq(SubSeq(out, 1, Len(out) - Part)',
                       Len(SubSeq(out, 1, Len(out) - Part)) + 1,
                       Len(SubSeq(out, 1, Len(out) - Part)'))
<1>18. e = p
  BY <1>6, <1>17 DEF p
<1> HIDE DEF e
<1>19. Parted(e, held, left) /\ Len(e) = Frame /\ o = SubSeq(out, 1, k) \o e
  BY <1>7, <1>11, <1>13, <1>18
<1>20. Stream!Send(e)
  BY <1>1, <1>15, <1>16, <1>17, <1>19 DEF Stream!Send, Parted
<1> QED
  BY <1>20 DEF Stream!Next, e

\* A ring of the capture side, of any size and however its two threads
\* interleave, is to its reader a stream of whole frames of recorded samples,
\* in order and without repetition (LockFreeRingBuffer.hpp, write() and
\* readBlocking()).
THEOREM RingStreamHolds == CaptureSpec => RingStream
<1>1. Init => Stream!Init
  BY DEF Init, Stream!Init, Part
<1>2. RefineInv /\ RefineInv' /\ [CaptureNext]_vars => [Stream!Next]_(Stream!vars)
  <2> SUFFICES ASSUME RefineInv, RefineInv', [CaptureNext]_vars
               PROVE  [Stream!Next]_(Stream!vars)
    OBVIOUS
  <2> USE DEF queueVars, producerVars, consumerVars
  <2>1. /\ cur \in Nat /\ made \in Nat /\ cur <= made + 1 /\ got \in Nat
        /\ want \in Nat /\ Capacity \in Nat /\ \A n \in Calls : n \in Nat
        /\ queue \in Seq(Nat)
    BY RingAssumption DEF RefineInv, OrderInv, TypeOK, Ordered
  <2>2. CASE Enqueue
    BY <2>2, EnqueueStream
  <2>3. CASE EnqueueFails
    <3>1. UNCHANGED <<queue, out, Part>> /\ cur' >= cur
      BY <2>1, <2>3 DEF EnqueueFails, Part
    <3> QED
      BY <3>1, SkipStep
  <2>4. CASE WriteReturn
    <3>1. UNCHANGED <<queue, out, Part>> /\ cur' >= cur
      BY <2>1, <2>4 DEF WriteReturn, Part
    <3> QED
      BY <3>1, SkipStep
  <2>5. CASE Dequeue
    <3>1. got + 1 < want \/ got + 1 = want
      BY <2>1, <2>5 DEF Dequeue
    <3> QED
      BY <2>5, <3>1, DequeuePart, DequeueLast
  <2>6. CASE ReadReturn
    <3>1. got = want
      BY <2>1, <2>6 DEF ReadReturn, RefineInv, CaptureInv, NeverShort
    <3>2. UNCHANGED <<queue, out, Part>> /\ cur' >= cur
      BY <2>1, <2>6, <3>1 DEF ReadReturn, Part
    <3> QED
      BY <3>2, SkipStep
  <2>7. CASE ReadBlocking \/ Enough \/ DataDeadline \/ DataWait \/ DataTimedOut
               \/ DataToken
    <3>1. UNCHANGED <<queue, out, Part>> /\ cur' >= cur
      BY <2>1, <2>7 DEF ReadBlocking, Enough, DataDeadline, DataWait, DataTimedOut,
         DataToken, Part
    <3> QED
      BY <3>1, SkipStep
  <2>8. ASSUME NEW n \in Calls, Write(n) PROVE [Stream!Next]_(Stream!vars)
    <3>1. UNCHANGED <<queue, out, Part>> /\ cur' >= cur
      BY <2>1, <2>8 DEF Write, Part
    <3> QED
      BY <3>1, SkipStep
  <2>9. CASE UNCHANGED vars
    <3>1. UNCHANGED <<queue, out, Part>> /\ cur' >= cur
      BY <2>1, <2>9 DEF vars, Part
    <3> QED
      BY <3>1, SkipStep
  <2> QED
    BY <2>2, <2>3, <2>4, <2>5, <2>6, <2>7, <2>8, <2>9
       DEF CaptureNext, Fill, TakeBlocking, Take
<1> QED
  BY <1>1, <1>2, RefineHolds, PTL DEF CaptureSpec, RingStream, Stream!Spec

-----------------------------------------------------------------------------
(* Playback: waitForSpace and writeNoOverwrite *)

PlaybackInv == TypeOK /\ WithinCapacity /\ NeverTorn /\ NoLostSpace

\* Every step of playback keeps the ring within its capacity.
LEMMA PlaybackStep == PlaybackInv /\ [PlaybackNext]_vars => PlaybackInv'
<1> SUFFICES ASSUME PlaybackInv, [PlaybackNext]_vars PROVE PlaybackInv'
  OBVIOUS
<1>1. TypeOK'
  BY TypeStep DEF PlaybackInv, AnyNext
<1>2. /\ queue \in Seq(Nat) /\ cur \in Nat /\ made \in Nat /\ Len(queue) \in Nat
      /\ got \in Nat /\ spaceReady \in Nat
      /\ Frame \in Nat /\ Frame > 0 /\ Capacity \in Nat
  BY RingAssumption DEF PlaybackInv, TypeOK
<1> USE <1>2 DEF PlaybackInv, WithinCapacity, NeverTorn, NoLostSpace, HasSpace,
                 queueVars, producerVars, consumerVars
<1>3. CASE Enqueue
  <2>1. Len(queue') = Len(queue) + 1
    BY <1>3, AppendFacts DEF Enqueue
  <2> QED
    BY <1>1, <1>3, <2>1 DEF Enqueue
<1>4. CASE EnqueueFails
  BY <1>1, <1>4 DEF EnqueueFails
<1>5. CASE WriteReturn
  BY <1>1, <1>5 DEF WriteReturn
<1>6. CASE Dequeue
  <2>1. Len(queue') = Len(queue) - 1
    BY <1>6, TailFacts DEF Dequeue
  <2> QED
    BY <1>1, <1>6, <2>1 DEF Dequeue
<1>7. CASE ReadReturn
  BY <1>1, <1>7 DEF ReadReturn
<1>8. CASE WaitForSpace \/ SpaceFound \/ SpaceDeadline \/ SpaceWait \/ SpaceTimedOut
  BY <1>1, <1>8 DEF WaitForSpace, SpaceFound, SpaceDeadline, SpaceWait, SpaceTimedOut
<1>9. CASE SpaceToken
  BY <1>1, <1>9 DEF SpaceToken
<1>10. CASE WriteNoOverwrite
  BY <1>1, <1>10 DEF WriteNoOverwrite
<1>11. ASSUME NEW n \in Calls, Read(n) PROVE PlaybackInv'
  BY <1>1, <1>11 DEF Read
<1>12. CASE UNCHANGED vars
  BY <1>1, <1>12 DEF vars
<1> QED
  BY <1>3, <1>4, <1>5, <1>6, <1>7, <1>8, <1>9, <1>10, <1>11, <1>12
     DEF PlaybackNext, Fill, Take, WaitSpace

\* The invariant of the mixer's ring holds throughout.
LEMMA PlaybackHolds == PlaybackSpec => []PlaybackInv
<1>1. Init => PlaybackInv
  BY InitOrder, RingAssumption
     DEF Init, PlaybackInv, OrderInv, WithinCapacity, NeverTorn, NoLostSpace
<1> QED
  BY <1>1, PlaybackStep, PTL DEF PlaybackSpec

\* The mixer never fills the ring beyond its capacity.
THEOREM NeverOverfilled == PlaybackSpec => []WithinCapacity
<1>1. PlaybackInv => WithinCapacity
  BY DEF PlaybackInv
<1> QED
  BY <1>1, PlaybackHolds, PTL

\* writeNoOverwrite enters a frame whole or not at all.
THEOREM EnteredWhole == PlaybackSpec => []NeverTorn
<1>1. PlaybackInv => NeverTorn
  BY DEF PlaybackInv
<1> QED
  BY <1>1, PlaybackHolds, PTL

\* waitForSpace misses no wakeup of the device callback.
THEOREM MixerIsWoken == PlaybackSpec => []NoLostSpace
<1>1. PlaybackInv => NoLostSpace
  BY DEF PlaybackInv
<1> QED
  BY <1>1, PlaybackHolds, PTL
=============================================================================

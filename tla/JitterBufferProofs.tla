------------------------- MODULE JitterBufferProofs -------------------------
(***************************************************************************)
(* The jitter buffer's invariants and its refinement of InOrderPlayout, for *)
(* every minimalSize <= maxSize and every set of sequence numbers.          *)
(***************************************************************************)
EXTENDS JitterBuffer, FiniteSetTheorems, TLAPS

\* A map as std::map<uint64_t, T> holds it: finitely many numbered frames.
IsMap(b) ==
  /\ DOMAIN b \subseteq SeqNums
  /\ IsFiniteSet(DOMAIN b)
  /\ b \in [DOMAIN b -> Frames]

\* try_emplace adds at most the new key, keeps every entry there was, and
\* grows the map by one exactly when the key is new.
LEMMA TryEmplaceFacts ==
  ASSUME NEW b, IsMap(b), NEW k \in SeqNums, NEW f \in Frames
  PROVE  /\ IsMap(TryEmplace(b, k, f))
         /\ DOMAIN TryEmplace(b, k, f) = DOMAIN b \cup {k}
         /\ \A x \in DOMAIN b : TryEmplace(b, k, f)[x] = b[x]
         /\ k \notin DOMAIN b => TryEmplace(b, k, f)[k] = f
         /\ Size(TryEmplace(b, k, f)) =
              IF k \in DOMAIN b THEN Size(b) ELSE Size(b) + 1
         /\ Size(b) \in Nat
<1>1. DOMAIN TryEmplace(b, k, f) = DOMAIN b \cup {k}
  BY DEF TryEmplace
<1>2. /\ \A x \in DOMAIN b : TryEmplace(b, k, f)[x] = b[x]
      /\ k \notin DOMAIN b => TryEmplace(b, k, f)[k] = f
  BY DEF TryEmplace
<1>3. TryEmplace(b, k, f) \in [DOMAIN b \cup {k} -> Frames]
  BY DEF TryEmplace, IsMap
<1>4. /\ IsFiniteSet(DOMAIN b \cup {k})
      /\ Cardinality(DOMAIN b \cup {k}) =
           IF k \in DOMAIN b THEN Cardinality(DOMAIN b)
                             ELSE Cardinality(DOMAIN b) + 1
  BY FS_AddElement DEF IsMap
<1>5. Cardinality(DOMAIN b) \in Nat
  BY FS_CardinalityType DEF IsMap
<1> QED
  BY <1>1, <1>2, <1>3, <1>4, <1>5 DEF IsMap, Size

\* erase of an entry takes away that key and nothing else.
LEMMA EraseFacts ==
  ASSUME NEW b, IsMap(b), NEW k \in DOMAIN b
  PROVE  /\ IsMap(Erase(b, k))
         /\ DOMAIN Erase(b, k) = DOMAIN b \ {k}
         /\ \A x \in DOMAIN b \ {k} : Erase(b, k)[x] = b[x]
         /\ Size(Erase(b, k)) = Size(b) - 1
         /\ Size(b) \in Nat
<1>1. DOMAIN Erase(b, k) = DOMAIN b \ {k}
  BY DEF Erase
<1>2. /\ IsFiniteSet(DOMAIN b \ {k})
      /\ Cardinality(DOMAIN b \ {k}) = Cardinality(DOMAIN b) - 1
  BY FS_RemoveElement DEF IsMap
<1>3. Cardinality(DOMAIN b) \in Nat
  BY FS_CardinalityType DEF IsMap
<1>4. Erase(b, k) \in [DOMAIN b \ {k} -> Frames]
  BY DEF Erase, IsMap
<1> QED
  BY <1>1, <1>2, <1>3, <1>4 DEF Erase, IsMap, Size

-----------------------------------------------------------------------------
\* The constructor leaves an empty, well-typed buffer.
LEMMA InitType == Init => TypeOK
<1> SUFFICES ASSUME Init PROVE TypeOK
  OBVIOUS
<1>1. DOMAIN buffer = {} /\ buffer \in [{} -> Frames]
  BY DEF Init
<1>2. IsFiniteSet(DOMAIN buffer) /\ DOMAIN buffer \subseteq SeqNums
  BY <1>1, FS_EmptySet
<1>3. played \in Seq(SeqNums \X Frames) /\ offered \subseteq SeqNums \X Frames
  BY DEF Init
<1>4. sequence \in Nat /\ primed \in BOOLEAN
  BY SizeAssumption DEF Init
<1> QED
  BY <1>1, <1>2, <1>3, <1>4 DEF TypeOK

\* push and pop keep the types.
LEMMA NextType == TypeOK /\ [Next]_vars => TypeOK'
<1> SUFFICES ASSUME TypeOK, [Next]_vars PROVE TypeOK'
  OBVIOUS
<1>m. IsMap(buffer)
  BY DEF TypeOK, IsMap
<1>1. ASSUME NEW k \in SeqNums, NEW f \in Frames, PushLate(k, f)
      PROVE  TypeOK'
  BY <1>1 DEF PushLate, TypeOK
<1>2. ASSUME NEW k \in SeqNums, NEW f \in Frames, PushFull(k, f)
      PROVE  TypeOK'
  <2>1. PICK b \in DOMAIN buffer :
          buffer' = TryEmplace(Erase(buffer, b), k, f)
    BY <1>2 DEF PushFull
  <2>2. IsMap(buffer')
    BY <1>m, <2>1, EraseFacts, TryEmplaceFacts
  <2> QED
    BY <1>2, <2>2 DEF PushFull, TypeOK, IsMap
<1>3. ASSUME NEW k \in SeqNums, NEW f \in Frames, PushRoom(k, f)
      PROVE  TypeOK'
  <2>1. IsMap(buffer')
    BY <1>m, <1>3, TryEmplaceFacts DEF PushRoom
  <2>2. primed' \in BOOLEAN
    BY <1>3 DEF PushRoom, TypeOK
  <2> QED
    BY <1>3, <2>1, <2>2 DEF PushRoom, TypeOK, IsMap
<1>4. CASE PopEmpty
  BY <1>4 DEF PopEmpty, TypeOK
<1>5. CASE PopFrame
  <2>1. PICK k \in DOMAIN buffer :
          /\ buffer' = Erase(buffer, k)
          /\ sequence' = k + 1
          /\ played' = Append(played, <<k, buffer[k]>>)
    BY <1>5 DEF PopFrame
  <2>2. IsMap(buffer')
    BY <1>m, <2>1, EraseFacts
  <2>3. k \in Nat /\ <<k, buffer[k]>> \in SeqNums \X Frames
    BY SizeAssumption, <1>m DEF IsMap
  <2> QED
    BY <1>5, <2>1, <2>2, <2>3 DEF PopFrame, TypeOK, IsMap
<1>6. CASE UNCHANGED vars
  BY <1>6 DEF vars, TypeOK
<1> QED
  BY <1>1, <1>2, <1>3, <1>4, <1>5, <1>6 DEF Next, Pop, Push

\* Type correctness of the buffer, for any traffic.
THEOREM TypeCorrect == Spec => []TypeOK
<1>1. Init => TypeOK
  BY InitType
<1>2. TypeOK /\ [Next]_vars => TypeOK'
  BY NextType
<1> QED
  BY <1>1, <1>2, PTL DEF Spec

-----------------------------------------------------------------------------
(***************************************************************************)
(* PlayedInOrder alone is not inductive: a pop could return a frame older   *)
(* than one already played if the buffer held one.  NothingLateWaits says   *)
(* it never does.  EnoughMeansPrimed likewise needs Bounded: the overflow   *)
(* path of push leaves primed alone, which is harmless only because the     *)
(* path is taken at maxSize >= minimalSize frames.                          *)
(***************************************************************************)
IInv ==
  /\ TypeOK
  /\ NothingLateWaits
  /\ PlayedInOrder
  /\ Bounded
  /\ EnoughMeansPrimed

\* A new buffer satisfies the inductive invariant.
LEMMA InitInv == Init => IInv
<1> SUFFICES ASSUME Init PROVE IInv
  OBVIOUS
<1>1. TypeOK
  BY InitType
<1>2. DOMAIN buffer = {} /\ Len(played) = 0
  BY DEF Init
<1>3. Size(buffer) = 0
  BY <1>2, FS_EmptySet DEF Size
<1>4. NothingLateWaits /\ PlayedInOrder
  BY <1>2 DEF NothingLateWaits, PlayedInOrder
<1>5. Bounded /\ EnoughMeansPrimed
  BY <1>3, SizeAssumption DEF Bounded, EnoughMeansPrimed
<1> QED
  BY <1>1, <1>4, <1>5 DEF IInv

\* push keeps the inductive invariant, on each of its three paths.
LEMMA PushInv ==
  ASSUME IInv, NEW k \in SeqNums, NEW f \in Frames, Push(k, f), TypeOK'
  PROVE  IInv'
<1>m. IsMap(buffer)
  BY DEF IInv, TypeOK, IsMap
<1>n. /\ Size(buffer) \in Nat /\ MinimalSize \in Nat /\ MaxSize \in Nat
      /\ MinimalSize > 0 /\ MinimalSize <= MaxSize
      /\ sequence \in Nat /\ k \in Nat
  BY <1>m, FS_CardinalityType, SizeAssumption DEF IInv, TypeOK, IsMap, Size
<1>1. CASE PushLate(k, f)
  BY <1>1 DEF PushLate, IInv, NothingLateWaits, PlayedInOrder, Bounded,
              EnoughMeansPrimed
<1>2. CASE PushFull(k, f)
  <2>1. PICK b \in DOMAIN buffer :
          buffer' = TryEmplace(Erase(buffer, b), k, f)
    BY <1>2 DEF PushFull
  <2> DEFINE e == Erase(buffer, b)
  <2>2. /\ IsMap(e) /\ DOMAIN e = DOMAIN buffer \ {b}
        /\ \A x \in DOMAIN e : e[x] = buffer[x]
        /\ Size(e) = Size(buffer) - 1
    BY <1>m, EraseFacts
  <2>3. /\ DOMAIN buffer' = DOMAIN e \cup {k}
        /\ \A x \in DOMAIN e : buffer'[x] = e[x]
        /\ k \notin DOMAIN e => buffer'[k] = f
        /\ Size(buffer') = IF k \in DOMAIN e THEN Size(e) ELSE Size(e) + 1
    <3>1. buffer' = TryEmplace(e, k, f) /\ IsMap(e)
      BY <2>1, <2>2
    <3> HIDE DEF e
    <3>2. /\ DOMAIN TryEmplace(e, k, f) = DOMAIN e \cup {k}
          /\ \A x \in DOMAIN e : TryEmplace(e, k, f)[x] = e[x]
          /\ k \notin DOMAIN e => TryEmplace(e, k, f)[k] = f
          /\ Size(TryEmplace(e, k, f)) =
               IF k \in DOMAIN e THEN Size(e) ELSE Size(e) + 1
      BY <3>1, TryEmplaceFacts, Zenon
    <3> QED
      BY <3>1, <3>2, Zenon
  <2>4. Size(buffer') <= MaxSize
    BY <1>n, <2>2, <2>3 DEF IInv, Bounded
  <2>5. primed'
    BY <1>2, <1>n DEF PushFull, IInv, EnoughMeansPrimed
  <2>6. NothingLateWaits'
    <3>1. \A x \in DOMAIN buffer' :
            sequence <= x /\ <<x, buffer'[x]>> \in offered'
      BY <1>2, <2>2, <2>3 DEF PushFull, IInv, NothingLateWaits
    <3> QED
      BY <1>2, <3>1 DEF PushFull, IInv, NothingLateWaits
  <2>7. PlayedInOrder'
    BY <1>2 DEF PushFull, IInv, PlayedInOrder
  <2> QED
    BY <2>4, <2>5, <2>6, <2>7 DEF IInv, Bounded, EnoughMeansPrimed
<1>3. CASE PushRoom(k, f)
  <2>1. /\ DOMAIN buffer' = DOMAIN buffer \cup {k}
        /\ \A x \in DOMAIN buffer : buffer'[x] = buffer[x]
        /\ k \notin DOMAIN buffer => buffer'[k] = f
        /\ Size(buffer') = IF k \in DOMAIN buffer THEN Size(buffer)
                                                 ELSE Size(buffer) + 1
    BY <1>3, <1>m, TryEmplaceFacts DEF PushRoom
  <2>2. Bounded'
    BY <1>3, <1>n, <2>1 DEF PushRoom, Bounded
  <2>3. EnoughMeansPrimed'
    BY <1>3 DEF PushRoom, EnoughMeansPrimed
  <2>4. \A x \in DOMAIN buffer' :
          sequence <= x /\ <<x, buffer'[x]>> \in offered'
    BY <1>3, <2>1 DEF PushRoom, IInv, NothingLateWaits
  <2>5. NothingLateWaits' /\ PlayedInOrder'
    BY <1>3, <2>4 DEF PushRoom, IInv, NothingLateWaits, PlayedInOrder
  <2> QED
    BY <2>2, <2>3, <2>5 DEF IInv
<1> QED
  BY <1>1, <1>2, <1>3 DEF Push

\* pop keeps the inductive invariant.
LEMMA PopInv ==
  ASSUME IInv, Pop, TypeOK'
  PROVE  IInv'
<1>m. IsMap(buffer)
  BY DEF IInv, TypeOK, IsMap
<1>n. /\ Size(buffer) \in Nat /\ MinimalSize \in Nat /\ MaxSize \in Nat
      /\ MinimalSize > 0
  BY <1>m, FS_CardinalityType, SizeAssumption DEF IsMap, Size
<1>1. CASE PopEmpty
  <2>1. Size(buffer') = 0
    BY <1>1, FS_EmptySet DEF PopEmpty, Size
  <2> QED
    BY <1>1, <1>n, <2>1 DEF PopEmpty, IInv, NothingLateWaits, PlayedInOrder,
                            Bounded, EnoughMeansPrimed
<1>2. CASE PopFrame
  <2>1. PICK k \in DOMAIN buffer :
          /\ IsBegin(buffer, k)
          /\ buffer' = Erase(buffer, k)
          /\ sequence' = k + 1
          /\ played' = Append(played, <<k, buffer[k]>>)
    BY <1>2 DEF PopFrame
  <2>2. /\ DOMAIN buffer' = DOMAIN buffer \ {k}
        /\ \A x \in DOMAIN buffer' : buffer'[x] = buffer[x]
        /\ Size(buffer') = Size(buffer) - 1
    BY <1>m, <2>1, EraseFacts
  <2>3. /\ \A x \in DOMAIN buffer : x \in Nat
        /\ sequence \in Nat
        /\ played \in Seq(SeqNums \X Frames)
        /\ \A i \in 1 .. Len(played) : played[i][1] \in Nat
    BY SizeAssumption DEF IInv, TypeOK
  <2>4. /\ Len(played') = Len(played) + 1
        /\ \A i \in 1 .. Len(played) : played'[i] = played[i]
        /\ played'[Len(played) + 1] = <<k, buffer[k]>>
    BY <2>1, <2>3
  <2>5. sequence <= k /\ k \in Nat
    BY <2>3 DEF IInv, NothingLateWaits
  <2>6. \A i \in 1 .. Len(played) : played[i][1] < k
    BY <2>3, <2>5 DEF IInv, NothingLateWaits
  <2>7. NothingLateWaits'
    <3>1. \A x \in DOMAIN buffer' :
            sequence' <= x /\ <<x, buffer'[x]>> \in offered'
      BY <1>2, <2>1, <2>2, <2>3 DEF PopFrame, IInv, NothingLateWaits, IsBegin
    <3>2. \A i \in 1 .. Len(played') : played'[i][1] < sequence'
      BY <2>1, <2>3, <2>4, <2>5, <2>6
    <3> QED
      BY <3>1, <3>2 DEF NothingLateWaits
  <2>8. PlayedInOrder'
    <3> SUFFICES ASSUME NEW i \in 1 .. Len(played'), NEW j \in 1 .. Len(played'),
                        i < j
                 PROVE  played'[i][1] < played'[j][1]
      BY DEF PlayedInOrder
    <3>1. i \in 1 .. Len(played) /\ Len(played) \in Nat
      BY <2>3, <2>4
    <3>2. CASE j \in 1 .. Len(played)
      BY <2>4, <3>1, <3>2 DEF IInv, PlayedInOrder
    <3>3. CASE j = Len(played) + 1
      BY <2>4, <2>6, <3>1, <3>3
    <3> QED
      BY <2>4, <3>1, <3>2, <3>3
  <2>9. Bounded' /\ EnoughMeansPrimed'
    BY <1>2, <1>n, <2>2 DEF PopFrame, IInv, Bounded, EnoughMeansPrimed
  <2> QED
    BY <2>7, <2>8, <2>9 DEF IInv
<1> QED
  BY <1>1, <1>2 DEF Pop

\* Every step keeps the inductive invariant.
LEMMA NextInv == IInv /\ [Next]_vars => IInv'
<1> SUFFICES ASSUME IInv, [Next]_vars PROVE IInv'
  OBVIOUS
<1>1. TypeOK'
  BY NextType DEF IInv
<1>2. CASE UNCHANGED vars
  BY <1>2 DEF vars, IInv, TypeOK, NothingLateWaits, PlayedInOrder, Bounded,
              EnoughMeansPrimed
<1>3. CASE Next
  BY <1>1, <1>3, PushInv, PopInv DEF Next
<1> QED
  BY <1>2, <1>3

\* The mixer hears every talker in strictly increasing sequence order, for
\* any arrival order, duplication or loss of packets.
THEOREM InOrder == Spec => []PlayedInOrder
<1>1. Init => IInv
  BY InitInv
<1>2. IInv /\ [Next]_vars => IInv'
  BY NextInv
<1>3. IInv => PlayedInOrder
  BY DEF IInv
<1> QED
  BY <1>1, <1>2, <1>3, PTL DEF Spec

\* Nothing that waits is older than what push still takes: the number the
\* late check compares with never runs ahead of a waiting frame.
THEOREM NothingLate == Spec => []NothingLateWaits
<1>1. Init => IInv
  BY InitInv
<1>2. IInv /\ [Next]_vars => IInv'
  BY NextInv
<1>3. IInv => NothingLateWaits
  BY DEF IInv
<1> QED
  BY <1>1, <1>2, <1>3, PTL DEF Spec

\* The buffer never holds more than maxSize frames.
THEOREM NeverOverflows == Spec => []Bounded
<1>1. Init => IInv
  BY InitInv
<1>2. IInv /\ [Next]_vars => IInv'
  BY NextInv
<1>3. IInv => Bounded
  BY DEF IInv
<1> QED
  BY <1>1, <1>2, <1>3, PTL DEF Spec

\* A buffer of minimalSize frames is always being played.
THEOREM NeverWithheld == Spec => []EnoughMeansPrimed
<1>1. Init => IInv
  BY InitInv
<1>2. IInv /\ [Next]_vars => IInv'
  BY NextInv
<1>3. IInv => EnoughMeansPrimed
  BY DEF IInv
<1> QED
  BY <1>1, <1>2, <1>3, PTL DEF Spec

-----------------------------------------------------------------------------
\* A waiting frame that is not played is lost only as the oldest of a full
\* buffer, on every step.
THEOREM LossesAreOldest == Spec => LossOnlyWhenFull
<1> DEFINE Loss == \A k \in DOMAIN buffer \ DOMAIN buffer' :
                     /\ IsBegin(buffer, k)
                     /\ played' = played => Size(buffer) = MaxSize
<1>1. Init => IInv
  BY InitInv
<1>2. IInv /\ [Next]_vars => IInv'
  BY NextInv
<1>3. IInv /\ [Next]_vars => [Loss]_vars
  <2> SUFFICES ASSUME IInv, Next PROVE Loss
    OBVIOUS
  <2>1. ASSUME NEW k \in SeqNums, NEW f \in Frames, PushLate(k, f) PROVE Loss
    BY <2>1 DEF PushLate
  <2>2. ASSUME NEW k \in SeqNums, NEW f \in Frames, PushRoom(k, f) PROVE Loss
    BY <2>2 DEF PushRoom, TryEmplace
  <2>3. ASSUME NEW k \in SeqNums, NEW f \in Frames, PushFull(k, f) PROVE Loss
    <3>1. PICK b \in DOMAIN buffer :
            IsBegin(buffer, b) /\ buffer' = TryEmplace(Erase(buffer, b), k, f)
      BY <2>3 DEF PushFull
    <3>2. DOMAIN buffer \ {b} \subseteq DOMAIN buffer'
      BY <3>1 DEF TryEmplace, Erase
    <3>3. Size(buffer) \in Nat
      BY FS_CardinalityType DEF IInv, TypeOK, Size
    <3>4. Size(buffer) = MaxSize
      BY <2>3, <3>3, SizeAssumption DEF IInv, Bounded, PushFull
    <3> QED
      BY <3>1, <3>2, <3>4
  <2>4. CASE PopFrame
    <3>1. PICK k \in DOMAIN buffer :
            /\ IsBegin(buffer, k) /\ buffer' = Erase(buffer, k)
            /\ played' = Append(played, <<k, buffer[k]>>)
      BY <2>4 DEF PopFrame
    <3>2. DOMAIN buffer \ {k} \subseteq DOMAIN buffer'
      BY <3>1 DEF Erase
    <3>3. played' # played
      <4>1. played \in Seq(SeqNums \X Frames) /\ <<k, buffer[k]>> \in SeqNums \X Frames
        BY DEF IInv, TypeOK
      <4>2. Len(played') = Len(played) + 1 /\ Len(played) \in Nat
        BY <3>1, <4>1
      <4> QED
        BY <4>2
    <3> QED
      BY <3>1, <3>2, <3>3
  <2>5. CASE PopEmpty
    BY <2>5 DEF PopEmpty
  <2> QED
    BY <2>1, <2>2, <2>3, <2>4, <2>5 DEF Next, Push, Pop
<1> QED
  BY <1>1, <1>2, <1>3, PTL DEF Spec, LossOnlyWhenFull

-----------------------------------------------------------------------------
(***************************************************************************)
(* The safety half of WaitingFramesLeave.  Frame k, while it waits, is      *)
(* k - sequence numbers away from its turn: never less than none, never     *)
(* more than before whatever is pushed, and fewer with every frame that pop *)
(* returns.  Playback, once under way, goes on meanwhile.  So k - sequence  *)
(* further frames at most are played before k leaves, as readData and       *)
(* mixer interleave.                                                        *)
(***************************************************************************)
ComesNearer ==
  [][\A k \in DOMAIN buffer \cap DOMAIN buffer' :
        /\ sequence <= sequence' /\ sequence' <= k
        /\ primed => primed'
        /\ played' # played => sequence < sequence']_vars

\* Every waiting frame comes nearer to its turn with each frame played, for
\* any traffic: frames that arrive late but in time cannot hold it up for
\* ever.
THEOREM WaitingComesNearer == Spec => ComesNearer
<1> DEFINE Nearer == \A k \in DOMAIN buffer \cap DOMAIN buffer' :
                       /\ sequence <= sequence' /\ sequence' <= k
                       /\ primed => primed'
                       /\ played' # played => sequence < sequence'
<1>1. IInv /\ IInv' /\ [Next]_vars => [Nearer]_vars
  <2> SUFFICES ASSUME IInv, IInv', Next PROVE Nearer
    OBVIOUS
  <2> SUFFICES ASSUME NEW k \in DOMAIN buffer, k \in DOMAIN buffer'
               PROVE  /\ sequence <= sequence' /\ sequence' <= k
                      /\ primed => primed'
                      /\ played' # played => sequence < sequence'
    OBVIOUS
  <2>1. sequence' <= k
    BY DEF IInv, NothingLateWaits
  <2>2. sequence \in Nat /\ \A x \in DOMAIN buffer : x \in Nat /\ sequence <= x
    BY SizeAssumption DEF IInv, TypeOK, NothingLateWaits
  <2>3. ASSUME NEW x \in SeqNums, NEW f \in Frames, Push(x, f)
        PROVE  sequence' = sequence /\ played' = played /\ (primed => primed')
    <3>1. CASE PushLate(x, f)
      BY <3>1 DEF PushLate
    <3>2. CASE PushFull(x, f)
      BY <3>2 DEF PushFull
    <3>3. CASE PushRoom(x, f)
      <4>1. primed => primed'
        BY <3>3, Zenon DEF PushRoom
      <4> QED
        BY <3>3, <4>1 DEF PushRoom
    <3> QED
      BY <2>3, <3>1, <3>2, <3>3 DEF Push
  <2>4. CASE PopFrame
    <3>1. PICK x \in DOMAIN buffer : sequence' = x + 1
      BY <2>4 DEF PopFrame
    <3>2. sequence < sequence' /\ sequence <= sequence'
      BY <2>2, <3>1
    <3>3. primed' = primed
      BY <2>4 DEF PopFrame
    <3> QED
      BY <2>1, <3>2, <3>3
  <2>5. ~ PopEmpty
    BY DEF PopEmpty
  <2>6. sequence <= sequence
    BY <2>2
  <2> QED
    BY <2>1, <2>3, <2>4, <2>5, <2>6 DEF Next, Pop
<1>2. Init => IInv
  BY InitInv
<1>3. IInv /\ [Next]_vars => IInv'
  BY NextInv
<1> QED
  BY <1>1, <1>2, <1>3, PTL DEF Spec, ComesNearer

-----------------------------------------------------------------------------
\* A push is an Offer, a pop that returns a frame is a Play of a pushed frame,
\* any other step is a stutter.
LEMMA PlayoutStep ==
  ASSUME IInv, [Next]_vars
  PROVE  [Playout!Next]_(Playout!vars)
<1>1. ASSUME NEW k \in SeqNums, NEW f \in Frames, Push(k, f)
      PROVE  Playout!Next
  <2>1. Playout!Offer(k, f)
    BY <1>1 DEF Push, PushLate, PushFull, PushRoom, Playout!Offer
  <2> QED
    BY <2>1 DEF Playout!Next
<1>2. CASE PopFrame
  <2>1. PICK k \in DOMAIN buffer : played' = Append(played, <<k, buffer[k]>>)
    BY <1>2 DEF PopFrame
  <2> DEFINE p == <<k, buffer[k]>>
  <2>2. p \in offered
    BY DEF IInv, NothingLateWaits
  <2>3. /\ \A i \in 1 .. Len(played) : played[i][1] \in Nat
        /\ k \in Nat /\ sequence \in Nat
    BY SizeAssumption DEF IInv, TypeOK
  <2>4. \A i \in 1 .. Len(played) : played[i][1] < p[1]
    <3> SUFFICES ASSUME NEW i \in 1 .. Len(played)
                 PROVE  played[i][1] < k
      OBVIOUS
    <3>1. played[i][1] < sequence /\ sequence <= k
      BY DEF IInv, NothingLateWaits
    <3> QED
      BY <2>3, <3>1
  <2>5. Playout!Play(p)
    BY <1>2, <2>1, <2>2, <2>4 DEF PopFrame, Playout!Play
  <2> QED
    BY <2>2, <2>5 DEF Playout!Next
<1>3. CASE PopEmpty
  BY <1>3 DEF PopEmpty, Playout!vars
<1>4. CASE UNCHANGED vars
  BY <1>4 DEF vars, Playout!vars
<1> QED
  BY <1>1, <1>2, <1>3, <1>4 DEF Next, Pop

\* The jitter buffer implements InOrderPlayout.
THEOREM Refinement == Spec => PlayoutSpec
<1>1. Init => Playout!Init
  BY DEF Init, Playout!Init
<1>2. IInv /\ [Next]_vars => [Playout!Next]_(Playout!vars)
  BY PlayoutStep
<1>3. Init => IInv
  BY InitInv
<1>4. IInv /\ [Next]_vars => IInv'
  BY NextInv
<1> QED
  BY <1>1, <1>2, <1>3, <1>4, PTL DEF Spec, PlayoutSpec, Playout!Spec
=============================================================================

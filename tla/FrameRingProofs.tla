--------------------------- MODULE FrameRingProofs ---------------------------
(***************************************************************************)
(* Proofs about FrameRing for any number of slots and frames: the ring     *)
(* never loses a slot or hands one to two threads, the semaphore counts    *)
(* what it is meant to count, the encoder outlives its users, and every    *)
(* step is a step of LossyQueue or none.                                   *)
(***************************************************************************)
EXTENDS FrameRing, SequenceTheorems, FiniteSetTheorems, TLAPS

-----------------------------------------------------------------------------
(* Queues of slots without repetitions.                                     *)

(* An element put at the end of a queue is the only new one in it.          *)
LEMMA EnqueueLemma ==
  ASSUME NEW S, NEW q \in Seq(S), NEW e \in S
  PROVE  /\ Append(q, e) \in Seq(S)
         /\ Len(Append(q, e)) = Len(q) + 1
         /\ InRing(Append(q, e)) = InRing(q) \cup {e}
         /\ NoRepeats(q) /\ e \notin InRing(q) => NoRepeats(Append(q, e))
<1> DEFINE r == Append(q, e)
<1>1. /\ r \in Seq(S)
      /\ Len(r) = Len(q) + 1
      /\ \A i \in 1 .. Len(q) : r[i] = q[i]
      /\ r[Len(q) + 1] = e
  BY AppendProperties
<1>2. Len(q) \in Nat /\ DOMAIN q = 1 .. Len(q) /\ DOMAIN r = 1 .. Len(q) + 1
  BY <1>1, LenProperties
<1>3. InRing(r) = InRing(q) \cup {e}
  BY <1>1, <1>2 DEF InRing
<1>4. ASSUME NoRepeats(q), e \notin InRing(q)
      PROVE  NoRepeats(r)
  BY <1>1, <1>2, <1>4 DEF NoRepeats, InRing
<1> QED
  BY <1>1, <1>3, <1>4

(* What is taken from the front of a queue is no longer in it.              *)
LEMMA DequeueLemma ==
  ASSUME NEW S, NEW q \in Seq(S), q # <<>>
  PROVE  /\ Head(q) \in S
         /\ Tail(q) \in Seq(S)
         /\ Len(Tail(q)) = Len(q) - 1
         /\ InRing(q) = {Head(q)} \cup InRing(Tail(q))
         /\ NoRepeats(q) => NoRepeats(Tail(q)) /\ Head(q) \notin InRing(Tail(q))
<1> DEFINE r == Tail(q)
<1>1. /\ Head(q) \in S
      /\ r \in Seq(S)
      /\ Len(r) = Len(q) - 1
      /\ \A i \in 1 .. Len(r) : r[i] = q[i + 1]
  BY HeadTailProperties
<1>2. Len(q) \in Nat \ {0} /\ DOMAIN q = 1 .. Len(q) /\ DOMAIN r = 1 .. Len(q) - 1
  BY <1>1, LenProperties, EmptySeq
<1>3. Head(q) = q[1]
  OBVIOUS
<1>4. InRing(q) = {Head(q)} \cup InRing(r)
  <2>1. ASSUME NEW x \in InRing(q) PROVE x \in {q[1]} \cup InRing(r)
    <3>1. PICK i \in 1 .. Len(q) : x = q[i]
      BY <1>2 DEF InRing
    <3>2. CASE i = 1
      BY <3>1, <3>2
    <3>3. CASE i # 1
      <4>1. i - 1 \in 1 .. Len(r) /\ q[i] = r[i - 1]
        BY <1>1, <1>2, <3>3
      <4> QED  BY <1>2, <1>1, <3>1, <4>1 DEF InRing
    <3> QED  BY <3>2, <3>3
  <2>2. ASSUME NEW x \in {q[1]} \cup InRing(r) PROVE x \in InRing(q)
    BY <1>1, <1>2 DEF InRing
  <2> QED  BY <1>3, <2>1, <2>2
<1>5. ASSUME NoRepeats(q) PROVE NoRepeats(r) /\ Head(q) \notin InRing(r)
  BY <1>1, <1>2, <1>3, <1>5 DEF NoRepeats, InRing
<1> QED
  BY <1>1, <1>4, <1>5

(* An empty queue holds nothing, and a queue that holds nothing is empty.   *)
LEMMA EmptyQueueLemma ==
  ASSUME NEW S, NEW q \in Seq(S)
  PROVE  /\ InRing(<<>>) = {} /\ NoRepeats(<<>>)
         /\ InRing(q) = {} => q = <<>>
         /\ q # <<>> => Len(q) > 0
         /\ q = <<>> => Len(q) = 0
<1>1. InRing(<<>>) = {} /\ NoRepeats(<<>>)
  BY DEF InRing, NoRepeats
<1>2. Len(q) \in Nat /\ DOMAIN q = 1 .. Len(q)
  BY LenProperties
<1>3. ASSUME q # <<>> PROVE Len(q) > 0 /\ q[1] \in InRing(q)
  BY <1>2, <1>3, EmptySeq DEF InRing
<1> QED
  BY <1>1, <1>3, EmptySeq

(* StartEncoder fills the empty queue m_free with every slot, once.         *)
LEMMA AllSlotsLemma ==
  /\ <<>> \o [i \in Slot |-> i] \in Seq(Slot)
  /\ InRing(<<>> \o [i \in Slot |-> i]) = Slot
  /\ NoRepeats(<<>> \o [i \in Slot |-> i])
<1> DEFINE all == [i \in Slot |-> i]
<1>1. NumSlots \in Nat
  BY NumSlotsAssumption
<1>2. all \in [1 .. NumSlots -> Slot]
  BY DEF Slot
<1>3. all \in Seq(Slot)
  BY <1>1, <1>2, SeqDef
<1>4. <<>> \o all = all
  BY <1>3, ConcatEmptySeq
<1>5. InRing(all) = Slot /\ NoRepeats(all)
  BY DEF InRing, NoRepeats
<1> QED
  BY <1>3, <1>4, <1>5

-----------------------------------------------------------------------------
(* The inductive invariant. Which thread is where limits what the others    *)
(* can be doing.                                                            *)
Threads ==
  /\ producerSlot \in Slot <=> producer \in {"copying", "copied"}
  /\ encoderSlot \in Slot <=> encoder \in {"encoding", "returning"}
  /\ producer # "away" => main = "running" /\ arrived \in Frame
  /\ producer \in {"copying", "copied", "enqueued"} => HasRing
  /\ producer = "inline" => encoding
  /\ audio => main = "running" /\ encoding
  /\ main = "idle" => ~encoding
  /\ encoder # "none" => HasRing /\ main # "finishing"
  /\ HasRing /\ main # "finishing" => encoder # "none"
  /\ main \in {"releasing", "joining"} => encoder # "none" /\ stopping
  /\ encoder = "exited" => main = "joining" /\ filled = <<>>
  /\ main = "finishing" => filled = <<>>

(* What has been filled, or is being read, is a whole frame.                *)
Whole ==
  /\ \A s \in InRing(filled) : slots[s] \in Frame
  /\ encoder = "encoding" => slots[encoderSlot] \in Frame
  /\ producer = "copied" => slots[producerSlot] \in Frame

Inv ==
  /\ TypeOK
  /\ Threads
  /\ SlotsConserved
  /\ SemaphoreCounts
  /\ Whole

(* The invariant holds at the start.                                        *)
LEMMA InvInit == Init => Inv
<1> SUFFICES ASSUME Init PROVE Inv
  OBVIOUS
<1>1. TypeOK
  <2>1. /\ free \in Seq(Slot) /\ filled \in Seq(Slot)
        /\ encoded \in Seq(Frame \cup {None, Torn})
    BY EmptySeq DEF Init
  <2> QED
    <3>1. 0 \in 0 .. MaxFrames /\ 0 \in Nat
      BY MaxFramesAssumption
    <3>2. [s \in Slot |-> None] \in [Slot -> Frame \cup {None, Torn}]
      OBVIOUS
    <3> QED
      BY <2>1, <3>1, <3>2, Zenon DEF Init, TypeOK
<1>2. None \notin Slot /\ InRing(<<>>) = {} /\ NoRepeats(<<>>)
  <2>1. None \notin Slot
    BY DEF Slot, None
  <2>2. InRing(<<>>) = {} /\ NoRepeats(<<>>)
    BY DEF InRing, NoRepeats
  <2> QED
    BY <2>1, <2>2
<1>3. Threads /\ Whole
  BY <1>2 DEF Init, Threads, Whole, HasRing
<1>4. SlotsConserved /\ SemaphoreCounts
  BY <1>2 DEF Init, SlotsConserved, SemaphoreCounts, HasRing, One
<1> QED
  BY <1>1, <1>3, <1>4 DEF Inv

(* Every step preserves it.                                                  *)
LEMMA InvStep == Inv /\ [Next]_vars => Inv'
<1> SUFFICES ASSUME Inv, [Next]_vars PROVE Inv'
  OBVIOUS
<1> USE DEF Inv
<1>0. /\ None \notin Slot
      /\ \A n \in Frame : n \in Frame \cup {None, Torn}
      /\ MaxFrames \in Nat
      /\ free \in Seq(Slot) /\ filled \in Seq(Slot)
      /\ Len(filled) \in Nat /\ sem \in Nat
  BY MaxFramesAssumption, LenProperties DEF TypeOK, Slot, None
<1>1. CASE FrameArrives
  <2>1. TypeOK'
    BY <1>0, <1>1 DEF FrameArrives, TypeOK, flags, ring, threads, history
  <2>2. Threads'
    BY <1>0, <1>1, <2>1 DEF FrameArrives, TypeOK, Threads, HasRing, Frame, flags, ring,
       threads, history
  <2>3. SlotsConserved'
    BY <1>0, <1>1 DEF FrameArrives, TypeOK, Threads, SlotsConserved, HasRing, flags,
       ring, threads, history
  <2>4. SemaphoreCounts'
    BY <1>0, <1>1 DEF FrameArrives, TypeOK, Threads, SemaphoreCounts, One, flags, ring,
       threads, history
  <2>5. Whole'
    BY <1>0, <1>1, <2>1 DEF FrameArrives, TypeOK, Threads, Whole, SlotsConserved, flags,
       ring, threads, history
  <2> QED
    BY <2>1, <2>2, <2>3, <2>4, <2>5
<1>2. CASE StartEncoder
  <2>0. /\ ~HasRing /\ free = <<>> /\ filled = <<>>
        /\ producerSlot = None /\ encoderSlot = None
        /\ InRing(<<>>) = {} /\ NoRepeats(<<>>) /\ Len(<<>>) = 0
    <3>1. ~HasRing /\ InRing(free) = {} /\ InRing(filled) = {}
      BY <1>2 DEF StartEncoder, HasRing, SlotsConserved
    <3> QED
      BY <3>1, <1>0, <1>2, EmptyQueueLemma, EmptySeq DEF StartEncoder, TypeOK,
         SlotsConserved
  <2>a. /\ free' \in Seq(Slot) /\ NoRepeats(free')
        /\ InRing(free') = IF HasRing' THEN Slot ELSE {}
        /\ slots' \in [Slot -> Frame \cup {None, Torn}]
        /\ memory' = memory /\ encoding' /\ filled' = filled
    <3>1. CASE memory = "mapped"
      <4>1. free' = <<>> \o [i \in Slot |-> i] /\ slots' = [s \in Slot |-> None]
        BY <1>2, <2>0, <3>1 DEF StartEncoder
      <4>2. memory' = memory /\ encoding' /\ filled' = filled
        BY <1>2 DEF StartEncoder
      <4> QED
        BY <3>1, <4>1, <4>2, AllSlotsLemma DEF HasRing
    <3>2. CASE memory # "mapped"
      BY <1>0, <1>2, <2>0, <3>2 DEF StartEncoder, HasRing, TypeOK
    <3> QED
      BY <3>1, <3>2
  <2>1. TypeOK'
    BY <1>0, <1>2, <2>0, <2>a DEF StartEncoder, TypeOK, flags, ring, threads, history
  <2>2. Threads'
    BY <1>0, <1>2, <2>1, <2>0, <2>a DEF StartEncoder, TypeOK, Threads, HasRing, flags,
       ring, threads, history
  <2>3. SlotsConserved'
    BY <1>0, <1>2, <2>0, <2>a DEF StartEncoder, TypeOK, Threads, SlotsConserved,
       HasRing, flags, ring, threads, history
  <2>4. SemaphoreCounts'
    BY <1>0, <1>2, <2>0, <2>a DEF StartEncoder, TypeOK, Threads, SemaphoreCounts, One,
       flags, ring, threads, history
  <2>5. Whole'
    BY <1>0, <1>2, <2>1, <2>0, <2>a DEF StartEncoder, TypeOK, Threads, Whole,
       SlotsConserved, flags, ring, threads, history
  <2> QED
    BY <2>1, <2>2, <2>3, <2>4, <2>5
<1>3. CASE StartEncoderFails
  <2>1. TypeOK'
    BY <1>0, <1>3 DEF StartEncoderFails, TypeOK, flags, ring, threads, history
  <2>2. Threads'
    BY <1>0, <1>3, <2>1 DEF StartEncoderFails, TypeOK, Threads, HasRing, flags, ring,
       threads, history
  <2>3. SlotsConserved'
    BY <1>0, <1>3 DEF StartEncoderFails, TypeOK, Threads, SlotsConserved, HasRing,
       flags, ring, threads, history
  <2>4. SemaphoreCounts'
    BY <1>0, <1>3 DEF StartEncoderFails, TypeOK, Threads, SemaphoreCounts, One, flags,
       ring, threads, history
  <2>5. Whole'
    BY <1>0, <1>3, <2>1 DEF StartEncoderFails, TypeOK, Threads, Whole, SlotsConserved,
       flags, ring, threads, history
  <2> QED
    BY <2>1, <2>2, <2>3, <2>4, <2>5
<1>4. CASE IgnoreFrame
  <2>1. TypeOK'
    BY <1>0, <1>4 DEF IgnoreFrame, TypeOK, flags, ring, threads, history
  <2>2. Threads'
    BY <1>0, <1>4, <2>1 DEF IgnoreFrame, TypeOK, Threads, HasRing, flags, ring, threads,
       history
  <2>3. SlotsConserved'
    BY <1>0, <1>4 DEF IgnoreFrame, TypeOK, Threads, SlotsConserved, HasRing, flags,
       ring, threads, history
  <2>4. SemaphoreCounts'
    BY <1>0, <1>4 DEF IgnoreFrame, TypeOK, Threads, SemaphoreCounts, One, flags, ring,
       threads, history
  <2>5. Whole'
    BY <1>0, <1>4, <2>1 DEF IgnoreFrame, TypeOK, Threads, Whole, SlotsConserved, flags,
       ring, threads, history
  <2> QED
    BY <2>1, <2>2, <2>3, <2>4, <2>5
<1>5. CASE TakeSlot
  <2>0. /\ producerSlot' \in Slot
        /\ free' \in Seq(Slot)
        /\ Len(free') = Len(free) - 1
        /\ InRing(free) = {producerSlot'} \cup InRing(free')
        /\ NoRepeats(free') /\ producerSlot' \notin InRing(free')
    BY <1>0, <1>5, DequeueLemma DEF TakeSlot, SlotsConserved
  <2>1. TypeOK'
    BY <1>0, <1>5, <2>0 DEF TakeSlot, TypeOK, flags, ring, threads, history
  <2>2. Threads'
    BY <1>0, <1>5, <2>1, <2>0 DEF TakeSlot, TypeOK, Threads, HasRing, flags, ring,
       threads, history
  <2>3. SlotsConserved'
    BY <1>0, <1>5, <2>0 DEF TakeSlot, TypeOK, Threads, SlotsConserved, HasRing, flags,
       ring, threads, history
  <2>4. SemaphoreCounts'
    BY <1>0, <1>5, <2>0 DEF TakeSlot, TypeOK, Threads, SemaphoreCounts, One, flags,
       ring, threads, history
  <2>5. Whole'
    BY <1>0, <1>5, <2>1, <2>0 DEF TakeSlot, TypeOK, Threads, Whole, SlotsConserved,
       flags, ring, threads, history
  <2> QED
    BY <2>1, <2>2, <2>3, <2>4, <2>5
<1>6. CASE DropFrame
  <2>1. TypeOK'
    BY <1>0, <1>6 DEF DropFrame, TypeOK, flags, ring, threads, history
  <2>2. Threads'
    BY <1>0, <1>6, <2>1 DEF DropFrame, TypeOK, Threads, HasRing, flags, ring, threads,
       history
  <2>3. SlotsConserved'
    BY <1>0, <1>6 DEF DropFrame, TypeOK, Threads, SlotsConserved, HasRing, flags, ring,
       threads, history
  <2>4. SemaphoreCounts'
    BY <1>0, <1>6 DEF DropFrame, TypeOK, Threads, SemaphoreCounts, One, flags, ring,
       threads, history
  <2>5. Whole'
    BY <1>0, <1>6, <2>1 DEF DropFrame, TypeOK, Threads, Whole, SlotsConserved, flags,
       ring, threads, history
  <2> QED
    BY <2>1, <2>2, <2>3, <2>4, <2>5
<1>7. CASE Copy
  <2>1. TypeOK'
    BY <1>0, <1>7, MaxFramesAssumption DEF Copy, TypeOK, Threads, flags, ring, threads,
       history
  <2>2. Threads'
    BY <1>0, <1>7, <2>1 DEF Copy, TypeOK, Threads, HasRing, flags, ring, threads,
       history
  <2>3. SlotsConserved'
    BY <1>0, <1>7 DEF Copy, TypeOK, Threads, SlotsConserved, HasRing, flags, ring,
       threads, history
  <2>4. SemaphoreCounts'
    BY <1>0, <1>7 DEF Copy, TypeOK, Threads, SemaphoreCounts, One, flags, ring, threads,
       history
  <2>5. Whole'
    BY <1>0, <1>7, <2>1 DEF Copy, TypeOK, Threads, Whole, SlotsConserved, flags, ring,
       threads, history
  <2> QED
    BY <2>1, <2>2, <2>3, <2>4, <2>5
<1>8. CASE EnqueueSlot
  <2>0. /\ filled' \in Seq(Slot)
        /\ Len(filled') = Len(filled) + 1
        /\ InRing(filled') = InRing(filled) \cup {producerSlot}
        /\ producerSlot \notin InRing(filled) => NoRepeats(filled')
        /\ producerSlot \in Slot
    <3>1. producerSlot \in Slot
      BY <1>8 DEF EnqueueSlot, TypeOK, Threads
    <3> QED
      BY <3>1, <1>0, <1>8, EnqueueLemma DEF EnqueueSlot, SlotsConserved
  <2>1. TypeOK'
    BY <1>0, <1>8, <2>0 DEF EnqueueSlot, TypeOK, flags, ring, threads, history
  <2>2. Threads'
    BY <1>0, <1>8, <2>1, <2>0 DEF EnqueueSlot, TypeOK, Threads, HasRing, flags, ring,
       threads, history
  <2>3. SlotsConserved'
    BY <1>0, <1>8, <2>0 DEF EnqueueSlot, TypeOK, Threads, SlotsConserved, HasRing,
       flags, ring, threads, history
  <2>4. SemaphoreCounts'
    BY <1>0, <1>8, <2>0 DEF EnqueueSlot, TypeOK, Threads, SemaphoreCounts, One, flags,
       ring, threads, history
  <2>5. Whole'
    BY <1>0, <1>8, <2>1, <2>0 DEF EnqueueSlot, TypeOK, Threads, Whole, SlotsConserved,
       flags, ring, threads, history
  <2> QED
    BY <2>1, <2>2, <2>3, <2>4, <2>5
<1>9. CASE ReleaseSlot
  <2>1. TypeOK'
    BY <1>0, <1>9 DEF ReleaseSlot, TypeOK, flags, ring, threads, history
  <2>2. Threads'
    BY <1>0, <1>9, <2>1 DEF ReleaseSlot, TypeOK, Threads, HasRing, flags, ring, threads,
       history
  <2>3. SlotsConserved'
    BY <1>0, <1>9 DEF ReleaseSlot, TypeOK, Threads, SlotsConserved, HasRing, flags,
       ring, threads, history
  <2>4. SemaphoreCounts'
    BY <1>0, <1>9 DEF ReleaseSlot, TypeOK, Threads, SemaphoreCounts, One, flags, ring,
       threads, history
  <2>5. Whole'
    BY <1>0, <1>9, <2>1 DEF ReleaseSlot, TypeOK, Threads, Whole, SlotsConserved, flags,
       ring, threads, history
  <2> QED
    BY <2>1, <2>2, <2>3, <2>4, <2>5
<1>10. CASE SubmitInline
  <2>1. TypeOK'
    BY <1>0, <1>10 DEF SubmitInline, TypeOK, flags, ring, threads, history
  <2>2. Threads'
    BY <1>0, <1>10, <2>1 DEF SubmitInline, TypeOK, Threads, HasRing, flags, ring,
       threads, history
  <2>3. SlotsConserved'
    BY <1>0, <1>10 DEF SubmitInline, TypeOK, Threads, SlotsConserved, HasRing, flags,
       ring, threads, history
  <2>4. SemaphoreCounts'
    BY <1>0, <1>10 DEF SubmitInline, TypeOK, Threads, SemaphoreCounts, One, flags, ring,
       threads, history
  <2>5. Whole'
    BY <1>0, <1>10, <2>1 DEF SubmitInline, TypeOK, Threads, Whole, SlotsConserved,
       flags, ring, threads, history
  <2> QED
    BY <2>1, <2>2, <2>3, <2>4, <2>5
<1>11. CASE InlineSubmitted
  <2>0. encoded' \in Seq(Frame \cup {None, Torn})
    <3>1. arrived \in Frame \cup {None, Torn}
      BY <1>11 DEF InlineSubmitted, TypeOK, Threads
    <3>2. encoded \in Seq(Frame \cup {None, Torn})
      BY DEF TypeOK
    <3>3. Append(encoded, arrived) \in Seq(Frame \cup {None, Torn})
      BY <3>1, <3>2, AppendProperties
    <3> QED
      BY <1>11, <3>2, <3>3 DEF InlineSubmitted
  <2>1. TypeOK'
    BY <1>0, <1>11, <2>0 DEF InlineSubmitted, TypeOK, flags, ring, threads, history
  <2>2. Threads'
    BY <1>0, <1>11, <2>1 DEF InlineSubmitted, TypeOK, Threads, HasRing, flags, ring,
       threads, history
  <2>3. SlotsConserved'
    BY <1>0, <1>11 DEF InlineSubmitted, TypeOK, Threads, SlotsConserved, HasRing, flags,
       ring, threads, history
  <2>4. SemaphoreCounts'
    BY <1>0, <1>11 DEF InlineSubmitted, TypeOK, Threads, SemaphoreCounts, One, flags,
       ring, threads, history
  <2>5. Whole'
    BY <1>0, <1>11, <2>1 DEF InlineSubmitted, TypeOK, Threads, Whole, SlotsConserved,
       flags, ring, threads, history
  <2> QED
    BY <2>1, <2>2, <2>3, <2>4, <2>5
<1>12. CASE OnAudio
  <2>1. TypeOK'
    BY <1>0, <1>12 DEF OnAudio, TypeOK, flags, ring, threads, history
  <2>2. Threads'
    BY <1>0, <1>12, <2>1 DEF OnAudio, TypeOK, Threads, HasRing, flags, ring, threads,
       history
  <2>3. SlotsConserved'
    BY <1>0, <1>12 DEF OnAudio, TypeOK, Threads, SlotsConserved, HasRing, flags, ring,
       threads, history
  <2>4. SemaphoreCounts'
    BY <1>0, <1>12 DEF OnAudio, TypeOK, Threads, SemaphoreCounts, One, flags, ring,
       threads, history
  <2>5. Whole'
    BY <1>0, <1>12, <2>1 DEF OnAudio, TypeOK, Threads, Whole, SlotsConserved, flags,
       ring, threads, history
  <2> QED
    BY <2>1, <2>2, <2>3, <2>4, <2>5
<1>13. CASE AudioSubmitted
  <2>1. TypeOK'
    <3>1. audio' \in BOOLEAN
      BY <1>13 DEF AudioSubmitted
    <3>2. UNCHANGED <<main, memory, encoding, startFailed, stopping, free, filled, sem, slots,
                      producer, producerSlot, encoder, encoderSlot, arrived, encoded>>
      BY <1>13 DEF AudioSubmitted, flags, ring, history
    <3> QED
      BY <3>1, <3>2 DEF TypeOK
  <2>2. Threads'
    BY <1>0, <1>13, <2>1 DEF AudioSubmitted, TypeOK, Threads, HasRing, flags, ring,
       threads, history
  <2>3. SlotsConserved'
    BY <1>0, <1>13 DEF AudioSubmitted, TypeOK, Threads, SlotsConserved, HasRing, flags,
       ring, threads, history
  <2>4. SemaphoreCounts'
    BY <1>0, <1>13 DEF AudioSubmitted, TypeOK, Threads, SemaphoreCounts, One, flags,
       ring, threads, history
  <2>5. Whole'
    BY <1>0, <1>13, <2>1 DEF AudioSubmitted, TypeOK, Threads, Whole, SlotsConserved,
       flags, ring, threads, history
  <2> QED
    BY <2>1, <2>2, <2>3, <2>4, <2>5
<1>14. CASE Acquire
  <2>1. TypeOK'
    BY <1>0, <1>14 DEF Acquire, TypeOK, flags, ring, threads, history
  <2>2. Threads'
    BY <1>0, <1>14, <2>1 DEF Acquire, TypeOK, Threads, HasRing, flags, ring, threads,
       history
  <2>3. SlotsConserved'
    BY <1>0, <1>14 DEF Acquire, TypeOK, Threads, SlotsConserved, HasRing, flags, ring,
       threads, history
  <2>4. SemaphoreCounts'
    BY <1>0, <1>14 DEF Acquire, TypeOK, Threads, SemaphoreCounts, One, flags, ring,
       threads, history
  <2>5. Whole'
    BY <1>0, <1>14, <2>1 DEF Acquire, TypeOK, Threads, Whole, SlotsConserved, flags,
       ring, threads, history
  <2> QED
    BY <2>1, <2>2, <2>3, <2>4, <2>5
<1>15. CASE DequeueSlot
  <2>0. /\ encoderSlot' \in Slot
        /\ filled' \in Seq(Slot)
        /\ Len(filled') = Len(filled) - 1
        /\ InRing(filled) = {encoderSlot'} \cup InRing(filled')
        /\ NoRepeats(filled') /\ encoderSlot' \notin InRing(filled')
    BY <1>0, <1>15, DequeueLemma DEF DequeueSlot, SlotsConserved
  <2>1. TypeOK'
    BY <1>0, <1>15, <2>0 DEF DequeueSlot, TypeOK, flags, ring, threads, history
  <2>2. Threads'
    BY <1>0, <1>15, <2>1, <2>0 DEF DequeueSlot, TypeOK, Threads, HasRing, flags, ring,
       threads, history
  <2>3. SlotsConserved'
    BY <1>0, <1>15, <2>0 DEF DequeueSlot, TypeOK, Threads, SlotsConserved, HasRing,
       flags, ring, threads, history
  <2>4. SemaphoreCounts'
    BY <1>0, <1>15, <2>0 DEF DequeueSlot, TypeOK, Threads, SemaphoreCounts, One, flags,
       ring, threads, history
  <2>5. Whole'
    BY <1>0, <1>15, <2>1, <2>0 DEF DequeueSlot, TypeOK, Threads, Whole, SlotsConserved,
       flags, ring, threads, history
  <2> QED
    BY <2>1, <2>2, <2>3, <2>4, <2>5
<1>16. CASE FindEmpty
  <2>0. stopping /\ main = "joining" /\ producer # "enqueued" /\ sem = 0
    <3>1. Len(filled) = 0
      BY <1>16, EmptySeq DEF FindEmpty
    <3>2. sem + 1 + One(producer = "enqueued") = One(main = "joining" /\ encoder # "exited")
      BY <1>0, <1>16, <3>1 DEF FindEmpty, SemaphoreCounts, One
    <3> QED
      BY <1>0, <3>2 DEF One, Threads
  <2>1. TypeOK'
    BY <1>0, <1>16 DEF FindEmpty, TypeOK, flags, ring, threads, history
  <2>2. Threads'
    BY <1>0, <1>16, <2>0, <2>1 DEF FindEmpty, TypeOK, Threads, HasRing, flags, ring,
       threads, history
  <2>3. SlotsConserved'
    BY <1>0, <1>16 DEF FindEmpty, TypeOK, Threads, SlotsConserved, HasRing, flags, ring,
       threads, history
  <2>4. SemaphoreCounts'
    BY <1>0, <1>16, <2>0, EmptySeq DEF FindEmpty, SemaphoreCounts, One, flags, ring,
       threads, history
  <2>5. Whole'
    BY <1>0, <1>16, <2>1 DEF FindEmpty, TypeOK, Threads, Whole, SlotsConserved, flags,
       ring, threads, history
  <2> QED
    BY <2>1, <2>2, <2>3, <2>4, <2>5
<1>17. CASE SubmitFrame
  <2>0. encoded' \in Seq(Frame \cup {None, Torn})
    <3>1. slots[encoderSlot] \in Frame \cup {None, Torn}
      BY <1>17 DEF SubmitFrame, TypeOK, Threads
    <3>2. encoded \in Seq(Frame \cup {None, Torn})
      BY DEF TypeOK
    <3>3. Append(encoded, slots[encoderSlot]) \in Seq(Frame \cup {None, Torn})
      BY <3>1, <3>2, AppendProperties
    <3> QED
      BY <1>17, <3>2, <3>3 DEF SubmitFrame
  <2>1. TypeOK'
    BY <1>0, <1>17, <2>0 DEF SubmitFrame, TypeOK, flags, ring, threads, history
  <2>2. Threads'
    BY <1>0, <1>17, <2>1 DEF SubmitFrame, TypeOK, Threads, HasRing, flags, ring,
       threads, history
  <2>3. SlotsConserved'
    BY <1>0, <1>17 DEF SubmitFrame, TypeOK, Threads, SlotsConserved, HasRing, flags,
       ring, threads, history
  <2>4. SemaphoreCounts'
    BY <1>0, <1>17 DEF SubmitFrame, TypeOK, Threads, SemaphoreCounts, One, flags, ring,
       threads, history
  <2>5. Whole'
    BY <1>0, <1>17, <2>1 DEF SubmitFrame, TypeOK, Threads, Whole, SlotsConserved, flags,
       ring, threads, history
  <2> QED
    BY <2>1, <2>2, <2>3, <2>4, <2>5
<1>18. CASE ReturnSlot
  <2>0. /\ free' \in Seq(Slot)
        /\ Len(free') = Len(free) + 1
        /\ InRing(free') = InRing(free) \cup {encoderSlot}
        /\ encoderSlot \notin InRing(free) => NoRepeats(free')
        /\ encoderSlot \in Slot
    <3>1. encoderSlot \in Slot
      BY <1>18 DEF ReturnSlot, TypeOK, Threads
    <3> QED
      BY <3>1, <1>0, <1>18, EnqueueLemma DEF ReturnSlot, SlotsConserved
  <2>1. TypeOK'
    BY <1>0, <1>18, <2>0 DEF ReturnSlot, TypeOK, flags, ring, threads, history
  <2>2. Threads'
    BY <1>0, <1>18, <2>1, <2>0 DEF ReturnSlot, TypeOK, Threads, HasRing, flags, ring,
       threads, history
  <2>3. SlotsConserved'
    BY <1>0, <1>18, <2>0 DEF ReturnSlot, TypeOK, Threads, SlotsConserved, HasRing,
       flags, ring, threads, history
  <2>4. SemaphoreCounts'
    BY <1>0, <1>18, <2>0 DEF ReturnSlot, TypeOK, Threads, SemaphoreCounts, One, flags,
       ring, threads, history
  <2>5. Whole'
    BY <1>0, <1>18, <2>1, <2>0 DEF ReturnSlot, TypeOK, Threads, Whole, SlotsConserved,
       flags, ring, threads, history
  <2> QED
    BY <2>1, <2>2, <2>3, <2>4, <2>5
<1>19. CASE Start
  <2>1. TypeOK'
    BY <1>0, <1>19 DEF Start, TypeOK, flags, ring, threads, history
  <2>2. Threads'
    BY <1>0, <1>19, <2>1 DEF Start, TypeOK, Threads, HasRing, flags, ring, threads,
       history
  <2>3. SlotsConserved'
    BY <1>0, <1>19 DEF Start, TypeOK, Threads, SlotsConserved, HasRing, flags, ring,
       threads, history
  <2>4. SemaphoreCounts'
    BY <1>0, <1>19 DEF Start, TypeOK, Threads, SemaphoreCounts, One, flags, ring,
       threads, history
  <2>5. Whole'
    BY <1>0, <1>19, <2>1 DEF Start, TypeOK, Threads, Whole, SlotsConserved, flags, ring,
       threads, history
  <2> QED
    BY <2>1, <2>2, <2>3, <2>4, <2>5
<1>20. CASE CloseStreams
  <2>1. TypeOK'
    BY <1>0, <1>20 DEF CloseStreams, TypeOK, flags, ring, threads, history
  <2>2. Threads'
    BY <1>0, <1>20, <2>1 DEF CloseStreams, TypeOK, Threads, HasRing, flags, ring,
       threads, history
  <2>3. SlotsConserved'
    BY <1>0, <1>20 DEF CloseStreams, TypeOK, Threads, SlotsConserved, HasRing, flags,
       ring, threads, history
  <2>4. SemaphoreCounts'
    BY <1>0, <1>20 DEF CloseStreams, TypeOK, Threads, SemaphoreCounts, One, flags, ring,
       threads, history
  <2>5. Whole'
    BY <1>0, <1>20, <2>1 DEF CloseStreams, TypeOK, Threads, Whole, SlotsConserved,
       flags, ring, threads, history
  <2> QED
    BY <2>1, <2>2, <2>3, <2>4, <2>5
<1>21. CASE SignalStop
  <2>0. encoder = "none" => filled = <<>>
    <3>1. ASSUME encoder = "none" PROVE InRing(filled) = {}
      BY <1>21, <3>1 DEF SignalStop, Threads, SlotsConserved
    <3> QED
      BY <1>0, <3>1, EmptyQueueLemma
  <2>1. TypeOK'
    <3>1. stopping' \in BOOLEAN
      BY <1>0, <1>21, Zenon DEF SignalStop, TypeOK
    <3>2. main' \in {"releasing", "finishing"}
      BY <1>21 DEF SignalStop
    <3> QED
      BY <1>0, <1>21, <3>1, <3>2 DEF SignalStop, TypeOK, ring, threads, history
  <2>2. Threads'
    BY <1>0, <1>21, <2>0, <2>1 DEF SignalStop, TypeOK, Threads, HasRing, flags, ring,
       threads, history
  <2>3. SlotsConserved'
    BY <1>0, <1>21 DEF SignalStop, TypeOK, Threads, SlotsConserved, HasRing, flags,
       ring, threads, history
  <2>4. SemaphoreCounts'
    BY <1>0, <1>21 DEF SignalStop, TypeOK, Threads, SemaphoreCounts, One, flags, ring,
       threads, history
  <2>5. Whole'
    BY <1>0, <1>21, <2>0, <2>1 DEF SignalStop, TypeOK, Threads, Whole, SlotsConserved,
       flags, ring, threads, history
  <2> QED
    BY <2>1, <2>2, <2>3, <2>4, <2>5
<1>22. CASE ReleaseStop
  <2>1. TypeOK'
    BY <1>0, <1>22 DEF ReleaseStop, TypeOK, flags, ring, threads, history
  <2>2. Threads'
    BY <1>0, <1>22, <2>1 DEF ReleaseStop, TypeOK, Threads, HasRing, flags, ring,
       threads, history
  <2>3. SlotsConserved'
    BY <1>0, <1>22 DEF ReleaseStop, TypeOK, Threads, SlotsConserved, HasRing, flags,
       ring, threads, history
  <2>4. SemaphoreCounts'
    BY <1>0, <1>22 DEF ReleaseStop, TypeOK, Threads, SemaphoreCounts, One, flags, ring,
       threads, history
  <2>5. Whole'
    BY <1>0, <1>22, <2>1 DEF ReleaseStop, TypeOK, Threads, Whole, SlotsConserved, flags,
       ring, threads, history
  <2> QED
    BY <2>1, <2>2, <2>3, <2>4, <2>5
<1>23. CASE Join
  <2>1. TypeOK'
    BY <1>0, <1>23 DEF Join, TypeOK, flags, ring, threads, history
  <2>2. Threads'
    BY <1>0, <1>23, <2>1 DEF Join, TypeOK, Threads, HasRing, flags, ring, threads,
       history
  <2>3. SlotsConserved'
    BY <1>0, <1>23 DEF Join, TypeOK, Threads, SlotsConserved, HasRing, flags, ring,
       threads, history
  <2>4. SemaphoreCounts'
    BY <1>0, <1>23 DEF Join, TypeOK, Threads, SemaphoreCounts, One, flags, ring,
       threads, history
  <2>5. Whole'
    BY <1>0, <1>23, <2>1 DEF Join, TypeOK, Threads, Whole, SlotsConserved, flags, ring,
       threads, history
  <2> QED
    BY <2>1, <2>2, <2>3, <2>4, <2>5
<1>24. CASE FinishStop
  <2>0. /\ free' = <<>> /\ filled' = <<>> /\ <<>> \in Seq(Slot)
        /\ InRing(<<>>) = {} /\ NoRepeats(<<>>)
        /\ producerSlot' = None /\ encoderSlot' = None
    BY <1>0, <1>24, EmptyQueueLemma DEF FinishStop, TypeOK, Threads, threads
  <2>1. TypeOK'
    BY <1>0, <1>24, <2>0 DEF FinishStop, TypeOK, flags, ring, threads, history
  <2>2. Threads'
    BY <1>0, <1>24, <2>1 DEF FinishStop, TypeOK, Threads, HasRing, flags, ring, threads,
       history
  <2>3. SlotsConserved'
    BY <1>0, <1>24, <2>0 DEF FinishStop, TypeOK, Threads, SlotsConserved, HasRing,
       flags, ring, threads, history
  <2>4. SemaphoreCounts'
    BY <1>0, <1>24 DEF FinishStop, TypeOK, Threads, SemaphoreCounts, One, flags, ring,
       threads, history
  <2>5. Whole'
    BY <1>0, <1>24, <2>1 DEF FinishStop, TypeOK, Threads, Whole, SlotsConserved, flags,
       ring, threads, history
  <2> QED
    BY <2>1, <2>2, <2>3, <2>4, <2>5
<1>25. CASE UNCHANGED vars
  <2>1. TypeOK' /\ Threads'
    BY <1>25 DEF vars, flags, ring, threads, history, TypeOK, Threads, HasRing
  <2>2. SlotsConserved' /\ SemaphoreCounts' /\ Whole'
    BY <1>25 DEF vars, flags, ring, threads, history, SlotsConserved, SemaphoreCounts,
       Whole, HasRing, One
  <2> QED
    BY <2>1, <2>2
<1> QED
  BY <1>1, <1>2, <1>3, <1>4, <1>5, <1>6, <1>7, <1>8, <1>9, <1>10, <1>11, <1>12, <1>13,
     <1>14, <1>15, <1>16, <1>17, <1>18, <1>19, <1>20, <1>21, <1>22, <1>23, <1>24, <1>25
     DEF Next, OnFrame, EncoderMain, Stop

-----------------------------------------------------------------------------
(* The invariant holds in every reachable state.                            *)
THEOREM Invariance == Spec => []Inv
<1>1. Init => Inv
  BY InvInit
<1>2. Inv /\ [Next]_vars => Inv'
  BY InvStep
<1> QED
  BY <1>1, <1>2, PTL DEF Spec

(* Every variable keeps to its type, whatever the threads do.               *)
THEOREM TypeCorrect == Spec => []TypeOK
<1>1. Inv => TypeOK
  BY DEF Inv
<1> QED
  BY <1>1, Invariance, PTL

(* For any number of slots, each is always in exactly one place: OnFrame    *)
(* and EncoderMain never have the same slot, and Stop leaves none behind.   *)
THEOREM SlotsAreConserved == Spec => []SlotsConserved
<1>1. Inv => SlotsConserved
  BY DEF Inv
<1> QED
  BY <1>1, Invariance, PTL

(* m_filledCount counts the filled slots and the token of a Stop.           *)
THEOREM SemaphoreIsExact == Spec => []SemaphoreCounts
<1>1. Inv => SemaphoreCounts
  BY DEF Inv
<1> QED
  BY <1>1, Invariance, PTL

(* No thread is in the encoder before it is initialised or while Stop       *)
(* finishes it, and the encoder thread reads whole frames only.             *)
THEOREM EncoderIsAlive == Spec => []EncoderOutlivesItsUsers
<1>1. Inv => EncoderOutlivesItsUsers
  BY DEF Inv, Threads, Whole, HasRing, EncoderOutlivesItsUsers
<1> QED
  BY <1>1, Invariance, PTL

(* The encoder thread finds the queue empty only when Stop has told it to   *)
(* end: it never spins, and it never ends with a frame still to come.       *)
THEOREM EmptyMeansStop ==
  Spec => [](encoder = "woken" /\ filled = <<>> => stopping /\ main = "joining")
<1>1. Inv /\ encoder = "woken" /\ filled = <<>> => stopping /\ main = "joining"
  <2> SUFFICES ASSUME Inv, encoder = "woken", filled = <<>>
               PROVE  stopping /\ main = "joining"
    OBVIOUS
  <2>1. Len(filled) = 0 /\ sem \in Nat
    BY EmptySeq DEF Inv, TypeOK
  <2>2. sem + 1 + One(producer = "enqueued") = One(main = "joining" /\ encoder # "exited")
    BY <2>1 DEF Inv, SemaphoreCounts, One
  <2> QED
    BY <2>1, <2>2 DEF Inv, Threads, One
<1> QED
  BY <1>1, Invariance, PTL

-----------------------------------------------------------------------------
(* The ring as a queue: LossyQueue.                                         *)

(* A queue without repeats is as long as it has slots in it.                *)
LEMMA LengthLemma ==
  ASSUME NEW S, NEW q \in Seq(S), NoRepeats(q)
  PROVE  IsFiniteSet(InRing(q)) /\ Cardinality(InRing(q)) = Len(q)
<1>1. Len(q) \in Nat /\ DOMAIN q = 1..Len(q)
  BY LenProperties
<1> DEFINE f == [i \in 1..Len(q) |-> q[i]]
<1>2. f \in [1..Len(q) -> InRing(q)]
  BY <1>1 DEF InRing
<1>3. \A y \in InRing(q) : \E i \in 1..Len(q) : f[i] = y
  BY <1>1 DEF InRing
<1>4. \A i, j \in 1..Len(q) : f[i] = f[j] => i = j
  BY <1>1 DEF NoRepeats
<1>5. f \in Bijection(1..Len(q), InRing(q))
  BY <1>2, <1>3, <1>4 DEF Bijection, Injection, Surjection, IsInjective
<1>6. ExistsBijection(1..Len(q), InRing(q))
  BY <1>5 DEF ExistsBijection
<1>7. Cardinality(InRing(q)) = Len(q)
  BY <1>1, <1>6, FS_CountingElements
<1>8. IsFiniteSet(InRing(q))
  BY <1>1, <1>6, FS_NatBijection
<1> QED BY <1>7, <1>8

(* With a slot that is free there is room for one more frame; without one   *)
(* at most one place is on its way back.                                    *)
LEMMA RoomLemma ==
  ASSUME Inv, HasRing, producerSlot = None
  PROVE  /\ free # <<>> => Len(filled) + One(encoder = "encoding") < NumSlots
         /\ free = <<>> => Len(filled) + One(encoder = "encoding") >= NumSlots - 1
<1>1. /\ NumSlots \in Nat /\ None \notin Slot /\ IsFiniteSet(Slot) /\ Cardinality(Slot) = NumSlots
  BY NumSlotsAssumption, FS_Interval DEF Slot, None
<1>2. /\ free \in Seq(Slot) /\ filled \in Seq(Slot) /\ Len(free) \in Nat /\ Len(filled) \in Nat
      /\ (encoder = "encoding" => encoderSlot \in Slot) /\ encoderSlot \in Slot \cup {None}
      /\ NoRepeats(filled) /\ InRing(free) \cap InRing(filled) = {}
      /\ encoderSlot # None => encoderSlot \notin InRing(free) \cup InRing(filled)
      /\ InRing(free) \cup InRing(filled) \cup ({encoderSlot} \ {None}) = Slot
  BY LenProperties DEF Inv, TypeOK, Threads, SlotsConserved
<1>3. /\ IsFiniteSet(InRing(filled)) /\ Cardinality(InRing(filled)) = Len(filled)
      /\ InRing(filled) \subseteq Slot /\ InRing(free) \subseteq Slot
  BY <1>2, LengthLemma
<1> DEFINE Out == InRing(filled) \cup ({encoderSlot} \ {None})
<1>4. /\ IsFiniteSet(Out) /\ Out \subseteq Slot
      /\ Cardinality(Out) = Len(filled) + One(encoderSlot # None)
  <2>1. CASE encoderSlot = None
    <3>1. Out = InRing(filled)
      BY <2>1
    <3>2. One(encoderSlot # None) = 0
      BY <2>1 DEF One
    <3> HIDE DEF Out
    <3> QED BY <1>2, <1>3, <3>1, <3>2
  <2>2. CASE encoderSlot # None
    <3>1. Out = InRing(filled) \cup {encoderSlot} /\ encoderSlot \notin InRing(filled) /\ encoderSlot \in Slot
      BY <1>2, <2>2
    <3>2. IsFiniteSet(InRing(filled) \cup {encoderSlot}) /\ Cardinality(InRing(filled) \cup {encoderSlot}) = Len(filled) + 1
      BY <1>3, <3>1, FS_AddElement
    <3> QED BY <1>3, <2>2, <3>1, <3>2 DEF One
  <2> QED BY <2>1, <2>2
<1> HIDE DEF Out
<1>5. One(encoder = "encoding") <= One(encoderSlot # None) /\ One(encoderSlot # None) <= 1
      /\ One(encoder = "encoding") \in Nat /\ One(encoderSlot # None) \in Nat
  BY <1>1, <1>2 DEF One
<1>6. ASSUME free # <<>> PROVE Len(filled) + One(encoder = "encoding") < NumSlots
  <2>1. Head(free) \in InRing(free)
    BY <1>2, <1>6, DequeueLemma
  <2>2. Head(free) \in Slot /\ Head(free) \notin Out
    BY <1>2, <1>3, <2>1 DEF Out
  <2>3. Cardinality(Out) <= Cardinality(Slot) /\ Cardinality(Out) # Cardinality(Slot)
    BY <1>1, <1>4, <2>2, FS_Subset
  <2> QED BY <1>1, <1>2, <1>4, <1>5, <2>3
<1>7. ASSUME free = <<>> PROVE Len(filled) + One(encoder = "encoding") >= NumSlots - 1
  <2>1. InRing(free) = {}
    BY <1>7 DEF InRing
  <2>2. Out = Slot
    BY <1>2, <2>1 DEF Out
  <2> QED BY <1>1, <1>2, <1>4, <1>5, <2>2
<1> QED BY <1>6, <1>7

(* What the queue says beyond the ring: which frame the producer has in     *)
(* hand, and that an encoder that is up did not fail to start.              *)
Held ==
  /\ encoding => ~startFailed
  /\ producer = "copied" => slots[producerSlot] = arrived
  /\ producer = "inline" => memory = "dmabuf"

(* It holds from the start, and each step keeps it.                         *)
LEMMA HeldLemma == (Init => Held) /\ (Inv /\ Held /\ [Next]_vars => Held')
<1>1. Init => Held
  BY DEF Init, Held
<1>2. ASSUME Inv, Held, [Next]_vars PROVE Held'
  <2> USE DEF Held, flags, ring, threads, history
  <2>1. CASE OnFrame
    <3>1. CASE Copy
      <4>1. producerSlot \in Slot /\ slots \in [Slot -> Frame \cup {None, Torn}]
        BY <1>2, <3>1 DEF Copy, Inv, TypeOK, Threads
      <4> QED BY <1>2, <3>1, <4>1 DEF Copy
    <3>2. CASE OnFrame /\ ~Copy
      BY <1>2, <3>2 DEF OnFrame, FrameArrives, StartEncoder, StartEncoderFails, IgnoreFrame, TakeSlot, DropFrame,
         EnqueueSlot, ReleaseSlot, SubmitInline, InlineSubmitted
    <3> QED BY <2>1, <3>1, <3>2
  <2>2. CASE OnAudio \/ AudioSubmitted \/ EncoderMain
    BY <1>2, <2>2 DEF OnAudio, AudioSubmitted, EncoderMain, Acquire, DequeueSlot, FindEmpty, SubmitFrame, ReturnSlot
  <2>3. CASE Start
    BY <1>2, <2>3 DEF Start, Inv, Threads
  <2>4. CASE Stop
    BY <1>2, <2>4 DEF Stop, CloseStreams, SignalStop, ReleaseStop, Join, FinishStop
  <2>5. CASE UNCHANGED vars
    BY <1>2, <2>5 DEF vars
  <2> QED BY <1>2, <2>1, <2>2, <2>3, <2>4, <2>5 DEF Next
<1> QED BY <1>1, <1>2

-----------------------------------------------------------------------------
(* Sequences that grow at the front, and shrink there.                      *)

(* What is put in front of a sequence is its head, the sequence its tail.   *)
LEMMA ConsLemma ==
  ASSUME NEW S, NEW x \in S, NEW s \in Seq(S)
  PROVE  /\ <<x>> \o s \in Seq(S) /\ <<x>> \o s # <<>>
         /\ Head(<<x>> \o s) = x /\ Tail(<<x>> \o s) = s
<1> DEFINE c == <<x>> \o s
<1>1. <<x>> \in Seq(S) /\ Len(<<x>>) = 1 /\ <<x>>[1] = x
  OBVIOUS
<1>2. Len(s) \in Nat
  BY LenProperties
<1>3. /\ c \in Seq(S) /\ Len(c) = 1 + Len(s)
      /\ \A i \in 1..(1 + Len(s)) : c[i] = IF i <= 1 THEN <<x>>[i] ELSE s[i - 1]
  BY <1>1, ConcatProperties
<1> HIDE DEF c
<1>4. c # <<>>
  BY <1>2, <1>3, EmptySeq
<1>5. /\ Head(c) = c[1] /\ Tail(c) \in Seq(S) /\ Len(Tail(c)) = Len(s)
      /\ \A i \in 1..Len(s) : Tail(c)[i] = c[i + 1]
  BY <1>2, <1>3, <1>4, HeadTailProperties
<1>6. c[1] = x
  BY <1>1, <1>2, <1>3
<1>7. \A i \in 1..Len(s) : Tail(c)[i] = s[i]
  BY <1>2, <1>3, <1>5
<1>8. Tail(c) = s
  BY <1>2, <1>5, <1>7, SeqEqual
<1> QED BY <1>3, <1>4, <1>5, <1>6, <1>8 DEF c

(* A sequence is its head, and then its tail.                               *)
LEMMA UnconsLemma ==
  ASSUME NEW S, NEW s \in Seq(S), s # <<>>
  PROVE  s = <<Head(s)>> \o Tail(s)
<1> DEFINE h == Head(s)
           t == Tail(s)
           c == <<h>> \o t
<1>1. /\ h \in S /\ t \in Seq(S) /\ Len(t) = Len(s) - 1 /\ h = s[1]
      /\ \A i \in 1..Len(t) : t[i] = s[i + 1]
  BY HeadTailProperties
<1>2. Len(s) \in Nat /\ Len(t) \in Nat
  BY <1>1, LenProperties
<1>3. <<h>> \in Seq(S) /\ Len(<<h>>) = 1 /\ <<h>>[1] = h
  BY <1>1
<1> HIDE DEF h, t
<1>4. /\ c \in Seq(S) /\ Len(c) = 1 + Len(t)
      /\ \A i \in 1..(1 + Len(t)) : c[i] = IF i <= 1 THEN <<h>>[i] ELSE t[i - 1]
  BY <1>1, <1>3, ConcatProperties
<1> HIDE DEF c
<1>5. ASSUME NEW i \in 1..Len(s) PROVE s[i] = c[i]
  <2>1. CASE i = 1
    BY <1>1, <1>2, <1>3, <1>4, <2>1
  <2>2. CASE i # 1
    <3>1. i - 1 \in 1..Len(t) /\ i \in 1..(1 + Len(t)) /\ ~(i <= 1) /\ (i - 1) + 1 = i
      BY <1>1, <1>2, <2>2
    <3> QED BY <1>1, <1>4, <3>1
  <2> QED BY <2>1, <2>2
<1>6. s = c
  BY <1>1, <1>2, <1>4, <1>5, SeqEqual
<1> QED BY <1>6 DEF c, h, t

(* Three sequences in a row.                                                *)
LEMMA InARowLemma ==
  ASSUME NEW s \in Seq(Nat), NEW t \in Seq(Nat), NEW u \in Seq(Nat)
  PROVE  (s \o t) \o u = s \o (t \o u)
  BY ConcatAssociative, SMTT(60)

-----------------------------------------------------------------------------
(* The frames in the slots of a queue.                                      *)
Frames(q, held) == [i \in DOMAIN q |-> held[q[i]]]

(* There are as many as slots in the queue.                                 *)
LEMMA FramesLemma ==
  ASSUME NEW q \in Seq(Slot), NEW held \in [Slot -> Nat]
  PROVE  /\ Frames(q, held) \in Seq(Nat) /\ Len(Frames(q, held)) = Len(q)
         /\ \A i \in 1..Len(q) : Frames(q, held)[i] = held[q[i]] /\ q[i] \in InRing(q)
<1>1. Len(q) \in Nat /\ DOMAIN q = 1..Len(q) /\ \A i \in 1..Len(q) : q[i] \in Slot
  BY LenProperties, ElementOfSeq
<1>2. Frames(q, held) = [i \in 1..Len(q) |-> held[q[i]]]
  BY <1>1 DEF Frames
<1>3. Frames(q, held) \in [1..Len(q) -> Nat]
  BY <1>1, <1>2
<1>4. Frames(q, held) \in Seq(Nat)
  <2> DEFINE n == Len(q)
             f == Frames(q, held)
  <2>1. n \in Nat /\ f \in [1..n -> Nat]
    BY <1>1, <1>3
  <2> HIDE DEF n, f
  <2>2. \E k \in Nat : f \in [1..k -> Nat]
    BY <2>1
  <2>3. f \in Seq(Nat)
    BY <2>2, SeqDef
  <2> QED BY <2>3 DEF f
<1>5. DOMAIN Frames(q, held) = 1..Len(q)
  BY <1>3
<1>6. Len(Frames(q, held)) = Len(q)
  BY <1>1, <1>4, <1>5, LenProperties
<1>7. \A i \in 1..Len(q) : Frames(q, held)[i] = held[q[i]] /\ q[i] \in InRing(q)
  BY <1>1, <1>2 DEF InRing
<1> QED BY <1>4, <1>6, <1>7

(* A slot of no frame of the queue may change.                              *)
LEMMA FramesKeptLemma ==
  ASSUME NEW q \in Seq(Slot), NEW held \in [Slot -> Nat], NEW held2 \in [Slot -> Nat],
         \A s \in InRing(q) : held[s] = held2[s]
  PROVE  Frames(q, held) = Frames(q, held2)
<1> DEFINE f == Frames(q, held)
           g == Frames(q, held2)
<1>1. /\ f \in Seq(Nat) /\ g \in Seq(Nat) /\ Len(f) = Len(q) /\ Len(g) = Len(q) /\ Len(q) \in Nat
      /\ \A i \in 1..Len(q) : f[i] = held[q[i]] /\ g[i] = held2[q[i]] /\ q[i] \in InRing(q)
  BY FramesLemma, LenProperties
<1> HIDE DEF f, g
<1>2. \A i \in 1..Len(f) : f[i] = g[i]
  BY <1>1
<1>3. f = g
  BY <1>1, <1>2, SeqEqual
<1> QED BY <1>3 DEF f, g

(* Its frames follow the queue: one more at the end, one less at the front. *)
LEMMA FramesEndsLemma ==
  ASSUME NEW q \in Seq(Slot), NEW held \in [Slot -> Nat]
  PROVE  /\ \A e \in Slot : Frames(Append(q, e), held) = Append(Frames(q, held), held[e])
         /\ q # <<>> => Frames(q, held) = <<held[Head(q)]>> \o Frames(Tail(q), held)
<1> DEFINE f == Frames(q, held)
<1>0. /\ f \in Seq(Nat) /\ Len(f) = Len(q) /\ Len(q) \in Nat
      /\ \A i \in 1..Len(q) : f[i] = held[q[i]]
  BY FramesLemma, LenProperties
<1>1. ASSUME NEW e \in Slot PROVE Frames(Append(q, e), held) = Append(f, held[e])
  <2> DEFINE r == Append(q, e)
             g == Frames(r, held)
             h == Append(f, held[e])
  <2>1. /\ r \in Seq(Slot) /\ Len(r) = Len(q) + 1
        /\ \A i \in 1..Len(q) : r[i] = q[i]
        /\ r[Len(q) + 1] = e
    BY AppendProperties
  <2>2. /\ held[e] \in Nat /\ h \in Seq(Nat) /\ Len(h) = Len(q) + 1
        /\ \A i \in 1..Len(q) : h[i] = f[i]
        /\ h[Len(q) + 1] = held[e]
    BY <1>0, AppendProperties
  <2> HIDE DEF r, h
  <2>3. g \in Seq(Nat) /\ Len(g) = Len(r) /\ \A i \in 1..Len(r) : g[i] = held[r[i]]
    BY <2>1, FramesLemma
  <2> HIDE DEF g, f
  <2>4. ASSUME NEW i \in 1..Len(g) PROVE g[i] = h[i]
    <3>1. CASE i = Len(q) + 1
      BY <1>0, <2>1, <2>2, <2>3, <3>1
    <3>2. CASE i # Len(q) + 1
      <4>1. i \in 1..Len(q) /\ i \in 1..Len(r)
        BY <1>0, <2>1, <2>3, <3>2
      <4> QED BY <1>0, <2>1, <2>2, <2>3, <4>1
    <3> QED BY <3>1, <3>2
  <2>5. g = h
    BY <2>1, <2>2, <2>3, <2>4, SeqEqual
  <2> QED BY <2>5 DEF g, r, h
<1>2. ASSUME q # <<>> PROVE f = <<held[Head(q)]>> \o Frames(Tail(q), held)
  <2> DEFINE t == Tail(q)
             g == Frames(t, held)
  <2>1. /\ t \in Seq(Slot) /\ Len(t) = Len(q) - 1 /\ Head(q) = q[1] /\ q[1] \in Slot
        /\ \A i \in 1..Len(t) : t[i] = q[i + 1]
    BY <1>2, HeadTailProperties
  <2>2. g \in Seq(Nat) /\ Len(g) = Len(t) /\ Len(t) \in Nat /\ \A i \in 1..Len(t) : g[i] = held[t[i]]
    BY <2>1, FramesLemma, LenProperties
  <2>3. f # <<>>
    BY <1>0, <1>2, EmptySeq
  <2> HIDE DEF t, g, f
  <2>4. /\ Head(f) = f[1] /\ Tail(f) \in Seq(Nat) /\ Len(Tail(f)) = Len(f) - 1
        /\ \A i \in 1..Len(Tail(f)) : Tail(f)[i] = f[i + 1]
    BY <1>0, <2>3, HeadTailProperties
  <2>5. Head(f) = held[Head(q)]
    BY <1>0, <2>1, <2>2, <2>4
  <2>6. ASSUME NEW i \in 1..Len(Tail(f)) PROVE Tail(f)[i] = g[i]
    <3>1. i \in 1..Len(t) /\ i + 1 \in 1..Len(q)
      BY <1>0, <2>1, <2>2, <2>4
    <3>2. Tail(f)[i] = f[i + 1]
      BY <2>4
    <3>3. f[i + 1] = held[q[i + 1]]
      BY <1>0, <3>1
    <3>4. t[i] = q[i + 1] /\ g[i] = held[t[i]]
      BY <2>1, <2>2, <3>1
    <3> QED BY <3>2, <3>3, <3>4
  <2>7. Tail(f) = g
    BY <1>0, <2>1, <2>2, <2>4, <2>6, SeqEqual
  <2> QED BY <1>0, <2>3, <2>5, <2>7, UnconsLemma DEF g, t
<1> QED BY <1>1, <1>2 DEF f

-----------------------------------------------------------------------------
(* The accepted frames, where they are.                                     *)
InEncoder == IF encoder = "encoding" THEN <<slots[encoderSlot]>> ELSE <<>>

InQueue == Frames(filled, slots)

InHand == IF producer \in {"copying", "copied", "inline"} THEN <<arrived>> ELSE <<>>

(* They are sequences of frame numbers, the oldest in the encoder.          *)
LEMMA AcceptedLemma ==
  ASSUME Inv
  PROVE  /\ slots \in [Slot -> Nat] /\ filled \in Seq(Slot) /\ arrived \in Nat
         /\ InEncoder \in Seq(Nat) /\ Len(InEncoder) = One(encoder = "encoding")
         /\ InQueue \in Seq(Nat) /\ Len(InQueue) = Len(filled)
         /\ InHand \in Seq(Nat)
         /\ Accepted = (InEncoder \o InQueue) \o InHand
<1>1. /\ slots \in [Slot -> Frame \cup {None, Torn}] /\ filled \in Seq(Slot) /\ arrived \in 0 .. MaxFrames
      /\ MaxFrames \in Nat /\ (encoder = "encoding" => encoderSlot \in Slot)
  BY MaxFramesAssumption DEF Inv, TypeOK, Threads
<1>2. Frame \cup {None, Torn} \subseteq Nat /\ arrived \in Nat
  BY <1>1 DEF Frame, None, Torn
<1>3. slots \in [Slot -> Nat]
  BY <1>1, <1>2
<1>4. InQueue \in Seq(Nat) /\ Len(InQueue) = Len(filled)
  BY <1>1, <1>3, FramesLemma DEF InQueue
<1>5. InEncoder \in Seq(Nat) /\ Len(InEncoder) = One(encoder = "encoding")
  <2>1. CASE encoder = "encoding"
    <3>1. slots[encoderSlot] \in Nat
      BY <1>1, <1>3, <2>1
    <3> QED BY <2>1, <3>1 DEF InEncoder, One
  <2>2. CASE encoder # "encoding"
    BY <2>2, EmptySeq DEF InEncoder, One
  <2> QED BY <2>1, <2>2
<1>6. InHand \in Seq(Nat)
  <2>1. <<arrived>> \in Seq(Nat) /\ <<>> \in Seq(Nat)
    BY <1>2
  <2> QED BY <2>1 DEF InHand
<1>7. Accepted = (InEncoder \o InQueue) \o InHand
  BY DEF Accepted, InEncoder, InQueue, InHand, Frames
<1> QED BY <1>1, <1>2, <1>3, <1>4, <1>5, <1>6, <1>7

(* Without a ring nothing is accepted but a frame encoded in place.         *)
LEMMA NoRingLemma ==
  ASSUME Inv, ~HasRing
  PROVE  filled = <<>> /\ encoder = "none" /\ Accepted = InHand
<1>1. InRing(filled) = {} /\ encoder = "none"
  BY DEF Inv, SlotsConserved, Threads
<1>2. filled = <<>>
  BY <1>1, EmptyQueueLemma, AcceptedLemma
<1>3. InEncoder = <<>>
  BY <1>1 DEF InEncoder
<1>4. InQueue = <<>>
  BY <1>2, AcceptedLemma, EmptySeq
<1>5. Accepted = InHand
  BY <1>3, <1>4, AcceptedLemma, ConcatEmptySeq, EmptySeq
<1> QED BY <1>1, <1>2, <1>5

(* A step that leaves the queue, the frame being encoded and the frame in   *)
(* hand alone leaves the accepted frames alone.                             *)
LEMMA KeptLemma ==
  ASSUME Inv, slots' \in [Slot -> Nat], filled' = filled, \A s \in InRing(filled) : slots'[s] = slots[s]
  PROVE  /\ InQueue' = InQueue
         /\ InEncoder' = InEncoder /\ InHand' = InHand => Accepted' = Accepted
<1>1. Frames(filled, slots') = Frames(filled, slots)
  BY AcceptedLemma, FramesKeptLemma
<1>2. InQueue' = InQueue
  BY <1>1 DEF InQueue
<1>3. Accepted = (InEncoder \o InQueue) \o InHand /\ Accepted' = (InEncoder' \o InQueue') \o InHand'
  BY DEF Accepted, InEncoder, InQueue, InHand, Frames
<1> QED BY <1>2, <1>3

-----------------------------------------------------------------------------
(* Every step of the threads is a step of the queue, or none.               *)
LEMMA QueueStep == Inv /\ Held /\ Inv' /\ Held' /\ [Next]_vars => [Queue!Next]_(Queue!vars)
<1> SUFFICES ASSUME Inv, Held, Inv', Held', [Next]_vars PROVE [Queue!Next]_(Queue!vars)
  OBVIOUS
<1> DEFINE phase == IF main = "idle" THEN "closed" ELSE IF startFailed THEN "broken" ELSE "open"
           offered == arrived - One(producer = "arrived")
<1> USE DEF flags, ring, threads, history
<1>1. /\ slots \in [Slot -> Nat] /\ slots' \in [Slot -> Nat]
      /\ filled \in Seq(Slot) /\ free \in Seq(Slot) /\ free' \in Seq(Slot)
      /\ arrived \in Nat /\ arrived' \in Nat /\ NumSlots \in Nat \ {0} /\ None \notin Slot
      /\ Len(filled) \in Nat
  <2>1. MaxFrames \in Nat /\ NumSlots \in Nat \ {0} /\ None \notin Slot
    BY MaxFramesAssumption, NumSlotsAssumption DEF Slot, None
  <2>2. Frame \cup {None, Torn} \subseteq Nat /\ 0..MaxFrames \subseteq Nat
    BY <2>1 DEF Frame, None, Torn
  <2> QED BY <2>1, <2>2, LenProperties DEF Inv, TypeOK
<1>2. /\ InEncoder \in Seq(Nat) /\ Len(InEncoder) = One(encoder = "encoding")
      /\ InQueue \in Seq(Nat) /\ Len(InQueue) = Len(filled) /\ InHand \in Seq(Nat)
      /\ Accepted = (InEncoder \o InQueue) \o InHand
      /\ <<>> \in Seq(Nat) /\ Len(<<>>) = 0
  BY AcceptedLemma, EmptySeq
<1>3. Accepted' = (InEncoder' \o InQueue') \o InHand'
  BY DEF Accepted, InEncoder, InQueue, InHand, Frames
<1>4. ASSUME phase' = phase, offered' = offered, Accepted' = Accepted, encoded' = encoded
      PROVE  [Queue!Next]_(Queue!vars)
  BY <1>4 DEF Queue!vars
<1>5. ASSUME producer \in {"away", "arrived"}
      PROVE  Accepted = InEncoder \o InQueue /\ Len(Accepted) = One(encoder = "encoding") + Len(filled) /\ InHand = <<>>
             /\ producerSlot = None
  <2>1. InHand = <<>> /\ producerSlot = None
    BY <1>5 DEF InHand, Inv, Threads, TypeOK
  <2>2. InEncoder \o InQueue \in Seq(Nat) /\ Len(InEncoder \o InQueue) = Len(InEncoder) + Len(InQueue)
    BY <1>2, ConcatProperties
  <2>3. Accepted = InEncoder \o InQueue
    BY <1>2, <2>1, <2>2, ConcatEmptySeq
  <2> QED BY <1>2, <2>1, <2>2, <2>3
<1>6. ASSUME slots' = slots, filled' = filled, InEncoder' = InEncoder, InHand' = InHand
      PROVE  Accepted' = Accepted
  BY <1>1, <1>6, KeptLemma
<1>7. ASSUME UNCHANGED <<slots, filled, encoder, encoderSlot, producer, arrived>>
      PROVE  Accepted' = Accepted
  BY <1>7, <1>6 DEF InEncoder, InHand
<1>10. CASE FrameArrives
  <2>1. offered' = offered /\ phase' = phase
    BY <1>1, <1>10 DEF FrameArrives, One
  <2>2. InEncoder' = InEncoder /\ InHand' = InHand
    BY <1>10 DEF FrameArrives, InEncoder, InHand
  <2>3. Accepted' = Accepted
    BY <1>6, <1>10, <2>2 DEF FrameArrives
  <2> QED BY <1>4, <1>10, <2>1, <2>3 DEF FrameArrives
<1>11. CASE StartEncoder
  <2>1. ~HasRing
    BY <1>11 DEF StartEncoder, HasRing
  <2>2. filled = <<>> /\ encoder = "none" /\ InRing(filled) = {}
    BY <2>1, NoRingLemma DEF InRing
  <2>3. InEncoder' = InEncoder /\ InHand' = InHand /\ filled' = filled
    BY <1>11, <2>2 DEF StartEncoder, InEncoder, InHand
  <2>4. Accepted' = Accepted
    BY <1>1, <2>2, <2>3, KeptLemma
  <2>5. offered' = offered /\ phase' = phase /\ encoded' = encoded
    BY <1>11 DEF StartEncoder
  <2> QED BY <1>4, <2>4, <2>5
<1>12. CASE StartEncoderFails
  <2>1. ~HasRing /\ InHand = <<>>
    BY <1>12 DEF StartEncoderFails, HasRing, InHand
  <2>2. Accepted = <<>>
    BY <2>1, NoRingLemma
  <2>3. Accepted' = Accepted
    BY <1>7, <1>12 DEF StartEncoderFails
  <2>4. phase = "open" /\ phase' = "broken" /\ offered' = offered /\ encoded' = encoded
    BY <1>12 DEF StartEncoderFails, Inv, Threads
  <2>5. Queue!Break
    BY <2>2, <2>3, <2>4 DEF Queue!Break
  <2> QED BY <2>5 DEF Queue!Next
<1>13. CASE IgnoreFrame
  <2>1. phase = "broken" /\ phase' = phase /\ offered' = offered + 1 /\ encoded' = encoded
    BY <1>1, <1>13 DEF IgnoreFrame, Inv, Threads, One
  <2>2. InEncoder' = InEncoder /\ InHand' = InHand
    BY <1>13 DEF IgnoreFrame, InEncoder, InHand
  <2>3. Accepted' = Accepted
    BY <1>6, <1>13, <2>2 DEF IgnoreFrame
  <2>4. Queue!Drop
    BY <2>1, <2>3 DEF Queue!Drop
  <2> QED BY <2>4 DEF Queue!Next
<1>14. CASE DropFrame
  <2>1. phase = "open" /\ phase' = phase /\ offered' = offered + 1 /\ encoded' = encoded /\ HasRing
    BY <1>1, <1>14 DEF DropFrame, Inv, Threads, One, Held, HasRing
  <2>2. InEncoder' = InEncoder /\ InHand' = InHand
    BY <1>14 DEF DropFrame, InEncoder, InHand
  <2>3. Accepted' = Accepted
    BY <1>6, <1>14, <2>2 DEF DropFrame
  <2>4. Len(filled) + One(encoder = "encoding") >= NumSlots - 1
    BY <1>5, <1>14, <2>1, RoomLemma DEF DropFrame
  <2>5. Len(Accepted) >= NumSlots - 1
    BY <1>1, <1>5, <1>14, <2>4 DEF DropFrame, One
  <2>6. Queue!Drop
    BY <2>1, <2>3, <2>5 DEF Queue!Drop
  <2> QED BY <2>6 DEF Queue!Next
<1>15. CASE TakeSlot
  <2>1. phase = "open" /\ phase' = phase /\ offered' = offered + 1 /\ offered' = arrived /\ encoded' = encoded /\ HasRing
    BY <1>1, <1>15 DEF TakeSlot, Inv, Threads, One, Held, HasRing
  <2>2. Len(filled) + One(encoder = "encoding") < NumSlots
    BY <1>5, <1>15, <2>1, RoomLemma DEF TakeSlot
  <2>3. Len(Accepted) < NumSlots
    BY <1>1, <1>5, <1>15, <2>2 DEF TakeSlot, One
  <2>4. /\ Head(free) \in InRing(free) /\ Head(free) \in Slot
        /\ Head(free) \notin InRing(filled) /\ (encoder = "encoding" => Head(free) # encoderSlot)
        /\ (encoder = "encoding" => encoderSlot \in Slot)
    <3>1. Head(free) \in InRing(free) /\ Head(free) \in Slot
      BY <1>1, <1>15, DequeueLemma DEF TakeSlot
    <3> QED BY <1>1, <3>1 DEF Inv, SlotsConserved, Threads
  <2>5. slots' = [slots EXCEPT ![Head(free)] = Torn] /\ filled' = filled
    BY <1>15 DEF TakeSlot
  <2>6. \A s \in Slot : s # Head(free) => slots'[s] = slots[s]
    BY <1>1, <2>5
  <2>7. InRing(filled) \subseteq Slot
    BY <1>1, FramesLemma, LenProperties, ElementOfSeq DEF InRing
  <2>8. InQueue' = InQueue
    BY <1>1, <2>4, <2>5, <2>6, <2>7, KeptLemma
  <2>9. InEncoder' = InEncoder /\ InHand' = <<arrived>>
    BY <1>15, <2>4, <2>6 DEF TakeSlot, InEncoder, InHand
  <2>10. Accepted' = Append(Accepted, arrived)
    <3>1. Accepted = InEncoder \o InQueue /\ Accepted \in Seq(Nat)
      BY <1>2, <1>5, <1>15, ConcatProperties DEF TakeSlot
    <3> QED BY <1>1, <1>3, <2>8, <2>9, <3>1, AppendIsConcat
  <2>11. Queue!Accept
    BY <2>1, <2>3, <2>10 DEF Queue!Accept
  <2> QED BY <2>11 DEF Queue!Next
<1>16. CASE Copy
  <2>1. /\ producerSlot \in Slot /\ producerSlot \notin InRing(filled)
        /\ (encoder = "encoding" => encoderSlot \in Slot /\ producerSlot # encoderSlot)
    BY <1>1, <1>16 DEF Copy, Inv, Threads, SlotsConserved
  <2>2. slots' = [slots EXCEPT ![producerSlot] = arrived] /\ filled' = filled
    BY <1>16 DEF Copy
  <2>3. \A s \in Slot : s # producerSlot => slots'[s] = slots[s]
    BY <1>1, <2>2
  <2>4. InRing(filled) \subseteq Slot
    BY <1>1, FramesLemma, LenProperties, ElementOfSeq DEF InRing
  <2>5. InEncoder' = InEncoder /\ InHand' = InHand
    BY <1>16, <2>1, <2>3 DEF Copy, InEncoder, InHand
  <2>6. Accepted' = Accepted
    BY <1>1, <2>1, <2>2, <2>3, <2>4, <2>5, KeptLemma
  <2>7. offered' = offered /\ phase' = phase /\ encoded' = encoded
    BY <1>16 DEF Copy, One
  <2> QED BY <1>4, <2>6, <2>7
<1>17. CASE EnqueueSlot
  <2>1. producerSlot \in Slot /\ slots[producerSlot] = arrived
    BY <1>17 DEF EnqueueSlot, Inv, Threads, Held
  <2>2. InEncoder' = InEncoder /\ InHand' = <<>> /\ InHand = <<arrived>>
    BY <1>17 DEF EnqueueSlot, InEncoder, InHand
  <2>3. filled' = Append(filled, producerSlot) /\ slots' = slots
    BY <1>17 DEF EnqueueSlot
  <2>4. InQueue' = InQueue \o <<arrived>>
    <3>1. Frames(Append(filled, producerSlot), slots) = Append(Frames(filled, slots), arrived)
      BY <1>1, <2>1, FramesEndsLemma
    <3>2. Append(InQueue, arrived) = InQueue \o <<arrived>>
      BY <1>1, <1>2, AppendIsConcat
    <3> QED BY <2>3, <3>1, <3>2 DEF InQueue
  <2>5. Accepted' = InEncoder \o (InQueue \o <<arrived>>)
    <3>1. <<arrived>> \in Seq(Nat)
      BY <1>1
    <3>2. InEncoder \o (InQueue \o <<arrived>>) \in Seq(Nat)
      BY <1>2, <3>1, ConcatProperties
    <3> QED BY <1>3, <2>2, <2>4, <3>2, ConcatEmptySeq
  <2>6. Accepted' = Accepted
    <3>1. InEncoder \in Seq(Nat) /\ InQueue \in Seq(Nat) /\ InHand \in Seq(Nat)
      BY <1>2
    <3>2. (InEncoder \o InQueue) \o InHand = InEncoder \o (InQueue \o InHand)
      BY <3>1, InARowLemma
    <3> QED BY <1>2, <2>2, <2>5, <3>2
  <2>7. offered' = offered /\ phase' = phase /\ encoded' = encoded
    BY <1>17 DEF EnqueueSlot, One
  <2> QED BY <1>4, <2>6, <2>7
<1>18. CASE ReleaseSlot
  <2>1. InEncoder' = InEncoder /\ InHand' = InHand
    BY <1>18 DEF ReleaseSlot, InEncoder, InHand
  <2>2. Accepted' = Accepted
    BY <1>6, <1>18, <2>1 DEF ReleaseSlot
  <2>3. offered' = offered /\ phase' = phase /\ encoded' = encoded
    BY <1>18 DEF ReleaseSlot, One
  <2> QED BY <1>4, <2>2, <2>3
<1>19. CASE SubmitInline
  <2>1. ~HasRing
    BY <1>19 DEF SubmitInline, HasRing
  <2>2. Accepted = <<>>
    BY <1>5, <1>19, <2>1, NoRingLemma DEF SubmitInline
  <2>3. phase = "open" /\ phase' = phase /\ offered' = offered + 1 /\ offered' = arrived /\ encoded' = encoded
    BY <1>1, <1>19 DEF SubmitInline, Inv, Threads, One, Held
  <2>4. InEncoder = <<>> /\ InEncoder' = <<>> /\ InQueue = <<>> /\ InQueue' = InQueue
    <3>1. filled = <<>> /\ encoder = "none" /\ filled' = filled /\ encoder' = encoder /\ slots' = slots
      BY <1>19, <2>1, NoRingLemma DEF SubmitInline
    <3> QED BY <1>2, <3>1, EmptySeq DEF InEncoder, InQueue
  <2>5. Accepted' = Append(Accepted, arrived)
    <3>1. Accepted' = (<<>> \o <<>>) \o <<arrived>>
      BY <1>3, <1>19, <2>4 DEF SubmitInline, InHand
    <3>2. <<>> \o <<>> = <<>> /\ Append(<<>>, arrived) = <<>> \o <<arrived>>
      BY <1>1, <1>2, ConcatEmptySeq, AppendIsConcat
    <3> QED BY <2>2, <3>1, <3>2
  <2>6. Len(Accepted) < NumSlots
    BY <1>1, <1>2, <2>2
  <2>7. Queue!Accept
    BY <2>3, <2>5, <2>6 DEF Queue!Accept
  <2> QED BY <2>7 DEF Queue!Next
<1>20. CASE InlineSubmitted
  <2>1. ~HasRing
    BY <1>20 DEF InlineSubmitted, HasRing, Held
  <2>2. Accepted = <<arrived>>
    BY <1>20, <2>1, NoRingLemma DEF InlineSubmitted, InHand
  <2>3. phase' = phase /\ offered' = offered /\ encoded' \in {encoded, Append(encoded, arrived)}
    BY <1>20 DEF InlineSubmitted, One
  <2>4. Accepted' = <<>>
    <3>1. /\ filled = <<>> /\ encoder = "none" /\ filled' = filled /\ encoder' = encoder /\ slots' = slots
          /\ producer' = "away"
      BY <1>20, <2>1, NoRingLemma DEF InlineSubmitted
    <3>2. InEncoder' = <<>> /\ InQueue = <<>> /\ InQueue' = InQueue /\ InHand' = <<>>
      BY <1>2, <3>1, EmptySeq DEF InEncoder, InQueue, InHand
    <3> QED BY <1>2, <1>3, <3>2, ConcatEmptySeq
  <2>5. <<arrived>> # <<>> /\ Head(<<arrived>>) = arrived /\ Tail(<<arrived>>) = <<>>
    BY <1>1
  <2>6. Queue!Take
    BY <2>2, <2>3, <2>4, <2>5 DEF Queue!Take
  <2> QED BY <2>6 DEF Queue!Next
<1>21. CASE OnAudio \/ AudioSubmitted
  BY <1>4, <1>7, <1>21 DEF OnAudio, AudioSubmitted
<1>22. CASE Acquire
  <2>1. InEncoder' = InEncoder /\ InHand' = InHand
    BY <1>22 DEF Acquire, InEncoder, InHand
  <2> QED BY <1>4, <1>6, <1>22, <2>1 DEF Acquire
<1>23. CASE DequeueSlot
  <2>1. InEncoder = <<>> /\ InEncoder' = <<slots[Head(filled)]>> /\ InHand' = InHand
    BY <1>23 DEF DequeueSlot, InEncoder, InHand
  <2>2. InQueue = <<slots[Head(filled)]>> \o InQueue'
    BY <1>1, <1>23, FramesEndsLemma DEF DequeueSlot, InQueue
  <2>3. Accepted = InQueue \o InHand /\ Accepted' = InQueue \o InHand
    BY <1>2, <1>3, <2>1, <2>2, ConcatEmptySeq
  <2> QED BY <1>4, <1>23, <2>3 DEF DequeueSlot
<1>24. CASE FindEmpty
  <2>1. InEncoder' = InEncoder /\ InHand' = InHand
    BY <1>24 DEF FindEmpty, InEncoder, InHand
  <2> QED BY <1>4, <1>6, <1>24, <2>1 DEF FindEmpty
<1>25. CASE SubmitFrame
  <2> DEFINE x == slots[encoderSlot]
             rest == InQueue \o InHand
  <2>1. x \in Nat /\ rest \in Seq(Nat) /\ <<x>> \in Seq(Nat)
    <3>1. encoderSlot \in Slot
      BY <1>25 DEF SubmitFrame, Inv, Threads
    <3> QED BY <1>1, <1>2, <3>1, ConcatProperties
  <2>2. InEncoder = <<x>> /\ InEncoder' = <<>> /\ InQueue' = InQueue /\ InHand' = InHand
    BY <1>25 DEF SubmitFrame, InEncoder, InHand, InQueue
  <2>3. Accepted = <<x>> \o rest
    <3>1. <<x>> \in Seq(Nat) /\ InQueue \in Seq(Nat) /\ InHand \in Seq(Nat)
      BY <1>2, <2>1
    <3>2. (<<x>> \o InQueue) \o InHand = <<x>> \o rest
      BY <3>1, InARowLemma
    <3> QED BY <1>2, <2>2, <3>2
  <2>4. Accepted' = rest
    BY <1>2, <1>3, <2>2, ConcatEmptySeq
  <2>5. encoded' \in {encoded, Append(encoded, x)} /\ phase' = phase /\ offered' = offered
    BY <1>25 DEF SubmitFrame
  <2> HIDE DEF x, rest
  <2>6. Accepted # <<>> /\ Head(Accepted) = x /\ Tail(Accepted) = rest
    BY <2>1, <2>3, ConsLemma
  <2>7. Queue!Take
    BY <2>4, <2>5, <2>6 DEF Queue!Take
  <2> QED BY <2>7 DEF Queue!Next
<1>26. CASE ReturnSlot
  <2>1. InEncoder' = InEncoder /\ InHand' = InHand
    BY <1>26 DEF ReturnSlot, InEncoder, InHand
  <2> QED BY <1>4, <1>6, <1>26, <2>1 DEF ReturnSlot
<1>27. CASE Start
  <2>1. phase = "closed" /\ phase' = "open" /\ offered' = offered /\ encoded' = encoded
    BY <1>27 DEF Start
  <2>2. Accepted' = Accepted
    BY <1>7, <1>27 DEF Start
  <2>3. Queue!Open
    BY <2>1, <2>2 DEF Queue!Open
  <2> QED BY <2>3 DEF Queue!Next
<1>28. CASE CloseStreams \/ SignalStop \/ ReleaseStop
  <2>1. phase' = phase /\ offered' = offered /\ encoded' = encoded
    BY <1>28 DEF CloseStreams, SignalStop, ReleaseStop
  <2>2. Accepted' = Accepted
    BY <1>7, <1>28 DEF CloseStreams, SignalStop, ReleaseStop
  <2> QED BY <1>4, <2>1, <2>2
<1>29. CASE Join
  <2>1. InEncoder' = InEncoder /\ InHand' = InHand
    BY <1>29 DEF Join, InEncoder, InHand
  <2>2. phase' = phase /\ offered' = offered /\ encoded' = encoded
    BY <1>29 DEF Join
  <2> QED BY <1>4, <1>6, <1>29, <2>1, <2>2 DEF Join
<1>30. CASE FinishStop
  <2>1. phase \in {"open", "broken"} /\ phase' = "closed" /\ offered' = offered /\ encoded' = encoded
    BY <1>30 DEF FinishStop
  <2>2. filled = <<>> /\ encoder = "none" /\ producer = "away" /\ filled' = filled
    BY <1>30 DEF FinishStop, Inv, Threads
  <2>3. InEncoder = <<>> /\ InHand = <<>> /\ InQueue = <<>>
    BY <1>2, <2>2, EmptySeq DEF InEncoder, InHand
  <2>4. Accepted = <<>>
    BY <1>2, <2>3, ConcatEmptySeq
  <2>5. Accepted' = Accepted
    BY <1>7, <1>30, <2>2 DEF FinishStop
  <2>6. Queue!Close
    BY <2>1, <2>4, <2>5 DEF Queue!Close
  <2> QED BY <2>6 DEF Queue!Next
<1>31. CASE UNCHANGED vars
  BY <1>4, <1>7, <1>31 DEF vars
<1> QED
  BY <1>10, <1>11, <1>12, <1>13, <1>14, <1>15, <1>16, <1>17, <1>18, <1>19, <1>20, <1>21, <1>22, <1>23, <1>24,
     <1>25, <1>26, <1>27, <1>28, <1>29, <1>30, <1>31 DEF Next, OnFrame, EncoderMain, Stop

(* The frames of a recording go through a lossy queue: the file gets the    *)
(* frames that were accepted, in the order of their arrival and none twice; *)
(* one is dropped only when no slot is free, and the file is closed only    *)
(* when everything accepted has been handed to the encoder (OnFrame,        *)
(* EncoderMain, Stop).                                                      *)
THEOREM FramesGoThroughAQueue == Spec => Queue!Init /\ [][Queue!Next]_(Queue!vars)
<1>1. Init => Queue!Init
  BY ConcatEmptySeq, EmptySeq DEF Init, Queue!Init, Accepted, One
<1>2. Spec => []Held
  BY HeldLemma, Invariance, PTL DEF Spec
<1> QED
  BY <1>1, <1>2, Invariance, QueueStep, PTL DEF Spec
=============================================================================

------------------------------ MODULE AudioMix ------------------------------
(***************************************************************************)
(* The sound of a recording: the audio half of CEncoder                    *)
(* (src/src/encode/private/encoder.cpp). Sources with clocks and threads   *)
(* of their own are placed on one track by counting samples: what comes    *)
(* before the first frame is trimmed, a hole is filled with silence, a     *)
(* source that stopped is levelled, and the mix takes a frame at a time    *)
(* from all of them. One sample is one unit of time. A submit is one step, *)
(* since it holds m_audioMutex throughout.                                 *)
(***************************************************************************)
EXTENDS Integers, Sequences, FiniteSets, FiniteSetsExt

CONSTANTS
  Sources,                \* m_audioSources
  FrameSize,              \* of the codec, in samples
  GapThreshold,           \* GapThresholdNs
  StallTolerance,         \* StallToleranceNs
  First,                  \* m_firstTimestampNs
  Counter,                \* how many samples a time in 64 bits of nanoseconds can count
  BufferSizes,            \* the sizes of a buffer,
  MaxJitter,              \* how far a source's stamp may fall behind its last buffer,
  MaxHole,                \* how long a source may skip
  MaxTime, MaxFailures    \* and for how long

VARIABLES
  clock,                  \* where each source's own samples have come to
  track,                  \* what each source has put on its track: origin of each sample, or Silence
  mixed,                  \* the samples the mix has taken from every fifo
  encoded,                \* m_numAudioSamples: the samples the codec took
  sound,                  \* the file's sound: the index on the tracks of each sample
  stage,                  \* "recording", "tail" once the streams are closed and all frames taken, "finished"
  largest,                \* the largest frame asked of EncodeMixedFrame
  filled,                 \* the silence each source was given for holes
  skipped,                \* the time each source has skipped in all
  failures

mixVars == <<clock, track, mixed, encoded, sound, stage, largest, filled, skipped, failures>>

ASSUME SizesAssumption ==
  /\ IsFiniteSet(Sources) /\ Sources # {}
  /\ FrameSize \in Nat \ {0} /\ Counter \in Nat \ {0} /\ BufferSizes \subseteq Nat \ {0}
  /\ {GapThreshold, StallTolerance, First, MaxJitter, MaxHole, MaxTime, MaxFailures} \subseteq Nat

Silence == -1

Failure == failures < MaxFailures /\ failures' = failures + 1

(* numSamples of a source, and the size of its fifo.                        *)
NumSamples(t, s) == Len(t[s])
Fifo(t, s)       == Len(t[s]) - mixed

MixInit ==
  /\ clock = [s \in Sources |-> 0]
  /\ track = [s \in Sources |-> <<>>]
  /\ mixed = 0
  /\ encoded = 0
  /\ sound = <<>>
  /\ stage = "recording"
  /\ largest = 0
  /\ filled = [s \in Sources |-> 0]
  /\ skipped = [s \in Sources |-> 0]
  /\ failures = 0

Silent(n) == [i \in 1..n |-> Silence]

-----------------------------------------------------------------------------
(* LevelSources: a source too far behind the longest is filled up to it.    *)
LevelSources(t, tolerance) ==
  LET longest == Max({Len(t[s]) : s \in Sources})
  IN  [s \in Sources |->
         LET behind == longest - Len(t[s])
         IN  IF behind > tolerance THEN t[s] \o Silent(behind) ELSE t[s]]

(* What is left of a buffer once what came before the first frame is cut.   *)
Trimmed(start, n) ==
  LET cut == IF start < First THEN Min({First - start, n}) ELSE 0
  IN  [i \in 1..(n - cut) |-> start + cut + i - 1]

(* Mutation of Drift: counted from the boot, not from the first frame.      *)
DriftFromBoot(start, s) == start - NumSamples(track, s)

(* How far the track is behind the buffer; the count wraps.                 *)
Drift(start, s) == (Max({start, First}) - First) - (NumSamples(track, s) % Counter)

(* Mutation of Placed: a hole is never filled.                              *)
PlacedNext(s, start, n) == [track EXCEPT ![s] = @ \o Trimmed(start, n)]

(* WriteSilence: the product that turns time into samples wraps as well.    *)
Hole(start, s) == IF Drift(start, s) > GapThreshold THEN Drift(start, s) % Counter ELSE 0

(* The buffer behind what the source has, with a hole filled first.         *)
Placed(s, start, n) == [track EXCEPT ![s] = @ \o Silent(Hole(start, s)) \o Trimmed(start, n)]

(* Mutation of Ready: the longest fifo decides.                             *)
ReadyAny(t) == Max({Fifo(t, s) : s \in Sources}) \div FrameSize

(* The whole frames every fifo holds.                                       *)
Ready(t) == Min({Fifo(t, s) : s \in Sources}) \div FrameSize

(* EncodeMixedFrame, n times over: the fifos are read, and the codec takes  *)
(* the frames. The last may fail. One the codec refuses is gone from the    *)
(* fifos all the same; one that cannot be written has been taken.           *)
EncodeMixedFrames(n, size, ok) ==
  LET taken == n * size
      kept  == taken - size
      Samples(k) == [i \in 1..k |-> mixed + i]
  IN  /\ mixed' = mixed + taken
      /\ largest' = IF n > 0 THEN Max({largest, size}) ELSE largest
      /\ \/ /\ ok
            /\ encoded' = encoded + taken
            /\ sound' = sound \o Samples(taken)
            /\ UNCHANGED failures
         \/ /\ ~ok /\ n > 0 /\ Failure
            /\ \/ encoded' = encoded + kept /\ sound' = sound \o Samples(kept)
               \/ encoded' = encoded + taken /\ sound' = sound \o Samples(kept) \o Silent(size)

(* Mutation of EncodeAudioFrames: one frame for every buffer.               *)
EncodeOneFrame(t) == EncodeMixedFrames(Min({1, Ready(t)}), FrameSize, TRUE)

(* EncodeAudioFrames: all that are ready, or up to the one that fails.      *)
EncodeAudioFrames(t) ==
  \/ EncodeMixedFrames(Ready(t), FrameSize, TRUE)
  \/ \E n \in 1..Ready(t) : EncodeMixedFrames(n, FrameSize, FALSE)

-----------------------------------------------------------------------------
(* Mutation of SubmitAudio: nobody looks for a source that stopped.         *)
SubmitUnlevelled(s) ==
  /\ stage = "recording"
  /\ \E n \in BufferSizes, start \in (clock[s] - MaxJitter)..(clock[s] + MaxHole) :
       /\ start >= 0
       /\ start + n <= MaxTime
       /\ clock' = [clock EXCEPT ![s] = start + n]
       /\ skipped' = [skipped EXCEPT ![s] = @ + Max({0, start - Max({clock[s], First})})]
       /\ track' = IF start + n <= First THEN track ELSE Placed(s, start, n)
       /\ EncodeAudioFrames(track')
       /\ filled' = [filled EXCEPT ![s] = IF start + n > First THEN @ + Hole(start, s) ELSE @]
  /\ UNCHANGED stage

(* SubmitAudio, on the source's own thread: where its stamp puts the buffer *)
(* may overlap what it sent last, or leave a hole; what ends before the     *)
(* first frame is not even levelled.                                        *)
SubmitAudio(s) ==
  /\ stage = "recording"
  /\ \E n \in BufferSizes, start \in (clock[s] - MaxJitter)..(clock[s] + MaxHole) :
       /\ start >= 0
       /\ start + n <= MaxTime
       /\ clock' = [clock EXCEPT ![s] = start + n]
       /\ skipped' = [skipped EXCEPT ![s] = @ + Max({0, start - Max({clock[s], First})})]
       /\ IF start + n <= First
          THEN UNCHANGED <<track, mixed, encoded, sound, largest, filled, failures>>
          ELSE /\ track' = LevelSources(Placed(s, start, n), StallTolerance)
               /\ EncodeAudioFrames(track')
               /\ filled' = [filled EXCEPT ![s] = @ + Hole(start, s)]
  /\ UNCHANGED stage

(* Mutation of FinishAudio: the sources are left as they are.               *)
FinishUnlevelled ==
  /\ stage = "recording"
  /\ stage' = "tail"
  /\ UNCHANGED track
  /\ EncodeAudioFrames(track)
  /\ UNCHANGED <<clock, filled, skipped>>

(* FinishAudio, the streams closed: all sources to one length, the frames,  *)
(* then the tail.                                                           *)
FinishAudio ==
  /\ stage = "recording"
  /\ stage' = "tail"
  /\ track' = LevelSources(track, 0)
  /\ EncodeAudioFrames(track')
  /\ UNCHANGED <<clock, filled, skipped>>

(* What is left of the first source's fifo, whatever became of the frames.  *)
EncodeTail ==
  /\ stage = "tail"
  /\ stage' = "finished"
  /\ LET remaining == Fifo(track, CHOOSE s \in Sources : TRUE)
     IN  \E ok \in BOOLEAN : EncodeMixedFrames(IF remaining > 0 THEN 1 ELSE 0, remaining, ok)
  /\ UNCHANGED <<clock, track, filled, skipped>>

MixNext ==
  \/ \E s \in Sources : SubmitAudio(s)
  \/ FinishAudio
  \/ EncodeTail

MixSpec == MixInit /\ [][MixNext]_mixVars

-----------------------------------------------------------------------------
MixTypeOK ==
  /\ \A s \in Sources : Len(track[s]) >= mixed
  /\ encoded <= mixed
  /\ Len(sound) = encoded
  /\ stage \in {"recording", "tail", "finished"}

(* Sample i of the file has sound of a source that belongs later than that  *)
(* by more than a hole nobody fills.                                        *)
Early(i, s) ==
  /\ sound[i] # Silence
  /\ track[s][sound[i]] # Silence
  /\ track[s][sound[i]] - First > (i - 1) + GapThreshold

(* However the sources skip, stall and overlap, nothing is heard early,     *)
(* "the direction that is heard" (encoder.cpp:927), nor anything from       *)
(* before the first frame.                                                  *)
HeardEarly == \E i \in DOMAIN sound, s \in Sources : Early(i, s)
NeverHeardEarly ==
  /\ failures = 0 => ~HeardEarly
  /\ \A s \in Sources : \A i \in DOMAIN track[s] : track[s][i] = Silence \/ track[s][i] >= First

(* "The mix has to go on without" a source that stopped, "or every other    *)
(* fifo grows for the rest of the recording" (encoder.cpp:41).              *)
BacklogBounded ==
  (stage = "recording" /\ failures = 0) => \A s \in Sources : Fifo(track, s) < StallTolerance + FrameSize

(* At the end everything every source sent is in the file, in the order and *)
(* the step in which it was mixed (encoder.cpp:1497).                       *)
TailIsNotLost ==
  (stage = "finished" /\ failures = 0) =>
    /\ \A s \in Sources : Len(track[s]) = encoded
    /\ sound = [i \in 1..encoded |-> i]

(* "Only real holes are filled" (encoder.cpp:946): a source that skipped    *)
(* less than the threshold in all gets no silence for it.                   *)
OnlyRealHolesAreFilled == \A s \in Sources : filled[s] > 0 => skipped[s] > GapThreshold

(* "numSamples must not exceed the codec's frame size: that is what the     *)
(* frames are sized for" (encoder.cpp:984).                                 *)
MixFitsTheFrame       == largest <= FrameSize
MixFitsUnlessOneFails == failures = 0 => MixFitsTheFrame

(* The mix goes on with every source, drops no tail, makes up no silence and*)
(* fits its frame.                                                          *)
MixInvariant ==
  MixTypeOK /\ BacklogBounded /\ TailIsNotLost /\ OnlyRealHolesAreFilled /\ MixFitsUnlessOneFails

(* "A dropped one shifts the whole track up to a buffer early, and early is *)
(* the direction that is heard" (encoder.cpp:926).                          *)
NeverShiftsEarly == ~HeardEarly
=============================================================================

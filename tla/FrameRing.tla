------------------------------ MODULE FrameRing ------------------------------
(***************************************************************************)
(* The frame path of CSession (src/src/recorder/private/session.cpp):      *)
(* OnFrame on PipeWire's thread, EncoderMain on the encoder thread, OnAudio*)
(* on the audio thread, Start and Stop on the main thread.                 *)
(*                                                                         *)
(* Mapped frames go through a ring of slots to the encoder thread: slot    *)
(* numbers travel through the queues m_free and m_filled, and the          *)
(* semaphore m_filledCount counts the filled ones. DMA-BUF frames are      *)
(* encoded in place, on PipeWire's thread. Frames are numbered in the      *)
(* order they arrive, over all recordings.                                 *)
(***************************************************************************)
EXTENDS Naturals, Sequences

CONSTANTS
  NumSlots,     \* NumSlots of session.cpp
  MaxFrames     \* how many frames arrive, at most

ASSUME NumSlotsAssumption  == NumSlots \in Nat \ {0}
ASSUME MaxFramesAssumption == MaxFrames \in Nat

Slot  == 1 .. NumSlots
Frame == 1 .. MaxFrames
None  == 0
Torn  == MaxFrames + 1   \* what a slot holds while it is written to

VARIABLES
  main,          \* the main thread: what Start and Stop have done
  memory,        \* the memory of this recording's frames
  encoding,      \* m_encoding
  startFailed,   \* m_startFailed
  stopping,      \* m_stopping
  free,          \* m_free
  filled,        \* m_filled
  sem,           \* m_filledCount
  slots,         \* m_slots: the frame in each
  producer,      \* PipeWire's thread in OnFrame
  producerSlot,  \* its local index
  encoder,       \* the encoder thread in EncoderMain
  encoderSlot,   \* its local index
  audio,         \* the audio thread is in SubmitAudio
  arrived,       \* how many frames have arrived
  encoded        \* the frames the encoder took, in order

flags     == <<encoding, startFailed, stopping>>
ring      == <<free, filled, sem, slots>>
threads   == <<producer, producerSlot, encoder, encoderSlot, audio>>
history   == <<arrived, encoded>>
vars      == <<main, memory, flags, ring, threads, history>>

TypeOK ==
  /\ main \in {"idle", "running", "closed", "releasing", "joining", "finishing"}
  /\ memory \in {"mapped", "dmabuf"}
  /\ encoding \in BOOLEAN
  /\ startFailed \in BOOLEAN
  /\ stopping \in BOOLEAN
  /\ free \in Seq(Slot)
  /\ filled \in Seq(Slot)
  /\ sem \in Nat
  /\ slots \in [Slot -> Frame \cup {None, Torn}]
  /\ producer \in {"away", "arrived", "copying", "copied", "enqueued", "inline"}
  /\ producerSlot \in Slot \cup {None}
  /\ encoder \in {"none", "waiting", "woken", "encoding", "returning", "exited"}
  /\ encoderSlot \in Slot \cup {None}
  /\ audio \in BOOLEAN
  /\ arrived \in 0 .. MaxFrames
  /\ encoded \in Seq(Frame \cup {None, Torn})

Init ==
  /\ main = "idle"
  /\ memory \in {"mapped", "dmabuf"}
  /\ encoding = FALSE
  /\ startFailed = FALSE
  /\ stopping = FALSE
  /\ free = <<>>
  /\ filled = <<>>
  /\ sem = 0
  /\ slots = [s \in Slot |-> None]
  /\ producer = "away"
  /\ producerSlot = None
  /\ encoder = "none"
  /\ encoderSlot = None
  /\ audio = FALSE
  /\ arrived = 0
  /\ encoded = <<>>

-----------------------------------------------------------------------------
(* PipeWire's thread: OnFrame.                                              *)

FrameArrives ==
  /\ main = "running"
  /\ producer = "away"
  /\ arrived < MaxFrames
  /\ arrived' = arrived + 1
  /\ producer' = "arrived"
  /\ UNCHANGED <<main, memory, flags, ring, producerSlot, encoder, encoderSlot, audio, encoded>>

(* The first frame starts the encoder, which is told its size. The ring and *)
(* the thread are for mapped frames alone.                                  *)
StartEncoder ==
  /\ producer = "arrived"
  /\ ~encoding
  /\ ~startFailed
  /\ encoding' = TRUE
  /\ \/ /\ memory = "mapped"
        /\ free' = free \o [i \in Slot |-> i]
        /\ slots' = [s \in Slot |-> None]
        /\ encoder' = "waiting"
     \/ /\ memory = "dmabuf"
        /\ UNCHANGED <<free, slots, encoder>>
  /\ UNCHANGED <<main, memory, startFailed, stopping, filled, sem, producer,
                 producerSlot, encoderSlot, audio, history>>

(* It will not succeed on the next frame either.                            *)
StartEncoderFails ==
  /\ producer = "arrived"
  /\ ~encoding
  /\ ~startFailed
  /\ startFailed' = TRUE
  /\ UNCHANGED <<main, memory, encoding, stopping, ring, threads, history>>

IgnoreFrame ==
  /\ producer = "arrived"
  /\ ~encoding
  /\ startFailed
  /\ producer' = "away"
  /\ UNCHANGED <<main, memory, flags, ring, producerSlot, encoder, encoderSlot, audio, history>>

TakeSlot ==
  /\ producer = "arrived"
  /\ encoding
  /\ memory = "mapped"
  /\ free # <<>>
  /\ producerSlot' = Head(free)
  /\ free' = Tail(free)
  /\ slots' = [slots EXCEPT ![Head(free)] = Torn]
  /\ producer' = "copying"
  /\ UNCHANGED <<main, memory, flags, filled, sem, encoder, encoderSlot, audio, history>>

(* Dropping beats blocking: the buffer has to go back.                      *)
DropFrame ==
  /\ producer = "arrived"
  /\ encoding
  /\ memory = "mapped"
  /\ free = <<>>
  /\ producer' = "away"
  /\ UNCHANGED <<main, memory, flags, ring, producerSlot, encoder, encoderSlot, audio, history>>

Copy ==
  /\ producer = "copying"
  /\ slots' = [slots EXCEPT ![producerSlot] = arrived]
  /\ producer' = "copied"
  /\ UNCHANGED <<main, memory, flags, free, filled, sem, producerSlot, encoder,
                 encoderSlot, audio, history>>

(* Mutation of EnqueueSlot: the newest frame goes first.                    *)
EnqueueSlotFirst ==
  /\ producer = "copied"
  /\ filled' = <<producerSlot>> \o filled
  /\ producerSlot' = None
  /\ producer' = "enqueued"
  /\ UNCHANGED <<main, memory, flags, free, sem, slots, encoder, encoderSlot, audio, history>>

EnqueueSlot ==
  /\ producer = "copied"
  /\ filled' = Append(filled, producerSlot)
  /\ producerSlot' = None
  /\ producer' = "enqueued"
  /\ UNCHANGED <<main, memory, flags, free, sem, slots, encoder, encoderSlot, audio, history>>

ReleaseSlot ==
  /\ producer = "enqueued"
  /\ sem' = sem + 1
  /\ producer' = "away"
  /\ UNCHANGED <<main, memory, flags, free, filled, slots, producerSlot, encoder,
                 encoderSlot, audio, history>>

(* A DMA-BUF frame is the compositor's, valid until OnFrame returns.        *)
SubmitInline ==
  /\ producer = "arrived"
  /\ encoding
  /\ memory = "dmabuf"
  /\ producer' = "inline"
  /\ UNCHANGED <<main, memory, flags, ring, producerSlot, encoder, encoderSlot, audio, history>>

InlineSubmitted ==
  /\ producer = "inline"
  /\ producer' = "away"
  /\ encoded' \in {encoded, Append(encoded, arrived)}
  /\ UNCHANGED <<main, memory, flags, ring, producerSlot, encoder, encoderSlot, audio, arrived>>

OnFrame ==
  \/ FrameArrives \/ StartEncoder \/ StartEncoderFails \/ IgnoreFrame
  \/ TakeSlot \/ DropFrame \/ Copy \/ EnqueueSlot \/ ReleaseSlot
  \/ SubmitInline \/ InlineSubmitted

-----------------------------------------------------------------------------
(* The audio thread: OnAudio, which has no epoch before the first frame.    *)

OnAudio ==
  /\ main = "running"
  /\ ~audio
  /\ encoding
  /\ audio' = TRUE
  /\ UNCHANGED <<main, memory, flags, ring, producer, producerSlot, encoder,
                 encoderSlot, history>>

AudioSubmitted ==
  /\ audio
  /\ audio' = FALSE
  /\ UNCHANGED <<main, memory, flags, ring, producer, producerSlot, encoder,
                 encoderSlot, history>>

-----------------------------------------------------------------------------
(* The encoder thread: EncoderMain.                                         *)

Acquire ==
  /\ encoder = "waiting"
  /\ sem > 0
  /\ sem' = sem - 1
  /\ encoder' = "woken"
  /\ UNCHANGED <<main, memory, flags, free, filled, slots, producer, producerSlot,
                 encoderSlot, audio, history>>

DequeueSlot ==
  /\ encoder = "woken"
  /\ filled # <<>>
  /\ encoderSlot' = Head(filled)
  /\ filled' = Tail(filled)
  /\ encoder' = "encoding"
  /\ UNCHANGED <<main, memory, flags, free, sem, slots, producer, producerSlot, audio, history>>

(* Mutation of FindEmpty: the thread ends with frames still queued.         *)
FindStopping ==
  /\ encoder = "woken"
  /\ filled = <<>> \/ stopping
  /\ encoder' = IF stopping THEN "exited" ELSE "waiting"
  /\ UNCHANGED <<main, memory, flags, ring, producer, producerSlot, encoderSlot, audio, history>>

(* An empty queue ends the thread once Stop has said so.                    *)
FindEmpty ==
  /\ encoder = "woken"
  /\ filled = <<>>
  /\ encoder' = IF stopping THEN "exited" ELSE "waiting"
  /\ UNCHANGED <<main, memory, flags, ring, producer, producerSlot, encoderSlot, audio, history>>

(* SubmitFrame reads the slot; a frame it fails on is counted and left out. *)
SubmitFrame ==
  /\ encoder = "encoding"
  /\ encoder' = "returning"
  /\ encoded' \in {encoded, Append(encoded, slots[encoderSlot])}
  /\ UNCHANGED <<main, memory, flags, ring, producer, producerSlot, encoderSlot, audio, arrived>>

(* Mutation of ReturnSlot: the index is returned after it was reset.        *)
ReturnNoSlot ==
  /\ encoder = "returning"
  /\ encoderSlot' = None
  /\ free' = Append(free, encoderSlot')
  /\ encoder' = "waiting"
  /\ UNCHANGED <<main, memory, flags, filled, sem, slots, producer, producerSlot, audio, history>>

ReturnSlot ==
  /\ encoder = "returning"
  /\ free' = Append(free, encoderSlot)
  /\ encoderSlot' = None
  /\ encoder' = "waiting"
  /\ UNCHANGED <<main, memory, flags, filled, sem, slots, producer, producerSlot, audio, history>>

EncoderMain == Acquire \/ DequeueSlot \/ FindEmpty \/ SubmitFrame \/ ReturnSlot

-----------------------------------------------------------------------------
(* The main thread.                                                         *)

(* Start, and Continue once it has opened the streams.                      *)
Start ==
  /\ main = "idle"
  /\ main' = "running"
  /\ memory' \in {"mapped", "dmabuf"}
  /\ stopping' = FALSE
  /\ startFailed' = FALSE
  /\ UNCHANGED <<encoding, ring, threads, history>>

(* Mutation of CloseStreams: the audio thread is not waited for.            *)
CloseVideoStream ==
  /\ main = "running"
  /\ producer = "away"
  /\ main' = "closed"
  /\ UNCHANGED <<memory, flags, ring, threads, history>>

(* The streams' Terminate waits for the callback their threads are in. From *)
(* then on there is no producer.                                            *)
CloseStreams ==
  /\ main = "running"
  /\ producer = "away"
  /\ ~audio
  /\ main' = "closed"
  /\ UNCHANGED <<memory, flags, ring, threads, history>>

SignalStop ==
  /\ main = "closed"
  /\ IF encoder # "none"
       THEN stopping' = TRUE /\ main' = "releasing"
       ELSE main' = "finishing" /\ UNCHANGED stopping
  /\ UNCHANGED <<memory, encoding, startFailed, ring, threads, history>>

(* Mutation of ReleaseStop: nothing wakes the encoder thread.               *)
StopUnreleased ==
  /\ main = "releasing"
  /\ main' = "joining"
  /\ UNCHANGED <<memory, flags, ring, threads, history>>

ReleaseStop ==
  /\ main = "releasing"
  /\ sem' = sem + 1
  /\ main' = "joining"
  /\ UNCHANGED <<memory, flags, free, filled, slots, threads, history>>

Join ==
  /\ main = "joining"
  /\ encoder = "exited"
  /\ encoder' = "none"
  /\ main' = "finishing"
  /\ UNCHANGED <<memory, flags, ring, producer, producerSlot, encoderSlot, audio, history>>

(* Mutation of FinishStop: the queues are not emptied.                      *)
FinishUndrained ==
  /\ main = "finishing"
  /\ main' = "idle"
  /\ encoding' = FALSE
  /\ UNCHANGED <<memory, startFailed, stopping, ring, threads, history>>

(* Finish writes the trailer and takes the encoder down, if there is one;   *)
(* whatever is in the queues is let go.                                     *)
FinishStop ==
  /\ main = "finishing"
  /\ main' = "idle"
  /\ encoding' = FALSE
  /\ free' = <<>>
  /\ filled' = <<>>
  /\ UNCHANGED <<memory, startFailed, stopping, sem, slots, threads, history>>

Stop == CloseStreams \/ SignalStop \/ ReleaseStop \/ Join \/ FinishStop

-----------------------------------------------------------------------------
Next == OnFrame \/ OnAudio \/ AudioSubmitted \/ EncoderMain \/ Start \/ Stop

(* Every thread keeps running, but nothing makes a frame or a sound arrive, *)
(* nor the user start or stop a recording.                                  *)
Spec ==
  /\ Init
  /\ [][Next]_vars
  /\ WF_vars(EncoderMain)
  /\ WF_vars(OnFrame /\ producer # "away")
  /\ WF_vars(AudioSubmitted)
  /\ WF_vars(Stop /\ main # "running")
-----------------------------------------------------------------------------
(* Properties.                                                              *)

InRing(queue) == {queue[i] : i \in DOMAIN queue}

NoRepeats(queue) == \A i, j \in DOMAIN queue : queue[i] = queue[j] => i = j

(* A recording with a ring: StartEncoder has run for mapped frames.         *)
HasRing == encoding /\ memory = "mapped"

(* While there is a ring, every slot is in exactly one place: free, filled, *)
(* with the producer or with the encoder thread. So no slot is written to   *)
(* while it is read, none is lost to the ring, and without a ring nothing is*)
(* left over from the last one (OnFrame, EncoderMain, Stop).                *)
SlotsConserved ==
  /\ NoRepeats(free) /\ NoRepeats(filled)
  /\ InRing(free) \cap InRing(filled) = {}
  /\ producerSlot # None => producerSlot \notin InRing(free) \cup InRing(filled) \cup {encoderSlot}
  /\ encoderSlot # None => encoderSlot \notin InRing(free) \cup InRing(filled)
  /\ InRing(free) \cup InRing(filled) \cup ({producerSlot, encoderSlot} \ {None})
       = IF HasRing THEN Slot ELSE {}

(* The semaphore counts the filled slots, but for the one a thread is just  *)
(* adding or taking, and for the token of a Stop. So the encoder thread     *)
(* never finds an empty queue it was not told to stop at, and the next      *)
(* recording's thread starts from zero.                                     *)
One(b) == IF b THEN 1 ELSE 0

SemaphoreCounts ==
  sem + One(encoder = "woken") + One(producer = "enqueued")
    = Len(filled) + One(main = "joining" /\ encoder # "exited")

(* The encoder is initialised and not being finished while a thread is in   *)
(* it, and what the encoder thread reads is a whole frame ("The producers   *)
(* first, so nothing lands in a ring -- or an encoder -- about to be torn   *)
(* down").                                                                  *)
EncoderOutlivesItsUsers ==
  /\ encoder = "encoding" \/ producer = "inline" \/ audio => encoding /\ main # "finishing"
  /\ encoder = "encoding" => slots[encoderSlot] \in Frame

(* The frames that were accepted and not handed to the encoder yet.         *)
Accepted ==
  (IF encoder = "encoding" THEN <<slots[encoderSlot]>> ELSE <<>>)
  \o [i \in DOMAIN filled |-> slots[filled[i]]]
  \o (IF producer \in {"copying", "copied", "inline"} THEN <<arrived>> ELSE <<>>)

(* The ring is a lossy queue: the file gets the frames in the order of their*)
(* arrival, a frame is dropped only when no slot is free, and Stop closes   *)
(* the file only when everything accepted has been encoded.                 *)
Queue == INSTANCE LossyQueue WITH
  Capacity <- NumSlots,
  phase    <- IF main = "idle" THEN "closed" ELSE IF startFailed THEN "broken" ELSE "open",
  offered  <- arrived - One(producer = "arrived"),
  queue    <- Accepted

IsALossyQueue == Queue!Spec

(* Stop comes to its end: it never waits for an encoder thread that waits   *)
(* for it.                                                                  *)
StopCompletes == main \notin {"idle", "running"} ~> main = "idle"
=============================================================================

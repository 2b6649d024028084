------------------------------- MODULE Encoder -------------------------------
(***************************************************************************)
(* One CEncoder (src/src/encode/private/encoder.cpp) over several          *)
(* recordings: what Initialize opens and Terminate gives back, and the     *)
(* video track from the frames CSession hands over to the packets of the   *)
(* file. The sound is AudioMix; the threads and the ring in front of       *)
(* SubmitFrame are FrameRing. Times are in a small unit, Unit of them to   *)
(* one tick of the track.                                                  *)
(***************************************************************************)
EXTENDS Integers, Sequences, SequencesExt

CONSTANTS
  Unit, Nominal,          \* stamps per tick, NominalFrameMicroseconds in ticks
  ClockBits,              \* the width of a stamp
  ClockAhead,             \* CLOCK_MONOTONIC's lead on PipeWire's clock
  MaxLatency,             \* of a frame, from its stamp to its arrival
  Depth,                  \* the frames the codec may hold back
  MaxRecordings, MaxFrames, MaxGap, MaxFaults  \* bounds

ASSUME ClockAssumption ==
  /\ Unit \in Nat \ {0} /\ Nominal \in Nat \ {0} /\ 2^ClockBits \in Nat \ {0}
  /\ ClockAhead \in Int /\ MaxLatency \in Nat /\ ClockAhead + MaxLatency \in Nat

ASSUME BoundsAssumption == {Depth, MaxRecordings, MaxFrames, MaxGap, MaxFaults} \subseteq Nat

VARIABLES
  at,                     \* the step of Initialize, or "closed", "running", "converted", "finished"
  memory,                 \* m_memory
  owned,                  \* what m_p... members hold
  headerWritten, first, nextPts, numFramesEncoded,  \* members; first is m_firstTimestampNs
  heldPacket,             \* m_pHeldPacket while m_hasHeldPacket: its pts, or nothing
  codec,                  \* the frames inside the codec: their pts
  file, trailer,          \* the video packets in the file, and whether it is complete
  stamp,                  \* of the frame being submitted, 0 for none
  lastStamp, arrival,     \* CSession: m_lastFrameTimestampNs, m_lastFrameArrivalNs
  reading,                \* the GPU still reads the compositor's buffer
  syncFailed,             \* m_reportedSyncFailure
  now,                    \* CLOCK_MONOTONIC
  recordings, frames, faults,  \* what the bounds count
  sent, lost,             \* frames the codec took, packets that could not be written
  firstStamped,           \* the recording's first frame had a stamp
  uncounted               \* a frame the codec took before one was counted

trackVars   == <<nextPts, numFramesEncoded, heldPacket, codec, file, sent, lost, uncounted>>
openVars    == <<memory, owned, headerWritten, first, firstStamped>>
sessionVars == <<stamp, lastStamp, arrival, now, frames>>
gpuVars     == <<reading, syncFailed>>
vars == <<at, openVars, trackVars, trailer, sessionVars, gpuVars, recordings, faults>>

Fault == faults < MaxFaults /\ faults' = faults + 1

-----------------------------------------------------------------------------
(* Mutation of Steps: the codec opens before there is a container to ask.   *)
StepsCodecFirst(m) ==
  (IF m = "DmaBuf" THEN <<"packets", "device", "drmDevice", "graph">>
                   ELSE <<"packets", "staging", "device", "pool">>)
    \o <<"codec", "container", "sound", "stream", "soundStream", "output">>

(* Initialize, in its order, for a frame in the GPU's memory or in ours.    *)
Steps(m) ==
  (IF m = "DmaBuf" THEN <<"packets", "device", "drmDevice", "graph">>
                   ELSE <<"packets", "staging", "device", "pool">>)
    \o <<"container", "codec", "sound", "stream", "soundStream", "output">>

Following(step) ==
  LET i == CHOOSE i \in DOMAIN Steps(memory) : Steps(memory)[i] = step
  IN  IF i = Len(Steps(memory)) THEN "running" ELSE Steps(memory)[i + 1]

(* What each Open function acquires, in order; where it fails, it has the   *)
(* first of these.                                                          *)
OpenDevice      == <<"device">>
OpenDrmDevice   == <<"drmDevice">>
OpenFilterGraph == <<"drmFrames", "graph", "surfaces">>
OpenVaapiFrames == <<"surfaces">>
OpenContainer   == <<"format">>
OpenEncoder     == <<"codec">>
OpenVideoStream == <<"videoStream">>
Sound           == <<"soundCodec", "soundFrames", "fifos">>

Acquires(step) ==
  CASE step = "packets"     -> <<"packets">>
    [] step = "staging"     -> <<>>
    [] step = "device"      -> OpenDevice
    [] step = "drmDevice"   -> OpenDrmDevice
    [] step = "graph"       -> OpenFilterGraph
    [] step = "pool"        -> OpenVaapiFrames
    [] step = "container"   -> OpenContainer
    [] step = "codec"       -> OpenEncoder
    [] step = "sound"       -> Sound
    [] step = "stream"      -> OpenVideoStream
    [] step = "soundStream" -> <<"soundStream">>
    [] step = "output"      -> <<"pb">>

Resources == {"packets", "device", "drmDevice", "drmFrames", "graph", "surfaces", "format", "codec", "soundCodec",
              "soundFrames", "fifos", "videoStream", "soundStream", "pb", "scaler"}

(* What the library asks of the order (external).                           *)
Requires ==
  [r \in Resources |->
     CASE r = "codec"       -> {"surfaces", "format"}
       [] r = "surfaces"    -> {"device"}
       [] r = "soundCodec"  -> {"format"}
       [] r = "videoStream" -> {"format", "codec"}
       [] r = "soundStream" -> {"format", "soundCodec"}
       [] r = "pb"          -> {"format", "videoStream"}
       [] OTHER             -> {}]

(* Mutation of Terminated: the held packet is not forgotten with the rest.  *)
TerminatedHolding(opened) ==
  /\ owned' = {}
  /\ headerWritten' = FALSE
  /\ first' = 0
  /\ nextPts' = 0
  /\ numFramesEncoded' = 0
  /\ codec' = <<>>
  /\ at' = "closed"
  /\ UNCHANGED heldPacket

(* Terminate, with what Initialize had opened when it failed.               *)
Terminated(opened) ==
  /\ owned' = (owned \cup opened) \ Resources
  /\ headerWritten' = FALSE
  /\ first' = 0
  /\ nextPts' = 0
  /\ numFramesEncoded' = 0
  /\ heldPacket' = <<>>
  /\ codec' = <<>>
  /\ at' = "closed"

-----------------------------------------------------------------------------
(* CSession.                                                                *)

(* A frame arrives: the compositor stamps it, never earlier than it stamped *)
(* the frame before or the recording's first, or does not.                  *)
Arrives ==
  /\ frames < MaxFrames
  /\ \E gap \in 1..MaxGap : now' = now + gap
  /\ \E latency \in 0..MaxLatency :
       \/ stamp' = 0
       \/ /\ stamp' = now' - ClockAhead - latency
          /\ stamp' >= lastStamp
          /\ firstStamped => stamp' >= first

(* OnFrame notes every frame of a recording, also one it will drop.         *)
Noted ==
  /\ frames' = frames + 1
  /\ lastStamp' = stamp'
  /\ arrival' = now'

(* StartEncoder, by the first frame of a recording.                         *)
StartEncoder ==
  /\ at = "closed"
  /\ recordings < MaxRecordings
  /\ recordings' = recordings + 1
  /\ Arrives
  /\ memory' \in {"DmaBuf", "Mapped"}
  /\ first' = IF stamp' # 0 THEN stamp' ELSE now'
  /\ firstStamped' = (stamp' # 0)
  /\ file' = <<>>
  /\ trailer' = FALSE
  /\ sent' = 0
  /\ lost' = 0
  /\ uncounted' = FALSE
  /\ at' = "packets"
  /\ UNCHANGED <<owned, headerWritten, nextPts, numFramesEncoded, heldPacket, codec, lastStamp, arrival, frames,
                 gpuVars, faults>>

-----------------------------------------------------------------------------
(* CEncoder::Initialize.                                                    *)

(* One of its Open functions.                                               *)
Open ==
  /\ at \in {"packets", "staging", "device", "drmDevice", "graph", "pool", "container", "codec", "stream"}
  /\ owned' = owned \cup ToSet(Acquires(at))
  /\ at' = Following(at)
  /\ UNCHANGED <<memory, headerWritten, first, firstStamped, trackVars, trailer, sessionVars, gpuVars,
                 recordings, faults>>

(* OpenAudioEncoder never fails the recording: no sound asked for, no codec *)
(* or no room for one in the container, or one that does not open.          *)
OpenAudioEncoder ==
  /\ at = "sound"
  /\ owned' \in {owned, owned \cup ToSet(Acquires("sound"))}
  /\ at' = Following(at)
  /\ UNCHANGED <<memory, headerWritten, first, firstStamped, trackVars, trailer, sessionVars, gpuVars,
                 recordings, faults>>

OpenAudioStream ==
  /\ at = "soundStream"
  /\ owned' = IF "soundCodec" \in owned THEN owned \cup {"soundStream"} ELSE owned
  /\ at' = Following(at)
  /\ UNCHANGED <<memory, headerWritten, first, firstStamped, trackVars, trailer, sessionVars, gpuVars,
                 recordings, faults>>

(* Mutation of OpenOutput: the header is not marked as written.             *)
OpenOutputUnmarked ==
  /\ at = "output"
  /\ owned' = owned \cup ToSet(Acquires("output"))
  /\ at' = Following(at)
  /\ UNCHANGED <<memory, headerWritten, first, firstStamped, trackVars, trailer, sessionVars, gpuVars,
                 recordings, faults>>

(* The file, and the header Finish wants to see written.                    *)
OpenOutput ==
  /\ at = "output"
  /\ owned' = owned \cup ToSet(Acquires("output"))
  /\ headerWritten' = TRUE
  /\ at' = Following(at)
  /\ UNCHANGED <<memory, first, firstStamped, trackVars, trailer, sessionVars, gpuVars, recordings, faults>>

(* A step fails somewhere in the middle, and Initialize ends in Terminate.  *)
OpenFails ==
  /\ at \in ToSet(Steps(memory)) \ {"sound"}
  /\ at = "soundStream" => "soundCodec" \in owned
  /\ Fault
  /\ \E n \in 0..Len(Acquires(at)) : Terminated(ToSet(SubSeq(Acquires(at), 1, n)))
  /\ UNCHANGED <<memory, firstStamped, file, sent, lost, uncounted, trailer, sessionVars, gpuVars, recordings>>

-----------------------------------------------------------------------------
(* The video track.                                                         *)

(* Packets in a row, each lasting until the next.                           *)
Chain(pts) == [i \in 1..(Len(pts) - 1) |-> [pts |-> pts[i], duration |-> pts[i + 1] - pts[i]]]

(* Mutation of DrainPackets: packets are written as the codec gives them.   *)
DrainPacketsAtOnce(frameQueue, n, ok) ==
  /\ ok
  /\ file' = file \o [i \in 1..n |-> [pts |-> frameQueue[i], duration |-> 0]]
  /\ codec' = SubSeq(frameQueue, n + 1, Len(frameQueue))
  /\ UNCHANGED <<heldPacket, lost, faults>>

(* DrainPackets and HoldVideoPacket take n packets out of the codec: each   *)
(* waits for the next to say how long it lasts. What fails is a read, or    *)
(* the write of the packet before the last one taken, which is then lost.   *)
DrainPackets(frameQueue, n, ok) ==
  LET row == heldPacket \o SubSeq(frameQueue, 1, n)
  IN  /\ codec' = SubSeq(frameQueue, n + 1, Len(frameQueue))
      /\ heldPacket' = IF row = <<>> THEN row ELSE <<Last(row)>>
      /\ \/ ok /\ file' = file \o Chain(row) /\ UNCHANGED <<lost, faults>>
         \/ ~ok /\ Fault /\ file' = file \o Chain(row) /\ UNCHANGED lost
         \/ /\ ~ok
            /\ n > 0 /\ Len(row) > 1
            /\ Fault
            /\ file' = file \o Front(Chain(row))
            /\ lost' = lost + 1

(* Mutation of Timestamp: any stamp goes through.                           *)
TimestampAsStamped(time) ==
  IF time = 0 THEN nextPts ELSE ((time - first) % 2^ClockBits) \div Unit

(* Mutation of Timestamp: not from the recording's zero point.              *)
TimestampFromBoot(time) ==
  LET pts == IF time = 0 THEN nextPts ELSE (time % 2^ClockBits) \div Unit
  IN  IF numFramesEncoded > 0 /\ pts <= nextPts - Nominal THEN nextPts ELSE pts

(* The difference is unsigned, and a timestamp that does not advance takes  *)
(* the next nominal one.                                                    *)
Timestamp(time) ==
  LET pts == IF time = 0 THEN nextPts ELSE ((time - first) % 2^ClockBits) \div Unit
  IN  IF numFramesEncoded > 0 /\ pts <= nextPts - Nominal THEN nextPts ELSE pts

(* The codec takes the frame or refuses it, and may hold some back.         *)
SendToEncoder(time) ==
  /\ nextPts' = Timestamp(time) + Nominal
  /\ \/ /\ Fault
        /\ UNCHANGED <<numFramesEncoded, heldPacket, codec, file, sent, lost, uncounted>>
     \/ LET q == Append(codec, Timestamp(time))
        IN  /\ sent' = sent + 1
            /\ \E n \in 0..Len(q), drained \in BOOLEAN :
                 /\ drained => Len(q) - n <= Depth
                 /\ DrainPackets(q, n, drained)
                 /\ numFramesEncoded' = IF drained THEN numFramesEncoded + 1 ELSE numFramesEncoded
                 /\ uncounted' = (uncounted \/ (~drained /\ numFramesEncoded = 0))

(* Mutation of SubmitConverted: nobody waits for the GPU.                   *)
SubmitUnwaited ==
  /\ at = "converted"
  /\ at' = "running"
  /\ SendToEncoder(stamp)
  /\ UNCHANGED <<openVars, trailer, sessionVars, gpuVars, recordings>>

(* A frame is submitted: the one that started the recording, or the next.   *)
NextFrame ==
  /\ IF frames = 0 THEN UNCHANGED <<now, stamp>> ELSE Arrives
  /\ Noted

(* SubmitDmaBuf: the graph reads the compositor's buffer, until it is told  *)
(* to be waited for.                                                        *)
SubmitDmaBuf ==
  /\ at = "running"
  /\ memory = "DmaBuf"
  /\ NextFrame
  /\ \/ at' = "converted" /\ reading' = TRUE /\ UNCHANGED faults
     \/ Fault /\ UNCHANGED <<at, reading>>
  /\ UNCHANGED <<openVars, trackVars, trailer, syncFailed, recordings>>

GpuDone ==
  /\ reading
  /\ reading' = FALSE
  /\ UNCHANGED <<at, openVars, trackVars, trailer, sessionVars, syncFailed, recordings, faults>>

(* WaitForSurface, then the codec; a wait that fails is reported once.      *)
SubmitConverted ==
  /\ at = "converted"
  /\ at' = "running"
  /\ \/ reading' = FALSE /\ UNCHANGED syncFailed
     \/ syncFailed' = TRUE /\ UNCHANGED reading
  /\ SendToEncoder(stamp)
  /\ UNCHANGED <<openVars, trailer, sessionVars, recordings>>

(* SubmitMapped: converted and uploaded here.                               *)
SubmitMapped ==
  /\ at = "running"
  /\ memory = "Mapped"
  /\ NextFrame
  /\ \/ owned' = owned \cup {"scaler"} /\ SendToEncoder(stamp')
     \/ owned' \in {owned, owned \cup {"scaler"}} /\ Fault /\ UNCHANGED trackVars
  /\ UNCHANGED <<at, memory, headerWritten, first, firstStamped, trailer, gpuVars, recordings>>

(* OnFrame with no slot left: its stamp and arrival count all the same.     *)
DropFrame ==
  /\ at = "running"
  /\ memory = "Mapped"
  /\ frames > 0
  /\ Arrives
  /\ Noted
  /\ UNCHANGED <<at, openVars, trackVars, trailer, gpuVars, recordings, faults>>

-----------------------------------------------------------------------------
(* Mutation of LastDuration: always a nominal frame.                        *)
LastDurationNominal(pts, end) == Nominal

(* WriteHeldPacket: the last frame lasts until the stop, when that is later.*)
LastDuration(pts, end) ==
  IF end # 0 /\ end > first /\ (end - first) \div Unit > pts
  THEN (end - first) \div Unit - pts
  ELSE Nominal

(* Stop's end of the recording, by PipeWire's clock.                        *)
EndTimestamp == IF lastStamp # 0 THEN lastStamp + (now' - arrival) ELSE 0

(* Stop, some time after the last frame, and Finish: the codec is emptied,  *)
(* the held packet written, then the trailer.                               *)
Finish ==
  /\ at = "running"
  /\ frames > 0
  /\ at' = "finished"
  /\ \E wait \in 0..MaxGap : now' = now + wait
  /\ LET row  == heldPacket \o codec
         last == [pts |-> Last(row), duration |-> LastDuration(Last(row), EndTimestamp)]
     IN  \/ /\ row = <<>>
            /\ \/ trailer' = TRUE /\ UNCHANGED faults
               \/ trailer' = FALSE /\ Fault
            /\ UNCHANGED <<heldPacket, codec, file, lost>>
         \/ /\ row # <<>>
            /\ file' = Append(file \o Chain(row), last)
            /\ heldPacket' = <<>> /\ codec' = <<>>
            /\ \/ trailer' = TRUE /\ UNCHANGED faults
               \/ trailer' = FALSE /\ Fault
            /\ UNCHANGED lost
         \/ /\ row # <<>>
            /\ Fault
            /\ file' = file \o Chain(row)
            /\ heldPacket' = <<>> /\ codec' = <<>>
            /\ lost' = lost + 1
            /\ trailer' = FALSE
         \/ /\ \E n \in 0..Len(codec) : DrainPackets(codec, n, FALSE)
            /\ trailer' = FALSE
  /\ UNCHANGED <<openVars, nextPts, numFramesEncoded, sent, uncounted, stamp, lastStamp, arrival, frames, gpuVars,
                 recordings>>

(* Stop's Terminate.                                                        *)
Terminate ==
  /\ at = "finished"
  /\ Terminated({})
  /\ frames' = 0
  /\ UNCHANGED <<memory, firstStamped, file, sent, lost, uncounted, trailer, stamp, lastStamp, arrival, now,
                 gpuVars, recordings, faults>>

Init ==
  /\ at = "closed"
  /\ memory = "DmaBuf"
  /\ owned = {}
  /\ headerWritten = FALSE
  /\ first = 0
  /\ nextPts = 0
  /\ numFramesEncoded = 0
  /\ heldPacket = <<>>
  /\ codec = <<>>
  /\ file = <<>>
  /\ trailer = FALSE
  /\ stamp = 0
  /\ lastStamp = 0
  /\ arrival = 0
  /\ reading = FALSE
  /\ syncFailed = FALSE
  /\ now = ClockAhead + MaxLatency
  /\ recordings = 0
  /\ frames = 0
  /\ faults = 0
  /\ sent = 0
  /\ lost = 0
  /\ firstStamped = FALSE
  /\ uncounted = FALSE

Next ==
  \/ StartEncoder
  \/ Open
  \/ OpenAudioEncoder
  \/ OpenAudioStream
  \/ OpenOutput
  \/ OpenFails
  \/ SubmitDmaBuf
  \/ GpuDone
  \/ SubmitConverted
  \/ SubmitMapped
  \/ DropFrame
  \/ Finish
  \/ Terminate

Spec == Init /\ [][Next]_vars

-----------------------------------------------------------------------------
Pts(packets) == [i \in DOMAIN packets |-> packets[i].pts]

(* Every frame of the recording the codec took, as far as it has come.      *)
Track == Pts(file) \o heldPacket \o codec

TypeOK ==
  /\ at \in {"closed", "running", "converted", "finished"} \cup ToSet(Steps(memory))
  /\ owned \subseteq Resources
  /\ headerWritten \in BOOLEAN
  /\ nextPts \in 0..2^ClockBits + MaxFrames * Nominal
  /\ Len(heldPacket) <= 1
  /\ at \in {"running", "converted"} => headerWritten /\ {"codec", "pb", "surfaces"} \subseteq owned
  /\ at = "converted" => memory = "DmaBuf"

(* Nothing is opened ahead of what it needs: the codec asks the container   *)
(* about its headers, and the frames come from the graph that makes them    *)
(* (encoder.cpp:358).                                                       *)
OpenedInOrder == \A r \in owned : Requires[r] \subseteq owned

(* Between two recordings, and after a start that failed at any step,       *)
(* nothing is owned and nothing of the last track is left to begin the next *)
(* one with.                                                                *)
NothingLeftBetween ==
  at = "closed" => owned = {} /\ ~headerWritten /\ heldPacket = <<>> /\ codec = <<>> /\ nextPts = 0
                     /\ numFramesEncoded = 0

(* "Without waiting, the caller hands this buffer back to the compositor    *)
(* while the GPU is still reading it" (encoder.cpp:1355): it never is,      *)
(* unless the wait itself failed.                                           *)
NotHandedBackWhileRead == reading => at = "converted" \/ syncFailed

(* What Initialize opens and Terminate gives back is opened in order, is    *)
(* given back whole, and a buffer that is still read is not handed back.    *)
EncoderInvariant == TypeOK /\ OpenedInOrder /\ NothingLeftBetween /\ NotHandedBackWhileRead

(* Every frame comes after the one before it, whatever the stamps and the   *)
(* failures, once one has been counted.                                     *)
TrackAdvances == ~uncounted => \A i \in 1..(Len(Track) - 1) : Track[i] < Track[i + 1]

(* A complete file has every frame the codec took, bar those whose write    *)
(* failed, and each lasts exactly until the next.                           *)
FileIsWhole ==
  trailer =>
    /\ Len(file) = sent - lost
    /\ ~uncounted => \A i \in DOMAIN file : file[i].duration > 0
    /\ \A i \in 1..(Len(file) - 1) :
         /\ ~uncounted => file[i].pts + file[i].duration <= file[i + 1].pts
         /\ lost = 0 => file[i].pts + file[i].duration = file[i + 1].pts

(* The track is never ahead of the recording by more than a nominal frame   *)
(* for each frame before, where the first frame was stamped.                *)
KeepsTime(pts) == pts * Unit <= now - ClockAhead - first + Nominal * Unit * (frames - 1)
TrackKeepsTime == (firstStamped /\ at # "closed") => \A i \in DOMAIN Track : KeepsTime(Track[i])

(* The last frame lasts until the stop, "so a screen that stopped changing  *)
(* does not shorten the recording" (encoder.cpp:1470), also when later      *)
(* frames were dropped.                                                     *)
LastsUntilTheStop ==
  (at = "finished" /\ trailer /\ file # <<>> /\ lost = 0 /\ firstStamped /\ lastStamp # 0) =>
    Last(file).pts + Last(file).duration >= (lastStamp + (now - arrival) - first) \div Unit

(* The track keeps the recording's time: a frame is where its stamp says, or*)
(* behind the frame before it, and the last lasts until the stop.           *)
TrackIsInTime == TrackAdvances /\ TrackKeepsTime /\ LastsUntilTheStop

(* "Only the elapsed part of CLOCK_MONOTONIC is used, so PipeWire's clock   *)
(* need not be the same one" (session.cpp:430).                             *)
AnyClockWillDo ==
  at \in {"running", "finished"} => \A i \in DOMAIN Track : Track[i] * Unit <= Unit * Nominal * sent + frames * MaxGap + MaxLatency

(* "An encoder rejects a timestamp that does not advance" (encoder.cpp:1237)*)
(* so none may reach it.                                                    *)
TimestampsAdvance == \A i \in 1..(Len(Track) - 1) : Track[i] < Track[i + 1]
=============================================================================

----------------------------- MODULE LossyQueue -----------------------------
(***************************************************************************)
(* What the frame path of a recording promises, with its threads, slots    *)
(* and semaphore left out: frames are encoded in the order they arrived,   *)
(* none twice; a frame is dropped only when the queue is full, or when     *)
(* there is no encoder at all; and the recording is closed only when every *)
(* frame that was accepted has been handed to the encoder.                 *)
(***************************************************************************)
EXTENDS Naturals, Sequences

CONSTANT Capacity         \* how many frames the queue has room for

VARIABLES
  phase,                  \* "closed", "open", or "broken": without an encoder
  offered,                \* how many frames have arrived; a frame is its number
  queue,                  \* the accepted frames, oldest first
  encoded                 \* the frames in the file, in order

vars == <<phase, offered, queue, encoded>>

Init ==
  /\ phase = "closed"
  /\ offered = 0
  /\ queue = <<>>
  /\ encoded = <<>>

Open ==
  /\ phase = "closed"
  /\ phase' = "open"
  /\ UNCHANGED <<offered, queue, encoded>>

Break ==
  /\ phase = "open"
  /\ queue = <<>>
  /\ phase' = "broken"
  /\ UNCHANGED <<offered, queue, encoded>>

Accept ==
  /\ phase = "open"
  /\ Len(queue) < Capacity
  /\ offered' = offered + 1
  /\ queue' = Append(queue, offered')
  /\ UNCHANGED <<phase, encoded>>

(* One place may be on its way back from the encoder.                       *)
Drop ==
  /\ \/ phase = "open" /\ Len(queue) >= Capacity - 1
     \/ phase = "broken"
  /\ offered' = offered + 1
  /\ UNCHANGED <<phase, queue, encoded>>

(* The encoder takes the oldest frame, and may fail on it.                  *)
Take ==
  /\ queue # <<>>
  /\ queue' = Tail(queue)
  /\ encoded' \in {encoded, Append(encoded, Head(queue))}
  /\ UNCHANGED <<phase, offered>>

Close ==
  /\ phase \in {"open", "broken"}
  /\ queue = <<>>
  /\ phase' = "closed"
  /\ UNCHANGED <<offered, queue, encoded>>

Next == Open \/ Break \/ Accept \/ Drop \/ Take \/ Close

Spec == Init /\ [][Next]_vars /\ WF_vars(Take)
=============================================================================

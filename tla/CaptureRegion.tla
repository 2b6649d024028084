---------------------------- MODULE CaptureRegion ----------------------------
(***************************************************************************)
(* Which part of a frame is recorded: the choice of CSession::StartEncoder *)
(* (src/src/recorder/private/session.cpp) between the user's region and    *)
(* the crop PipeWire reports, ResolveRegion of                             *)
(* src/src/encode/private/encoder.cpp, and the bytes SubmitMapped reads.   *)
(* There is no state: the promises are checked over every small input.     *)
(***************************************************************************)
EXTENDS Integers

CONSTANTS
  Sides,        \* the widths and heights a frame may have
  RegionMax,    \* the largest origin and size of a region
  MinimumSide,  \* of a region the selector lets through
  Bits,         \* the width of its integers
  CropOrigins,  \* where a crop of the stream may begin, and
  CropSides,    \* the sides it may have: any unsigned integers
  Padding       \* what a row of the frame's memory may hold beyond the frame

Unsigned == 0..(2^Bits - 1)

(* A frame has a sample of chroma, and is not as large as integers get.     *)
ASSUME SideAssumption ==
  /\ 2^Bits \in Nat
  /\ \A side \in Sides : side \in Nat /\ side >= 2 /\ side + 2 < 2^Bits
  /\ Padding \subseteq Nat
  /\ MinimumSide \in 2..RegionMax /\ RegionMax \in Nat

ASSUME CropAssumption == CropOrigins \subseteq Unsigned /\ CropSides \subseteq Unsigned \ {0}

(* The first frame: its size, and its stride in pixels beyond it.           *)
Frames == [width : Sides, height : Sides, padding : Padding]

NoRegion     == [x |-> 0, y |-> 0, width |-> 0, height |-> 0]
Whole(frame) == [x |-> 0, y |-> 0, width |-> frame.width, height |-> frame.height]

(* What RegionSelector lets through, or none; one axis at a time is enough  *)
(* to tell the cases apart.                                                 *)
Lengths == {0} \cup MinimumSide..RegionMax
Regions ==
  {[x |-> p, y |-> 0, width |-> n, height |-> MinimumSide] : p \in 0..RegionMax, n \in Lengths}
    \cup {[x |-> 1, y |-> p, width |-> MinimumSide + 1, height |-> n] : p \in 0..RegionMax, n \in Lengths}

(* SPA_META_VideoCrop: none, or what the compositor says, which is not      *)
(* looked at but for its size not being zero. Its origin is a signed number *)
(* and cast: 2^Bits - 1 stands for one pixel to the left of the buffer.     *)
Crops == {NoRegion} \cup [x : CropOrigins, y : CropOrigins, width : CropSides, height : CropSides]

RoundDownToEven(value) == value - (value % 2)

(* Mutation of ResolveRegion: only the width is looked at.                  *)
ResolveByWidth(r, frame) ==
  LET outside == r.width = 0 \/ (r.x + r.width) % 2^Bits > frame.width
      part    == IF outside THEN Whole(frame) ELSE r
  IN  [f \in DOMAIN part |-> RoundDownToEven(part[f])]

(* A region that is empty or does not fit means the whole frame; 4:2:0      *)
(* chroma has no sample on an odd row or column.                            *)
ResolveRegion(r, frame) ==
  LET outside == \/ r.width = 0 \/ r.height = 0
                 \/ (r.x + r.width) % 2^Bits > frame.width
                 \/ (r.y + r.height) % 2^Bits > frame.height
      part    == IF outside THEN Whole(frame) ELSE r
  IN  [f \in DOMAIN part |-> RoundDownToEven(part[f])]

(* Mutation of Chosen: the crop goes ahead of the user's choice.            *)
ChosenCrop(requested, crop) == IF crop.width # 0 THEN crop ELSE requested

(* The stream's crop counts where nothing was chosen.                       *)
Chosen(requested, crop) == IF requested.width = 0 /\ crop.width # 0 THEN crop ELSE requested

Fits(r, frame) ==
  /\ r.width # 0 /\ r.height # 0
  /\ r.x + r.width <= frame.width /\ r.y + r.height <= frame.height

(* SubmitMapped reads from the region's origin, a row of the region at a    *)
(* time: how far into the frame's memory it comes, in pixels.               *)
Stride(frame)      == frame.width + frame.padding
LastRead(r, frame) == (r.y + r.height - 1) * Stride(frame) + r.x + r.width

-----------------------------------------------------------------------------
IsEven(region) == \A f \in DOMAIN region : region[f] % 2 = 0

(* What is recorded is a part of the frame, and reading it stays in the     *)
(* frame's memory.                                                          *)
StaysIn(region, frame) ==
  /\ Fits(region, frame)
  /\ LastRead(region, frame) <= Stride(frame) * frame.height

(* A choice that fits is what is recorded, to within the pixels that evenness*)
(* costs: it begins at most one early, and ends at most two early.          *)
Keeps(region, requested) ==
  /\ region.x \in {requested.x, requested.x - 1}
  /\ region.y \in {requested.y, requested.y - 1}
  /\ region.x + region.width + 2 >= requested.x + requested.width
  /\ region.y + region.height + 2 >= requested.y + requested.height

(* A part whose end, past the largest integer, comes out inside the frame   *)
(* again: one that begins left of the frame or above it, say.               *)
Slips(r, frame) ==
  /\ r.width # 0 /\ r.height # 0
  /\ r.x + r.width >= 2^Bits \/ r.y + r.height >= 2^Bits
  /\ (r.x + r.width) % 2^Bits <= frame.width
  /\ (r.y + r.height) % 2^Bits <= frame.height

(* A part of a single row or column, which evenness leaves nothing of.      *)
Vanishes(r, frame) == Fits(r, frame) /\ (r.width = 1 \/ r.height = 1)

(* What is recorded begins and ends on a sample of chroma, and it is the    *)
(* user's choice where that fits. It stays in the frame, whatever was       *)
(* chosen and whatever crop the stream reports, but for exactly two kinds   *)
(* of crop, which nothing here refuses: one whose sums wrap, and one of a   *)
(* single row or column (CSession::StartEncoder, ResolveRegion).            *)
RegionIsRecorded ==
  \A frame \in Frames, requested \in Regions, crop \in Crops :
    LET part   == Chosen(requested, crop)
        region == ResolveRegion(part, frame)
    IN  /\ IsEven(region)
        /\ Fits(requested, frame) => Keeps(region, requested)
        /\ StaysIn(region, frame) <=> ~Slips(part, frame) /\ ~Vanishes(part, frame)
=============================================================================

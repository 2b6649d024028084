------------------------------ MODULE MCEncoder ------------------------------
(* The encoder, and the region it is opened on.                              *)
EXTENDS Encoder, CaptureRegion

(* What an open encoder is given to record, for every small frame, region   *)
(* and crop, is the region that was chosen, read from inside the frame, but *)
(* for the crops that wrap or vanish (RegionIsRecorded names them;          *)
(* CSession::StartEncoder, ResolveRegion, SubmitMapped).                    *)
RecordsTheRegion == at = "running" => RegionIsRecorded
=============================================================================

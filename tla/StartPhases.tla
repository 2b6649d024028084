---------------------------- MODULE StartPhases ----------------------------
(***************************************************************************)
(* The phases a recording goes through, as CRecorder and CStartFlow agree  *)
(* on them: one start at a time, a region picked first if there is one to  *)
(* pick, the window out of shot before the capture is asked for, and one   *)
(* answer to each request. Module Recorder implements it, with the portal  *)
(* spelled out, and so does module StartFlow, with the steps spelled out.  *)
(***************************************************************************)

VARIABLE phase

Init == phase = "idle"

(* A start, which may have nothing to pick and nothing to take out of shot. *)
Prepare == phase = "idle" /\ phase' \in {"picking", "settling", "asked"}

Pick == phase = "picking" /\ phase' \in {"settling", "asked"}

Dismiss == phase = "picking" /\ phase' = "idle"

Ask == phase = "settling" /\ phase' = "asked"

Answer == phase = "asked" /\ phase' \in {"recording", "idle"}

Stop == phase = "recording" /\ phase' = "idle"

Leave == phase # "over" /\ phase' = "over"

Next == Prepare \/ Pick \/ Dismiss \/ Ask \/ Answer \/ Stop \/ Leave

(* Only the settling is Klip's alone to end: the user picks, the portal     *)
(* answers.                                                                 *)
Spec == Init /\ [][Next]_phase /\ WF_phase(Ask)
=============================================================================

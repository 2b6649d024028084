------------------------ MODULE StartFlowProperties ------------------------
(***************************************************************************)
(* What the start flow of module StartFlow is to guarantee, and what it    *)
(* fails to.                                                               *)
(***************************************************************************)
EXTENDS StartFlow

(* The phase of the start, as module StartPhases has it.                    *)
Phase ==
  LET starting == [None                   |-> "asked",
                   SettlingBeforeBackdrop |-> "picking",
                   AwaitingBackdrop       |-> "picking",
                   Picking                |-> "picking",
                   SettlingAfterPicker    |-> "picking",
                   SettlingBeforeCapture  |-> "settling"]
  IN  IF pc \in {"leaving", "done"} THEN "over"
      ELSE [Idle |-> "idle", Starting |-> starting[step], Recording |-> "recording"][state]

Phases == INSTANCE StartPhases WITH phase <- Phase

(* The steps of CStartFlow and the recorder's state make one start at a     *)
(* time out of every order of toggles, answers and deadlines, and a start   *)
(* that settles is asked for in the end.                                    *)
ImplementsPhases == Phases!Spec

(* A file the portal handed over always has one holder that will delete it: *)
(* the answer not taken yet. Reading it, and cancelling over it, delete it  *)
(* (start_flow.cpp, "so it is deleted once read"; CScreenshot::Cancel).     *)
HandedFilesAreHeld ==
  \A s \in Shot : shot[s] = "handed" <=> answered /\ path = s

(* So no file that was handed over outlives the start, or Klip.             *)
HandedFilesAreDeleted ==
  \A s \in Shot : shot[s] = "handed" ~> shot[s] = "deleted"

(* What is listened for and what was answered belong to the screenshot      *)
(* asked for last, and only while the flow waits for it: an answer that was *)
(* given up on reaches no later start ("With the slot gone on the bus       *)
(* thread, no answer and no wake can follow").                              *)
AnswersAreOfThisStart ==
  /\ slot # None \/ answered =>
       step = "AwaitingBackdrop" \/ (step = "SettlingBeforeBackdrop" /\ pc = "asking")
  /\ slot # None => slot = asked /\ ~answered
  /\ path # None => path = asked /\ answered

(* Between the store of m_isAnswered and its exchange no wake is lost: a    *)
(* main thread about to sleep on an answer has a wake queued or coming.     *)
AnswerWakesTheLoop == pc = "wait" /\ answered => woken \/ waking

(* One capture request per start, made by the step that ends the flow and   *)
(* by nothing else: the assertions of BeginRecording and RequestCapture     *)
(* ("comes only after a PrepareRecording that succeeded").                  *)
OneCapturePerStart ==
  pc \notin {"leaving", "done"} =>
    /\ step # "None" => state = "Starting" /\ ~capture
    /\ capture <=> (state = "Starting" /\ step = "None")
    /\ selector # "closed" <=> step = "Picking"

(* A window the flow or a start hid is back once Klip is idle and waits,    *)
(* whichever way the start ended.                                           *)
WindowComesBack == pc = "wait" /\ state = "Idle" => window # "away"

(* Every wait but the user's own ends: the settling, and the portal that    *)
(* may never answer ("Every wait is a deadline or an answer").              *)
WaitsEnd == step \notin {"None", "Picking"} ~> step \in {"None", "Picking"}

(* A capture is asked for, and a screenshot, with everything Klip itself    *)
(* hid for it off the screen (docs/traps.md, "settle after every hide that  *)
(* a capture or a screenshot follows").                                     *)
Shoots == (capture' /\ ~capture) \/ asked' # asked

OwnHidesSettle == [][Shoots => fading \subseteq UserHides]_vars

(* Klip leaves with nothing listened for and no file in hand.               *)
CleanEnd == pc = "done" => slot = None /\ ~answered /\ selector = "closed"

(* The start is in order with the rest of Klip: one capture for it, and the *)
(* window, the selector and the screenshot put back however it ended.       *)
StartInvariant == TypeOK /\ OneCapturePerStart /\ WindowComesBack /\ CleanEnd

(* Nothing is left behind by a start: no wait of its own, and no file.      *)
StartsComplete == WaitsEnd /\ HandedFilesAreDeleted

-----------------------------------------------------------------------------
(* What the documentation says and the code does not do.                    *)

(* docs/traps.md:109: "settle after every hide that a capture or a          *)
(* screenshot follows". Every hide, the user's too.                         *)
EveryHideSettles == [][Shoots => fading = {}]_vars

(* start_flow.cpp:204: "Out of shot before the stream opens". A window the  *)
(* start took out of shot is not brought back into it by Klip itself.       *)
RevealSparesTheShot ==
  [][EndIteration /\ step = "SettlingBeforeCapture" => window' = window]_vars
=============================================================================

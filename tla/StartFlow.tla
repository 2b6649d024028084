----------------------------- MODULE StartFlow -----------------------------
(***************************************************************************)
(* The steps of a start: CStartFlow (src/src/app/private/start_flow.cpp)   *)
(* on the main thread, with the screenshot it asks the portal for          *)
(* (CScreenshot, src/src/capture/private/screenshot.cpp, served on the bus *)
(* thread) and the region selector (region_selector.cpp). The recorder is  *)
(* reduced to its state and its one capture request; module Recorder has   *)
(* the rest of it, and both implement module StartPhases.                  *)
(***************************************************************************)
EXTENDS Naturals

CONSTANT MaxShots         \* how many screenshots are ever asked for

ASSUME MaxShotsAssumption == MaxShots \in Nat

Shot == 1 .. MaxShots
None == 0

VARIABLES
  (* The main thread. *)
  pc,           \* where it is in CApplication::Run, or the Run it waits in
  state,        \* CRecorder::m_state
  capture,      \* CRecorder::RequestCapture was called and is not answered
  reveal,       \* CRecorder::m_reveal asks for the window
  step,         \* CStartFlow::m_step
  deadline,     \* CStartFlow::m_deadline: "none", "running", or "due"
  window,       \* the main window; "away" is hidden by Klip, "closed" by the user
  selector,     \* CRegionSelector: "closed", or its m_answer while it is open
  (* CScreenshot, shared with the bus thread. *)
  slot,         \* m_pSlot: the screenshot whose Response is listened for
  answered,     \* m_isAnswered
  path,         \* m_path: the screenshot whose file it names, or None
  (* The bus thread. *)
  task,         \* what Run handed over, and then what came of it
  waking,       \* it is between m_isAnswered.store and m_wake
  woken,        \* SDL's queue holds a wake event
  (* The world. *)
  asked,        \* how many screenshots have been asked for
  shot,         \* where each screenshot is
  fading        \* what was hidden a moment ago and is still on screen: the main
                \* window or the selector, hidden for a start, or either when
                \* the user "closed" or "dismissed" it

mainVars  == <<pc, state, capture, reveal>>
stepVars  == <<step, deadline, selector>>
slotVars  == <<slot, answered, path>>
busVars   == <<task, waking, woken>>
shotVars  == <<asked, shot>>
sceneVars == <<window, fading>>
vars == <<mainVars, stepVars, slotVars, busVars, shotVars, sceneVars>>

(* The life of a screenshot. "made" and "refused" are Responses on their    *)
(* way; "handed" is a file Klip was told of; "left" one it never will be.   *)
ShotState == {"none", "asked", "made", "refused", "handed", "deleted", "left", "over"}

UserHides == {"closed", "dismissed"}

Waits == {"asking", "cancelling", "leaving"}

TypeOK ==
  /\ pc \in {"wait", "requests", "update", "flow", "draw", "done"} \cup Waits
  /\ state \in {"Idle", "Starting", "Recording"}
  /\ capture \in BOOLEAN
  /\ reveal \in BOOLEAN
  /\ step \in {"None", "SettlingBeforeBackdrop", "AwaitingBackdrop", "Picking",
               "SettlingAfterPicker", "SettlingBeforeCapture"}
  /\ deadline \in {"none", "running", "due"}
  /\ window \in {"shown", "away", "closed"}
  /\ selector \in {"closed", "None", "Accepted", "Cancelled"}
  /\ slot \in Shot \cup {None}
  /\ answered \in BOOLEAN
  /\ path \in Shot \cup {None}
  /\ task \in {"none", "request", "cancel", "sent", "failed", "cancelled"}
  /\ waking \in BOOLEAN
  /\ woken \in BOOLEAN
  /\ asked \in 0 .. MaxShots
  /\ shot \in [Shot -> ShotState]
  /\ fading \subseteq {"main", "selector"} \cup UserHides

Init ==
  /\ pc = "wait"
  /\ state = "Idle"
  /\ capture = FALSE
  /\ reveal = FALSE
  /\ step = "None"
  /\ deadline = "none"
  /\ window = "shown"
  /\ selector = "closed"
  /\ slot = None
  /\ answered = FALSE
  /\ path = None
  /\ task = "none"
  /\ waking = FALSE
  /\ woken = FALSE
  /\ asked = 0
  /\ shot = [s \in Shot |-> "none"]
  /\ fading = {}

-----------------------------------------------------------------------------
(* Operations of CStartFlow, as the actions below call them.                *)

Settle(next) == step' = next /\ deadline' = "running"

Idle == step' = "None" /\ deadline' = "none"

HideMain ==
  /\ window' = IF window = "shown" THEN "away" ELSE window
  /\ fading' = IF window = "shown" THEN fading \cup {"main"} ELSE fading

ShowMain == window' = "shown" /\ fading' = fading \ {"main", "closed"}

(* Mutation of RequestCapture: the step goes on.                            *)
RequestCaptureAgain ==
  /\ capture' = TRUE
  /\ deadline' = "none"
  /\ UNCHANGED step

RequestCapture == Idle /\ capture' = TRUE

(* Begin: a window in shot is hidden and settles, if there is a tray to     *)
(* bring it back from.                                                      *)
Begin ==
  \/ /\ window = "shown"
     /\ HideMain
     /\ Settle("SettlingBeforeCapture")
     /\ UNCHANGED capture
  \/ /\ RequestCapture
     /\ UNCHANGED sceneVars

(* Mutation of Cancel: the window is left to the next reveal.               *)
CancelUnseen(hidden) ==
  /\ Idle
  /\ state' = "Idle"
  /\ fading' = fading \cup hidden
  /\ UNCHANGED window

(* Cancel, ShowHiddenWindow and CRecorder::CancelRecording, with what was   *)
(* hidden on the way.                                                       *)
Cancel(hidden) ==
  /\ Idle
  /\ state' = "Idle"
  /\ window' = "shown"
  /\ fading' = (fading \ {"main", "closed"}) \cup hidden

(* LoadBackdrop: the file, if there is one, is deleted, read or not.        *)
LoadBackdrop(file) ==
  shot' = [s \in Shot |-> IF s = file THEN "deleted" ELSE shot[s]]

(* Mutation of OpenSelector: the file is deleted only once it is shown.     *)
OpenSelectorKeeping(file) ==
  \/ /\ LoadBackdrop(file)
     /\ selector' = "None"
     /\ step' = "Picking"
     /\ deadline' = "none"
     /\ UNCHANGED <<state, sceneVars>>
  \/ /\ UNCHANGED <<selector, shot>>
     /\ Cancel({})

(* OpenSelector: the file is read before the selector opens, or fails to.   *)
OpenSelector(file) ==
  /\ LoadBackdrop(file)
  /\ \/ /\ selector' = "None"
        /\ step' = "Picking"
        /\ deadline' = "none"
        /\ UNCHANGED <<state, sceneVars>>
     \/ /\ UNCHANGED selector
        /\ Cancel({})

(* Close of an open selector; hidden, it is still on screen for a moment.   *)
CloseSelector == selector' = "closed" /\ fading' = fading \cup {"selector"}

-----------------------------------------------------------------------------
(* CApplication::Run, on the main thread.                                   *)

BeginIteration ==
  /\ pc = "wait"
  /\ pc' = "requests"
  /\ woken' = FALSE
  /\ UNCHANGED <<state, capture, reveal, stepVars, slotVars, task, waking, shotVars,
                 sceneVars>>

(* A drag large enough, or Esc or the close button; the last one counts.    *)
AnswerSelector ==
  /\ pc = "requests"
  /\ selector # "closed"
  /\ selector' \in {"Accepted", "Cancelled"}
  /\ UNCHANGED <<mainVars, step, deadline, slotVars, busVars, shotVars, sceneVars>>

CloseWindow ==
  /\ pc = "requests"
  /\ window = "shown"
  /\ window' = "closed"
  /\ fading' = fading \cup {"closed"}
  /\ UNCHANGED <<mainVars, stepVars, slotVars, busVars, shotVars>>

(* A Show from the tray or from a second instance.                          *)
ShowWindow ==
  /\ pc = "requests"
  /\ ShowMain
  /\ UNCHANGED <<mainVars, stepVars, slotVars, busVars, shotVars>>

CanToggle ==
  \/ pc = "requests"
  \/ pc = "draw" /\ window = "shown"

ToggleStop ==
  /\ CanToggle
  /\ state = "Recording"
  /\ state' = "Idle"
  /\ reveal' = TRUE
  /\ UNCHANGED <<pc, capture, stepVars, slotVars, busVars, shotVars, sceneVars>>

(* Mutation of ToggleStart: a start on its way does not stop another one.   *)
ToggleStartAgain ==
  /\ CanToggle
  /\ state # "Recording"
  /\ state' = "Starting"
  /\ Begin
  /\ UNCHANGED <<pc, reveal, selector, slotVars, busVars, shotVars>>

(* A start of a screen or a window, once PrepareRecording agreed.           *)
ToggleStart ==
  /\ CanToggle
  /\ state = "Idle"
  /\ step = "None"
  /\ state' = "Starting"
  /\ Begin
  /\ UNCHANGED <<pc, reveal, selector, slotVars, busVars, shotVars>>

(* A start of a region. The window is hidden, tray or not.                  *)
ToggleRegion ==
  /\ CanToggle
  /\ state = "Idle"
  /\ step = "None"
  /\ asked < MaxShots
  /\ state' = "Starting"
  /\ HideMain
  /\ Settle("SettlingBeforeBackdrop")
  /\ UNCHANGED <<pc, capture, reveal, selector, slotVars, busVars, shotVars>>

TakeRequests ==
  /\ pc = "requests"
  /\ pc' = "update"
  /\ UNCHANGED <<state, capture, reveal, stepVars, slotVars, busVars, shotVars, sceneVars>>

(* CRecorder::Update: the capture is granted or not, a recording is over,   *)
(* or there is nothing to take.                                             *)
UpdateRecorder ==
  /\ pc = "update"
  /\ pc' = "flow"
  /\ \/ UNCHANGED <<state, capture, reveal>>
     \/ /\ capture
        /\ capture' = FALSE
        /\ \/ state' = "Recording" /\ UNCHANGED reveal
           \/ state' = "Idle" /\ reveal' = TRUE
     \/ /\ state = "Recording"
        /\ state' = "Idle"
        /\ reveal' = TRUE
        /\ UNCHANGED capture
  /\ UNCHANGED <<stepVars, slotVars, busVars, shotVars, sceneVars>>

EndIteration ==
  /\ pc = "draw"
  /\ pc' = "wait"
  /\ reveal' = FALSE
  /\ IF reveal THEN ShowMain ELSE UNCHANGED sceneVars
  /\ UNCHANGED <<state, capture, stepVars, slotVars, busVars, shotVars>>

-----------------------------------------------------------------------------
(* CStartFlow::Update, once an iteration.                                   *)

(* What a step waits for has come.                                          *)
Ready ==
  \/ step = "AwaitingBackdrop" /\ answered
  \/ step = "Picking" /\ selector # "None"
  \/ step \notin {"None", "Picking"} /\ deadline = "due"

WaitOn ==
  /\ pc = "flow"
  /\ ~Ready
  /\ pc' = "draw"
  /\ UNCHANGED <<state, capture, reveal, stepVars, slotVars, busVars, shotVars, sceneVars>>

(* CScreenshot::Request, up to its Run.                                     *)
AskForShot ==
  /\ pc = "flow"
  /\ step = "SettlingBeforeBackdrop"
  /\ deadline = "due"
  /\ pc' = "asking"
  /\ deadline' = "none"
  /\ answered' = FALSE
  /\ path' = None
  /\ task' = "request"
  /\ UNCHANGED <<state, capture, reveal, step, selector, slot, waking, woken, shotVars,
                 sceneVars>>

(* Mutation of ShotAsked: the portal is waited for without a deadline.      *)
ShotAwaited ==
  /\ pc = "asking"
  /\ task = "sent"
  /\ task' = "none"
  /\ pc' = "draw"
  /\ step' = "AwaitingBackdrop"
  /\ UNCHANGED <<state, capture, reveal, deadline, selector, slotVars, waking, woken,
                 shotVars, sceneVars>>

ShotAsked ==
  /\ pc = "asking"
  /\ task = "sent"
  /\ task' = "none"
  /\ pc' = "draw"
  /\ step' = "AwaitingBackdrop"
  /\ deadline' = "running"
  /\ UNCHANGED <<state, capture, reveal, selector, slotVars, waking, woken, shotVars,
                 sceneVars>>

ShotFailed ==
  /\ pc = "asking"
  /\ task = "failed"
  /\ task' = "none"
  /\ pc' = "draw"
  /\ OpenSelector(None)
  /\ UNCHANGED <<capture, reveal, slotVars, waking, woken, asked>>

TakeShot ==
  /\ pc = "flow"
  /\ step = "AwaitingBackdrop"
  /\ answered
  /\ answered' = FALSE
  /\ path' = None
  /\ pc' = "draw"
  /\ OpenSelector(path)
  /\ UNCHANGED <<capture, reveal, slot, busVars, asked>>

(* The portal's patience is over: CScreenshot::Cancel, up to its Run.       *)
GiveUp ==
  /\ pc = "flow"
  /\ step = "AwaitingBackdrop"
  /\ ~answered
  /\ deadline = "due"
  /\ pc' = "cancelling"
  /\ task' = "cancel"
  /\ UNCHANGED <<state, capture, reveal, stepVars, slotVars, waking, woken, shotVars,
                 sceneVars>>

(* Mutation of GivenUp: an answer that came meanwhile is not looked at.     *)
GivenUpBlindly ==
  /\ pc = "cancelling"
  /\ task = "cancelled"
  /\ task' = "none"
  /\ pc' = "draw"
  /\ OpenSelector(None)
  /\ UNCHANGED <<capture, reveal, slotVars, waking, woken, asked>>

(* The rest of Cancel: an answer that came meanwhile is deleted unread.     *)
GivenUp ==
  /\ pc = "cancelling"
  /\ task = "cancelled"
  /\ task' = "none"
  /\ pc' = "draw"
  /\ answered' = FALSE
  /\ path' = IF answered THEN None ELSE path
  /\ OpenSelector(IF answered THEN path ELSE None)
  /\ UNCHANGED <<capture, reveal, slot, waking, woken, asked>>

(* Mutation of Accept: the selector is not given time to fade.              *)
AcceptAtOnce ==
  /\ pc = "flow"
  /\ step = "Picking"
  /\ selector = "Accepted"
  /\ pc' = "draw"
  /\ RequestCapture
  /\ CloseSelector
  /\ UNCHANGED <<state, reveal, window, slotVars, busVars, shotVars>>

Accept ==
  /\ pc = "flow"
  /\ step = "Picking"
  /\ selector = "Accepted"
  /\ pc' = "draw"
  /\ CloseSelector
  /\ Settle("SettlingAfterPicker")
  /\ UNCHANGED <<state, capture, reveal, window, slotVars, busVars, shotVars>>

Dismiss ==
  /\ pc = "flow"
  /\ step = "Picking"
  /\ selector = "Cancelled"
  /\ pc' = "draw"
  /\ selector' = "closed"
  /\ Cancel({"dismissed"})
  /\ UNCHANGED <<capture, reveal, slotVars, busVars, shotVars>>

BeginPicked ==
  /\ pc = "flow"
  /\ step = "SettlingAfterPicker"
  /\ deadline = "due"
  /\ pc' = "draw"
  /\ Begin
  /\ UNCHANGED <<state, reveal, selector, slotVars, busVars, shotVars>>

Ask ==
  /\ pc = "flow"
  /\ step = "SettlingBeforeCapture"
  /\ deadline = "due"
  /\ pc' = "draw"
  /\ RequestCapture
  /\ UNCHANGED <<state, reveal, selector, slotVars, busVars, shotVars, sceneVars>>

UpdateFlow ==
  \/ WaitOn \/ AskForShot \/ ShotAsked \/ ShotFailed \/ TakeShot \/ GiveUp \/ GivenUp
  \/ Accept \/ Dismiss \/ BeginPicked \/ Ask

-----------------------------------------------------------------------------
(* CApplication::Terminate: CStartFlow::Terminate, whose Run waits for the  *)
(* bus thread, and then the recorder's.                                     *)

(* Mutation of LeaveIdle: the start flow is not terminated.                 *)
LeaveAnyway ==
  /\ pc \in {"wait", "requests"}
  /\ pc' = "done"
  /\ UNCHANGED <<state, capture, reveal, stepVars, slotVars, busVars, shotVars, sceneVars>>

LeaveIdle ==
  /\ pc \in {"wait", "requests"}
  /\ step = "None"
  /\ pc' = "done"
  /\ IF state = "Recording" THEN state' = "Idle" /\ reveal' = TRUE
                            ELSE UNCHANGED <<state, reveal>>
  /\ UNCHANGED <<capture, stepVars, slotVars, busVars, shotVars, sceneVars>>

Leave ==
  /\ pc \in {"wait", "requests"}
  /\ step # "None"
  /\ pc' = "leaving"
  /\ task' = "cancel"
  /\ UNCHANGED <<state, capture, reveal, stepVars, slotVars, waking, woken, shotVars,
                 sceneVars>>

Left ==
  /\ pc = "leaving"
  /\ task = "cancelled"
  /\ task' = "none"
  /\ pc' = "done"
  /\ answered' = FALSE
  /\ path' = IF answered THEN None ELSE path
  /\ shot' = [s \in Shot |-> IF answered /\ s = path THEN "deleted" ELSE shot[s]]
  /\ Idle
  /\ selector' = "closed"
  /\ UNCHANGED <<state, capture, reveal, slot, waking, woken, asked, sceneVars>>

-----------------------------------------------------------------------------
(* The bus thread.                                                          *)

(* Mutation of SendRequest: the match and the call each make a token.       *)
SendUnmatched ==
  /\ task = "request"
  /\ ~waking
  /\ task' = "sent"
  /\ asked' = asked + 1
  /\ slot' = asked + 2
  /\ shot' = [shot EXCEPT ![asked + 1] = "asked"]
  /\ UNCHANGED <<mainVars, stepVars, answered, path, waking, woken, sceneVars>>

(* The task of CScreenshot::Request. A call that failed may have reached    *)
(* the portal all the same.                                                 *)
SendRequest ==
  /\ task = "request"
  /\ ~waking
  /\ asked' = asked + 1
  /\ \/ /\ task' = "sent"
        /\ slot' = asked + 1
        /\ shot' = [shot EXCEPT ![asked + 1] = "asked"]
     \/ /\ task' = "failed"
        /\ slot' = None
        /\ \E s \in {"asked", "over"} : shot' = [shot EXCEPT ![asked + 1] = s]
  /\ UNCHANGED <<mainVars, stepVars, answered, path, waking, woken, sceneVars>>

(* Mutation of DropSlot: the subscription stays.                            *)
DropNothing ==
  /\ task = "cancel"
  /\ ~waking
  /\ task' = "cancelled"
  /\ UNCHANGED <<mainVars, stepVars, slotVars, waking, woken, shotVars, sceneVars>>

(* The task of CScreenshot::Cancel.                                         *)
DropSlot ==
  /\ task = "cancel"
  /\ ~waking
  /\ task' = "cancelled"
  /\ slot' = None
  /\ UNCHANGED <<mainVars, stepVars, answered, path, waking, woken, shotVars, sceneVars>>

(* Mutation of OnResponse: only a file is worth a wake.                     *)
OnResponseQuietly(s) ==
  /\ ~waking
  /\ slot = s
  /\ shot[s] \in {"made", "refused"}
  /\ slot' = None
  /\ answered' = TRUE
  /\ path' = IF shot[s] = "made" THEN s ELSE path
  /\ shot' = [shot EXCEPT ![s] = IF @ = "made" THEN "handed" ELSE "over"]
  /\ waking' = (shot[s] = "made")
  /\ UNCHANGED <<mainVars, stepVars, task, woken, asked, sceneVars>>

(* CScreenshot::OnResponse, up to the wake. A refusal, or a file that is    *)
(* not local, is an answer with no path.                                    *)
OnResponse(s) ==
  /\ ~waking
  /\ slot = s
  /\ shot[s] \in {"made", "refused"}
  /\ slot' = None
  /\ answered' = TRUE
  /\ path' = IF shot[s] = "made" THEN s ELSE path
  /\ shot' = [shot EXCEPT ![s] = IF @ = "made" THEN "handed" ELSE "over"]
  /\ waking' = TRUE
  /\ UNCHANGED <<mainVars, stepVars, task, woken, asked, sceneVars>>

(* A Response nobody listens for any more.                                  *)
Ignore(s) ==
  /\ ~waking
  /\ slot # s
  /\ shot[s] \in {"made", "refused"}
  /\ shot' = [shot EXCEPT ![s] = IF @ = "made" THEN "left" ELSE "over"]
  /\ UNCHANGED <<mainVars, stepVars, slotVars, busVars, asked, sceneVars>>

Wake ==
  /\ waking
  /\ waking' = FALSE
  /\ woken' = TRUE
  /\ UNCHANGED <<mainVars, stepVars, slotVars, task, shotVars, sceneVars>>

-----------------------------------------------------------------------------
(* The portal, the compositor and the clock.                                *)

PortalAnswers(s) ==
  /\ shot[s] = "asked"
  /\ \E answer \in {"made", "refused"} : shot' = [shot EXCEPT ![s] = answer]
  /\ UNCHANGED <<mainVars, stepVars, slotVars, busVars, asked, sceneVars>>

Fade(w) ==
  /\ w \in fading
  /\ fading' = fading \ {w}
  /\ UNCHANGED <<mainVars, stepVars, slotVars, busVars, shotVars, window>>

(* HideSettle, 250 ms, outlasts the animation of the hide it settles, which *)
(* takes about 150 ms; ScreenshotPatience outlasts nothing in particular.   *)
DeadlinePasses ==
  /\ deadline = "running"
  /\ step = "AwaitingBackdrop" \/ fading \subseteq UserHides
  /\ deadline' = "due"
  /\ UNCHANGED <<mainVars, step, selector, slotVars, busVars, shotVars, sceneVars>>

-----------------------------------------------------------------------------
User  == AnswerSelector \/ CloseWindow \/ ShowWindow \/ ToggleStop \/ ToggleStart
         \/ ToggleRegion
Loop  == TakeRequests \/ UpdateRecorder \/ UpdateFlow \/ EndIteration
Exit  == LeaveIdle \/ Leave \/ Left
Tasks == SendRequest \/ DropSlot
Bus   == Tasks \/ Wake \/ \E s \in Shot : OnResponse(s) \/ Ignore(s)
World == DeadlinePasses \/ (\E s \in Shot : PortalAnswers(s)) \/ \E w \in fading : Fade(w)

Next == BeginIteration \/ User \/ Loop \/ Exit \/ Bus \/ World

(* GetNextDeadline and the wake event: what ends the wait for events when   *)
(* no input does.                                                           *)
Due == woken \/ deadline = "due" \/ state = "Recording"

(* The main thread and the bus thread go on, time passes and hides fade.    *)
(* The portal may never answer, and the user may never do anything.         *)
Spec ==
  /\ Init
  /\ [][Next]_vars
  /\ WF_vars(Due /\ BeginIteration)
  /\ WF_vars(Loop)
  /\ WF_vars(Left)
  /\ WF_vars(Tasks)
  /\ WF_vars(Wake)
  /\ \A w \in {"main", "selector"} : WF_vars(Fade(w))
  /\ SF_vars(DeadlinePasses)
=============================================================================

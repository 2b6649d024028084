-------------------------------- MODULE Tray --------------------------------
(***************************************************************************)
(* CTray between three parties: the main thread, which posts what the      *)
(* recorder has to say and takes the requests that come back; the bus      *)
(* thread, which owns the item and its menu; and the panel, which caches   *)
(* what it read and reads again when it is told to.  A second Klip is a    *)
(* caller of its own on the same bus thread (CSingleInstance::OnActivate). *)
(*                                                                         *)
(* Of the recorder there is what the tray shows and what a request can do; *)
(* Recorder and StartFlow have the rest.                                   *)
(***************************************************************************)
EXTENDS Naturals, Sequences, FiniteSets

CONSTANTS
  Tokens,                 \* activation tokens the panel or a second Klip may hand over
  None,                   \* no token, nothing read yet
  MaxStarts,              \* how many starts are toggled, at most
  MaxTicks,               \* how many seconds the recordings last, at most
  MaxClicks,              \* how often the user turns to the panel or to a second Klip
  MaxRestarts             \* how often the panel starts over

VARIABLES
  at,                     \* the main thread: in Initialize, in its loop, or in Terminate
  state,                  \* CRecorder::m_state, with a region's picking apart
  window,                 \* the main window: "shown" or "hidden"
  quitting,               \* m_isQuitting
  token,                  \* m_activationToken
  taken,                  \* isTokenTaken of the pass under way
  requests,               \* m_requests
  woken,                  \* a wake event waits in SDL's queue
  tasks,                  \* what the main thread posted to the bus thread
  handing,                \* the requests a bus handler has still to hand over
  waking,                 \* the bus thread is between Enqueue and Wake
  serving,                \* the item and its menu are published, with m_onRequest set
  available,              \* m_available
  recording, label, detail,  \* what the tray publishes
  calls,                  \* calls on their way to Klip
  out,                    \* signals and replies on their way to the panel, in order
  view,                   \* what the panel shows
  used,                   \* history: what the last Show was given, and was meant to be
  starts, ticks, clicks, restarts  \* the bounds

mainVars == <<at, state, window, quitting, token, taken, used, starts, ticks>>
queueVars == <<requests, woken, handing, waking>>
trayVars == <<serving, available, recording, label, detail>>
panelVars == <<calls, out, view, clicks, restarts>>
vars == <<mainVars, queueVars, tasks, trayVars, panelVars>>

(* A label and a detail are the second they show; 0 is "Klip", and nothing. *)
Clocks == 0 .. MaxTicks
Idle == 0

(* The menu's items by what they ask for; the first says what it will do.   *)
MenuItems == {"Toggle", "Show", "Quit"}
MenuProperties(id, r) == IF id = "Toggle" /\ r THEN "Stop" ELSE id

ASSUME BoundsAssumption == {MaxStarts, MaxTicks, MaxClicks, MaxRestarts} \subseteq Nat

(* No menu that was read is taken for none.                                 *)
ASSUME NoneAssumption ==
  /\ None \notin Tokens
  /\ \A r \in BOOLEAN : None # [id \in MenuItems |-> MenuProperties(id, r)]

(* What a panel shows of the item: each part carries what it was read with. *)
Shown(r, l, d) ==
  [Icon |-> r, Title |-> r, ToolTip |-> <<r, d>>, Label |-> l,
   Menu |-> [id \in MenuItems |-> MenuProperties(id, r)]]

Parts == {"Icon", "Title", "ToolTip", "Menu", "Label"}

Requests ==
  [kind : {"Toggle", "Quit"}, token : {None}]
    \cup [kind : {"Show", "ActivationToken"}, token : Tokens \cup {None}]

TypeOK ==
  /\ at \in {"initializing", "waiting", "taking", "terminating", "gone"}
  /\ state \in {"Idle", "Picking", "Starting", "Recording"}
  /\ window \in {"shown", "hidden"}
  /\ {quitting, taken, woken, waking, serving, available, recording} \subseteq BOOLEAN
  /\ token \in Tokens \cup {None}
  /\ requests \in Seq(Requests) /\ handing \in Seq(Requests)
  /\ {label, detail} \subseteq Clocks
  /\ DOMAIN view = Parts
  /\ available => serving

Init ==
  /\ at = "initializing" /\ state = "Idle" /\ window = "shown"
  /\ quitting = FALSE /\ token = None /\ taken = FALSE
  /\ requests = <<>> /\ woken = FALSE /\ tasks = <<>>
  /\ handing = <<>> /\ waking = FALSE
  /\ serving = FALSE /\ available = FALSE
  /\ recording = FALSE /\ label = Idle /\ detail = Idle
  /\ calls = <<>> /\ out = <<>> /\ view = [p \in Parts |-> None]
  /\ used = [given |-> None, meant |-> None]
  /\ starts = 0 /\ ticks = 0 /\ clicks = 0 /\ restarts = 0

Post(more) == tasks' = tasks \o more

-----------------------------------------------------------------------------
(* The main thread.                                                         *)

(* Initialize waits for its task, so it is one step: the item is published  *)
(* or not, and the watcher takes it or not.                                 *)
Initialize ==
  /\ at = "initializing"
  /\ at' = "waiting"
  /\ serving' \in BOOLEAN
  /\ available' \in (IF serving' THEN BOOLEAN ELSE {FALSE})
  /\ calls' = IF available' THEN Append(calls, [op |-> "Read", parts |-> Parts]) ELSE calls
  /\ UNCHANGED <<state, window, quitting, token, taken, used, starts, ticks, queueVars, tasks,
                 recording, label, detail, out, view, clicks, restarts>>

(* WaitForEvents: a wake, a deadline, or something the user did.            *)
WaitForEvents ==
  /\ at = "waiting" /\ ~quitting
  /\ woken \/ state # "Idle"
  /\ woken' = FALSE
  /\ at' = "taking" /\ taken' = FALSE
  /\ UNCHANGED <<state, window, quitting, token, used, starts, ticks, requests, handing, waking,
                 tasks, trayVars, panelVars>>

(* Closing the window hides it where a tray can bring it back.              *)
CloseWindow ==
  /\ at = "waiting" /\ ~quitting /\ window = "shown"
  /\ IF available THEN window' = "hidden" /\ UNCHANGED quitting
                  ELSE quitting' = TRUE /\ UNCHANGED window
  /\ woken' = FALSE
  /\ at' = "taking" /\ taken' = FALSE
  /\ UNCHANGED <<state, token, used, starts, ticks, requests, handing, waking, tasks,
                 trayVars, panelVars>>

SetRecording(r) == [op |-> "SetRecording", to |-> r]
SetLabel(l) == [op |-> "SetLabel", to |-> l]
SetDetail(d) == [op |-> "SetDetail", to |-> d]

(* Mutation of Stopped: the tray is told of failures only.                  *)
StoppedQuietly == state' = "Idle" /\ Post(IF state = "Recording" THEN <<>> ELSE <<SetRecording(FALSE)>>)

(* A recording that begins or ends is posted, from OnStarted and            *)
(* ShowIdleState.                                                           *)
Begun == state' = "Recording" /\ Post(<<SetRecording(TRUE)>>)
Stopped == state' = "Idle" /\ Post(<<SetRecording(FALSE)>>)

(* CStartFlow::Begin: out of shot, where a tray can bring the window back.  *)
Begin ==
  /\ state' = "Starting"
  /\ window' = IF available THEN "hidden" ELSE window

(* CStartFlow::Toggle.  A region hides the window for its backdrop whether  *)
(* there is a tray or not.                                                  *)
Toggle ==
  \/ /\ state = "Recording"
     /\ Stopped
     /\ window' = "shown"                \* the reveal at the end of the pass
     /\ UNCHANGED starts
  \/ /\ state = "Idle" /\ starts < MaxStarts
     /\ starts' = starts + 1
     /\ \/ Begin
        \/ state' = "Picking" /\ window' = "hidden"
     /\ UNCHANGED tasks
  \/ /\ state \in {"Picking", "Starting"} \/ (state = "Idle" /\ starts = MaxStarts)
     /\ UNCHANGED <<state, window, starts, tasks>>

(* PresentWindow with the token that came, which is then gone.              *)
Show(request) ==
  /\ window' = "shown"
  /\ used' = [given |-> token, meant |-> request.token]
  /\ token' = None

(* Mutation of TakeRequest: a Quit does not end the loop.                   *)
TakeRequestToTheEnd ==
  /\ at = "taking" /\ requests # <<>>
  /\ LET request == Head(requests)
     IN  /\ requests' = Tail(requests)
         /\ \/ /\ request.kind = "Toggle" /\ Toggle
               /\ UNCHANGED <<quitting, token, used>>
            \/ /\ request.kind = "Quit"
               /\ quitting' = TRUE
               /\ UNCHANGED <<state, window, token, used, starts, tasks>>
  /\ UNCHANGED <<at, taken, ticks, woken, handing, waking, trayVars, panelVars>>

(* One turn of the loop in TakeRequests.                                    *)
TakeRequest ==
  /\ at = "taking" /\ ~quitting /\ requests # <<>>
  /\ LET request == Head(requests)
     IN  /\ requests' = Tail(requests)
         /\ taken' = (taken \/ request.kind # "ActivationToken")
         /\ \/ /\ request.kind = "ActivationToken"
               /\ token' = request.token
               /\ UNCHANGED <<state, window, quitting, used, starts, tasks>>
            \/ /\ request.kind = "Show" /\ Show(request)
               /\ UNCHANGED <<state, quitting, starts, tasks>>
            \/ /\ request.kind = "Toggle" /\ Toggle
               /\ UNCHANGED <<quitting, token, used>>
            \/ /\ request.kind = "Quit"
               /\ quitting' = TRUE
               /\ UNCHANGED <<state, window, token, used, starts, tasks>>
  /\ UNCHANGED <<at, ticks, woken, handing, waking, trayVars, panelVars>>

(* OnTick finds no deadline once StopRecording has reset it.                *)
OnTick ==
  /\ state = "Recording" /\ ticks < MaxTicks
  /\ ticks' = ticks + 1
  /\ Post(<<SetLabel(ticks'), SetDetail(ticks')>>)
  /\ UNCHANGED <<state, window, starts>>

(* What Update, the start flow and the window's own button may do in a      *)
(* pass: a recording begins, fails, ticks or is withdrawn, a region is      *)
(* picked or given up, the button is pressed, or none of it.                *)

(* Mutation of Updates: the tick is not taken back by the stop before it.   *)
UpdatesTickingOn ==
  \/ OnTick
  \/ state = "Starting" /\ Begun /\ UNCHANGED <<window, starts, ticks>>
  \/ /\ state = "Recording" /\ ticks < MaxTicks
     /\ ticks' = ticks + 1 /\ state' = "Idle" /\ window' = "shown" /\ UNCHANGED starts
     /\ Post(<<SetRecording(FALSE), SetLabel(ticks'), SetDetail(ticks')>>)
  \/ UNCHANGED <<state, window, starts, ticks, tasks>>

Updates ==
  \/ OnTick
  \/ state = "Starting" /\ Begun /\ UNCHANGED <<window, starts, ticks>>
  \/ state = "Picking" /\ Begin /\ UNCHANGED <<starts, ticks, tasks>>
  \/ state # "Idle" /\ Stopped /\ window' = "shown" /\ UNCHANGED <<starts, ticks>>
  \/ window = "shown" /\ Toggle /\ UNCHANGED ticks
  \/ UNCHANGED <<state, window, starts, ticks, tasks>>

(* The rest of the pass.  A token that was taken is cleared with it.        *)
EndPass ==
  /\ at = "taking" /\ ~quitting /\ requests = <<>>
  /\ at' = "waiting"
  /\ Updates
  /\ token' = IF taken THEN None ELSE token
  /\ UNCHANGED <<quitting, taken, used, queueVars, trayVars, panelVars>>

(* CRecorder::Terminate: a recording in progress is stopped, and the tray's *)
(* own Terminate is waited for behind it.                                   *)
Terminate ==
  /\ at = "taking" /\ quitting
  /\ at' = "terminating" /\ state' = "Idle"
  /\ Post((IF state = "Recording" THEN <<SetRecording(FALSE)>> ELSE <<>>)
             \o <<[op |-> "Terminate", to |-> None]>>)
  /\ UNCHANGED <<window, quitting, token, taken, used, starts, ticks, queueVars,
                 trayVars, panelVars>>

-----------------------------------------------------------------------------
(* The bus thread.                                                          *)

BusIdle == handing = <<>> /\ ~waking

Signal(name) == [name |-> name, to |-> None]

(* ItemsPropertiesUpdated carries the one item that changes, and            *)
(* XAyatanaNewLabel the label.                                              *)
Carrying(name, value) == [name |-> name, to |-> value]

Announce(signals) == out' = IF available THEN out \o signals ELSE out

LabelSignals(l) == IF l # label THEN <<Carrying("Label", l)>> ELSE <<>>
DetailSignals(d) == IF d # detail THEN <<Signal("ToolTip")>> ELSE <<>>

(* Mutation of ApplyRecording: the tooltip's new title goes unannounced.    *)
ApplyRecordingUntold(r) ==
  IF r = recording THEN UNCHANGED <<recording, label, detail, out>>
  ELSE /\ recording' = r
       /\ label' = IF r THEN label ELSE Idle
       /\ detail' = IF r THEN detail ELSE Idle
       /\ Announce(<<Signal("Icon"), Signal("Title"), Carrying("Menu", MenuProperties("Toggle", r))>>
                     \o (IF r THEN <<>> ELSE LabelSignals(Idle) \o DetailSignals(Idle)))

(* A recording that has ended takes its label and its detail with it.       *)
ApplyRecording(r) ==
  IF r = recording THEN UNCHANGED <<recording, label, detail, out>>
  ELSE /\ recording' = r
       /\ label' = IF r THEN label ELSE Idle
       /\ detail' = IF r THEN detail ELSE Idle
       /\ Announce(<<Signal("Icon"), Signal("Title"), Signal("ToolTip"), Carrying("Menu", MenuProperties("Toggle", r))>>
                     \o (IF r THEN <<>> ELSE LabelSignals(Idle) \o DetailSignals(Idle)))

ApplyLabel(l) ==
  /\ label' = l
  /\ Announce(LabelSignals(l))
  /\ UNCHANGED <<recording, detail>>

ApplyDetail(d) ==
  /\ detail' = d
  /\ Announce(DetailSignals(d))
  /\ UNCHANGED <<recording, label>>

(* Mutation of Unpublish: the item is gone, and still said to be available. *)
UnpublishHalf ==
  /\ serving' = FALSE /\ recording' = FALSE /\ label' = Idle /\ detail' = Idle
  /\ at' = "gone"
  /\ UNCHANGED <<available, out>>

(* Mutation of Unpublish: the item's slots are left on the bus.             *)
UnpublishNothing ==
  /\ available' = FALSE /\ recording' = FALSE /\ label' = Idle /\ detail' = Idle
  /\ at' = "gone"
  /\ UNCHANGED <<serving, out>>

(* The tray's Terminate: unpublished, and nothing left of the last run.     *)
Unpublish ==
  /\ serving' = FALSE /\ available' = FALSE
  /\ recording' = FALSE /\ label' = Idle /\ detail' = Idle
  /\ at' = "gone"                         \* the main thread waited for it
  /\ UNCHANGED out

RunTask ==
  /\ BusIdle /\ tasks # <<>>
  /\ tasks' = Tail(tasks)
  /\ LET task == Head(tasks)
     IN  \/ /\ task.op = "SetRecording" /\ ApplyRecording(task.to)
            /\ UNCHANGED <<at, serving, available>>
         \/ /\ task.op = "SetLabel" /\ ApplyLabel(task.to)
            /\ UNCHANGED <<at, serving, available>>
         \/ /\ task.op = "SetDetail" /\ ApplyDetail(task.to)
            /\ UNCHANGED <<at, serving, available>>
         \/ task.op = "Terminate" /\ Unpublish
  /\ UNCHANGED <<state, window, quitting, token, taken, used, starts, ticks, queueVars,
                 calls, view, clicks, restarts>>

(* A click becomes one request: OnRequest, OnProvideActivationToken, OnEvent. *)
Asked(call) == <<[kind |-> call.op, token |-> call.token]>>

(* A call is answered from what is published at that moment.  An object     *)
(* that is gone answers nothing the panel could show.                       *)
HandleCall ==
  /\ BusIdle /\ calls # <<>>
  /\ calls' = Tail(calls)
  /\ LET call == Head(calls)
     IN  IF call.op = "Read"
           THEN /\ out' = IF serving
                            THEN Append(out, Carrying("Reply",
                                   [p \in call.parts |-> Shown(recording, label, detail)[p]]))
                            ELSE out
                /\ UNCHANGED handing
           ELSE /\ handing' = IF serving THEN Asked(call) ELSE <<>>
                /\ UNCHANGED out
  /\ UNCHANGED <<mainVars, tasks, trayVars, requests, woken, waking, view, clicks, restarts>>

(* A second Klip asks for the window: a call of its own connection, between *)
(* any two of the panel's.  Its token comes before the Show it sanctions.   *)
OnActivate ==
  /\ BusIdle /\ at \in {"waiting", "taking"} /\ clicks < MaxClicks
  /\ clicks' = clicks + 1
  /\ \E t \in Tokens \cup {None} :
       handing' = (IF t = None THEN <<>> ELSE <<[kind |-> "ActivationToken", token |-> t]>>)
                    \o <<[kind |-> "Show", token |-> t]>>
  /\ UNCHANGED <<mainVars, tasks, trayVars, requests, woken, waking, calls, out, view, restarts>>

(* Mutation of Enqueue: only a request that starts or stops wakes.          *)
EnqueueQuietly ==
  /\ ~waking /\ handing # <<>>
  /\ requests' = Append(requests, Head(handing))
  /\ handing' = Tail(handing)
  /\ waking' = (Head(handing).kind = "Toggle")
  /\ UNCHANGED <<mainVars, woken, tasks, trayVars, panelVars>>

(* CApplication::Request: the request is queued, then the main thread woken. *)
Enqueue ==
  /\ ~waking /\ handing # <<>>
  /\ requests' = Append(requests, Head(handing))
  /\ handing' = Tail(handing)
  /\ waking' = TRUE
  /\ UNCHANGED <<mainVars, woken, tasks, trayVars, panelVars>>

Wake ==
  /\ waking /\ waking' = FALSE
  /\ woken' = TRUE
  /\ UNCHANGED <<mainVars, requests, handing, tasks, trayVars, panelVars>>

-----------------------------------------------------------------------------
(* The panel and the user, neither of them in this repository.              *)

(* The panel takes a value that came, or reads what it was told has changed. *)
PanelHears ==
  /\ out # <<>>
  /\ out' = Tail(out)
  /\ LET heard == Head(out)
     IN  IF heard.name = "Reply"
           THEN /\ view' = [p \in Parts |-> IF p \in DOMAIN heard.to THEN heard.to[p] ELSE view[p]]
                /\ UNCHANGED calls
           ELSE IF heard.name = "Label" THEN view' = [view EXCEPT !.Label = heard.to] /\ UNCHANGED calls
           ELSE IF heard.name = "Menu"
                  THEN /\ view' = IF view.Menu = None THEN view
                                  ELSE [view EXCEPT !.Menu["Toggle"] = heard.to]
                       /\ UNCHANGED calls
                  ELSE calls' = Append(calls, [op |-> "Read", parts |-> {heard.name}])
                       /\ UNCHANGED view
  /\ UNCHANGED <<mainVars, queueVars, tasks, trayVars, clicks, restarts>>

(* The panel is disabled with the lock screen and scans the bus afterwards. *)
PanelRestarts ==
  /\ serving /\ restarts < MaxRestarts
  /\ restarts' = restarts + 1
  /\ view' = [p \in Parts |-> None]
  /\ out' = <<>>
  /\ calls' = Append(calls, [op |-> "Read", parts |-> Parts])
  /\ UNCHANGED <<mainVars, queueVars, tasks, trayVars, clicks>>

Click(op, t) == [op |-> op, token |-> t]

(* A click on the item or in its menu, with a token in a call of its own    *)
(* before it or without one.                                                *)
UserActs ==
  /\ serving /\ clicks < MaxClicks
  /\ clicks' = clicks + 1
  /\ \/ \E op \in {"Toggle", "Show", "Quit"} : calls' = Append(calls, Click(op, None))
     \/ \E t \in Tokens : calls' = calls \o <<Click("ActivationToken", t), Click("Show", t)>>
  /\ UNCHANGED <<mainVars, queueVars, tasks, trayVars, out, view, restarts>>

-----------------------------------------------------------------------------
Bus == RunTask \/ HandleCall \/ Enqueue \/ Wake
Main == WaitForEvents \/ TakeRequest \/ EndPass \/ Terminate

Next ==
  \/ Initialize \/ CloseWindow \/ Main \/ Bus
  \/ PanelHears \/ PanelRestarts \/ UserActs \/ OnActivate

Spec ==
  /\ Init /\ [][Next]_vars
  /\ WF_vars(Bus) /\ WF_vars(Main) /\ WF_vars(PanelHears)

-----------------------------------------------------------------------------
(* Properties.                                                              *)

(* A tray that shows no recording shows no clock of one either: a label or  *)
(* a detail of the last second cannot be posted behind the end of its       *)
(* recording (CRecorder::StopRecording resets the tick before it posts,     *)
(* ApplyRecording takes both back).                                         *)
IdleShowsNoClock == ~recording => label = Idle /\ detail = Idle

(* Once everything posted has been run, the tray says what the recorder is. *)
TrayIsRight == tasks = <<>> /\ at # "gone" => recording = (state = "Recording")

(* Once the panel has heard everything sent and had every answer, it shows  *)
(* what the tray publishes, in each of its parts, whatever came in between: *)
(* reads that crossed a change, several changes in one burst, a panel that  *)
(* started over (CTray::ApplyRecording, ApplyLabel, ApplyDetail, Emit).     *)
PanelCatchesUp ==
  available /\ calls = <<>> /\ out = <<>> => view = Shown(recording, label, detail)

(* The tray tells what the recorder does: in what it publishes once it has  *)
(* run what was posted, and on the panel once that has heard.               *)
TrayTellsTheState == TypeOK /\ IdleShowsNoClock /\ TrayIsRight /\ PanelCatchesUp

(* Nothing comes too late: nothing is started on the way out ("a Toggle     *)
(* behind it would open a portal request on the way out", TakeRequests),    *)
(* and once the tray's Terminate has returned no request reaches an         *)
(* application that is coming down, and the panel is sent nothing.          *)
NothingComesTooLate ==
  [][/\ quitting => starts' = starts
     /\ at = "gone" => requests' = requests /\ Len(out') <= Len(out)]_vars

(* A request that was accepted is taken, unless Klip is quitting: the main  *)
(* thread sleeps until it is woken, and Wake comes behind Enqueue.          *)
RequestsAreTaken == requests # <<>> ~> requests = <<>> \/ quitting

(* A Show sent right behind its token is presented with it ("A token        *)
(* arrives in a call of its own, and the request that spends it may not     *)
(* have arrived yet", CApplication::Run).                                   *)
TokenReachesItsShow ==
  [][used' # used => used'.meant \in {None, used'.given}]_vars

(* Without a tray the window stays on screen while recording ("No system    *)
(* tray: Klip will stay on screen while recording", CTray::Initialize).     *)
StaysOnScreenWithoutATray == at = "waiting" /\ state = "Recording" /\ ~available => window = "shown"
=============================================================================

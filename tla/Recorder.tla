------------------------------ MODULE Recorder ------------------------------
(***************************************************************************)
(* A recording from the user's toggle to the end of Klip: CRecorder        *)
(* (src/src/recorder/private/recorder.cpp) over CSession (session.cpp),    *)
(* which pairs the portal session with a PipeWire stream, driven by        *)
(* CStartFlow (start_flow.cpp) and the loop of CApplication::Run           *)
(* (application.cpp). The main thread, the bus thread, PipeWire's thread   *)
(* and the portal interleave.                                              *)
(***************************************************************************)
EXTENDS PortalSession

VARIABLES
  state,        \* CRecorder::m_state
  flow,         \* CStartFlow::m_step, the four steps of picking a region in one
  window,       \* the main window; "away" is hidden by Klip, "closed" by the user
  visible,      \* CRecorder::m_visible, and CApplication::m_isVisible with it
  reveal,       \* CRecorder::m_reveal asks for the window
  ticked,       \* an audio source is ticked and its device opens
  previews,     \* the recorder's own monitors have audio devices open
  audio,        \* the session has audio devices open
  stream,       \* CSession::m_stream: the cast it is open on, or None
  streaming,    \* CStreamImpl: "no", "yes" once wasStreaming, "ended" once ended
  pc            \* where the main thread is in CApplication::Run

windowVars   == <<flow, window, visible, reveal>>
audioVars    == <<ticked, previews, audio>>
streamVars   == <<stream, streaming>>
recorderVars == <<state, windowVars, audioVars, streamVars, pc>>
vars         == <<sessionVars, recorderVars>>

TypeOK ==
  /\ SessionTypeOK
  /\ state \in {"Idle", "Starting", "Recording"}
  /\ flow \in {"none", "picking", "settling"}
  /\ window \in {"shown", "away", "closed"}
  /\ visible \in BOOLEAN
  /\ reveal \in BOOLEAN
  /\ ticked \in BOOLEAN
  /\ previews \in BOOLEAN
  /\ audio \in BOOLEAN
  /\ stream \in Cast \cup {None}
  /\ streaming \in {"no", "yes", "ended"}
  /\ pc \in {"wait", "requests", "drain", "withdraw", "flow", "sync", "draw",
             "terminating", "done"}

(* After CApplication::Initialize: the window is shown, and nothing has     *)
(* told the recorder yet.                                                   *)
Init ==
  /\ SessionInit
  /\ state = "Idle"
  /\ flow = "none"
  /\ window = "shown"
  /\ visible = FALSE
  /\ reveal = FALSE
  /\ ticked \in BOOLEAN
  /\ previews = FALSE
  /\ audio = FALSE
  /\ stream = None
  /\ streaming = "no"
  /\ pc = "wait"

-----------------------------------------------------------------------------
(* The recorder's operations, as the actions below call them.               *)

(* The previews run while the window is on screen and nothing is recorded.  *)
RefreshMonitoring == previews' = (visible' /\ state' = "Idle" /\ ticked')

(* CSession::Stop takes the streams and the descriptor down, ShowIdleState  *)
(* and the reveal follow. The portal session's Close is left to the caller. *)
StopRecording ==
  /\ state' = "Idle"
  /\ audio' = FALSE
  /\ stream' = None
  /\ streaming' = "no"
  /\ fds' = fds \ {stream}
  /\ reveal' = TRUE

Hidden == IF window = "shown" THEN "away" ELSE window

(* Mutation of BeginCapture: the previews stay on.                          *)
BeginCaptureMetering ==
  /\ UNCHANGED previews
  /\ \/ /\ window = "shown"
        /\ window' = "away"
        /\ flow' = "settling"
        /\ UNCHANGED <<started, tasks>>
     \/ /\ flow' = "none"
        /\ PostStart
        /\ UNCHANGED window

(* CStartFlow::Begin: BeginRecording stops the previews; a window in shot   *)
(* goes away and settles first, if there is a tray to bring it back from.   *)
BeginCapture ==
  /\ previews' = FALSE
  /\ \/ /\ window = "shown"
        /\ window' = "away"
        /\ flow' = "settling"
        /\ UNCHANGED <<started, tasks>>
     \/ /\ flow' = "none"
        /\ PostStart
        /\ UNCHANGED window

-----------------------------------------------------------------------------
(* CApplication::Run. An iteration starts with a wake, input or a deadline. *)

BeginIteration ==
  /\ pc = "wait"
  /\ pc' = "requests"
  /\ woken' = FALSE
  /\ UNCHANGED <<started, tasks, clientVars, portalVars, answers, fds, ended,
                 state, windowVars, audioVars, streamVars>>

(* The window's close button, with a tray to stay in.                       *)
CloseWindow ==
  /\ pc = "requests"
  /\ window = "shown"
  /\ window' = "closed"
  /\ UNCHANGED <<sessionVars, state, flow, visible, reveal, audioVars, streamVars, pc>>

(* A Show from the tray or from a second instance: PresentWindow.           *)
ShowWindow ==
  /\ pc = "requests"
  /\ window' = "shown"
  /\ UNCHANGED <<sessionVars, state, flow, visible, reveal, audioVars, streamVars, pc>>

(* The tray toggles among the requests, the button while the window is      *)
(* drawn.                                                                   *)
CanToggle ==
  \/ pc = "requests"
  \/ pc = "draw" /\ window = "shown"

(* Mutation of ToggleStart: a start under way does not stop another one.    *)
ToggleStartAgain ==
  /\ CanToggle
  /\ state # "Recording"
  /\ initialized
  /\ started < MaxStarts
  /\ state' = "Starting"
  /\ BeginCapture
  /\ UNCHANGED <<clientVars, portalVars, outVars, visible, reveal, ticked, audio,
                 streamVars, pc>>

(* CStartFlow::Toggle and PrepareRecording. A Toggle while a start is under *)
(* way changes nothing, nor does one with a folder that cannot be written.  *)
ToggleStart ==
  /\ CanToggle
  /\ state = "Idle"
  /\ flow = "none"
  /\ initialized
  /\ started < MaxStarts
  /\ state' = "Starting"
  /\ \/ /\ flow' = "picking"
        /\ window' = Hidden
        /\ UNCHANGED <<previews, started, tasks>>
     \/ BeginCapture
  /\ UNCHANGED <<clientVars, portalVars, outVars, visible, reveal, ticked, audio,
                 streamVars, pc>>

(* Without a portal to record with the window comes up, to say why.         *)
ToggleRefused ==
  /\ CanToggle
  /\ state = "Idle"
  /\ ~initialized
  /\ reveal' = TRUE
  /\ UNCHANGED <<sessionVars, state, flow, window, visible, audioVars, streamVars, pc>>

ToggleStop ==
  /\ CanToggle
  /\ state = "Recording"
  /\ StopRecording
  /\ Post(CloseTask)
  /\ UNCHANGED <<started, clientVars, portalVars, answers, ended, woken, flow,
                 window, visible, ticked, pc>>
  /\ RefreshMonitoring

Toggle == ToggleStart \/ ToggleRefused \/ ToggleStop

TakeRequests ==
  /\ pc = "requests"
  /\ pc' = "drain"
  /\ UNCHANGED <<sessionVars, state, windowVars, audioVars, streamVars>>

-----------------------------------------------------------------------------
(* CRecorder::Update.                                                       *)

(* CSession::Continue on a grant whose devices and stream all open.         *)
Continue ==
  /\ pc = "drain"
  /\ answers # <<>>
  /\ Head(answers).result = "Success"
  /\ answers' = Tail(answers)
  /\ audio' = ticked
  /\ stream' = Head(answers).id
  /\ streaming' = "no"
  /\ state' = "Recording"
  /\ UNCHANGED <<started, tasks, clientVars, portalVars, fds, ended, woken,
                 windowVars, ticked, pc>>
  /\ RefreshMonitoring

(* Mutations of ContinueWithout: the descriptor stays open, or the window   *)
(* stays hidden.                                                            *)
ContinueWithoutClosing ==
  /\ pc = "drain"
  /\ answers # <<>>
  /\ answers' = Tail(answers)
  /\ state' = "Idle"
  /\ reveal' = TRUE
  /\ UNCHANGED <<started, tasks, clientVars, portalVars, fds, ended, woken, flow,
                 window, visible, audioVars, streamVars, pc>>

ContinueUnseen ==
  /\ pc = "drain"
  /\ answers # <<>>
  /\ answers' = Tail(answers)
  /\ fds' = fds \ {Head(answers).id}
  /\ state' = "Idle"
  /\ UNCHANGED <<started, tasks, clientVars, portalVars, ended, woken, flow, reveal,
                 window, visible, audioVars, streamVars, pc>>

(* CSession::Continue on anything else: no grant, or an audio device or the *)
(* stream does not open. The descriptor, if there is one, is closed.        *)
ContinueWithout ==
  /\ pc = "drain"
  /\ answers # <<>>
  /\ answers' = Tail(answers)
  /\ fds' = fds \ {Head(answers).id}
  /\ state' = "Idle"
  /\ reveal' = TRUE
  /\ UNCHANGED <<started, tasks, clientVars, portalVars, ended, woken, flow,
                 window, visible, audioVars, streamVars, pc>>

Drained ==
  /\ pc = "drain"
  /\ answers = <<>>
  /\ pc' = "withdraw"
  /\ UNCHANGED <<sessionVars, state, windowVars, audioVars, streamVars>>

(* Mutation of TakeWithdrawal: the flag is cleared before it is read.       *)
ForgetWithdrawal ==
  /\ pc = "withdraw"
  /\ pc' = "flow"
  /\ ended' = FALSE
  /\ UNCHANGED <<started, tasks, clientVars, portalVars, answers, fds, woken, state,
                 windowVars, audioVars, streamVars>>

(* m_withdrawn.exchange(false), and the stop it calls for.                  *)
TakeWithdrawal ==
  /\ pc = "withdraw"
  /\ pc' = "flow"
  /\ ended' = FALSE
  /\ UNCHANGED <<started, clientVars, portalVars, answers, woken, flow, window,
                 visible, ticked>>
  /\ \/ /\ ended
        /\ state = "Recording"
        /\ StopRecording
        /\ Post(CloseTask)
        /\ RefreshMonitoring
     \/ /\ ~(ended /\ state = "Recording")
        /\ UNCHANGED <<state, streamVars, fds, tasks, reveal, previews, audio>>

-----------------------------------------------------------------------------
(* CStartFlow::Update.                                                      *)

(* The region is picked and the selector out of shot, or it was dismissed.  *)
Picked ==
  /\ flow = "picking"
  /\ BeginCapture
  /\ UNCHANGED state

Cancel ==
  /\ flow = "picking"
  /\ flow' = "none"
  /\ window' = "shown"
  /\ state' = "Idle"
  /\ UNCHANGED <<started, tasks, previews>>

(* The window has been out of shot for long enough: RequestCapture.         *)
Settled ==
  /\ flow = "settling"
  /\ flow' = "none"
  /\ PostStart
  /\ UNCHANGED <<state, window, previews>>

Waits == UNCHANGED <<started, tasks, state, flow, window, previews>>

UpdateFlow ==
  /\ pc = "flow"
  /\ pc' = "sync"
  /\ Waits \/ Picked \/ Cancel \/ Settled
  /\ UNCHANGED <<clientVars, portalVars, outVars, visible, reveal, ticked, audio,
                 streamVars>>

SyncVisibility ==
  /\ pc = "sync"
  /\ pc' = "draw"
  /\ visible' = (window = "shown")
  /\ UNCHANGED <<sessionVars, state, flow, window, reveal, ticked, audio, streamVars>>
  /\ IF visible' = visible THEN UNCHANGED previews ELSE RefreshMonitoring

(* SetSource, SetAudioEnabled, SetAudioDevice, RefreshAudioDevices.         *)
ChangeAudio ==
  /\ pc = "draw"
  /\ window = "shown"
  /\ ticked' \in BOOLEAN
  /\ UNCHANGED <<sessionVars, state, windowVars, audio, streamVars, pc>>
  /\ RefreshMonitoring

(* The end of the iteration: Reveal(TakeReveal()).                          *)
EndIteration ==
  /\ pc = "draw"
  /\ pc' = "wait"
  /\ reveal' = FALSE
  /\ window' = IF reveal THEN "shown" ELSE window
  /\ UNCHANGED <<sessionVars, state, flow, visible, audioVars, streamVars>>

-----------------------------------------------------------------------------
(* CApplication::Terminate, once m_isQuitting ended the loop: the start     *)
(* flow, a running recording, the previews, then CPortalSession::Terminate, *)
(* whose Run waits for the bus thread.                                      *)
Terminate ==
  /\ pc \in {"wait", "requests"}
  /\ pc' = "terminating"
  /\ flow' = "none"
  /\ previews' = FALSE
  /\ \/ /\ state = "Recording"
        /\ StopRecording
        /\ tasks' = tasks \o <<CloseTask, TerminateTask>>
     \/ /\ state # "Recording"
        /\ Post(TerminateTask)
        /\ UNCHANGED <<state, streamVars, fds, reveal, audio>>
  /\ UNCHANGED <<started, clientVars, portalVars, answers, ended, woken, window,
                 visible, ticked>>

(* Mutations of Terminated: the untaken answers are left alone, or waited   *)
(* for.                                                                     *)
TerminatedUndrained ==
  /\ pc = "terminating"
  /\ tasks = <<>>
  /\ pc' = "done"
  /\ UNCHANGED <<sessionVars, state, windowVars, audioVars, streamVars>>

TerminatedOnceTaken == answers = <<>> /\ TerminatedUndrained

(* CSession::Terminate after the portal: the answers nobody took still hold *)
(* a descriptor each.                                                       *)
Terminated ==
  /\ pc = "terminating"
  /\ tasks = <<>>
  /\ pc' = "done"
  /\ answers' = <<>>
  /\ fds' = fds \ {answers[i].id : i \in DOMAIN answers}
  /\ UNCHANGED <<started, tasks, clientVars, portalVars, ended, woken,
                 state, windowVars, audioVars, streamVars>>

-----------------------------------------------------------------------------
(* PipeWire's thread, OnStreamStateChanged. The stream is destroyed on the  *)
(* main thread with this thread stopped, so nothing comes after that.       *)

StreamFlows ==
  /\ stream # None
  /\ streaming = "no"
  /\ streaming' = "yes"
  /\ UNCHANGED <<sessionVars, state, windowVars, audioVars, stream, pc>>

StreamEnds ==
  /\ stream # None
  /\ streaming = "yes"
  /\ streaming' = "ended"
  /\ ended' = TRUE
  /\ woken' = TRUE
  /\ UNCHANGED <<started, tasks, clientVars, portalVars, answers, fds,
                 state, windowVars, audioVars, stream, pc>>

-----------------------------------------------------------------------------
User   == CloseWindow \/ ShowWindow \/ Toggle \/ ChangeAudio
Update == Continue \/ ContinueWithout \/ Drained \/ TakeWithdrawal
Loop   == BeginIteration \/ TakeRequests \/ Update \/ UpdateFlow \/ SyncVisibility
          \/ EndIteration
Exit   == Terminate \/ Terminated
Bus    == BusStep /\ UNCHANGED recorderVars
Portal == PortalStep /\ UNCHANGED recorderVars

Next == User \/ Loop \/ Exit \/ StreamFlows \/ StreamEnds \/ Bus \/ Portal

(* GetNextDeadline and the wake event: what ends SDL_WaitEventTimeout when  *)
(* no input does. The clock ticks while recording, the meters while a       *)
(* preview is open, and the start flow settles.                             *)
Due == woken \/ state = "Recording" \/ previews \/ flow = "settling"

(* The main thread carries an iteration through, and starts one when it is  *)
(* due. The settling time passes. The bus thread keeps serving, and the     *)
(* portal answers what it is asked, as org.freedesktop.portal.Request says. *)
(* Nothing makes the user or the compositor do anything.                    *)
Spec ==
  /\ Init
  /\ [][Next]_vars
  /\ WF_vars(Due /\ BeginIteration)
  /\ WF_vars(Loop /\ pc # "wait")
  /\ SF_vars(UpdateFlow /\ flow = "settling" /\ flow' = "none")
  /\ WF_vars(Terminated)
  /\ WF_vars(RunTask /\ UNCHANGED recorderVars)
  /\ WF_vars(Dispatch /\ UNCHANGED recorderVars)
  /\ WF_vars(PortalAnswers /\ UNCHANGED recorderVars)
=============================================================================

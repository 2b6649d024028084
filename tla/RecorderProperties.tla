------------------------- MODULE RecorderProperties -------------------------
(***************************************************************************)
(* What the recording life cycle of module Recorder is to guarantee, and   *)
(* what it fails to.                                                       *)
(***************************************************************************)
EXTENDS Recorder

(* The recorder has asked for a capture and waits for the answer.           *)
Awaiting == state = "Starting" /\ flow = "none"

(* The Starts on their way to the bus thread.                               *)
StartsPosted == {i \in DOMAIN tasks : tasks[i].op = "Start"}

(* Every descriptor the portal granted has exactly one owner until it is    *)
(* closed: the answer that carries it, or the stream that was opened on it  *)
(* (CSession::Continue, Stop and Terminate; portal_session.cpp's "The       *)
(* receiver owns it from here and must close it").                          *)
DescriptorsOwned ==
  /\ fds = {answers[i].id : i \in {j \in DOMAIN answers : answers[j].result = "Success"}}
           \cup ({stream} \ {None})
  /\ \A i, j \in DOMAIN answers : i # j => answers[i].id # answers[j].id
  /\ \A i \in DOMAIN answers : answers[i].id # stream

(* While the recorder waits for the portal, exactly one Start is under way: *)
(* posted, busy on the bus thread, or answered and not taken. While it does *)
(* not wait, there is none. So a Start is never refused as busy, and no     *)
(* answer of an older Start reaches a newer one (CStartFlow::Toggle, "it    *)
(* would open a second portal request over the first").                     *)
OneStartUnderWay ==
  pc \notin {"terminating", "done"} =>
    /\ \A i, j \in StartsPosted : i = j
    /\ Len(answers) <= 1
    /\ Awaiting <=> (StartsPosted # {} \/ busy \/ answers # <<>>)
    /\ ~(StartsPosted # {} /\ busy)
    /\ ~(StartsPosted # {} /\ answers # <<>>)
    /\ ~(busy /\ answers # <<>>)

(* Klip never closes the portal session of a recording in progress: a Close *)
(* posted by an earlier Stop has run before any later Start (CSession::Stop *)
(* posts it and goes on).                                                   *)
NeverClosesItsOwnRecording ==
  [][BusStep => stream \notin open \ open']_vars

(* Once CRecorder::Terminate has returned nothing is left behind: no open   *)
(* descriptor, no followed session, and no answer can follow.               *)
CleanEnd ==
  pc = "done" => /\ fds = {}
                 /\ answers = <<>>
                 /\ stream = None
                 /\ handle = None
                 /\ slot = None
                 /\ ~live /\ ~busy

(* A capture that was asked for is started or refused in the end: no wake   *)
(* is lost and no step of the request is left without an answer.            *)
StartSettles ==
  (state = "Starting" /\ flow # "picking") ~> (state # "Starting" \/ pc = "done")

(* A withdrawal reported while recording ends that recording.               *)
ReportedEndStops == (ended /\ state = "Recording") ~> state # "Recording"

(* Leaving the loop leads to the end of CRecorder::Terminate, whatever the  *)
(* portal is doing.                                                         *)
TerminateCompletes == pc = "terminating" ~> pc = "done"

(* A window Klip took out of shot is back once Klip is idle and waits:      *)
(* every way out of a start and of a recording leads to a reveal            *)
(* (CStartFlow::Cancel, OnStarted, StopRecording, CApplication::Reveal).    *)
WindowComesBack == (pc = "wait" /\ state = "Idle") => window # "away"

(* The previews and a recording never hold the audio devices together       *)
(* ("While recording the session owns the devices"), and from BeginRecording*)
(* on no preview is open that the session's own opening would meet.         *)
OneOwnerOfTheDevices ==
  /\ previews => state = "Idle" \/ flow = "picking"
  /\ audio => state = "Recording"

(* What the recorder shares with the rest of Klip is in order: the window   *)
(* and the audio devices while it runs, and everything once it has ended.   *)
RecorderInvariant == TypeOK /\ WindowComesBack /\ OneOwnerOfTheDevices /\ CleanEnd

(* What must come to an end does: a recording whose cast was withdrawn, and *)
(* CRecorder::Terminate.                                                    *)
EndsComplete == ReportedEndStops /\ TerminateCompletes

(* The phase of a recording, as module StartPhases has it.                  *)
Phase ==
  IF pc \in {"terminating", "done"} THEN "over"
  ELSE [Idle      |-> "idle",
        Starting  |-> IF flow = "none" THEN "asked" ELSE flow,
        Recording |-> "recording"][state]

Phases == INSTANCE StartPhases WITH phase <- Phase

(* The recorder's state and the flow's step, which two classes change on    *)
(* requests, answers and deadlines, make up one start at a time             *)
(* (CStartFlow::Toggle, CRecorder::OnStarted, StopRecording).               *)
ImplementsPhases == Phases!Spec

-----------------------------------------------------------------------------
(* What the documentation says and the code does not do.                    *)

(* recorder.cpp:219: "Taken whether or not it still applies, so a late      *)
(* second call cannot stop the next recording." A withdrawal stops only a   *)
(* recording whose own cast is over.                                        *)
LateEndSparesTheNext ==
  [][TakeWithdrawal /\ stream # None /\ stream' = None
       => stream \notin open \/ streaming = "ended"]_vars

(* docs/traps.md:14-16: a withdrawn cast arrives as Closed, and "without    *)
(* that signal Klip records nothing and says nothing". A recording whose    *)
(* cast the compositor has withdrawn does not go on for good.               *)
WithdrawnCastStops ==
  \A c \in Cast : (stream = c /\ c \notin open) ~> stream # c

(* portal_session.cpp:548-549: a request that came to nothing "leaves a     *)
(* session the portal will close by itself, which would then read as the    *)
(* compositor withdrawing a cast that never started". Once the recorder is  *)
(* idle and nothing is on its way, no portal session is held.               *)
IdleHoldsNoSession ==
  (state = "Idle" /\ pc = "wait" /\ tasks = <<>> /\ answers = <<>> /\ ~busy)
     => handle = None

(* README.md:69-70: "Tick a source and its meter goes live straight away,   *)
(* so you can see a device working before you commit to a recording".       *)
TickedSourcesAreMetered ==
  (state = "Idle" /\ pc = "wait" /\ visible /\ ticked) => previews
=============================================================================

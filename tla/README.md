# Klip, specified

TLA+ models of [Klip](../src/README.md), a screen recorder for Linux: what its
threads, the desktop portal, PipeWire and the panel do to each other between the
press of the record button and the end of the program, what an encoder makes of
the frames and sounds it is handed, and what becomes of the settings on the disk.
TLC checks the models on small
instances; the modules named `...Proofs` prove the safety properties for every
value of the constants.

Paths below are relative to the repository. The code is under `src/src`.

## The system

| Part | State it keeps | Operations | What has to be right |
|---|---|---|---|
| `bus` connection (`connection.cpp`) | the bus thread, its task queue | `Post`, `Run`, `Pump` | tasks and signals run one at a time, in order; `Run` returns |
| portal session (`portal_session.cpp`) | `m_busy`, `m_callback`, `m_step`, session handle, `m_sessionLive`, two subscriptions | `Start`, `Close`, `Terminate`, a handler per response, `OnSessionClosed` | each Start answered once; nothing after Terminate; never another's session closed |
| recording session (`session.cpp`) | answer queue, streams, descriptor, frame ring, encoder thread | `Start`, `Update`/`Continue`, `Stop`, `OnFrame`, `OnAudio`, `EncoderMain` | descriptors closed once; frames in order; a stop that loses nothing and ends |
| recorder (`recorder.cpp`) | `m_state`, `m_withdrawn`, previews, `m_reveal`, settings, tray text | `Update`, the setters, `PrepareRecording` .. `StopRecording` | states and devices agree; an end that is reported takes effect, on the right recording |
| start flow (`start_flow.cpp`) | `m_step`, deadline, screenshot, selector | `Toggle`, `Update`, `Begin`, `Cancel` | one start at a time; the window comes back |
| application (`application.cpp`, `activation.cpp`) | `m_isVisible`, the request queue, the event loop | `Run` and its phases, `Terminate` | no lost wake; exit in the right order |
| PipeWire stream (`pipewire_stream.cpp`) | stream state, negotiated format | state changes, `HandleProcess`, `Terminate` | no callback after `Terminate`; the end reported once |
| audio streams, loop, devices (`audio_*.cpp`) | a stream per source on one shared loop; the device list | open, close, refresh | the list is complete; a stream opens or fails in time |
| encoder (`encoder.cpp`) | time stamps, held packet, audio buffers | submit, finish | time stamps increase; the sources stay level |
| screenshot (`screenshot.cpp`) | `m_pSlot`, `m_isAnswered` | request, cancel, take | late answers ignored; the file deleted once |
| settings (`config`, `recorder.cpp`) | the file as it was read, what was written, choices, restore tokens, changes | load, import, save, move aside, back up | nothing of a newer Klip, of the user or of somebody else is lost to a save; tokens stay live |
| files (`json/files.cpp`) | a temporary file and a name | `WriteFileAtomically` | a crash or a loss of power leaves the old or the new text |
| tray (`tray.cpp`) | published recording state, label, detail; the panel's cache | updates, signals, reads, requests | the panel shows what the recorder does; requests reach the main thread |
| single instance (`single_instance.cpp`, `main.cpp`) | the bus name, an object on the bus | claim, serve, activate, terminate | one Klip runs; a second one shows the first and leaves |
| selector (`region_selector.cpp`) | a rectangle | open, close, finish | the recorded region is the chosen one, inside the frame |
| folder dialog, views (`app`) | a mailbox; nothing | | an answer for a closed dialog is harmless |

**How they interact.** Four kinds of threads matter. The *main thread* runs
`CApplication::Run`: it waits for SDL events, a wake or a deadline, takes the
tray's requests, lets the recorder and the start flow update, synchronises the
window's visibility, draws, and reveals the window if asked to. The *bus thread*
runs posted tasks and dispatches signals; `CPortalSession` lives there.
*PipeWire's thread* delivers frames and the stream's state, the *audio thread*
buffers of sound, and the *encoder thread* takes mapped frames from a ring. The
main thread talks to the bus thread by posting (`Post`) or by posting and waiting
(`Run`); the others talk to the main thread through a queue or an atomic flag
and a wake event. The portal is another process: it answers each request with a
`Response` signal, and may end a session with `Closed` at any time.

**What is hard.** A grant and the end of the same grant arrive by different
ways (`m_answers` and `m_withdrawn`). A stop posts the portal session's close
and goes on, so the next start races it. A termination cuts a request off at
any step. Descriptors are handed from the portal to an answer to a stream, and
every failure on the way has to close them. The frame ring has two queues, a
semaphore, a dropping producer and a stop that must drain. Klip hides its own
window and must bring it back on every path. `PROJECT.json` lists these
hazards, each at its line, with the properties that cover it.

## The modules

| Module | What it is |
|---|---|
| `PortalSession` | `CPortalSession` on the bus thread with the portal on the other end. State and steps of these two, no caller |
| `AsyncCall` | abstract: a call is answered exactly once; only a termination drops it |
| `PortalClient` | `PortalSession` under a caller without discipline. Checks it against `AsyncCall` |
| `Recorder` | `PortalSession` under its real caller: recorder, session, start flow, application loop, PipeWire's stream state |
| `RecorderProperties` | what `Recorder` guarantees, and what it is documented to and does not |
| `FrameRing` | the frame path of `CSession`: `OnFrame`, `EncoderMain`, `OnAudio`, `Start`, `Stop` |
| `LossyQueue` | abstract: frames are encoded in order, dropped only when full, all drained at a close |
| `StartPhases` | abstract: the phases of a start; one at a time, and settling leads to asking |
| `StartFlow` | `CStartFlow` and `CScreenshot` under the application loop: the steps of a start, the screenshot on the bus thread, the selector |
| `StartFlowProperties` | what `StartFlow` guarantees, and what it is documented to and does not |
| `FileRegister` | abstract: a file several programs write, one value at a time |
| `AtomicFile` | `WriteFileAtomically`, call by call, with failing calls, deaths and losses of power |
| `SettingsJson`, `KlipConf` | no state: reading and writing the text of `config.json`, and making such a text of an old `Klip.conf` |
| `SettingsText` | no state: what the two promise each other, over every text two edits by hand can make |
| `SettingsStore` | `CSettingsStore`, the recorder's settings, changes and tokens, the loop's saves, the portal's tokens, over several runs of Klip |
| `Encoder` | `CEncoder`: `Initialize` step by step, the video track from `SubmitFrame` to the trailer, `Terminate` |
| `AudioMix` | the audio half of `CEncoder`: trimming, silence, levelling, the mix, the tail |
| `CaptureRegion` | no state: which part of a frame is recorded |
| `Tray` | `CTray` between the main thread, the bus thread and a panel, with the requests that come back |
| `SingleInstance` | several Klips on one session bus: `CSingleInstance` and the order of `main` |
| `MCSettingsStore`, `MCEncoder` | `SettingsStore` with `SettingsText` and `Encoder` with `CaptureRegion` for TLC |
| `PortalProofs` | theorems about `Recorder` and `PortalClient`, and the lemmas about `PortalSession` they share |
| `EncoderProofs` | theorems about the three models of `CEncoder`: `Encoder`, `CaptureRegion`, `AudioMix` |
| the other `...Proofs` | theorems about the module of the name, and their lemmas |

`Recorder` and `PortalClient` extend `PortalSession`, whose steps leave the
caller's state to them. `StartFlow` and `Recorder` overlap in the start flow:
each has in detail what the other has as one value, and both are checked against
`StartPhases`. A write of the settings is one step in `SettingsStore`, which
`AtomicFile` shows it is. `Encoder` takes over where `FrameRing` submits, and
`AudioMix` where it hands over a sound; the order in which the threads do so is
`FrameRing`'s. `Tray` has of the recorder what a tray shows and can ask for.

### State and actions against the code

`PortalSession`. `tasks` is `CConnection`'s loop queue, `signals` the messages
on the socket; `RunTask` and `Dispatch` are the two things `Pump` and the loop
do, one whole handler per step, since both run on one thread. `busy`,
`callback`, `step`, `handle` and `live` are the members of the same name;
`slot` is `m_pClosedSlot`. `stray` holds subscriptions the code overwrites
without dropping them (`sd_bus_match_signal` into a slot that is still set):
their handler still fires. A Start gets a number, which stands for the callback
it carries, the session the portal opens for it and the descriptor it is
granted. Calls of `sd_bus_call_method` inside a handler are part of its step,
and their failing (a time-out too) is the other branch of the handler:
`BeginRefused`, `OnSessionUnfollowed`, the second disjunct of
`OnSourcesSelected` and `OnStarted`. `PortalRespond` and `PortalClose` are the
portal, which is not in the repository; it is modelled from the calls and
signals the code uses.

`Recorder`. `pc` is the phase of `CApplication::Run` the main thread is in, and
every phase that other threads can interleave with is a step of its own:
`TakeRequests`, `Continue`/`ContinueWithout`/`Drained` (one answer each, the
loop of `CSession::Update`), `TakeWithdrawal` (the exchange and what it calls),
`UpdateFlow`, `SyncVisibility`, `EndIteration`. `ended` is `m_withdrawn`, set by
the bus thread (`OnSessionClosed`) and by PipeWire's (`StreamEnds`). `window`
tells a window hidden by Klip ("away") from one the user closed ("closed"),
because only the first is owed back. `visible` is what the recorder was last
told. `Terminate` and `Terminated` are the two sides of the `Run` in
`CPortalSession::Terminate`, with the bus thread in between.

`FrameRing`. `free`, `filled`, `sem`, `slots`, `encoding`, `startFailed` and
`stopping` are members of `CSession`; `producer`, `encoder` and `audio` are
where the three threads are, and `producerSlot` and `encoderSlot` their local
slot index. Each queue operation, semaphore operation, copy and submission is a
step. Writing to a slot passes through `Torn`, so that a reader in between
would be seen. Frames are numbered in the order they arrive.

`StartFlow`. `pc` is the phase of the loop again, or one of the three places in
which the main thread waits in `CConnection::Run` (`asking`, `cancelling`,
`leaving`): `task` is what it handed over, and its two sides are steps of two
threads (`AskForShot`, `SendRequest`, `ShotAsked`). `step`, `deadline`, `slot`,
`answered` and `path` are members; a deadline is running or due. `OnResponse` is
the handler up to the store of `m_isAnswered` and `Wake` the call after it, so
that the main thread can come between. A screenshot is a number; `shot` follows
each one from the portal to the file's deletion, also when Klip no longer
listens. `fading` is what is hidden and still on screen: `main` and `selector`
when Klip hid them for a start, `closed` and `dismissed` when the user did. A case of the switch in
`CStartFlow::Update` is one action or two: `AskForShot`; `TakeShot`, `GiveUp`;
`Accept`, `Dismiss`; `BeginPicked`; `Ask`.

`AtomicFile`. A writer's `pc` is the next call of `WriteFileAtomically`, which has
resolved the link as it began: `mkostemp`, taking over the permissions, writing,
`fsync`, `close`, `rename`, or `remove` after a failure, and the return; each may fail,
`remove` too, and then the file stays and the log has a warning (`warned`). A writer may
die between two calls (`dead`) and leaves its temporary file. `entry` is what a reader
finds at a name, `durable` what the disk has of the directory; `synced` says of a file
that its data is there too. `Flush` and `PowerLoss` are the file system's: after a loss of
power any of the temporary files may be there still.

`SettingsStore`. `main`, `bad` and `legacy` are the three files. `kept`, `canSave`
and `written` are the members of `CSettingsStore`, `settings`, `changes` and
`writtenDevice` those of `CRecorder`. `Start` is `CSettingsStore::Initialize` and what
the application does with the result; `Load` is one of `LoadDocument`, `ImportLegacy`,
`MoveAside`, `KeepBackup` and their parts. `SaveSettings` is the whole of `TakeSettingsChanges`, `Save` and `Write`,
of which `Save`, `Merged` and `Write` are the parts. `OnStarted` keeps or clears the
token of a grant, `Quit` saves and `Exit` forgets. `live` is what the portal
honours: a token is spent when it is sent and a new one comes with the grant.
`spared`, `dropped`, `picked`, `imports` are history for the properties. A text (in
`SettingsJson`) is a version, a value per setting, the presence of each section and
of somebody else's key in it; `ReadSettingsJson` and `WriteSettingsJson` are the
functions of these names, one setting standing for each kind of reader.

`Encoder`. `at` is the step of `Initialize` or what `Terminate` has left; `owned` is
the set of what the `m_p...` members hold, with what each needs in `Requires`. A frame
is its stamp: `SubmitDmaBuf` with `GpuDone` and `SubmitConverted`, or `SubmitMapped`,
compute the time of presentation, fill the codec and drain it; `DropFrame` is a frame
`CSession` drops. A packet waits in `heldPacket` for the next to give it its
duration. `Finish` flushes, gives the last packet the rest of the recording and writes
the trailer. Stamps are modulo `2^ClockBits` as in the code.

`AudioMix`. A sample is one unit of time and is told by where on its source's clock
it came from; `track` is what a source's fifo has been given in all, `mixed` how far it
has been read. `SubmitAudio` trims and fills and hands on to `LevelSources` and
`EncodeAudioFrames`, in one step as on the one audio thread; `FinishAudio` and
`EncodeTail` drain the rest.

`Tray`. `tasks` is what `SetRecording`, `SetLabel` and `SetDetail` posted to the bus
thread, each of which publishes and emits on its own when it runs. `out` and `calls` are
the two directions of the connection to the panel, `view` what the panel shows.
`Enqueue` and `Wake` are the two halves of `CApplication::Request`; `WaitForEvents`,
`TakeRequest` and `EndPass` are `Run`, with the activation token.

`SingleInstance`. `phase` is where `main` has got to; `Claim`, `AskOwnerToShow`, `Leave`,
`Serve`, `Terminate` and `Exit` are what it calls, in its order. A Klip whose object cannot
be put on the bus runs without serving, and only a warning says so. The bus (`owner`, `inbox`,
`reply`) is external: it frees a name whose connection closes and answers a call
nobody is there for.

An operator whose comment starts with *Mutation of* is a wrong version of the
definition after it. It is no part of the model: it exists to show that the
property named beside it in `PROJECT.json` fails when the code has that bug.

### Abstractions

* A failed `Probe` is the initial state `initialized = FALSE`. The recorder also
  needs a render node (`m_canRecord`); without one no Start is ever called.
* The kind of source, the restore token and the formats do not decide any step
  modelled here and are left out; `SettingsStore` has the tokens.
* Malformed dictionaries from the portal are the failing branch of the handler.
* In `Recorder` the four steps of picking a region (settle, screenshot, select,
  settle) are one value of `flow`, which ends in `Picked` or `Cancel`; `StartFlow`
  has the four. In `StartFlow` the recorder in turn is its state and one
  outstanding capture. `StartPhases` is what the two have in common, and each is
  checked to implement it.
* In `StartFlow` an answer that is a refusal, or names a file that is not local, is
  one case (`refused`): the code treats both as an answer without a path.
* `HideSettle` is 250 ms and the animation it waits for takes about 150 ms
  (`start_flow.cpp:20-22`): a settling ends when what Klip hid has faded. That is
  the guard of `DeadlinePasses`. It says nothing of what the user hid.
* In `StartFlow` the recorder can record and the folder can be written, or
  `PrepareRecording` refuses and nothing changes but the status.
* Whether there is a tray decides whether a window is hidden for a recording;
  both are allowed at each start (`BeginCapture`).
* `ticked` says that a ticked source exists and its device opens; the setters
  change it at will.
* The recording's clock and the meters exist only as reasons to wake (`Due`).
* The portal session of a request cut off in `CreateSession` is closed by the
  portal with Klip's bus connection, after the model ends.
* In `SettingsStore` each setting stands for all that are read and written by the same
  function (a string, an enumeration, a number, a flag, a level, a token); the set of
  fields has one of each kind. Numbers have `NumberBits` bits in place of 64.
* A call into FFmpeg, the GPU or PipeWire is the results it may have. What the
  encoder computes of samples (gain, clipping, conversion) is left out: `AudioMix`
  keeps of a sample when it was made.
* In `Encoder` the DMA-BUF and the mapped path differ in what they own and in when
  the GPU reads; the pictures are not modelled.
* In `Tray` the recorder is the three values a tray shows and one start that succeeds
  at once; `Recorder` has what lies between.
* In `SingleInstance` a Klip that fails to claim the name for another reason than its
  being taken (`unnamed`) runs all the same, as in the code.
* A recording's frames are all mapped or all DMA-BUF (`memory`).

## The runs

| Run | Configuration | States | Shows |
|---|---|---|---|
| `portal_client` | 2 Starts, 1 Close | 10 thousand | `PortalSession` implements `AsyncCall`; calls do not disturb each other; Terminate returns |
| `recorder` | 2 Starts | 90 thousand | the safety and liveness of the recording life cycle |
| `frame_ring` | 3 slots, 6 frames | 75 thousand | `FrameRing` implements `LossyQueue`; slots, semaphore, order of the stop; Stop ends |
| `start_flow` | 2 screenshots, starts unbounded | 66 thousand | `StartFlow` implements `StartPhases`; files, answers, wakes, captures, the window, the exit |
| `atomic_file` | 2 writers, 2 texts, 3 writes, 2 faults | 142 thousand | `AtomicFile` implements `FileRegister`; what is left beside the file; permissions |
| `settings_store` | 2 runs of Klip, 2 acts each, 1 edit, 1 fault, 8 settings, 12-bit numbers | 158 thousand | what a load and a save keep, the tokens, that a choice is saved; reading, writing and importing over every text |
| `encoder` | 2 recordings, 3 frames, 1 fault; 4-bit regions and crops | 2.3 million | resources, the track's times, the file; the recorded region |
| `audio_mix` | 2 sources, time to 9, 1 fault | 112 thousand | nothing is early, nothing grows, nothing of the tail is lost |
| `tray` | 1 token, start, tick, click, restart of the panel each | 467 thousand | the panel and the recorder agree; requests are taken, and none too late |
| `single_instance` | 3 Klips, 2 faults | 11 thousand | one Klip at a time; every launch settles |
| `withdrawn_starting` | 2 Starts | | a cast withdrawn while starting is recorded on |
| `mix_too_large` | as `audio_mix` | | a tail larger than the codec's frame |

A property of a run may be a conjunction of named parts, where the parts speak of one
thing; each part keeps a definition and a comment of its own, and `PROJECT.json` has a
mutant for every part that a change to a single definition can break by itself.

**portal_client.** `EveryStartIsAnsweredOnce` is the refinement: a call is
outstanding from its posting until its answer, wherever it is meanwhile, and the
bus thread's fairness is enough for every call to be answered. `CallsStayApart` is
`RefusalIsHarmless`, the comment in `CPortalSession::Start` ("directly rather than
through Finish"), and `SilentOnceTerminated`, the one above `Terminate`.

**recorder.** `DescriptorsOwned`: each descriptor is held by one answer or by
the stream. `OneStartUnderWay`: the recorder waits if and only if exactly one
Start is posted, in progress or answered; so a Start is never refused as busy and
answers never cross. `NeverClosesItsOwnRecording`: no Close of an earlier
recording reaches a later one. `RecorderInvariant`: `WindowComesBack`,
`OneOwnerOfTheDevices` and `CleanEnd`. `StartSettles`: a capture that was asked for
starts or fails. `EndsComplete`: an end reported while recording ends the
recording (`ReportedEndStops`), and leaving the loop leads to the end
(`TerminateCompletes`). `ImplementsPhases`: states and flow together are `StartPhases`.

**start_flow.** `HandedFilesAreHeld`: a screenshot's file has one holder, whether its
answer comes in time, while the cancel is under way, or at the exit.
`StartsComplete`: it is deleted in the end (`HandedFilesAreDeleted`), and a portal that
never answers does not keep the window hidden (`WaitsEnd`). `AnswersAreOfThisStart`: an
answer that was given up on is never taken for the next one. `AnswerWakesTheLoop`: no
wake is lost between the store and the exchange. `StartInvariant` with
`OneCapturePerStart`, and `ImplementsPhases`: toggles in any step do not start twice;
the assertions in `BeginRecording` and `RequestCapture` hold; the window comes back and
the end is clean for every way out of the flow. `OwnHidesSettle`: what Klip hid for a
start is off the screen when the capture or the screenshot is asked for.

**frame_ring.** `SlotsConserved`, `SemaphoreCounts` and
`EncoderOutlivesItsUsers` are the invariants; `IsALossyQueue` adds the order of
frames, when one may be dropped, and that nothing accepted is lost at a stop. A
frame may be dropped with one place still free in the abstract queue: the
encoder has taken the frame and not yet given back its slot. Deadlock is
checked in this run. It is not in the others, where Klip ends.

**atomic_file.** `ImplementsRegister`: whatever fails or dies between two calls, a
write is one step of `FileRegister`, or none, and it reports success exactly when it
took that step; a loss of power leaves the value of that step or the one the disk had
last. `WritesAreTidy`: a reader sees whole
texts only (`NeverTorn`); a temporary file that stays when a write has returned is one
whose removal failed as well, the caller has its failure and the log a warning
(`LeftoversAreSaid`: a death or a loss of power leaves one that nobody speaks of, and
nothing in Klip looks for it later); the permissions are those of the file replaced
(`KeepsItsMode`), and a write returns (`WritesReturn`).

**settings_store.** `SavesKeepTheFile`: a file of a newer Klip is never saved over; a
damaged value that a save replaces has been copied aside; keys nobody knows survive;
a save of a token leaves the choices in the file as they are. The first three hold
through failed copies, failed writes and kills between the steps. `HeldTokenIsLive`
and `FileHasTheTokens`: a spent token is neither held for the next start nor left in
the file, but for the ways their statements name. `ChoiceReachesTheFile`: a choice
whose save is put off while the mouse is held is saved. `SettingsInvariant` is the type
and `TextIsFaithful`: over every text that two edits by hand make of a written one or
of an old `Klip.conf`, reading back what was written gives the same settings
(`ReadsBackWhatItWrote`), what a save loses was counted as damaged when read
(`SaveLosesOnlyWhatWasCounted`), every value taken is legal for the program, and an
import takes every value Qt wrote (`ImportTakesWhatQtWrote`). An import ends the program
exactly when a value it keeps is not UTF-8: the text is dumped with a strict handler
(`klip_conf.cpp:218`) and errors of JSON abort (`json.cpp:11`). Qt writes UTF-8, so
it takes an edit by hand; `Klip.conf` stays where it is then, and the next start meets it
again. `SettingsStore` itself imports only what can be dumped.

**encoder.** `EncoderInvariant`: `Initialize` opens nothing before what it needs
(`OpenedInOrder`); a failed start and a `Terminate` leave nothing of this recording to
the next, counters included (`NothingLeftBetween`); a buffer the GPU reads is not handed
back (`NotHandedBackWhileRead`). `TrackIsInTime`: frames advance and are where their
stamps say or just behind the frame before, none is ahead of the recording's time by more
than a nominal frame for each frame before it, and the last one lasts until the stop.
`FileIsWhole`: a file with a trailer has every frame the codec took but those a failed
write lost; where none was lost there are no gaps between them, and none overlap unless
the first frame went uncounted (`TimestampsAdvance` below). `RecordsTheRegion`: over every
small frame, crop and choice, what is recorded begins and ends on even pixels, and is the
user's choice where that fits. It is inside the frame and inside its memory but for
exactly two kinds of crop. The origin of a crop is signed and cast
(`pipewire_stream.cpp:439`), so that one which begins left of the frame or above it is near
the largest integer; its end wraps (`encoder.cpp:58`) and can come out inside the frame,
and `SubmitMapped` would read elsewhere (`Slips`). One of a single row or column is
rounded to nothing (`Vanishes`). Nothing in Klip refuses either: that they do not come is
the compositor's word.

**audio_mix.** `NeverHeardEarly`: with no frame refused, no sound is placed before its
time. `MixInvariant`: a stalled source does not make the others' backlog grow
(`BacklogBounded`); at the end all that came is in the file (`TailIsNotLost`); silence is
written only where a source skipped (`OnlyRealHolesAreFilled`, for counters that do not
wrap); with no frame refused every mix fits the codec's frame.

**tray.** `TrayTellsTheState`: no clock without a recording; once everything posted has
run the tray says what the recorder does; once the panel has heard everything and is
answered, it shows what the tray publishes, also after starting over or after reads that
crossed a change. `NothingComesTooLate`: nothing starts behind a Quit, and nothing
reaches the application or the panel once `CTray::Terminate` has returned.
`RequestsAreTaken`: no wake is lost between the queue and the sleep.

**single_instance.** `KlipsTakeTurns`: of the Klips that got an answer about the name
one runs at a time, and a call reaches a callback only while its application lives.
`LaunchesSettle`: each launch runs or leaves, and each call accepted gets its window.

**The bounds.** Two Starts are the least that let an earlier recording meet a
later one; each question that relates two recordings is about neighbours. Three
Starts were checked once (606 thousand states) and show nothing new. Three slots
let one be free, one filled and one in use; six frames go around the ring twice
and fill two recordings. `NumSlots` is 4 in the code; the proofs hold for any
number. With two screenshots an old answer can meet a newer request; starts of
screens and windows, stops and hides are not bounded. One Close suffices to hit every
step of a request. Two writers are what the code's comment speaks of; three writes let
one writer come twice around the other. Two runs of Klip let a load meet what the last
run left, with one damage or kill in between; `SettingsStore` shows the same properties
with three runs and no acts, and with three acts in one run. Twelve bits leave room
for a number that is signed, unsigned and past either range. Two recordings let the
first leave something to the second; three frames are one to hold back, one to give it
its duration and one to come between. In `AudioMix` time to 9 is four of the codec's
frames of 2, more than a stall of 4 with a hole of 2 in it. Three Klips are an owner,
one that asks, and one that takes the name in between.

**Fairness.** The bus thread serves its queue and its socket for as long as it
lives (`WF` of `RunTask`, `Dispatch`, and of `Bus` in `Tray`). The main thread carries an
iteration through and starts one when a wake or a deadline is due (`Due`; SDL's wait ends
on both; `Main` in `Tray`). The portal answers each request once, as its interface says.
The settling time passes (`SF` on the step that ends it: its phase comes round once
an iteration). PipeWire's and the encoder's threads finish the callback they are
in. In `StartFlow` the bus thread carries out what it is handed and wakes, what
Klip hid fades, and deadlines pass (`SF`: a deadline may be set and reset any
number of times before one is left to run); the portal there owes no answer at
all. A call of `WriteFileAtomically` returns (`WF` of `Work` for each writer). A mouse
button is let go at some time (`WF` of `ReleaseMouse`), and the loop comes to its
save again and again, which may find the button pressed each time but the last
(`SF` of `SaveSettings`). A panel reads its socket (`WF` of `PanelHears`). Each Klip
carries on from where it is in `main` (`WF` of its own steps), the call to the owner
ends with a reply or a time-out. Nothing makes a user, a compositor, a frame or a sound
do anything. No fairness is given to the choice between success and failure.
`Encoder` and `AudioMix` state no liveness and have no fairness.

### What disagrees

Two disagreements have runs of their own.

* `withdrawn_starting` (`WithdrawnCastStops`). `Update` takes the answers and then the
  flag. A grant and the Closed of its session that arrive between the two leave the flag
  cleared in Starting; the next `Update` begins a recording of a cast that is over.
* `mix_too_large` (`MixFitsTheFrame`). `FinishAudio` encodes what is left in one frame,
  also where `EncodeAudioFrames` stopped at a frame that failed and several are left:
  the frame it reads them into is smaller.

The others are stated as properties in the modules and refuted by TLC, but have no run
that is kept: to see one, give its name as the `INVARIANT` or `PROPERTY` of a copy of
the module's configuration, with the constants named here where the run's own do not do.

* `LateEndSparesTheNext` (`RecorderProperties`). `CRecorder::Update` clears
  `m_withdrawn` "whether or not it still applies" (`recorder.cpp:219`), so that a late
  report cannot stop the next recording. A report has no identity, though: a capture
  fails after its grant and leaves its portal session open and followed; the next
  start subscribes over that subscription, and the end of the old session stops the new
  recording.
* `IdleHoldsNoSession` (`RecorderProperties`). When an audio device or the stream does
  not open, `CSession::Continue` closes the descriptor and leaves the portal session
  open, which `CPortalSession::Finish` takes care not to do.
* `TickedSourcesAreMetered` (`RecorderProperties`). After a refused or cancelled start
  the previews stay off although the window is visible and a source is ticked.
* `EveryHideSettles` (`StartFlowProperties`, 1 screenshot). `docs/traps.md:108` says to
  settle after every hide that a capture or a screenshot follows. `Begin` settles after
  its own; a window the user closes, or a picker the user dismisses, in the moment before
  a start from the tray is still on screen when the capture is asked for.
* `RevealSparesTheShot` (`StartFlowProperties`, 1 screenshot). A stop or a refused
  capture leaves a reveal for the end of the iteration. A start toggled before that hides
  the window, the reveal shows it again, and the capture is asked for after the settling
  with the window in shot.
* `LinkSurvives` (`AtomicFile`, 1 writer, 1 write, no faults). "A link a dotfile manager
  put in the file's place survives" (`files.cpp:54`), unless its target does not exist
  yet: then it cannot be resolved, and is replaced.
* `FallbackIsNeverWritten` (`MCSettingsStore`, 1 run, 3 acts, no edits, no faults). A
  device that stands in for one that is gone "is not the user's choice: nothing is
  written" (`recorder.cpp:361`); the next save of any other choice writes it.
* `ImportHappensOnce` (`MCSettingsStore`, 3 runs, no acts, no faults). "Once:
  config.json exists from then on" (`settings_store.cpp:128`), but not after a
  `config.json` that cannot be parsed has been moved aside.
* `StoredTokenIsLive` (`MCSettingsStore`, 3 acts). A grant that is queued when Klip quits
  is drained and never seen: the file keeps the token the portal has spent.
* `SavesTheTokenItHolds` (`MCSettingsStore`, 1 run, 3 acts, no edits). The changes are
  cleared before the write; after a write of a new token that failed, the save of a choice
  writes the spent token of `m_written` again.
* `AnyClockWillDo` (`MCEncoder`, `ClockAhead = 20`). "PipeWire's clock need not be the
  same one" (`session.cpp:430`), but the zero point is CLOCK_MONOTONIC's where the first
  frame has no stamp, and later frames bring PipeWire's: the difference wraps.
* `TimestampsAdvance` (`MCEncoder`). "An encoder rejects a timestamp that does not
  advance" (`encoder.cpp:1237`); the check looks at frames counted, and the first is not
  counted when its packets could not be drained.
* `NeverShiftsEarly` (`AudioMix`). A frame the codec refuses has been read from the fifos
  and is not counted: everything behind it is early by a frame.
* `OnlyRealHolesAreFilled` (`AudioMix`, `Counter = 4`). The count times 10^9 wraps after
  some 106 hours, and silence is then written where no source has skipped.
* `TokenReachesItsShow` (`Tray`, 2 clicks). A token that is taken in one pass behind another
  request is cleared at the end of that pass, before the Show it was sent for.
* `StaysOnScreenWithoutATray` (`Tray`). `Begin` looks whether there is a tray before it
  hides the window, `Toggle` does not when it hides it for a region's backdrop.
* `BetterTwoThanNone` (`SingleInstance`, 2 Klips, no faults). A Klip started while the
  owner is on its way out is refused the name, asks in vain, and leaves: none is left.

## The proofs

The theorems are of the form `Spec => []Inv`, `Spec => [][A]_vars` or `Spec => Abstract`,
for every value of the constants, under the assumptions named beside them: counts are
naturals, there is at least one slot, and a value that stands for "none" is not one of
the others. `CaptureRegion` also assumes that a frame and a region the selector lets
through are at least two pixels wide and high, and that a frame's sides are not within two
of the largest integer; a crop's numbers may be any, and sums wrap. TLC checked every invariant on the runs' instances before it
was proved.

**`FrameRingProofs`** proves `TypeOK`, `SlotsConserved`, `SemaphoreCounts` and
`EncoderOutlivesItsUsers`, and `EmptyMeansStop`: the encoder thread meets an empty
queue only in a stop. None of these is inductive. The invariant adds where each
thread can be in each phase of the main thread, that the slots with a thread are
the ones its phase says, that filled slots hold whole frames, and that an encoder
thread that has ended leaves an empty queue behind. `EnqueueLemma` and
`DequeueLemma` say what appending and taking do to a queue without repeats.
`FramesGoThroughAQueue` is the safety half of `IsALossyQueue`: every step of the
threads is a step of `LossyQueue` or none, for any number of slots. A frame is accepted
when it takes a slot, not when it is queued, so `Accepted` has to stay the same while
it is copied, queued and taken out: `KeptLemma` says that no slot written meanwhile
belongs to a queued frame, `Held` that the producer queues the frame it copied.
`RoomLemma` counts the slots: one free means room for a frame, none that the queue is
full but for the place the encoder thread is about to return.

**`PortalProofs`** begins with lemmas on the task queue of `PortalSession` and on the types
its steps keep, which depend on no caller. Of `Recorder` it proves the parts of
`RecorderInvariant` one by one and together (`RecorderIsInOrder`), `DescriptorsOwned`, `OneStartUnderWay` and
`NeverClosesItsOwnRecording`. Its invariant `Inv` has these parts:

* `Client`: the client is busy exactly while it has a callback, and follows
  nothing it has no handle for;
* `Stages`: a stream is open exactly while recording, and a Start is under way
  (`UnderWay`) exactly while the recorder waits for one;
* `OneAtATime`: of a posted Start, a busy client and an untaken answer there is at
  most one, and behind a posted Start there is no Close (`StartIsLast`), because
  the Close of the last stop was posted before it and the queue is a FIFO;
* `Owned`: the descriptors, as a function of the answer and the stream;
* `Ends`: what a termination leaves behind, before and after the bus thread has
  run it;
* `Windows`: a hidden window is owed a reveal.

`OneAtATime` carries the argument: without it, a Close could run while the next
recording's session is open, and an answer could find a descriptor of another.

`RecorderKeepsThePhases` is the safety half of `ImplementsPhases`: every step of the main
thread, the bus thread, PipeWire's thread and the portal is a step of `StartPhases` or
none (`PhaseStep`). It rests on `Stages`: an answer that is taken finds a recorder that
waits for one, with no region being picked and no window settling.

Of `PortalClient`, a caller without discipline, who starts, closes and terminates at any
moment, it proves `CallsStayApart`. Besides the types, `CallerInv` says that a live session has a handle to close it by (`Follows`), and that the termination waited
for is still queued or has ended the client, with no task behind it (`Closing`): then
nothing is left to call back with.

`StartsAreCalls` is the safety half of `EveryStartIsAnsweredOnce`: every step is a step of
`AsyncCall` or none, for any number of calls. `AnsweredOnce` is what it adds to `CallerInv`:
each Start that was called is posted, under way or answered, and only one of these, no
two posted ones are the same, and nothing stands behind a Terminate. `PostedLemma` and
`FrontLemma` say what posting and running a task do to the Starts a queue holds,
`EndsWithOneAnswer` that a response leaves the Start under way or answers it once.

**`StartFlowProofs`** proves the parts of `StartInvariant` one by one and together
(`StartIsInOrder`), the three other invariants of the `start_flow` run,
`OwnHidesSettle`, and that every step of `StartFlow` is a step of `StartPhases` or
a stutter (`FlowKeepsThePhases`; the fairness of `Ask` is left to TLC). Its
invariant `Inv` adds these parts to the properties:

* `Served`: which task the main thread waits for in which `Run`, and in which step;
* `Listening`: nothing listens once a task that dropped the subscription has run;
* `Noted`: an answer without a wake is one the iteration under way still takes;
* `Shots`: a screenshot that was not asked for is untouched, and there is one left
  to ask for when the flow is about to;
* `Owed`: a window hidden while Klip is idle is owed a reveal, and no reveal is
  left when the loop goes to sleep;
* `Hides`: what Klip hid is still on screen only while a settling's deadline runs.

**`AtomicFileProofs`** proves that `AtomicFile` implements `FileRegister`
(`WritesHappenAtOnce`), that no reader sees a torn text and a temporary file that stays is
owned up to (`TextsAreNeverTorn`), and that permissions are kept (`ModesAreKept`), for any number of
writers. The parts of the invariant: what a reader or the disk finds at a name is a whole
text whose data is synced (`Sound`); what the disk has of names and permissions the
readers have too, so that a loss of power takes none back (`Agree`); and, for each
writer, what its temporary file has at each call (`Progress`). Each call is then the
register's `Begin`, `Store` (the rename) or `End`, its `Flush` or `PowerLoss`, or a
stutter.

**`SingleInstanceProofs`** proves `KlipsTakeTurns`. `OneKlipRuns` is not inductive by
itself: the invariant adds that a Klip that runs under the name owns it (`RunnersOwn`)
and that a Klip has its application for as long as its process has a use for it
(`OpenWhileAlive`).

**`EncoderProofs`** proves `EncoderInvariant`, `FileIsWhole`, `TrackIsInTime` and
`RecordsTheRegion` for any number of recordings, frames and faults, a codec of any depth
and any clock under `ClockAssumption` (unit, nominal frame and width are positive, and the
compositor's clock may be any distance ahead or behind, as long as no stamp is negative). The track is one sequence `Track`, whatever part of
it is written, held or still in the codec, and the proof is about what each
operation does to that sequence: `EncodeFrame` appends to it, `DrainPackets` moves
packets along it, and a write that fails takes one packet out (`Drained`, `Accounted`,
`KeptLemma`). The parts of `InductiveInvariant`:

* `TrackInOrder`: the whole track ascends, and each duration reaches as far as the
  next packet, or up to it where packets were lost;
* `WhileItGoes`: while frames come in, the track has every frame that was sent and not
  lost, every one of them lies a nominal frame behind `nextPts`, and none is
  ahead of the time by more than a nominal frame for each frame before it (`InTime`):
  the one place where the argument multiplies by the number of frames;
* `WhenStopped`: what of this is left when the track is drained and closed;
* `Opened` and `Fresh`: what `Initialize` owns at each step, and that nothing of an
  earlier recording is left; `Clocks`: stamps, arrivals and the time in their order.

Of the region, `SideTest` says when the unsigned comparison of one side tells the truth,
and `TakesThePart` with it what `ResolveRegion` takes of any numbers at all. What fits is
rounded to even numbers (`Rounded`) and stays inside (`RoundingStaysIn`), where the last
byte read lies within `stride * height` (`ReadsInside`); a part that slips is outside
before and after (`SlippingLeaves`). So `RegionsAreRecorded` names the crops that leave the
frame, and leaves out none.

Of the sound it proves `NeverHeardEarly` (`NothingIsEarly`) and `MixInvariant` (`MixIsRight`)
for any finite set of sources and any sizes, jitter, holes and times. Two things hang on
the width of a count. Nothing is early where the samples of a recording can be counted
in 64 bits of nanoseconds (`MaxTime <= Counter`, some 106 hours), the hypothesis of
`NothingIsEarly`; and silence fills none but real holes as long as no track is longer than
that (`Unwrapped`), which a source whose buffers overlap can reach before the time does.
The rest of `MixInvariant` needs neither (`MixIsWhole`). The parts of `MixInv`:

* `TracksInTime`: a sample of a source lies on its track no earlier than it belongs, less a
  hole that is let pass (`PlacedInTime`), which `PlacedLemma` and `LevelLemma` show of
  placing a buffer and of levelling;
* `MixIsKept`: while no frame has failed, the file is the mix, sample by sample
  (`SamplesLemma`), so that what is in time on a track is in time in the file;
* `Together`: the sources are no further apart than a stall, and the mix no further behind
  them than that and a frame; of one length once the streams are closed;
* `Skips`: a source's clock is ahead of its track by no more than it has skipped, so that
  a hole as it is measured is one that was skipped.

`ExtremesLemma` says what `Max` and `Min` of a finite set are, which the library leaves to
`CHOOSE`; `AudioFramesLemma` that after the frames of a call some fifo has none left.

**`SettingsStoreProofs`** proves `FileHasTheTokens`, `HeldTokenIsLive` and
`SavesKeepTheFile` for any number of runs of Klip, tokens, edits by hand and faults,
`TypesHold` and `SettingsInvariant`. It assumes of the constants (`TokensAssumption`, `NumbersAreWide`) that the
portal grants no token twice, that tokens and the names of devices pass JSON unchanged,
as every text that comes over the bus in UTF-8 does, and that gains, rates and the version fit
a JSON integer. `TextLemma`, `WriteLemma` and `EditLemma` say what reading, writing and a
change by hand make of a text: what was written is read as it was, and is legal. The
parts of `InductiveInvariant` between the runs, the file and the portal:

* `Known`: as long as the store may save, the file is the text it has in mind, no newer
  Klip's, with its replaced values in the backup, and every field of it reads as
  `written` has it: this is what lets a save write `Merged` over it;
* `Unchanged`: a token that is not marked as changed is the one that is written;
* `Asked`: the portal was asked with the token of the settings, and its answer is that
  token, a new one, or none;
* `Apart`: every token that is held, written, in the file or on its way was issued, and
  none is both a screen's and a window's, so that a spent one is the other field's to keep;
* `Live`: while nothing has kept a change from the file (`Good`), a token that is held
  or in the file is alive, unless the portal has just spent it for an answer that is
  still on its way (`Spent`) or a change of it is still to be written.

An action's step lemma has a part for each of these. `Nothing`, `Failed` and `Wrote` are
the three ends of a save, `Loads` what a start leaves whichever file it finds: with them
`SavesKeepTheFile` is about two steps, a save and a start that finds nothing to keep.

The texts of `SettingsText` are proved from lemmas on any text at all. `AcceptedLemma`: a
value a reader takes is legal and is written as it stood there; so any document a parser
can give is safe to save over where nothing in it was rejected (`AnyTextIsSafe`), and what
two edits make of Klip's own is one of these (`FreshLemma`, `HandLemma`). `ImportsAreTaken`
goes through the readers and the texts Qt could have written for each. A rate has to fit
the integer an import parses; TLC's 12 bits and the code's 64 hold it.

**`TrayProofs`** proves `TrayTellsTheState` and `NothingComesTooLate` for any number of
recordings, ticks, clicks, restarts of the panel and tokens. `TrayTellsTheState` speaks of
moments when nothing is on its way; the invariant says what holds in between, of the two
queues that lie between the main thread, the tray and the panel:

* `InStep`: run in their order, the tasks posted so far make the tray say what the
  recorder is; a clock among them is run while the tray says that Klip records, so that
  none is left behind, and the tray's own Terminate while it says that it does not;
* `CatchesUp`: each part the panel shows becomes what the tray publishes once the panel
  has heard all that is on its way (`Has`), or the panel asks for it or is still to be told
  to. A change of the menu needs a menu to change: one is there or comes first
  (`MenuComes`);
* `Silent`: a tray that is gone has nothing left to hand over.

The lemmas on the queues (`ToldOnLemma`, `ToldTailLemma`, `HasOnLemma`, `HasTailLemma`) say
what becomes of `Told` and of `Has` when something is appended and when the front is taken.
A step then has to show only that what it posts leads from what the recorder was to what
it is (`PiecesLemma`), or that what it announces leads from what was shown to what is
(`Announced`). Of the constants it is assumed that the bounds are naturals and that no
token and no menu is the value that stands for none.

**Only model-checked.** All liveness, that of the abstract specifications included: of
`LossyQueue`, `AsyncCall` and `StartPhases` every step is proved, that a step comes is not.
No property is left out because of a recursive operator: folds and quantifiers do.

## Plan

1. *Done*: portal session, recorder and session, frame ring; their proofs.
2. *Done*: `StartFlow` with `Screenshot`, as a refinement of `StartPhases`; its proofs.
3. *Done*: `SettingsStore` over `AtomicFile`, with crashes, damage and tokens; the
   proofs of both.
4. *Done*: `Encoder`, `AudioMix`, `CaptureRegion`; the proofs of all three.
5. *Done*: `Tray`, `SingleInstance`; the proofs of both.
6. *Done*: the safety halves of `LossyQueue`, `AsyncCall` and `StartPhases`, each on the
   invariants of the module that implements it.
7. *Done*: what reading, writing and importing do to a settings text, for any document.

## Not modelled

* Drawing, text, the views, the pointer's path in the selector, level ballistics (a
  filter of the meters) and the contents of frames and sounds: none of it decides an
  order of events or a state that lasts.
* JSON syntax is nlohmann's; `SettingsJson` begins where a document is parsed. Finding
  the directories (`xdg_paths.cpp`), the log and its pruning happen once, at the start.
* Encoder capabilities: one question to FFmpeg and the GPU at the start, no state after.
* PipeWire's negotiation of formats and buffer layouts (`pipewire_stream.cpp`): the
  formats are a matter of its protocol, and the code keeps only the result. What that
  leaves open is listed as a hazard: a frame that grows during a recording.
* The audio devices' snapshot (`audio_devices.cpp`): one thread asks and waits half a
  second for the answer to its last question. `SettingsStore` takes any list that could
  come of it, complete, short or empty. When a list comes short is not modelled.
* The folder dialog: one answer to one call, kept in a mailbox that outlives its owner
  until it is taken; what it changes is a choice.
* FFmpeg, PipeWire, sd-bus, SDL and the engine's loop and queues are external and
  appear as the code uses them.

`PROJECT.json` says of every part whether it is modelled, partly or not, and why.

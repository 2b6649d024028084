---------------------------- MODULE SettingsStore ----------------------------
(***************************************************************************)
(* The settings between the user, the recorder, the portal and the disk:   *)
(* CSettingsStore (src/src/config/private/settings_store.cpp), the         *)
(* settings, changes and restore tokens of CRecorder                       *)
(* (src/src/recorder/private/recorder.cpp) and the saves of                *)
(* CApplication::Run (application.cpp), over several runs of Klip. A write *)
(* of the file is one step or none, which AtomicFile shows it is.          *)
(***************************************************************************)
EXTENDS SettingsJson, Sequences

CONSTANTS
  Tokens,                 \* the restore tokens the portal will grant, in order
  OldToken,               \* the ones a Klip.conf or a config.json may begin with,
  OldWindowToken,         \* for the screen and for a window
  DeviceLists,            \* the lists of audio devices PipeWire may show
  MaxRuns, MaxActs,       \* bound the runs of Klip and what the user does in them,
  MaxEdits, MaxFaults     \* the edits by hand and the failures

TokenFields == {"screenToken", "windowToken"}

(* Every name passes JSON as it is, and the portal grants no token twice.   *)
ASSUME TokensAssumption ==
  /\ TokenFields \cup {"source", "device", "rememberWindow"} \subseteq Fields
  /\ Tokens \in Seq(STRING)
  /\ \A i, j \in DOMAIN Tokens : Tokens[i] = Tokens[j] => i = j
  /\ \A i \in DOMAIN Tokens : Tokens[i] \notin {"", OldToken, OldWindowToken}
  /\ OldToken = OldWindowToken => OldToken = ""
  /\ \A t \in {OldToken, OldWindowToken} \cup {Tokens[i] : i \in DOMAIN Tokens} : t # "nul" /\ Dumped(t) = t
  /\ DeviceLists \subseteq Seq(STRING)
  /\ \A list \in DeviceLists : \A i \in DOMAIN list : list[i] # "nul"

VARIABLES
  main, bad, legacy,      \* config.json, config.json.bad and Klip.conf
  kept, canSave, written, \* CSettingsStore: m_kept, m_canSave, m_written
  settings, changes,      \* CRecorder: m_settings, m_changes
  devices, writtenDevice, \* CAudioDevices' list, m_writtenDevices
  phase,                  \* "off", "idle", "asked" for a capture, "recording"
  request,                \* what RequestCapture has sent
  answer,                 \* the token of the portal's answer, or NoAnswer
  held,                   \* the mouse is held
  live,                   \* the tokens the portal honours
  granted,                \* the tokens it has granted so far
  runs, acts, edits, faults, imports,  \* counts of what the bounds and properties name
  spared,                 \* nothing has kept a change from the file so far
  dropped,                \* a grant has come too late for Klip to take
  picked                  \* the user has picked a device in this run of Klip

fileVars     == <<main, bad, legacy>>
storeVars    == <<kept, canSave, written>>
recorderVars == <<settings, changes, devices, writtenDevice, phase, request, answer>>
portalVars   == <<live, granted>>
countVars    == <<runs, acts, edits, faults, imports, spared, dropped, picked>>
vars == <<fileVars, storeVars, recorderVars, portalVars, held, countVars>>

Missing   == [broken |-> "no file"]
NoAnswer  == [token |-> "none", granted |-> FALSE]
NoRequest == [field |-> "screenToken", keeps |-> TRUE, token |-> ""]
NoChanges == [choices |-> FALSE, screenToken |-> FALSE, windowToken |-> FALSE]

ChoiceFields == Fields \ TokenFields

IsDocument(t) == t \notin Broken \cup {Missing}
IsNewer(t)    == IsDocument(t) /\ Read(t).version > SettingsVersion
IsDamaged(t)  == t \in Broken \/ (IsDocument(t) /\ Read(t).numInvalid # 0)

-----------------------------------------------------------------------------
(* What an earlier run of Klip has left behind.                             *)
Left ==
  WriteSettingsJson([Defaults EXCEPT !["screenToken"] = OldToken, !["windowToken"] = OldWindowToken,
                                     !["device"] = "speaker"],
                    Empty)

Init ==
  /\ main \in {Left, Missing}
  /\ bad = Missing
  /\ legacy \in {Left, Missing}
  /\ kept = Missing
  /\ canSave = FALSE
  /\ written = Defaults
  /\ settings = Defaults
  /\ changes = NoChanges
  /\ devices = <<>>
  /\ writtenDevice = ""
  /\ phase = "off"
  /\ request = NoRequest
  /\ answer = NoAnswer
  /\ held = FALSE
  /\ live = {OldToken, OldWindowToken}
  /\ granted = 0
  /\ runs = 0
  /\ acts = 0
  /\ edits = 0
  /\ faults = 0
  /\ imports = 0
  /\ spared = TRUE
  /\ dropped = FALSE
  /\ picked = FALSE

Running == phase \in {"idle", "asked", "recording"}

(* The user does something.                                                 *)
Act ==
  /\ acts < MaxActs
  /\ acts' = acts + 1
  /\ UNCHANGED <<runs, edits, faults, imports, spared, dropped>>

Fault == faults < MaxFaults /\ faults' = faults + 1

-----------------------------------------------------------------------------
(* CSettingsStore::Write: the text last read or written, with the settings  *)
(* in it; skipped when the file already says the same.                      *)
TextOf(s) == WriteSettingsJson(s, IF kept = Missing THEN Empty ELSE kept)

(* Mutation of Write: what Klip does not know is not kept.                  *)
WriteAlone(s, stored) ==
  /\ stored
  /\ main' = WriteSettingsJson(s, Empty)
  /\ kept' = main'
  /\ UNCHANGED <<faults, spared>>

Write(s, stored) ==
  \/ stored /\ kept = TextOf(s) /\ UNCHANGED <<main, kept, faults, spared>>
  \/ stored /\ kept # TextOf(s) /\ main' = TextOf(s) /\ kept' = main' /\ UNCHANGED <<faults, spared>>
  \/ ~stored /\ kept # TextOf(s) /\ Fault /\ spared' = FALSE /\ UNCHANGED <<main, kept>>

(* CSettingsStore::Load, by what it finds: what it loads, whether it may    *)
(* save later, and what it does to the files.                               *)
(* Mutation of KeepBackup: a file that cannot be copied is saved over.      *)
KeepBackupOrNot(may) ==
  \/ bad' = main /\ canSave' = may /\ UNCHANGED <<faults, spared>>
  \/ Fault /\ bad' \in {bad, NotJson} /\ canSave' = may /\ UNCHANGED spared

(* A copy, since the file stays in use; a copy that fails may have cost the *)
(* last one.                                                                *)
KeepBackup(may) ==
  \/ bad' = main /\ canSave' = may /\ UNCHANGED <<faults, spared>>
  \/ Fault /\ bad' \in {bad, NotJson} /\ canSave' = FALSE /\ UNCHANGED spared

(* Mutation of LoadDocument: the version is not looked at.                  *)
LoadAnyVersion ==
  /\ IsDocument(main)
  /\ kept' = main
  /\ \/ Read(main).numInvalid # 0 /\ KeepBackup(TRUE)
     \/ Read(main).numInvalid = 0 /\ canSave' = TRUE /\ UNCHANGED <<bad, faults, spared>>
  /\ written' = Read(main).settings
  /\ UNCHANGED <<main, imports>>

LoadDocument ==
  /\ IsDocument(main)
  /\ kept' = main
  /\ \/ Read(main).numInvalid # 0 /\ KeepBackup(~IsNewer(main))
     \/ /\ Read(main).numInvalid = 0
        /\ canSave' = ~IsNewer(main)
        /\ UNCHANGED <<bad, faults, spared>>
  /\ written' = Read(main).settings
  /\ UNCHANGED <<main, imports>>

(* Renamed, so a typo in a hand edit never costs every other setting.       *)
MoveAside ==
  /\ main \in Broken
  /\ kept' = Missing
  /\ \/ bad' = main /\ main' = Missing /\ canSave' = TRUE /\ UNCHANGED faults
     \/ Fault /\ canSave' = FALSE /\ UNCHANGED <<main, bad>>
  /\ written' = Defaults
  /\ UNCHANGED <<imports, spared>>

(* Import with a Klip.conf to read: its settings are written at once.       *)
ImportLegacy ==
  /\ main = Missing
  /\ legacy # Missing
  /\ imports' = imports + 1
  /\ written' = Read(legacy).settings
  /\ \E stored \in BOOLEAN : Write(written', stored)
  /\ canSave' = TRUE
  /\ UNCHANGED bad

(* No Klip.conf, or one that cannot be read.                                *)
ImportNothing ==
  /\ main = Missing
  /\ \/ legacy = Missing /\ UNCHANGED faults
     \/ legacy # Missing /\ Fault
  /\ kept' = Missing
  /\ canSave' = TRUE
  /\ written' = Defaults
  /\ UNCHANGED <<main, bad, imports, spared>>

(* A file that is there and cannot be read is left alone.                   *)
LoadUnreadable ==
  /\ main # Missing
  /\ Fault
  /\ kept' = Missing
  /\ canSave' = FALSE
  /\ written' = Defaults
  /\ UNCHANGED <<main, bad, imports, spared>>

Load ==
  \/ LoadDocument
  \/ MoveAside
  \/ ImportLegacy
  \/ ImportNothing
  \/ LoadUnreadable

-----------------------------------------------------------------------------
(* CRecorder.                                                               *)

(* RefreshAudioDevices: the first device stands in for one that is gone.    *)
Available(wanted, list) ==
  IF \E i \in DOMAIN list : list[i] = wanted THEN wanted
  ELSE IF list # <<>> THEN Head(list) ELSE ""

(* Klip starts: CSettingsStore::Load, CRecorder::Initialize.                *)
Start ==
  /\ phase = "off"
  /\ runs < MaxRuns
  /\ runs' = runs + 1
  /\ Load
  /\ writtenDevice' = written'["device"]
  /\ devices' \in DeviceLists
  /\ settings' = [written' EXCEPT !["device"] = Available(@, devices')]
  /\ phase' = "idle"
  /\ UNCHANGED <<legacy, changes, request, answer, portalVars, held, acts, edits, dropped, picked>>

(* One of the setters, which the view calls while nothing is recorded.      *)
Choose ==
  /\ phase = "idle"
  /\ Act
  /\ \/ \E v \in {"Screen", "Window"} : settings' = [settings EXCEPT !["source"] = v]
     \/ \E v \in BOOLEAN : settings' = [settings EXCEPT !["rememberWindow"] = v]
     \/ \E i \in DOMAIN devices : settings' = [settings EXCEPT !["device"] = devices[i]]
  /\ picked' = (picked \/ settings'["device"] # settings["device"])
  /\ changes' = [changes EXCEPT !.choices = TRUE]
  /\ UNCHANGED <<fileVars, storeVars, devices, writtenDevice, phase, request, answer,
                 portalVars, held>>

(* The window is shown again, and the devices are not what they were.       *)
RefreshAudioDevices ==
  /\ Running
  /\ Act
  /\ devices' \in DeviceLists
  /\ settings' = [settings EXCEPT !["device"] =
                    Available(IF devices = <<>> THEN writtenDevice ELSE @, devices')]
  /\ UNCHANGED <<fileVars, storeVars, changes, writtenDevice, phase, request, answer,
                 portalVars, held, picked>>

TokenField(source) == IF source = "Window" THEN "windowToken" ELSE "screenToken"

KeepsGrant(source, remember) == source # "Window" \/ remember

(* Mutation of RequestCapture: the token of a grant that is not kept stays  *)
(* in the file.                                                             *)
RequestQuietly ==
  /\ phase = "idle"
  /\ Act
  /\ phase' = "asked"
  /\ LET f     == TokenField(settings["source"])
         keeps == KeepsGrant(settings["source"], settings["rememberWindow"])
     IN  /\ settings' = IF keeps THEN settings ELSE [settings EXCEPT ![f] = ""]
         /\ request' = [field |-> f, keeps |-> keeps, token |-> settings'[f]]
  /\ answer' = NoAnswer
  /\ UNCHANGED <<fileVars, storeVars, changes, devices, writtenDevice, portalVars, held, picked>>

(* RequestCapture: a grant that is not kept is asked for without a token,   *)
(* and forgets the one there was.                                           *)
RequestCapture ==
  /\ phase = "idle"
  /\ Act
  /\ phase' = "asked"
  /\ LET f     == TokenField(settings["source"])
         keeps == KeepsGrant(settings["source"], settings["rememberWindow"])
     IN  /\ settings' = IF keeps THEN settings ELSE [settings EXCEPT ![f] = ""]
         /\ changes' = IF keeps THEN changes ELSE [changes EXCEPT ![f] = TRUE]
         /\ request' = [field |-> f, keeps |-> keeps, token |-> settings'[f]]
  /\ answer' = NoAnswer
  /\ UNCHANGED <<fileVars, storeVars, devices, writtenDevice, portalVars, held, picked>>

(* The portal grants and spends the token it was sent; a grant it is to     *)
(* keep comes with the next token, or with the same one again.              *)
PortalGrants ==
  /\ phase = "asked"
  /\ answer = NoAnswer
  /\ \/ /\ request.keeps
        /\ granted < Len(Tokens)
        /\ granted' = granted + 1
        /\ live' = (live \ {request.token}) \cup {Tokens[granted']}
        /\ answer' = [token |-> Tokens[granted'], granted |-> TRUE]
     \/ /\ request.token \in live \/ ~request.keeps
        /\ answer' = [token |-> request.token, granted |-> TRUE]
        /\ UNCHANGED portalVars
  /\ UNCHANGED <<fileVars, storeVars, settings, changes, devices, writtenDevice, phase, request,
                 held, countVars>>

(* The user, or the portal, refuses.                                        *)
PortalRefuses ==
  /\ phase = "asked"
  /\ answer = NoAnswer
  /\ answer' = [token |-> "", granted |-> FALSE]
  /\ UNCHANGED <<fileVars, storeVars, settings, changes, devices, writtenDevice, phase, request,
                 portalVars, held, countVars>>

(* Mutation of OnStarted: the token of a start that failed is dropped.      *)
OnStartedWell ==
  /\ phase = "asked"
  /\ answer # NoAnswer
  /\ \E started \in {answer.granted, FALSE} :
       /\ phase' = IF started THEN "recording" ELSE "idle"
       /\ IF started /\ request.keeps /\ answer.token \notin {"", request.token}
          THEN /\ settings' = [settings EXCEPT ![request.field] = answer.token]
               /\ changes' = [changes EXCEPT ![request.field] = TRUE]
          ELSE UNCHANGED <<settings, changes>>
  /\ request' = NoRequest
  /\ answer' = NoAnswer
  /\ UNCHANGED <<fileVars, storeVars, devices, writtenDevice, portalVars, held, countVars>>

(* OnStarted takes the token whether or not the recording started: the      *)
(* portal spent the one it was sent.                                        *)
OnStarted ==
  /\ phase = "asked"
  /\ answer # NoAnswer
  /\ \E started \in {answer.granted, FALSE} : phase' = IF started THEN "recording" ELSE "idle"
  /\ IF request.keeps /\ answer.token \notin {"", request.token}
     THEN /\ settings' = [settings EXCEPT ![request.field] = answer.token]
          /\ changes' = [changes EXCEPT ![request.field] = TRUE]
     ELSE UNCHANGED <<settings, changes>>
  /\ request' = NoRequest
  /\ answer' = NoAnswer
  /\ UNCHANGED <<fileVars, storeVars, devices, writtenDevice, portalVars, held, countVars>>

StopRecording ==
  /\ phase = "recording"
  /\ phase' = "idle"
  /\ UNCHANGED <<fileVars, storeVars, settings, changes, devices, writtenDevice, request, answer,
                 portalVars, held, countVars>>

-----------------------------------------------------------------------------
(* CApplication: a save at the end of every iteration, and one at exit.     *)

(* Mutation of Merged: whatever changes is written with all the rest.       *)
MergedWhole == settings

(* Only what the changes name is taken from the settings.                   *)
Merged ==
  [f \in Fields |->
     IF IF f \in TokenFields THEN changes[f] ELSE changes.choices THEN settings[f] ELSE written[f]]

Changed == changes # NoChanges

(* CSettingsStore::Save with the changes TakeSettingsChanges gives up.      *)
Save ==
  /\ changes' = NoChanges
  /\ writtenDevice' = IF changes.choices THEN settings["device"] ELSE writtenDevice
  /\ IF canSave /\ Changed
     THEN \E stored \in BOOLEAN :
            /\ Write(Merged, stored)
            /\ written' = IF stored THEN Merged ELSE written
     ELSE /\ spared' = (spared /\ ~Changed)
          /\ UNCHANGED <<main, kept, written, faults>>
  /\ UNCHANGED <<bad, legacy, canSave, settings, devices, portalVars, held, runs, acts, edits, imports>>

(* Mutation of SaveSettings: not while a recording is asked for either.     *)
SaveIdle ==
  /\ phase = "idle"
  /\ Changed
  /\ ~held
  /\ Save
  /\ UNCHANGED <<phase, request, answer, dropped, picked>>

(* Not while the mouse is held, so a drag writes once.                      *)
SaveSettings ==
  /\ Running
  /\ Changed
  /\ ~held
  /\ Save
  /\ UNCHANGED <<phase, request, answer, dropped, picked>>

HoldMouse ==
  /\ Running
  /\ Act
  /\ ~held
  /\ held' = TRUE
  /\ UNCHANGED <<fileVars, storeVars, recorderVars, portalVars, picked>>

ReleaseMouse ==
  /\ held
  /\ held' = FALSE
  /\ UNCHANGED <<fileVars, storeVars, recorderVars, portalVars, countVars>>

(* CApplication::Terminate: an answer that is still queued is dropped, and  *)
(* the settings are saved, held mouse or not.                               *)
Quit ==
  /\ Running
  /\ phase' = "leaving"
  /\ Save
  /\ dropped' = (dropped \/ answer.granted)
  /\ request' = NoRequest
  /\ answer' = NoAnswer
  /\ UNCHANGED picked

(* Nothing of the process is left but its files.                            *)
Gone ==
  /\ phase' = "off"
  /\ kept' = Missing
  /\ canSave' = FALSE
  /\ written' = Defaults
  /\ settings' = Defaults
  /\ changes' = NoChanges
  /\ devices' = <<>>
  /\ writtenDevice' = ""
  /\ request' = NoRequest
  /\ answer' = NoAnswer
  /\ held' = FALSE
  /\ picked' = FALSE
  /\ UNCHANGED <<fileVars, portalVars, runs, acts, edits, imports>>

Exit ==
  /\ phase = "leaving"
  /\ Gone
  /\ UNCHANGED <<faults, spared, dropped>>

(* Klip is killed, or the session ends under it.                            *)
Die ==
  /\ Running
  /\ Fault
  /\ spared' = (spared /\ ~Changed)
  /\ dropped' = (dropped \/ answer.granted)
  /\ Gone

-----------------------------------------------------------------------------
(* A hand edit while Klip does not run: the file is spoilt, comes from a    *)
(* newer Klip, or has a bad value or a key of somebody else's.              *)
EditByHand ==
  /\ phase = "off"
  /\ edits < MaxEdits
  /\ edits' = edits + 1
  /\ \/ main # Missing /\ main' \in Broken
     \/ /\ IsDocument(main)
        /\ \/ main' = [main EXCEPT !.version = Number(SettingsVersion + 1)]
           \/ main' = [main EXCEPT !.field["source"] = Null, !.own = FALSE]
           \/ main' = [main EXCEPT !.unknown["root"] = TRUE, !.own = FALSE]
  /\ main' # main
  /\ UNCHANGED <<bad, legacy, storeVars, recorderVars, portalVars, held, runs, acts, faults, imports, spared,
                 dropped, picked>>

Next ==
  \/ Start
  \/ Choose
  \/ RefreshAudioDevices
  \/ RequestCapture
  \/ PortalGrants
  \/ PortalRefuses
  \/ OnStarted
  \/ StopRecording
  \/ SaveSettings
  \/ HoldMouse
  \/ ReleaseMouse
  \/ Quit
  \/ Exit
  \/ Die
  \/ EditByHand

Spec ==
  /\ Init
  /\ [][Next]_vars
  /\ WF_vars(ReleaseMouse)
  /\ SF_vars(SaveSettings)

-----------------------------------------------------------------------------
TypeOK ==
  /\ phase = "off" \/ phase = "leaving" \/ Running
  /\ canSave \in BOOLEAN
  /\ changes \in [{"choices", "screenToken", "windowToken"} -> BOOLEAN]
  /\ held \in BOOLEAN
  /\ Running => settings["device"] \in {devices[i] : i \in DOMAIN devices} \cup {""}
  /\ DOMAIN settings = Fields
  /\ DOMAIN written = Fields
  /\ ~Running => kept = Missing \/ phase = "leaving"

(* A file a newer Klip wrote is never changed by this one, whatever else is *)
(* wrong with it (test NewerFormatIsNeverSavedOver).                        *)
NewerIsNeverSavedOver == [][IsNewer(main) /\ edits' = edits => main' = main]_vars

(* Values that were replaced by defaults are in the backup by the time the  *)
(* file that holds them changes, whichever of the calls in between failed   *)
(* (settings_store.cpp:211, :234).                                          *)
ReplacedValuesAreKept == [][IsDamaged(main) /\ edits' = edits /\ main' # main => bad' = main]_vars

(* The keys this Klip does not know survive every save, across restarts and *)
(* saves that failed (test UnknownKeysSurviveASave).                        *)
UnknownKeysSurvive ==
  [][IsDocument(main) /\ edits' = edits /\ main' # main
       => IsDocument(main') /\ main'.unknown = main.unknown]_vars

(* A token that arrives changes no choice in the file: not the device the   *)
(* recorder fell back to, nor one a failed save left out                    *)
(* (settings_store.cpp:107, test TokenChangeKeepsTheStoredChoices).         *)
TokenSaveKeepsChoices ==
  [][IsDocument(main) /\ edits' = edits /\ ~changes.choices /\ main' # main
       => \A f \in ChoiceFields : Read(main').settings[f] = Read(main).settings[f]]_vars

(* What a save never does to the file it is made over, whichever of its     *)
(* steps has failed before (CSettingsStore::Load and Save).                 *)
SavesKeepTheFile ==
  NewerIsNeverSavedOver /\ ReplacedValuesAreKept /\ UnknownKeysSurvive /\ TokenSaveKeepsChoices

(* Unless something kept a change from it, the file has the tokens the      *)
(* recorder has once it is saved: one that replaces a spent token, and none *)
(* where a grant was not to be kept.                                        *)
FileHasTheTokens ==
  (Running /\ canSave /\ spared /\ ~Changed /\ IsDocument(main)) =>
    \A f \in TokenFields : Read(main).settings[f] = settings[f]

(* No token the portal has spent is held for the next start, through        *)
(* restarts, refusals and starts that fail after the grant                  *)
(* (recorder.cpp:504), unless a change was kept from the file, somebody put *)
(* an old token back by hand, or a grant came as Klip was leaving.          *)
HeldTokenIsLive ==
  (phase \in {"idle", "recording"} /\ spared /\ edits = 0 /\ ~dropped) =>
    \A f \in TokenFields : settings[f] \in live \cup {""}

(* A choice reaches the file, however long the mouse is held, unless it is  *)
(* chosen over, Klip leaves, or the file cannot be written.                 *)
ChoiceReachesTheFile ==
  \A v \in {"Screen", "Window"} :
    (Running /\ canSave /\ changes.choices /\ settings["source"] = v)
      ~> (\/ IsDocument(main) /\ Read(main).settings["source"] = v
          \/ settings["source"] # v
          \/ ~Running
          \/ ~spared)

(* "A device that went away falls back to the first one, and that is not    *)
(* the user's choice: nothing is written" (recorder.cpp:361).               *)
FallbackIsNeverWritten ==
  [][Running /\ IsDocument(main) /\ main' # main
       => picked \/ Read(main').settings["device"] = Read(main).settings["device"]]_vars

(* "Once: config.json exists from then on" (settings_store.cpp:128).        *)
ImportHappensOnce == imports <= 1

(* "Whether or not it started: the portal spent the token it was sent"      *)
(* (recorder.cpp:504), so the next run of Klip finds the one that replaced  *)
(* it.                                                                      *)
StoredTokenIsLive ==
  (phase = "off" /\ edits = 0 /\ spared /\ IsDocument(main)) =>
    \A f \in TokenFields : Read(main).settings[f] \in live \cup {""}

(* "Reuse the portal restore_token or the compositor's picker appears on    *)
(* every single Start" (docs/traps.md:13): what a save writes is the token  *)
(* the recorder holds, not one it has replaced.                             *)
SavesTheTokenItHolds ==
  [][Running /\ IsDocument(main) /\ main' # main
       => \A f \in TokenFields : Read(main').settings[f] = settings[f]]_vars
=============================================================================

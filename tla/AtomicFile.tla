----------------------------- MODULE AtomicFile -----------------------------
(***************************************************************************)
(* WriteFileAtomically (src/src/json/private/files.cpp), call by call,     *)
(* when several programs write one file and programs or the power fail.    *)
(* The file system is the environment: a file's data is on the disk after  *)
(* fsync, a directory's entries whenever the system gets to it.            *)
(***************************************************************************)
EXTENDS Naturals

CONSTANTS
  Writers,                \* the programs that write the file
  Texts,                  \* what they may write
  NoText,                 \* no file at a name
  MaxWrites,              \* bounds the calls of WriteFileAtomically
  MaxFaults               \* bounds the calls that fail, the deaths and the losses of power

ASSUME NoTextIsNoText == NoText \notin Texts \cup {"link"}

(* What a file holds besides a text: nothing, part of one, or, after a loss *)
(* of power, whatever the disk happened to have of it.                      *)
Fragments == {"empty", "part", "torn"}

ASSUME TextsAreWhole == Texts \cap Fragments = {} /\ NoText \notin Fragments

Modes == {"private", "normal"}      \* 0600, which mkostemp gives, and the usual 0644
File  == [text : Texts \cup Fragments, mode : Modes, synced : BOOLEAN]
NoFile == [text |-> NoText]         \* nothing at a name
Link  == [text |-> "link"]          \* what a dotfile manager put at the name: a link to "target"
Names == {"path", "target"}

VARIABLES
  entry,                  \* per name: NoFile, a File, or, for "path", the Link
  durable,                \* per name: what a loss of power leaves at least
  pc,                     \* per writer: its next call, "idle" between two writes, "dead" after its end
  text,                   \* per writer: the text it writes
  name,                   \* per writer: target, the name ResolveLink found
  temp,                   \* per writer: its last write's temporary file, or NoFile
  failed,                 \* per writer: failure is not empty
  warned,                 \* per writer: the log says that the temporary file stays
  writes, faults

diskVars   == <<entry, durable>>
writerVars == <<pc, text, name, temp, failed, warned>>
vars       == <<diskVars, writerVars, writes, faults>>

Resting == {"idle", "dead"}
Calling == {"create", "mode", "write", "sync", "close", "rename", "remove", "return"}
Steps   == Resting \cup Calling

TypeOK ==
  /\ entry \in [Names -> File \cup {NoFile, Link}]
  /\ durable \in [Names -> File \cup {NoFile, Link}]
  /\ pc \in [Writers -> Steps]
  /\ text \in [Writers -> Texts \cup {NoText}]
  /\ name \in [Writers -> Names]
  /\ temp \in [Writers -> File \cup {NoFile}]
  /\ failed \in [Writers -> BOOLEAN]
  /\ warned \in [Writers -> BOOLEAN]
  /\ writes \in Nat
  /\ faults \in Nat

-----------------------------------------------------------------------------
(* A link that leads nowhere resolves to itself: canonical fails.           *)
ResolveLink == IF entry["path"] = Link /\ entry["target"] # NoFile THEN "target" ELSE "path"

(* Mutation of GetFileMode: a file already there is not looked at.          *)
GetFileModeOfNone(n) == "normal"

(* Mutation of GetFileMode: the file's type stays in its mode.              *)
GetFileModeUnmasked(n) == IF entry[n] \in {NoFile, Link} THEN "normal" ELSE "regular"

(* stat follows a link; nothing is found behind one that leads nowhere.     *)
GetFileMode(n) == IF entry[n] \in {NoFile, Link} THEN "normal" ELSE entry[n].mode

(* What a program that opens the file gets.                                 *)
Seen == IF entry["path"] = Link THEN entry["target"].text ELSE entry["path"].text

Kept == IF durable["path"] = Link THEN durable["target"].text ELSE durable["path"].text

Whole == {[text |-> t, mode |-> m, synced |-> TRUE] : t \in Texts, m \in Modes}

Init ==
  /\ entry \in [Names -> Whole \cup {NoFile, Link}]
  /\ entry["target"] # Link
  /\ entry["target"] # NoFile => entry["path"] = Link
  /\ durable = entry
  /\ pc = [w \in Writers |-> "idle"]
  /\ text = [w \in Writers |-> NoText]
  /\ name = [w \in Writers |-> "path"]
  /\ temp = [w \in Writers |-> NoFile]
  /\ failed = [w \in Writers |-> FALSE]
  /\ warned = [w \in Writers |-> FALSE]
  /\ writes = 0
  /\ faults = 0

-----------------------------------------------------------------------------
(* A step of a writer: what it does when the call succeeds, and that any    *)
(* call may fail.                                                           *)
Goto(w, step) == pc' = [pc EXCEPT ![w] = step]

Fault == faults < MaxFaults /\ faults' = faults + 1

Fail(w, step) ==
  /\ Fault
  /\ failed' = [failed EXCEPT ![w] = TRUE]
  /\ Goto(w, step)

(* Of a file that an earlier write left on the disk nothing is known any     *)
(* more: no write looks for it, and the next has a name of its own.         *)
Begin(w) ==
  /\ pc[w] \in Resting
  /\ writes < MaxWrites
  /\ writes' = writes + 1
  /\ \E t \in Texts : text' = [text EXCEPT ![w] = t]
  /\ name' = [name EXCEPT ![w] = ResolveLink]
  /\ temp' = [temp EXCEPT ![w] = NoFile]
  /\ failed' = [failed EXCEPT ![w] = FALSE]
  /\ warned' = [warned EXCEPT ![w] = FALSE]
  /\ Goto(w, "create")
  /\ UNCHANGED <<diskVars, faults>>

(* mkostemp: a name of its own beside the target.                           *)
Create(w) ==
  /\ pc[w] = "create"
  /\ \/ /\ temp' = [temp EXCEPT ![w] = [text |-> "empty", mode |-> "private", synced |-> FALSE]]
        /\ Goto(w, "mode")
        /\ UNCHANGED <<failed, faults>>
     \/ /\ Fail(w, "return")
        /\ UNCHANGED temp
  /\ UNCHANGED <<diskVars, text, name, warned, writes>>

SetMode(w) ==
  /\ pc[w] = "mode"
  /\ \/ /\ temp' = [temp EXCEPT ![w].mode = GetFileMode(name[w])]
        /\ Goto(w, "write")
        /\ UNCHANGED <<failed, faults>>
     \/ /\ Fail(w, "close")
        /\ UNCHANGED temp
  /\ UNCHANGED <<diskVars, text, name, warned, writes>>

(* Mutation of WriteAll: a write that took only part of the text ends it.   *)
WriteOnce(w) ==
  /\ pc[w] = "write"
  /\ \/ /\ \E t \in {text[w], "part"} : temp' = [temp EXCEPT ![w].text = t]
        /\ Goto(w, "sync")
        /\ UNCHANGED <<failed, faults>>
     \/ /\ temp' = [temp EXCEPT ![w].text = "part"]
        /\ Fail(w, "close")
  /\ UNCHANGED <<diskVars, text, name, warned, writes>>

(* Mutation of WriteAll: a write that took part of the text starts over.    *)
WriteOver(w) ==
  /\ pc[w] = "write"
  /\ \/ /\ temp' = [temp EXCEPT ![w].text = IF @ = "empty" THEN "part" ELSE "empty"]
        /\ UNCHANGED <<pc, failed, faults>>
     \/ /\ temp' = [temp EXCEPT ![w].text = text[w]]
        /\ Goto(w, "sync")
        /\ UNCHANGED <<failed, faults>>
  /\ UNCHANGED <<diskVars, text, name, warned, writes>>

(* write may take part of the text at a time; an EINTR changes nothing.     *)
WriteAll(w) ==
  /\ pc[w] = "write"
  /\ \/ /\ temp[w].text = "empty"
        /\ temp' = [temp EXCEPT ![w].text = "part"]
        /\ UNCHANGED <<pc, failed, faults>>
     \/ /\ temp' = [temp EXCEPT ![w].text = text[w]]
        /\ Goto(w, "sync")
        /\ UNCHANGED <<failed, faults>>
     \/ /\ Fail(w, "close")
        /\ UNCHANGED temp
  /\ UNCHANGED <<diskVars, text, name, warned, writes>>

(* Mutation of Sync: no fsync.                                              *)
SyncNothing(w) ==
  /\ pc[w] = "sync"
  /\ Goto(w, "close")
  /\ UNCHANGED <<diskVars, text, name, temp, failed, warned, writes, faults>>

Sync(w) ==
  /\ pc[w] = "sync"
  /\ \/ /\ temp' = [temp EXCEPT ![w].synced = TRUE]
        /\ Goto(w, "close")
        /\ UNCHANGED <<failed, faults>>
     \/ /\ Fail(w, "close")
        /\ UNCHANGED temp
  /\ UNCHANGED <<diskVars, text, name, warned, writes>>

Close(w) ==
  /\ pc[w] = "close"
  /\ \/ /\ Goto(w, IF failed[w] THEN "remove" ELSE "rename")
        /\ UNCHANGED <<failed, faults>>
     \/ Fail(w, "remove")
  /\ UNCHANGED <<diskVars, text, name, temp, warned, writes>>

(* Mutation of Rename: one that fails is not cleaned up after.              *)
RenameOnly(w) ==
  /\ pc[w] = "rename"
  /\ \/ /\ entry' = [entry EXCEPT ![name[w]] = temp[w]]
        /\ temp' = [temp EXCEPT ![w] = NoFile]
        /\ Goto(w, "return")
        /\ UNCHANGED <<failed, faults>>
     \/ /\ Fail(w, "return")
        /\ UNCHANGED <<entry, temp>>
  /\ UNCHANGED <<durable, text, name, warned, writes>>

(* rename: what was at the name is replaced in one step, a link with it.    *)
Rename(w) ==
  /\ pc[w] = "rename"
  /\ \/ /\ entry' = [entry EXCEPT ![name[w]] = temp[w]]
        /\ temp' = [temp EXCEPT ![w] = NoFile]
        /\ Goto(w, "return")
        /\ UNCHANGED <<failed, faults>>
     \/ /\ Fail(w, "remove")
        /\ UNCHANGED <<entry, temp>>
  /\ UNCHANGED <<durable, text, name, warned, writes>>

(* Mutation of Remove: a file that stays is not spoken of.                  *)
RemoveSilently(w) ==
  /\ pc[w] = "remove"
  /\ \/ /\ temp' = [temp EXCEPT ![w] = NoFile]
        /\ UNCHANGED faults
     \/ /\ Fault
        /\ UNCHANGED temp
  /\ Goto(w, "return")
  /\ UNCHANGED <<diskVars, text, name, failed, warned, writes>>

(* A file that cannot be removed either stays: the log says so, the write   *)
(* has failed already.                                                      *)
Remove(w) ==
  /\ pc[w] = "remove"
  /\ \/ /\ temp' = [temp EXCEPT ![w] = NoFile]
        /\ UNCHANGED <<warned, faults>>
     \/ /\ Fault
        /\ warned' = [warned EXCEPT ![w] = TRUE]
        /\ UNCHANGED temp
  /\ Goto(w, "return")
  /\ UNCHANGED <<diskVars, text, name, failed, writes>>

Return(w) ==
  /\ pc[w] = "return"
  /\ Goto(w, "idle")
  /\ text' = [text EXCEPT ![w] = NoText]
  /\ UNCHANGED <<diskVars, name, temp, failed, warned, writes, faults>>

Work(w) ==
  \/ Create(w)
  \/ SetMode(w)
  \/ WriteAll(w)
  \/ Sync(w)
  \/ Close(w)
  \/ Rename(w)
  \/ Remove(w)
  \/ Return(w)

-----------------------------------------------------------------------------
(* What else happens to the file and to those who write it.                 *)

(* The program dies between two calls: its temporary file stays for good.   *)
Die(w) ==
  /\ pc[w] \in Calling
  /\ Fault
  /\ Goto(w, "dead")
  /\ text' = [text EXCEPT ![w] = NoText]
  /\ failed' = [failed EXCEPT ![w] = FALSE]
  /\ UNCHANGED <<diskVars, name, temp, warned, writes>>

(* The system writes its directories out when it likes.                     *)
Flush ==
  /\ durable # entry
  /\ durable' = entry
  /\ UNCHANGED <<entry, writerVars, writes, faults>>

(* Data that was not synced is lost with the power.                         *)
Settled(f) ==
  IF f \in {NoFile, Link} \/ f.synced THEN f ELSE [f EXCEPT !.text = "torn", !.synced = TRUE]

PowerLoss ==
  /\ Fault
  /\ \E disk \in {entry, durable} : entry' = [n \in Names |-> Settled(disk[n])]
  /\ durable' = entry'
  /\ pc' = [w \in Writers |-> "dead"]
  /\ text' = [w \in Writers |-> NoText]
  /\ \E left \in SUBSET Writers :
       temp' = [w \in Writers |-> IF w \in left THEN Settled(temp[w]) ELSE NoFile]
  /\ failed' = [w \in Writers |-> FALSE]
  /\ UNCHANGED <<name, warned, writes>>

Next ==
  \/ \E w \in Writers : Begin(w) \/ Work(w) \/ Die(w)
  \/ Flush
  \/ PowerLoss

Spec ==
  /\ Init
  /\ [][Next]_vars
  /\ \A w \in Writers : WF_vars(Work(w))

-----------------------------------------------------------------------------
(* Whatever fails, dies or loses power, and whoever else writes: a reader   *)
(* of the file finds a whole text, or none where there never was one        *)
(* ("neither a crash nor a second writer can tear it", files.cpp:151).      *)
NeverTorn == Seen \in Texts \cup {NoText}

(* A file keeps the permissions it had when a save replaces it, and a new   *)
(* one gets the usual ones, however the temporary file was made.            *)
KeepsItsMode ==
  [][\A n \in Names :
       /\ entry[n] \notin {NoFile, Link} /\ entry'[n] \notin {NoFile, Link}
         => entry'[n].mode = entry[n].mode]_vars

(* A write that fails cleans up after itself: a temporary file that stays   *)
(* beside the settings when a write has returned is one that could not be   *)
(* removed, and then the caller has its failure and the log its warning     *)
(* (files.cpp:192-201). A death or a loss of power leaves one unsaid.       *)
LeftoversAreSaid ==
  \A w \in Writers :
    /\ pc[w] = "create" => temp[w] = NoFile
    /\ pc[w] \in {"idle", "return"} /\ temp[w] # NoFile => failed[w] /\ warned[w]

(* No run of failures keeps a save from returning to the loop it is called  *)
(* on.                                                                      *)
WritesReturn == \A w \in Writers : (pc[w] \in Calling) ~> (pc[w] \in Resting)

(* Around the text a write leaves everything as it was: nothing beside the  *)
(* file that it does not own up to, its permissions, and its caller, who    *)
(* gets an answer.                                                          *)
WritesAreTidy == [](TypeOK /\ NeverTorn /\ LeftoversAreSaid) /\ KeepsItsMode /\ WritesReturn

(* A write is one step of a register that survives a loss of power, and     *)
(* returns success if and only if that step was taken.                      *)
Register == INSTANCE FileRegister WITH
  value  <- Seen,
  kept   <- Kept,
  call   <- text,
  stored <- [w \in Writers |-> pc[w] = "return" /\ ~failed[w]]

ImplementsRegister == Register!Init /\ [][Register!Next]_(Register!vars)

(* "A link a dotfile manager put in the file's place survives, since the    *)
(* rename replaces its target instead" (files.cpp:54).                      *)
LinkSurvives == [][entry["path"] = Link => entry'["path"] = Link]_vars
=============================================================================

-------------------------- MODULE AtomicFileProofs --------------------------
(***************************************************************************)
(* Proofs about AtomicFile for any number of writers, texts, writes and    *)
(* failures: a write happens at one point or not at all, a reader never    *)
(* finds part of one, and a temporary file that stays is owned up to.      *)
(***************************************************************************)
EXTENDS AtomicFile, TLAPS

(* What the disk or its readers have of the two names: whole texts whose    *)
(* data is safe, and a file behind the link only while there is the link.   *)
Sound(disk) ==
  /\ \A n \in Names : disk[n] \in File => disk[n].text \in Texts /\ disk[n].synced
  /\ disk["target"] # Link
  /\ disk["target"] # NoFile => disk["path"] = Link

(* A loss of power takes nothing back that a name or a permission depends   *)
(* on.                                                                      *)
Agree ==
  /\ entry["target"] = NoFile <=> durable["target"] = NoFile
  /\ \A n \in Names : durable[n] \in File => entry[n] \in File /\ entry[n].mode = durable[n].mode

(* How far a writer has come, and what its temporary file has by then.      *)
Progress(w) ==
  /\ pc[w] \in Resting <=> text[w] = NoText
  /\ pc[w] \in Calling => name[w] = IF entry["target"] = NoFile THEN "path" ELSE "target"
  /\ pc[w] = "create" => temp[w] = NoFile
  /\ pc[w] \in {"idle", "return"} /\ temp[w] # NoFile => failed[w] /\ warned[w]
  /\ pc[w] \in {"mode", "write", "sync", "close", "rename", "remove"} => temp[w] \in File
  /\ pc[w] \in {"create", "mode", "write", "sync", "rename"} => ~failed[w]
  /\ pc[w] = "remove" => failed[w]
  /\ pc[w] \in {"sync", "close", "rename"} /\ ~failed[w] => temp[w].text = text[w]
  /\ pc[w] \in {"close", "rename"} /\ ~failed[w] => temp[w].synced
  /\ pc[w] \in {"write", "sync", "close", "rename"} /\ ~failed[w]
       => temp[w].mode = GetFileMode(name[w])

Inv ==
  /\ TypeOK
  /\ Sound(entry) /\ Sound(durable) /\ Agree
  /\ \A w \in Writers : Progress(w)

-----------------------------------------------------------------------------
(* Files, links and nothing are three things.                               *)
LEMMA Kinds == NoFile # Link /\ NoFile \notin File /\ Link \notin File
<1>1. DOMAIN NoFile = {"text"} /\ DOMAIN Link = {"text"}
  BY DEF NoFile, Link
<1>2. \A f \in File : "mode" \in DOMAIN f
  BY DEF File
<1>3. NoFile.text # Link.text
  BY NoTextIsNoText DEF NoFile, Link
<1> QED
  BY <1>1, <1>2, <1>3

(* It begins with whole files, or none.                                     *)
LEMMA InitInv == Init => Inv
<1> SUFFICES ASSUME Init PROVE Inv
  OBVIOUS
<1>1. ASSUME NEW f \in Whole
      PROVE  f \in File /\ f.text \in Texts /\ f.synced
  <2>1. PICK t \in Texts, m \in Modes : f = [text |-> t, mode |-> m, synced |-> TRUE]
    BY DEF Whole
  <2>2. f \in File
    BY <2>1 DEF File
  <2> QED
    BY <2>1, <2>2
<1>2. TypeOK
  BY <1>1 DEF Init, TypeOK, Steps, Resting, Calling, Names
<1>3. Sound(entry) /\ Sound(durable)
  BY <1>1, Kinds DEF Init, Sound, Names
<1>4. Agree
  BY DEF Init, Agree
<1>5. \A w \in Writers : Progress(w)
  BY DEF Init, Progress, Resting, Calling
<1> QED
  BY <1>2, <1>3, <1>4, <1>5 DEF Inv

-----------------------------------------------------------------------------
(* The names and permissions that the writers go by.                        *)
SameNames ==
  /\ entry'["target"] = NoFile <=> entry["target"] = NoFile
  /\ \A n \in Names : GetFileMode(n)' = GetFileMode(n)

(* A writer that does nothing is where it was.                              *)
LEMMA OthersWait ==
  ASSUME TypeOK, SameNames, NEW v \in Writers, Progress(v),
         pc'[v] = pc[v], text'[v] = text[v], name'[v] = name[v],
         temp'[v] = temp[v], failed'[v] = failed[v], warned'[v] = warned[v]
  PROVE  Progress(v)'
<1>1. name[v] \in Names
  BY DEF TypeOK
<1> QED
  BY <1>1 DEF Progress, Resting, Calling, SameNames, GetFileMode

(* Nor does a step of one writer on files of its own disturb the rest.      *)
LEMMA OwnStep ==
  ASSUME Inv, NEW w \in Writers, UNCHANGED diskVars,
         TypeOK', Progress(w)',
         \A v \in Writers \ {w} : /\ pc'[v] = pc[v] /\ text'[v] = text[v] /\ name'[v] = name[v]
                                  /\ temp'[v] = temp[v] /\ failed'[v] = failed[v]
                                  /\ warned'[v] = warned[v]
  PROVE  Inv'
<1>1. SameNames
  BY DEF SameNames, GetFileMode, diskVars
<1>2. \A v \in Writers : Progress(v)'
  BY <1>1, OthersWait DEF Inv
<1>3. Sound(entry)' /\ Sound(durable)' /\ Agree'
  BY DEF Inv, Sound, Agree, diskVars
<1> QED
  BY <1>2, <1>3 DEF Inv

(* A write begins.                                                          *)
LEMMA BeginInv == ASSUME Inv, NEW w \in Writers, Begin(w) PROVE Inv'
<1> USE DEF Begin, Goto
<1>1. PICK t \in Texts : text' = [text EXCEPT ![w] = t]
  OBVIOUS
<1>2. ResolveLink = IF entry["target"] = NoFile THEN "path" ELSE "target"
  BY Kinds DEF Inv, Sound, ResolveLink
<1>3. TypeOK'
  BY <1>1, <1>2 DEF Inv, TypeOK, Steps, Resting, Calling, Names, diskVars
<1>4. Progress(w)'
  BY <1>1, <1>2, NoTextIsNoText DEF Inv, TypeOK, Progress, Resting, Calling, diskVars
<1> QED
  BY <1>1, <1>3, <1>4, OwnStep DEF Inv, TypeOK

(* The calls on the temporary file.                                         *)
LEMMA CallInv ==
  ASSUME Inv, NEW w \in Writers, Create(w) \/ SetMode(w) \/ WriteAll(w) \/ Sync(w) \/ Close(w)
  PROVE  Inv'
<1> USE DEF Goto, Fail, Fault
<1> DEFINE others == \A v \in Writers \ {w} :
                       /\ pc'[v] = pc[v] /\ text'[v] = text[v] /\ name'[v] = name[v]
                       /\ temp'[v] = temp[v] /\ failed'[v] = failed[v]
                       /\ warned'[v] = warned[v]
<1>0. TypeOK /\ Progress(w)
  BY DEF Inv
<1>1. UNCHANGED <<diskVars, text, name, warned, writes>> /\ faults' \in Nat /\ others
  BY <1>0 DEF TypeOK, Create, SetMode, WriteAll, Sync, Close
<1>2. CASE Create(w)
  <2> DEFINE new == [text |-> "empty", mode |-> "private", synced |-> FALSE]
  <2>1. new \in File
    BY DEF File, Fragments, Modes
  <2>2. /\ pc[w] = "create" /\ temp[w] = NoFile /\ text[w] # NoText /\ ~failed[w]
        /\ name[w] = IF entry["target"] = NoFile THEN "path" ELSE "target"
    BY <1>0, <1>2 DEF Create, Progress, Resting, Calling
  <2>3. CASE /\ temp' = [temp EXCEPT ![w] = new] /\ pc' = [pc EXCEPT ![w] = "mode"]
             /\ failed' = failed
    <3>1. TypeOK'
      BY <1>0, <1>1, <2>1, <2>3 DEF TypeOK, Steps, Resting, Calling, diskVars
    <3>2. Progress(w)'
      BY <1>0, <1>1, <2>1, <2>2, <2>3 DEF TypeOK, Progress, Resting, Calling, diskVars
    <3> QED
      BY <1>1, <3>1, <3>2, OwnStep
  <2>4. CASE /\ temp' = temp /\ pc' = [pc EXCEPT ![w] = "return"]
             /\ failed' = [failed EXCEPT ![w] = TRUE]
    <3>1. TypeOK'
      BY <1>0, <1>1, <2>4 DEF TypeOK, Steps, Resting, Calling, diskVars
    <3>2. Progress(w)'
      BY <1>0, <1>1, <2>2, <2>4 DEF TypeOK, Progress, Resting, Calling, diskVars
    <3> QED
      BY <1>1, <3>1, <3>2, OwnStep
  <2> QED
    BY <1>2, <2>3, <2>4 DEF Create
<1>3. CASE SetMode(w)
  <2>1. temp[w] \in File /\ GetFileMode(name[w]) \in Modes
    BY <1>0, <1>3 DEF SetMode, Progress, Resting, Calling, TypeOK, GetFileMode, File, Modes
  <2>10. [temp[w] EXCEPT !.mode = GetFileMode(name[w])] \in File
    BY <2>1 DEF File
  <2>11. temp' \in [Writers -> File \cup {NoFile}]
    BY <1>0, <1>3, <2>10 DEF SetMode, TypeOK
  <2>2. TypeOK'
    BY <1>0, <1>1, <1>3, <2>11 DEF SetMode, TypeOK, Steps, Resting, Calling, diskVars
  <2>3. Progress(w)'
    BY <1>0, <1>1, <1>3, <2>1 DEF SetMode, TypeOK, Progress, Resting, Calling, diskVars, File, GetFileMode
  <2> QED
    BY <1>1, <2>2, <2>3, OwnStep
<1>4. CASE WriteAll(w)
  <2>1. temp[w] \in File /\ text[w] \in Texts
    BY <1>0, <1>4 DEF WriteAll, Progress, Resting, Calling, TypeOK
  <2>10. \A t \in {"part", text[w]} : [temp[w] EXCEPT !.text = t] \in File
    BY <2>1 DEF File, Fragments
  <2>11. temp' \in [Writers -> File \cup {NoFile}]
    BY <1>0, <1>4, <2>10 DEF WriteAll, TypeOK
  <2>2. TypeOK'
    BY <1>0, <1>1, <1>4, <2>11 DEF WriteAll, TypeOK, Steps, Resting, Calling, diskVars
  <2>3. Progress(w)'
    BY <1>0, <1>1, <1>4, <2>1 DEF WriteAll, TypeOK, Progress, Resting, Calling, diskVars, File, Fragments,
       GetFileMode
  <2> QED
    BY <1>1, <2>2, <2>3, OwnStep
<1>5. CASE Sync(w)
  <2>1. temp[w] \in File
    BY <1>0, <1>5 DEF Sync, Progress, Resting, Calling
  <2>10. [temp[w] EXCEPT !.synced = TRUE] \in File
    BY <2>1 DEF File
  <2>11. temp' \in [Writers -> File \cup {NoFile}]
    BY <1>0, <1>5, <2>10 DEF Sync, TypeOK
  <2>2. TypeOK'
    BY <1>0, <1>1, <1>5, <2>11 DEF Sync, TypeOK, Steps, Resting, Calling, diskVars
  <2>3. /\ pc[w] = "sync" /\ pc'[w] = "close" /\ name'[w] = name[w] /\ text'[w] = text[w]
        /\ GetFileMode(name[w])' = GetFileMode(name[w]) /\ entry' = entry
    BY <1>0, <1>1, <1>5 DEF Sync, TypeOK, GetFileMode, diskVars
  <2>4. \/ failed'[w] = TRUE /\ temp'[w] = temp[w]
        \/ failed'[w] = failed[w] /\ temp'[w] = [temp[w] EXCEPT !.synced = TRUE]
    BY <1>0, <1>5 DEF Sync, TypeOK
  <2>7. Progress(w)'
    <3>1. CASE failed'[w] = TRUE /\ temp'[w] = temp[w]
      BY <1>0, <2>1, <2>3, <3>1 DEF Progress, Resting, Calling
    <3>2. CASE failed'[w] = failed[w] /\ temp'[w] = [temp[w] EXCEPT !.synced = TRUE]
      <4>1. temp'[w].synced /\ temp'[w].text = temp[w].text /\ temp'[w].mode = temp[w].mode
        BY <2>1, <3>2 DEF File
      <4>2. temp'[w] \in File /\ temp[w].text = text[w] /\ temp[w].mode = GetFileMode(name[w])
        BY <1>0, <2>10, <2>3, <3>2 DEF Progress, Resting, Calling
      <4> QED
        BY <1>0, <2>3, <3>2, <4>1, <4>2 DEF Progress, Resting, Calling
    <3> QED
      BY <2>4, <3>1, <3>2
  <2> QED
    BY <1>1, <2>2, <2>7, OwnStep
<1>6. CASE Close(w)
  <2>1. TypeOK'
    BY <1>0, <1>1, <1>6 DEF Close, TypeOK, Steps, Resting, Calling, diskVars
  <2>2. Progress(w)'
    BY <1>0, <1>1, <1>6 DEF Close, TypeOK, Progress, Resting, Calling, diskVars, GetFileMode
  <2> QED
    BY <1>1, <2>1, <2>2, OwnStep
<1> QED
  BY <1>2, <1>3, <1>4, <1>5, <1>6

(* The writer's end: its file is removed, it returns, or its program dies.  *)
LEMMA EndInv ==
  ASSUME Inv, NEW w \in Writers, Remove(w) \/ Return(w) \/ Die(w)
  PROVE  Inv'
<1> USE DEF Remove, Return, Die, Goto, Fault
<1>1. TypeOK /\ Progress(w)
  BY DEF Inv
<1>2. /\ UNCHANGED <<diskVars, name, writes>> /\ faults' \in Nat
      /\ pc' \in [Writers -> Steps] /\ text' \in [Writers -> Texts \cup {NoText}]
  BY <1>1 DEF TypeOK, Steps, Resting, Calling
<1>3. /\ temp' \in [Writers -> File \cup {NoFile}] /\ failed' \in [Writers -> BOOLEAN]
      /\ warned' \in [Writers -> BOOLEAN]
  BY <1>1 DEF TypeOK
<1>4. TypeOK'
  BY <1>1, <1>2, <1>3 DEF TypeOK, diskVars
<1>5. Progress(w)'
  BY <1>1 DEF TypeOK, Progress, Resting, Calling, diskVars
<1> QED
  BY <1>1, <1>4, <1>5, OwnStep DEF TypeOK

(* The one step that others see: what is renamed is a whole text, its data  *)
(* is safe, and it has the permissions of what it replaces.                 *)
LEMMA RenameInv ==
  ASSUME Inv, NEW w \in Writers, Rename(w)
  PROVE  Inv'
<1> USE DEF Goto, Fail, Fault
<1>1. TypeOK /\ Progress(w) /\ Sound(entry) /\ Sound(durable) /\ Agree
  BY DEF Inv
<1>2. /\ pc[w] = "rename" /\ durable' = durable
      /\ UNCHANGED <<text, name, warned, writes>> /\ faults' \in Nat
      /\ pc' \in [Writers -> Steps] /\ failed' \in [Writers -> BOOLEAN]
  <2>1. pc' \in [Writers -> Steps]
    BY <1>1 DEF Rename, TypeOK, Steps, Resting, Calling
  <2>2. failed' \in [Writers -> BOOLEAN]
    BY <1>1 DEF Rename, TypeOK
  <2> QED
    BY <1>1, <2>1, <2>2 DEF Rename, TypeOK
<1>3. CASE UNCHANGED <<entry, temp>> /\ Fail(w, "remove")
  <2>1. TypeOK'
    BY <1>1, <1>2, <1>3 DEF TypeOK
  <2>2. Progress(w)'
    BY <1>1, <1>2, <1>3 DEF Progress, Resting, Calling, TypeOK, GetFileMode
  <2> QED
    BY <1>1, <1>2, <1>3, <2>1, <2>2, OwnStep DEF TypeOK, diskVars
<1>4. CASE /\ entry' = [entry EXCEPT ![name[w]] = temp[w]]
           /\ temp' = [temp EXCEPT ![w] = NoFile]
           /\ Goto(w, "return") /\ UNCHANGED failed
  <2> DEFINE f == temp[w]  n == name[w]
  <2>1. /\ f \in File /\ f.text = text[w] /\ text[w] \in Texts /\ f.synced
        /\ f.mode = GetFileMode(n) /\ n \in Names
        /\ n = IF entry["target"] = NoFile THEN "path" ELSE "target"
    BY <1>1, <1>2 DEF Progress, Resting, Calling, TypeOK
  <2>2. entry'[n] = f /\ \A m \in Names \ {n} : entry'[m] = entry[m]
    BY <1>1, <1>4, <2>1 DEF TypeOK
  <2>3. TypeOK'
    BY <1>1, <1>2, <1>4, <2>1 DEF TypeOK
  <2>4. Sound(entry)'
    BY <1>1, <2>1, <2>2, Kinds DEF Sound, Names
  <2>5. SameNames
    BY <1>1, <2>1, <2>2, Kinds DEF SameNames, Names, GetFileMode
  <2>6. Agree'
    BY <1>1, <1>2, <2>1, <2>2, <2>5, Kinds DEF Agree, Names, GetFileMode, SameNames
  <2>7. Progress(w)'
    BY <1>1, <1>2, <1>4, <2>1, <2>5 DEF Progress, Resting, Calling, TypeOK, SameNames
  <2>8. \A v \in Writers \ {w} : Progress(v)'
    BY <1>1, <1>2, <1>4, <2>5, OthersWait DEF Inv, TypeOK
  <2> QED
    BY <1>1, <1>2, <2>3, <2>4, <2>6, <2>7, <2>8 DEF Inv, Sound
<1> QED
  BY <1>3, <1>4 DEF Rename

(* What was safe on the disk is what a loss of power leaves.                *)
LEMMA PowerLossInv ==
  ASSUME Inv, PowerLoss
  PROVE  Inv' /\ entry' \in {entry, durable} /\ durable' = entry'
<1> USE DEF Inv
<1>1. ASSUME NEW disk \in {entry, durable}
      PROVE  [n \in Names |-> Settled(disk[n])] = disk
  <2>1. disk \in [Names -> File \cup {NoFile, Link}] /\ Sound(disk)
    BY DEF TypeOK
  <2>2. \A n \in Names : Settled(disk[n]) = disk[n]
    BY <2>1 DEF Settled, Sound
  <2> QED
    BY <2>1, <2>2
<1>2. entry' \in {entry, durable} /\ durable' = entry'
  BY <1>1 DEF PowerLoss
<1>3. faults' \in Nat
  BY DEF PowerLoss, Fault, TypeOK
<1>4. TypeOK'
  <2>1. \A w \in Writers : Settled(temp[w]) \in File \cup {NoFile}
    BY DEF TypeOK, Settled, File, Fragments
  <2>2. temp' \in [Writers -> File \cup {NoFile}]
    BY <2>1 DEF PowerLoss
  <2>3. /\ pc' \in [Writers -> Steps] /\ text' \in [Writers -> Texts \cup {NoText}]
        /\ failed' \in [Writers -> BOOLEAN] /\ UNCHANGED <<name, warned, writes>>
    BY DEF PowerLoss, Steps, Resting
  <2> QED
    BY <1>2, <1>3, <2>2, <2>3 DEF TypeOK
<1>5. Sound(entry)' /\ Sound(durable)' /\ Agree'
  BY <1>2 DEF Sound, Agree
<1>6. \A w \in Writers : Progress(w)'
  BY DEF PowerLoss, Progress, Resting, Calling
<1> QED
  BY <1>2, <1>4, <1>5, <1>6

(* Every step keeps the invariant.                                          *)
LEMMA StepInv == Inv /\ [Next]_vars => Inv'
<1> SUFFICES ASSUME Inv, [Next]_vars PROVE Inv'
  OBVIOUS
<1>1. CASE UNCHANGED vars
  BY <1>1 DEF vars, diskVars, writerVars, Inv, TypeOK, Sound, Agree, Progress, Resting, Calling,
     GetFileMode
<1>2. CASE Flush
  <2>1. SameNames
    BY <1>2 DEF Flush, SameNames, GetFileMode
  <2>2. \A w \in Writers : Progress(w)'
    BY <1>2, <2>1, OthersWait DEF Flush, Inv, writerVars
  <2>3. TypeOK' /\ Sound(entry)' /\ Sound(durable)' /\ Agree'
    BY <1>2 DEF Flush, Inv, TypeOK, Sound, Agree, writerVars
  <2> QED
    BY <2>2, <2>3 DEF Inv
<1>3. CASE PowerLoss
  BY <1>3, PowerLossInv
<1>4. ASSUME NEW w \in Writers, Begin(w) \/ Work(w) \/ Die(w)
      PROVE  Inv'
  BY <1>4, BeginInv, CallInv, EndInv, RenameInv DEF Work
<1> QED
  BY <1>1, <1>2, <1>3, <1>4 DEF Next

-----------------------------------------------------------------------------
(* The invariant is more than what a reader sees.                           *)
LEMMA InvMeans == Inv => TypeOK /\ NeverTorn /\ LeftoversAreSaid
<1> SUFFICES ASSUME Inv PROVE NeverTorn /\ LeftoversAreSaid
  BY DEF Inv
<1>1. NeverTorn
  <2>1. \A n \in Names : entry[n] \in File \cup {NoFile, Link}
    BY DEF Inv, TypeOK
  <2>2. \A f \in File : f # Link
    BY Kinds
  <2>3. entry["target"] # Link /\ \A n \in Names : entry[n] \in File => entry[n].text \in Texts
    BY DEF Inv, Sound
  <2>4. NoFile.text = NoText
    BY DEF NoFile
  <2> QED
    BY <2>1, <2>2, <2>3, <2>4 DEF NeverTorn, Seen, Names
<1>2. LeftoversAreSaid
  BY DEF Inv, Progress, Resting, Calling, LeftoversAreSaid
<1> QED
  BY <1>1, <1>2

(* Two files one after another at a name have the same permissions.         *)
LEMMA ModeLemma ==
  ASSUME Inv, [Next]_vars, NEW n \in Names,
         entry[n] \notin {NoFile, Link}, entry'[n] \notin {NoFile, Link}
  PROVE  entry'[n].mode = entry[n].mode
<1> USE DEF Inv
<1>1. entry[n] \in File
  BY DEF TypeOK
<1>2. CASE entry' = entry
  BY <1>2
<1>3. CASE PowerLoss
  <2>1. entry' = entry \/ entry' = durable
    BY <1>3, PowerLossInv
  <2>2. CASE entry' = durable
    BY <2>2 DEF Agree, TypeOK
  <2> QED
    BY <1>2, <2>1, <2>2
<1>4. ASSUME NEW w \in Writers, Rename(w) PROVE entry'[n].mode = entry[n].mode
  <2>1. entry' = entry \/ entry' = [entry EXCEPT ![name[w]] = temp[w]]
    BY <1>4 DEF Rename
  <2>2. ~failed[w] /\ temp[w].mode = GetFileMode(name[w])
    BY <1>4 DEF Rename, Progress, Resting, Calling
  <2> QED
    BY <1>1, <2>1, <2>2 DEF GetFileMode, TypeOK
<1>5. \A w \in Writers : Begin(w) \/ Die(w) \/ (Work(w) /\ ~Rename(w)) => entry' = entry
  BY DEF Begin, Die, Work, Create, SetMode, WriteAll, Sync, Close, Remove, Return,
     diskVars
<1>6. Flush \/ UNCHANGED vars => entry' = entry
  BY DEF Flush, vars, diskVars
<1> QED
  BY <1>2, <1>3, <1>4, <1>5, <1>6 DEF Next

(* No write of any length, failure, death or loss of power shows a reader   *)
(* part of a text, and a write that returns leaves a temporary file only    *)
(* where its removal failed too, with a failure and a warning that say so   *)
(* (WriteFileAtomically).                                                   *)
THEOREM TextsAreNeverTorn == Spec => [](TypeOK /\ NeverTorn /\ LeftoversAreSaid)
<1>1. Inv /\ [Next]_vars => Inv'
  BY StepInv
<1> QED
  BY InitInv, <1>1, InvMeans, PTL DEF Spec

(* What replaces a file has its permissions, also where writers cross and a *)
(* loss of power brings an older file back (GetFileMode, fchmod).           *)
THEOREM ModesAreKept == Spec => KeepsItsMode
<1>1. Inv /\ [Next]_vars => Inv'
  BY StepInv
<1>2. Inv /\ [Next]_vars =>
        [\A n \in Names :
           /\ entry[n] \notin {NoFile, Link} /\ entry'[n] \notin {NoFile, Link}
             => entry'[n].mode = entry[n].mode]_vars
  BY ModeLemma
<1> QED
  BY InitInv, <1>1, <1>2, PTL DEF Spec, KeepsItsMode

-----------------------------------------------------------------------------
(* The steps as steps of the register.                                      *)

StoredNow == [w \in Writers |-> pc[w] = "return" /\ ~failed[w]]

(* It starts as a register does.                                            *)
LEMMA RegisterInit == Init => Register!Init
<1> SUFFICES ASSUME Init PROVE Register!Init
  OBVIOUS
<1>1. Inv
  BY InitInv
<1>2. Seen \in Texts \cup {NoText}
  BY <1>1, InvMeans DEF NeverTorn
<1>3. Kept = Seen
  BY DEF Init, Kept, Seen
<1>4. \A w \in Writers : pc[w] = "idle"
  BY DEF Init
<1>5. text = [w \in Writers |-> NoText]
  BY DEF Init
<1> QED
  BY <1>2, <1>3, <1>4, <1>5 DEF Register!Init

(* A call on a file nobody else sees is not a step of the register.         *)
LEMMA HiddenStep ==
  ASSUME Inv, NEW w \in Writers,
         Create(w) \/ SetMode(w) \/ WriteAll(w) \/ Sync(w) \/ Close(w) \/ Remove(w)
  PROVE  UNCHANGED Register!vars
<1>1. TypeOK /\ Progress(w)
  BY DEF Inv
<1>2. UNCHANGED <<entry, durable, text>>
  BY DEF Create, SetMode, WriteAll, Sync, Close, Remove, diskVars
<1>3. StoredNow' = StoredNow
  <2>1. ASSUME NEW v \in Writers
        PROVE  (pc'[v] = "return" /\ ~failed'[v]) = (pc[v] = "return" /\ ~failed[v])
    BY <1>1 DEF Create, SetMode, WriteAll, Sync, Close, Remove, Goto, Fail, Fault,
       TypeOK, Progress
  <2> QED
    BY <2>1 DEF StoredNow
<1> QED
  BY <1>2, <1>3 DEF Register!vars, Seen, Kept, StoredNow

(* A rename stores the text, or nothing has happened.                       *)
LEMMA RenameStores ==
  ASSUME Inv, NEW w \in Writers, Rename(w)
  PROVE  Register!Store(w) \/ UNCHANGED Register!vars
<1>1. TypeOK /\ Progress(w) /\ Sound(entry)
  BY DEF Inv
<1>2. pc[w] = "rename" /\ UNCHANGED <<durable, text>> /\ text[w] # NoText /\ ~failed[w]
  BY <1>1 DEF Rename, Progress, Resting, Calling
<1>3. CASE UNCHANGED <<entry, temp>> /\ Fail(w, "remove")
  <2>1. StoredNow' = StoredNow
    <3>1. ASSUME NEW v \in Writers
          PROVE  (pc'[v] = "return" /\ ~failed'[v]) = (pc[v] = "return" /\ ~failed[v])
      BY <1>1, <1>2, <1>3 DEF Goto, Fail, TypeOK
    <3> QED
      BY <3>1 DEF StoredNow
  <2> QED
    BY <1>2, <1>3, <2>1 DEF Register!vars, Seen, Kept, StoredNow
<1>4. CASE /\ entry' = [entry EXCEPT ![name[w]] = temp[w]]
           /\ temp' = [temp EXCEPT ![w] = NoFile]
           /\ Goto(w, "return") /\ UNCHANGED failed
  <2>1. /\ temp[w] \in File /\ temp[w].text = text[w] /\ name[w] \in Names
        /\ name[w] = IF entry["target"] = NoFile THEN "path" ELSE "target"
    BY <1>1, <1>2 DEF Progress, Resting, Calling, TypeOK
  <2>2. entry'[name[w]] = temp[w] /\ \A m \in Names \ {name[w]} : entry'[m] = entry[m]
    BY <1>1, <1>4, <2>1 DEF TypeOK
  <2>3. Seen' = text[w]
    BY <1>1, <2>1, <2>2, Kinds DEF Seen, Sound, Names
  <2>4. Kept' = Kept
    BY <1>2 DEF Kept
  <2>5. StoredNow' = [StoredNow EXCEPT ![w] = TRUE]
    BY <1>1, <1>2, <1>4 DEF StoredNow, Goto, TypeOK
  <2>6. ~StoredNow[w]
    BY <1>2 DEF StoredNow
  <2> QED
    BY <1>2, <2>3, <2>4, <2>5, <2>6 DEF Register!Store, StoredNow
<1> QED
  BY <1>3, <1>4 DEF Rename, Goto

(* A write that begins, returns or is cut off by a death is one there too.  *)
LEMMA CallsBeginAndEnd ==
  ASSUME Inv, NEW w \in Writers
  PROVE  /\ Begin(w) => Register!Begin(w)
         /\ Return(w) \/ Die(w) => Register!End(w)
<1>1. TypeOK /\ Progress(w)
  BY DEF Inv
<1>2. ASSUME Begin(w) PROVE Register!Begin(w)
  <2>1. UNCHANGED <<Seen, Kept>> /\ text[w] = NoText
    BY <1>1, <1>2 DEF Begin, diskVars, Seen, Kept, Progress, Resting, Calling
  <2>2. StoredNow' = [StoredNow EXCEPT ![w] = FALSE]
    BY <1>1, <1>2 DEF Begin, Goto, StoredNow, TypeOK
  <2> QED
    BY <1>2, <2>1, <2>2 DEF Register!Begin, Begin, StoredNow
<1>3. ASSUME Return(w) \/ Die(w) PROVE Register!End(w)
  <2>1. UNCHANGED <<Seen, Kept>> /\ text' = [text EXCEPT ![w] = NoText]
    BY <1>3 DEF Return, Die, diskVars, Seen, Kept
  <2>2. StoredNow' = [StoredNow EXCEPT ![w] = FALSE]
    BY <1>1, <1>3 DEF Return, Die, Goto, StoredNow, TypeOK
  <2> QED
    BY <2>1, <2>2 DEF Register!End, StoredNow
<1> QED
  BY <1>2, <1>3

(* Every step is one of the register, or none.                              *)
LEMMA RegisterStep == Inv /\ [Next]_vars => [Register!Next]_(Register!vars)
<1> SUFFICES ASSUME Inv, [Next]_vars PROVE Register!Next \/ UNCHANGED Register!vars
  OBVIOUS
<1>1. CASE UNCHANGED vars
  BY <1>1 DEF vars, diskVars, writerVars, Register!vars, Seen, Kept
<1>2. CASE Flush
  <2>1. Kept' = Seen /\ Seen' = Seen
    BY <1>2 DEF Flush, Kept, Seen
  <2>2. UNCHANGED <<text, pc, failed>>
    BY <1>2 DEF Flush, writerVars
  <2> QED
    BY <2>1, <2>2 DEF Register!Next, Register!Flush
<1>3. CASE PowerLoss
  <2>1. Seen' \in {Seen, Kept} /\ Kept' = Seen'
    BY <1>3, PowerLossInv DEF Seen, Kept
  <2>2. text' = [w \in Writers |-> NoText] /\ \A w \in Writers : pc'[w] = "dead"
    BY <1>3 DEF PowerLoss
  <2> QED
    BY <2>1, <2>2 DEF Register!Next, Register!PowerLoss
<1>4. ASSUME NEW w \in Writers, Begin(w) \/ Work(w) \/ Die(w)
      PROVE  Register!Next \/ UNCHANGED Register!vars
  <2>1. Register!Begin(w) \/ Register!Store(w) \/ Register!End(w) \/ UNCHANGED Register!vars
    BY <1>4, CallsBeginAndEnd, RenameStores, HiddenStep DEF Work
  <2> QED
    BY <2>1 DEF Register!Next
<1> QED
  BY <1>1, <1>2, <1>3, <1>4 DEF Next

(* However many programs write, whichever of their calls fail, and wherever *)
(* they die or lose power: a write takes effect at one point, the rename,   *)
(* or not at all, and its result says which (WriteFileAtomically).          *)
THEOREM WritesHappenAtOnce == Spec => ImplementsRegister
<1>1. Inv /\ [Next]_vars => Inv'
  BY StepInv
<1> QED
  BY InitInv, <1>1, RegisterInit, RegisterStep, PTL DEF Spec, ImplementsRegister
=============================================================================

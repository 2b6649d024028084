-------------------------- MODULE StartFlowProofs --------------------------
(***************************************************************************)
(* The invariants of module StartFlow, for any number of screenshots.       *)
(***************************************************************************)
EXTENDS StartFlowProperties, TLAPS

(* What the main thread waits for in a Run, and in which step it got there. *)
Served ==
  /\ pc \notin Waits => task = "none"
  /\ pc = "asking" => /\ task \in {"request", "sent", "failed"}
                      /\ step = "SettlingBeforeBackdrop" /\ deadline = "none"
  /\ pc = "cancelling" => task \in {"cancel", "cancelled"} /\ step = "AwaitingBackdrop"
  /\ pc = "leaving" => task \in {"cancel", "cancelled"} /\ step # "None" /\ state = "Starting"
  /\ pc = "done" => step = "None"

(* The slot belongs to the screenshot asked for last; nothing listens once  *)
(* a task that dropped the subscription has run, or before one is made.     *)
Listening ==
  /\ slot # None \/ answered =>
       \/ step = "AwaitingBackdrop"
       \/ step = "SettlingBeforeBackdrop" /\ pc = "asking" /\ task = "sent"
  /\ task \in {"failed", "cancelled"} => slot = None
  /\ slot # None => slot = asked /\ ~answered
  /\ path # None => path = asked /\ answered

(* An answer no wake tells of is one the iteration under way still takes.   *)
Noted ==
  answered => woken \/ waking \/ pc \in {"requests", "update", "flow", "leaving"}

(* The screenshots not asked for yet, and those that are.                   *)
Shots ==
  /\ step = "SettlingBeforeBackdrop" /\ task \notin {"sent", "failed"} => asked < MaxShots
  /\ \A s \in Shot : s > asked => shot[s] = "none"

(* A window Klip hid is owed a reveal once Klip is idle.                    *)
Owed ==
  /\ reveal => pc # "wait"
  /\ state = "Idle" /\ window = "away" => reveal

(* What Klip hid for a start fades before the step's deadline.              *)
Hides ==
  \/ fading \subseteq UserHides
  \/ deadline = "running" /\ step \in {"SettlingBeforeBackdrop", "SettlingAfterPicker",
                                       "SettlingBeforeCapture"}
  \/ pc = "done"

Inv ==
  /\ TypeOK
  /\ HandedFilesAreHeld
  /\ Noted
  /\ OneCapturePerStart
  /\ CleanEnd
  /\ Served
  /\ Listening
  /\ Shots
  /\ Owed
  /\ Hides

-----------------------------------------------------------------------------
(* Every step keeps the types.                                              *)
LEMMA TypeStep == Inv /\ [Next]_vars => TypeOK'
<1>1. TypeOK /\ BeginIteration => TypeOK'
  BY DEF TypeOK, Waits, BeginIteration, mainVars, stepVars, slotVars, busVars,
     shotVars, sceneVars
<1>2. TypeOK /\ AnswerSelector => TypeOK'
  BY DEF TypeOK, Waits, AnswerSelector, mainVars, stepVars, slotVars, busVars,
     shotVars, sceneVars
<1>3. TypeOK /\ CloseWindow => TypeOK'
  BY DEF TypeOK, Waits, CloseWindow, UserHides, mainVars, stepVars, slotVars,
     busVars, shotVars, sceneVars
<1>4. TypeOK /\ ShowWindow => TypeOK'
  BY DEF TypeOK, Waits, ShowWindow, ShowMain, mainVars, stepVars, slotVars, busVars,
     shotVars, sceneVars
<1>5. TypeOK /\ ToggleStop => TypeOK'
  BY DEF TypeOK, Waits, ToggleStop, mainVars, stepVars, slotVars, busVars, shotVars,
     sceneVars
<1>6. TypeOK /\ ToggleStart => TypeOK'
  BY DEF TypeOK, Waits, ToggleStart, Begin, HideMain, Settle, RequestCapture, Idle,
     mainVars, stepVars, slotVars, busVars, shotVars, sceneVars
<1>7. TypeOK /\ ToggleRegion => TypeOK'
  BY DEF TypeOK, Waits, ToggleRegion, HideMain, Settle, mainVars, stepVars,
     slotVars, busVars, shotVars, sceneVars
<1>8. TypeOK /\ TakeRequests => TypeOK'
  BY DEF TypeOK, Waits, TakeRequests, mainVars, stepVars, slotVars, busVars,
     shotVars, sceneVars
<1>9. TypeOK /\ UpdateRecorder => TypeOK'
  BY DEF TypeOK, Waits, UpdateRecorder, mainVars, stepVars, slotVars, busVars,
     shotVars, sceneVars
<1>10. TypeOK /\ EndIteration => TypeOK'
  <2> SUFFICES ASSUME TypeOK, EndIteration PROVE TypeOK'
    OBVIOUS
  <2>1. window' \in {"shown", "away", "closed"}
    BY DEF TypeOK, EndIteration, ShowMain, sceneVars
  <2>2. fading' \subseteq {"main", "selector"} \cup UserHides
    BY DEF TypeOK, EndIteration, ShowMain, sceneVars
  <2>3. reveal' \in BOOLEAN
    BY DEF EndIteration
  <2> QED
    BY <2>1, <2>2, <2>3 DEF TypeOK, EndIteration, stepVars, slotVars, busVars,
       shotVars
<1>11. TypeOK /\ WaitOn => TypeOK'
  BY DEF TypeOK, Waits, WaitOn, Ready, mainVars, stepVars, slotVars, busVars,
     shotVars, sceneVars
<1>12. TypeOK /\ AskForShot => TypeOK'
  BY DEF TypeOK, Waits, AskForShot, mainVars, stepVars, slotVars, busVars, shotVars,
     sceneVars
<1>13. TypeOK /\ ShotAsked => TypeOK'
  BY DEF TypeOK, Waits, ShotAsked, mainVars, stepVars, slotVars, busVars, shotVars,
     sceneVars
<1>14. TypeOK /\ ShotFailed => TypeOK'
  <2> SUFFICES ASSUME TypeOK, ShotFailed PROVE TypeOK'
    OBVIOUS
  <2>1. PICK f : shot' = [s \in Shot |-> IF s = f THEN "deleted" ELSE shot[s]]
    BY DEF ShotFailed, OpenSelector, LoadBackdrop
  <2>2. shot' \in [Shot -> ShotState]
    BY <2>1 DEF TypeOK, ShotState
  <2> QED
    BY <2>2 DEF TypeOK, Waits, ShotFailed, OpenSelector, LoadBackdrop, Cancel,
       Idle, mainVars, stepVars, slotVars, busVars, shotVars, sceneVars
<1>15. TypeOK /\ TakeShot => TypeOK'
  <2> SUFFICES ASSUME TypeOK, TakeShot PROVE TypeOK'
    OBVIOUS
  <2>1. PICK f : shot' = [s \in Shot |-> IF s = f THEN "deleted" ELSE shot[s]]
    BY DEF TakeShot, OpenSelector, LoadBackdrop
  <2>2. shot' \in [Shot -> ShotState]
    BY <2>1 DEF TypeOK, ShotState
  <2> QED
    BY <2>2 DEF TypeOK, Waits, TakeShot, OpenSelector, LoadBackdrop, Cancel,
       Idle, mainVars, stepVars, slotVars, busVars, shotVars, sceneVars
<1>16. TypeOK /\ GiveUp => TypeOK'
  BY DEF TypeOK, Waits, GiveUp, mainVars, stepVars, slotVars, busVars, shotVars,
     sceneVars
<1>17. TypeOK /\ GivenUp => TypeOK'
  <2> SUFFICES ASSUME TypeOK, GivenUp PROVE TypeOK'
    OBVIOUS
  <2>1. PICK f : shot' = [s \in Shot |-> IF s = f THEN "deleted" ELSE shot[s]]
    BY DEF GivenUp, OpenSelector, LoadBackdrop
  <2>2. shot' \in [Shot -> ShotState]
    BY <2>1 DEF TypeOK, ShotState
  <2> QED
    BY <2>2 DEF TypeOK, Waits, GivenUp, OpenSelector, LoadBackdrop, Cancel,
       Idle, mainVars, stepVars, slotVars, busVars, shotVars, sceneVars
<1>18. TypeOK /\ Accept => TypeOK'
  BY DEF TypeOK, Waits, Accept, CloseSelector, Settle, mainVars, stepVars, slotVars,
     busVars, shotVars, sceneVars
<1>19. TypeOK /\ Dismiss => TypeOK'
  BY DEF TypeOK, Waits, Dismiss, Cancel, Idle, UserHides, mainVars, stepVars,
     slotVars, busVars, shotVars, sceneVars
<1>20. TypeOK /\ BeginPicked => TypeOK'
  BY DEF TypeOK, Waits, BeginPicked, Begin, HideMain, Settle, RequestCapture, Idle,
     mainVars, stepVars, slotVars, busVars, shotVars, sceneVars
<1>21. TypeOK /\ Ask => TypeOK'
  BY DEF TypeOK, Waits, Ask, RequestCapture, Idle, mainVars, stepVars, slotVars,
     busVars, shotVars, sceneVars
<1>22. TypeOK /\ LeaveIdle => TypeOK'
  <2> SUFFICES ASSUME TypeOK, LeaveIdle PROVE TypeOK'
    OBVIOUS
  <2>1. pc' = "done" /\ state' \in {"Idle", "Starting", "Recording"}
    BY DEF TypeOK, LeaveIdle
  <2>2. reveal' \in BOOLEAN
    BY Zenon DEF TypeOK, LeaveIdle
  <2> QED
    BY <2>1, <2>2 DEF TypeOK, LeaveIdle, stepVars, slotVars, busVars, shotVars,
       sceneVars
<1>23. TypeOK /\ Leave => TypeOK'
  BY DEF TypeOK, Waits, Leave, mainVars, stepVars, slotVars, busVars, shotVars,
     sceneVars
<1>24. TypeOK /\ Left => TypeOK'
  <2> SUFFICES ASSUME TypeOK, Left PROVE TypeOK'
    OBVIOUS
  <2>1. shot' \in [Shot -> ShotState]
    BY DEF TypeOK, ShotState, Left
  <2> QED
    BY <2>1 DEF TypeOK, Waits, Left, Idle, mainVars, stepVars, slotVars, busVars,
       shotVars, sceneVars
<1>25. Inv /\ SendRequest => TypeOK'
  <2> SUFFICES ASSUME TypeOK, Served, Shots, SendRequest PROVE TypeOK'
    BY DEF Inv
  <2>1. asked + 1 \in Shot
    BY MaxShotsAssumption DEF SendRequest, TypeOK, Served, Shots, Waits, Shot
  <2>2. shot' \in [Shot -> ShotState]
    BY <2>1 DEF SendRequest, TypeOK, ShotState
  <2>3. asked' \in 0 .. MaxShots /\ slot' \in Shot \cup {None}
    BY <2>1 DEF SendRequest, TypeOK, Shot
  <2> QED
    BY <2>2, <2>3 DEF TypeOK, SendRequest, mainVars, stepVars, sceneVars
<1>26. TypeOK /\ DropSlot => TypeOK'
  BY DEF TypeOK, Waits, DropSlot, mainVars, stepVars, slotVars, busVars, shotVars,
     sceneVars
<1>27. TypeOK /\ Wake => TypeOK'
  <2> SUFFICES ASSUME TypeOK, Wake PROVE TypeOK'
    OBVIOUS
  <2>1. woken' \in BOOLEAN /\ waking' \in BOOLEAN
    BY DEF Wake
  <2> QED
    BY <2>1 DEF TypeOK, Wake, mainVars, stepVars, slotVars, shotVars, sceneVars
<1>28. ASSUME TypeOK, NEW s \in Shot, OnResponse(s) PROVE TypeOK'
  <2>1. shot' \in [Shot -> ShotState]
    BY <1>28 DEF OnResponse, TypeOK, ShotState
  <2> QED
    BY <1>28, <2>1 DEF TypeOK, OnResponse, mainVars, stepVars, slotVars, busVars,
       sceneVars
<1>29. ASSUME TypeOK, NEW s \in Shot, Ignore(s) PROVE TypeOK'
  <2>1. shot' \in [Shot -> ShotState]
    BY <1>29 DEF Ignore, TypeOK, ShotState
  <2> QED
    BY <1>29, <2>1 DEF TypeOK, Ignore, mainVars, stepVars, slotVars, busVars,
       sceneVars
<1>30. TypeOK /\ DeadlinePasses => TypeOK'
  BY DEF TypeOK, Waits, DeadlinePasses, mainVars, stepVars, slotVars, busVars,
     shotVars, sceneVars
<1>31. ASSUME TypeOK, NEW s \in Shot, PortalAnswers(s) PROVE TypeOK'
  <2>1. shot' \in [Shot -> ShotState]
    BY <1>31 DEF PortalAnswers, TypeOK, ShotState
  <2> QED
    BY <1>31, <2>1 DEF TypeOK, PortalAnswers, mainVars, stepVars, slotVars, busVars,
       sceneVars
<1>32. ASSUME TypeOK, NEW w \in fading, Fade(w) PROVE TypeOK'
  BY <1>32 DEF TypeOK, Waits, Fade, mainVars, stepVars, slotVars, busVars, shotVars,
     sceneVars
<1>33. TypeOK /\ UNCHANGED vars => TypeOK'
  BY DEF TypeOK, Waits, vars, mainVars, stepVars, slotVars, busVars, shotVars,
     sceneVars
<1> QED
  BY <1>1, <1>2, <1>3, <1>4, <1>5, <1>6, <1>7, <1>8, <1>9, <1>10, <1>11, <1>12,
     <1>13, <1>14, <1>15, <1>16, <1>17, <1>18, <1>19, <1>20, <1>21, <1>22, <1>23, <1>24,
     <1>25, <1>26, <1>27, <1>28, <1>29, <1>30, <1>31, <1>32, <1>33 DEF Inv,
        Next, User, Loop, UpdateFlow, Exit, Bus, Tasks, World

(* A Run is waited in with its task, in the step that called it.            *)
LEMMA ServedStep == Inv /\ [Next]_vars => Served'
<1>1. Served /\ OneCapturePerStart /\ TypeOK /\ BeginIteration => Served'
  BY DEF Served, OneCapturePerStart, TypeOK, Waits, BeginIteration, mainVars,
     stepVars, slotVars, shotVars, sceneVars, busVars
<1>2. Served /\ OneCapturePerStart /\ TypeOK /\ User => Served'
  BY DEF Served, OneCapturePerStart, TypeOK, Waits, User, AnswerSelector,
     CloseWindow, ShowWindow, CanToggle, ToggleStop, ToggleStart, ToggleRegion,
     Begin, Settle, HideMain, ShowMain, RequestCapture, Idle, mainVars, stepVars,
     slotVars, busVars, shotVars, sceneVars
<1>3. Served /\ OneCapturePerStart /\ TypeOK /\ (Loop /\ ~UpdateFlow) => Served'
  BY DEF Served, OneCapturePerStart, TypeOK, Waits, Loop, TakeRequests,
     UpdateRecorder, EndIteration, ShowMain, mainVars, stepVars, slotVars, busVars,
     shotVars, sceneVars
<1>4. Served /\ OneCapturePerStart /\ TypeOK /\ UpdateFlow => Served'
  BY DEF Served, OneCapturePerStart, TypeOK, Waits, UpdateFlow, WaitOn, Ready,
     AskForShot, ShotAsked, ShotFailed, TakeShot, GiveUp, GivenUp, Accept, Dismiss,
     BeginPicked, Ask, OpenSelector, LoadBackdrop, Cancel, CloseSelector,
     Begin, Settle, HideMain,
     RequestCapture, Idle, mainVars, stepVars, slotVars, busVars, shotVars,
     sceneVars
<1>5. Served /\ OneCapturePerStart /\ TypeOK /\ Exit => Served'
  BY DEF Served, OneCapturePerStart, TypeOK, Waits, Exit, LeaveIdle, Leave, Left,
     Idle, mainVars, stepVars, slotVars, busVars, shotVars, sceneVars
<1>6. Served /\ OneCapturePerStart /\ TypeOK /\ Bus => Served'
  BY DEF Served, OneCapturePerStart, TypeOK, Waits, Bus, Tasks, SendRequest,
     DropSlot, Wake, OnResponse, Ignore, mainVars, stepVars, slotVars, busVars,
     shotVars, sceneVars
<1>7. Served /\ OneCapturePerStart /\ TypeOK /\ World => Served'
  BY DEF Served, OneCapturePerStart, TypeOK, Waits, World, Fade, DeadlinePasses,
     PortalAnswers, mainVars, stepVars, slotVars, busVars, shotVars, sceneVars
<1>8. Served /\ OneCapturePerStart /\ TypeOK /\ UNCHANGED vars => Served'
  BY DEF Served, OneCapturePerStart, TypeOK, Waits, vars, mainVars, stepVars,
     slotVars, busVars, shotVars, sceneVars
<1> QED
  BY <1>1, <1>2, <1>3, <1>4, <1>5, <1>6, <1>7, <1>8 DEF Inv, Next, User, Loop,
     UpdateFlow, Exit, Bus, Tasks, World

(* Every step keeps to one start, and one capture of it.                    *)
LEMMA CaptureStep == Inv /\ [Next]_vars => OneCapturePerStart'
<1>1. OneCapturePerStart /\ Served /\ TypeOK /\ BeginIteration => OneCapturePerStart'
  BY DEF OneCapturePerStart, Served, TypeOK, Waits, BeginIteration, mainVars,
     stepVars, slotVars, shotVars, sceneVars, busVars
<1>2. OneCapturePerStart /\ Served /\ TypeOK /\ User => OneCapturePerStart'
  BY DEF OneCapturePerStart, Served, TypeOK, Waits, User, AnswerSelector,
     CloseWindow, ShowWindow, CanToggle, ToggleStop, ToggleStart, ToggleRegion,
     Begin, Settle, HideMain, ShowMain, RequestCapture, Idle, mainVars, stepVars,
     slotVars, busVars, shotVars, sceneVars
<1>3. OneCapturePerStart /\ Served /\ TypeOK /\ (Loop /\ ~UpdateFlow) => OneCapturePerStart'
  BY DEF OneCapturePerStart, Served, TypeOK, Waits, Loop, TakeRequests,
     UpdateRecorder, EndIteration, ShowMain, mainVars, stepVars, slotVars, busVars,
     shotVars, sceneVars
<1>4. OneCapturePerStart /\ Served /\ TypeOK /\ UpdateFlow => OneCapturePerStart'
  BY DEF OneCapturePerStart, Served, TypeOK, Waits, UpdateFlow, WaitOn, Ready,
     AskForShot, ShotAsked, ShotFailed, TakeShot, GiveUp, GivenUp, Accept, Dismiss,
     BeginPicked, Ask, OpenSelector, LoadBackdrop, Cancel, CloseSelector,
     Begin, Settle, HideMain,
     RequestCapture, Idle, mainVars, stepVars, slotVars, busVars, shotVars,
     sceneVars
<1>5. OneCapturePerStart /\ Served /\ TypeOK /\ Exit => OneCapturePerStart'
  BY DEF OneCapturePerStart, Served, TypeOK, Waits, Exit, LeaveIdle, Leave, Left,
     Idle, mainVars, stepVars, slotVars, busVars, shotVars, sceneVars
<1>6. OneCapturePerStart /\ Served /\ TypeOK /\ Bus => OneCapturePerStart'
  BY DEF OneCapturePerStart, Served, TypeOK, Waits, Bus, Tasks, SendRequest,
     DropSlot, Wake, OnResponse, Ignore, mainVars, stepVars, slotVars, busVars,
     shotVars, sceneVars
<1>7. OneCapturePerStart /\ Served /\ TypeOK /\ World => OneCapturePerStart'
  BY DEF OneCapturePerStart, Served, TypeOK, Waits, World, Fade, DeadlinePasses,
     PortalAnswers, mainVars, stepVars, slotVars, busVars, shotVars, sceneVars
<1>8. OneCapturePerStart /\ Served /\ TypeOK /\ UNCHANGED vars => OneCapturePerStart'
  BY DEF OneCapturePerStart, Served, TypeOK, Waits, vars, mainVars, stepVars,
     slotVars, busVars, shotVars, sceneVars
<1> QED
  BY <1>1, <1>2, <1>3, <1>4, <1>5, <1>6, <1>7, <1>8 DEF Inv, Next, User, Loop,
     UpdateFlow, Exit, Bus, Tasks, World

(* A window hidden by Klip stays owed: a cancelled start shows it, the      *)
(* recorder asks for a reveal.                                              *)
LEMMA OwedStep == Inv /\ [Next]_vars => Owed'
<1>1. Owed /\ OneCapturePerStart /\ Served /\ TypeOK /\ BeginIteration => Owed'
  BY DEF Owed, OneCapturePerStart, Served, TypeOK, Waits, BeginIteration, mainVars,
     stepVars, slotVars, shotVars, sceneVars, busVars
<1>2. Owed /\ OneCapturePerStart /\ Served /\ TypeOK /\ User => Owed'
  BY DEF Owed, OneCapturePerStart, Served, TypeOK, Waits, User, AnswerSelector,
     CloseWindow, ShowWindow, CanToggle, ToggleStop, ToggleStart, ToggleRegion,
     Begin, Settle, HideMain, ShowMain, RequestCapture, Idle, mainVars, stepVars,
     slotVars, busVars, shotVars, sceneVars
<1>3. Owed /\ OneCapturePerStart /\ Served /\ TypeOK /\ (Loop /\ ~UpdateFlow) => Owed'
  BY DEF Owed, OneCapturePerStart, Served, TypeOK, Waits, Loop, TakeRequests,
     UpdateRecorder, EndIteration, ShowMain, mainVars, stepVars, slotVars, busVars,
     shotVars, sceneVars
<1>4. Owed /\ OneCapturePerStart /\ Served /\ TypeOK /\ UpdateFlow => Owed'
  BY DEF Owed, OneCapturePerStart, Served, TypeOK, Waits, UpdateFlow, WaitOn, Ready,
     AskForShot, ShotAsked, ShotFailed, TakeShot, GiveUp, GivenUp, Accept, Dismiss,
     BeginPicked, Ask, OpenSelector, LoadBackdrop, Cancel, CloseSelector,
     Begin, Settle, HideMain,
     RequestCapture, Idle, mainVars, stepVars, slotVars, busVars, shotVars,
     sceneVars
<1>5. Owed /\ OneCapturePerStart /\ Served /\ TypeOK /\ Exit => Owed'
  BY DEF Owed, OneCapturePerStart, Served, TypeOK, Waits, Exit, LeaveIdle, Leave,
     Left, Idle, mainVars, stepVars, slotVars, busVars, shotVars, sceneVars
<1>6. Owed /\ OneCapturePerStart /\ Served /\ TypeOK /\ Bus => Owed'
  BY DEF Owed, OneCapturePerStart, Served, TypeOK, Waits, Bus, Tasks, SendRequest,
     DropSlot, Wake, OnResponse, Ignore, mainVars, stepVars, slotVars, busVars,
     shotVars, sceneVars
<1>7. Owed /\ OneCapturePerStart /\ Served /\ TypeOK /\ World => Owed'
  BY DEF Owed, OneCapturePerStart, Served, TypeOK, Waits, World, Fade,
     DeadlinePasses, PortalAnswers, mainVars, stepVars, slotVars, busVars, shotVars,
     sceneVars
<1>8. Owed /\ OneCapturePerStart /\ Served /\ TypeOK /\ UNCHANGED vars => Owed'
  BY DEF Owed, OneCapturePerStart, Served, TypeOK, Waits, vars, mainVars, stepVars,
     slotVars, busVars, shotVars, sceneVars
<1> QED
  BY <1>1, <1>2, <1>3, <1>4, <1>5, <1>6, <1>7, <1>8 DEF Inv, Next, User, Loop,
     UpdateFlow, Exit, Bus, Tasks, World

(* What Klip hides for a start has a deadline to fade before.               *)
LEMMA HidesStep == Inv /\ [Next]_vars => Hides'
<1>1. Hides /\ OneCapturePerStart /\ Served /\ TypeOK /\ BeginIteration => Hides'
  BY DEF Hides, OneCapturePerStart, Served, TypeOK, Waits, UserHides,
     BeginIteration, mainVars, stepVars, slotVars, shotVars, sceneVars, busVars
<1>2. Hides /\ OneCapturePerStart /\ Served /\ TypeOK /\ User => Hides'
  BY DEF Hides, OneCapturePerStart, Served, TypeOK, Waits, UserHides, User,
     AnswerSelector, CloseWindow, ShowWindow, CanToggle, ToggleStop, ToggleStart,
     ToggleRegion, Begin, Settle, HideMain, ShowMain, RequestCapture, Idle,
     mainVars, stepVars, slotVars, busVars, shotVars, sceneVars
<1>3. Hides /\ OneCapturePerStart /\ Served /\ TypeOK /\ (Loop /\ ~UpdateFlow) => Hides'
  BY DEF Hides, OneCapturePerStart, Served, TypeOK, Waits, UserHides, Loop,
     TakeRequests, UpdateRecorder, EndIteration, ShowMain, mainVars, stepVars,
     slotVars, busVars, shotVars, sceneVars
<1>4. Hides /\ OneCapturePerStart /\ Served /\ TypeOK /\ WaitOn => Hides'
  BY DEF Hides, OneCapturePerStart, Served, TypeOK, Waits, UserHides, WaitOn, Ready,
     mainVars, stepVars, slotVars, busVars, shotVars, sceneVars
<1>5. Hides /\ OneCapturePerStart /\ Served /\ TypeOK /\ AskForShot => Hides'
  BY DEF Hides, OneCapturePerStart, Served, TypeOK, Waits, UserHides, AskForShot,
     mainVars, stepVars, slotVars, busVars, shotVars, sceneVars
<1>6. Hides /\ OneCapturePerStart /\ Served /\ TypeOK /\ ShotAsked => Hides'
  BY DEF Hides, OneCapturePerStart, Served, TypeOK, Waits, UserHides, ShotAsked,
     mainVars, stepVars, slotVars, busVars, shotVars, sceneVars
<1>7. Hides /\ OneCapturePerStart /\ Served /\ TypeOK /\ ShotFailed => Hides'
  BY DEF Hides, OneCapturePerStart, Served, TypeOK, Waits, UserHides, ShotFailed,
     OpenSelector, LoadBackdrop, Cancel, Idle, mainVars, stepVars, slotVars,
     busVars, shotVars, sceneVars
<1>8. Hides /\ OneCapturePerStart /\ Served /\ TypeOK /\ TakeShot => Hides'
  BY DEF Hides, OneCapturePerStart, Served, TypeOK, Waits, UserHides, TakeShot,
     OpenSelector, LoadBackdrop, Cancel, Idle, mainVars, stepVars, slotVars,
     busVars, shotVars, sceneVars
<1>9. Hides /\ OneCapturePerStart /\ Served /\ TypeOK /\ GiveUp => Hides'
  BY DEF Hides, OneCapturePerStart, Served, TypeOK, Waits, UserHides, GiveUp,
     mainVars, stepVars, slotVars, busVars, shotVars, sceneVars
<1>10. Hides /\ OneCapturePerStart /\ Served /\ TypeOK /\ GivenUp => Hides'
  BY DEF Hides, OneCapturePerStart, Served, TypeOK, Waits, UserHides, GivenUp,
     OpenSelector, LoadBackdrop, Cancel, Idle, mainVars, stepVars, slotVars,
     busVars, shotVars, sceneVars
<1>11. Hides /\ OneCapturePerStart /\ Served /\ TypeOK /\ Accept => Hides'
  BY DEF Hides, OneCapturePerStart, Served, TypeOK, Waits, UserHides, Accept,
     CloseSelector, Settle, mainVars, stepVars, slotVars, busVars, shotVars,
     sceneVars
<1>12. Hides /\ OneCapturePerStart /\ Served /\ TypeOK /\ Dismiss => Hides'
  BY DEF Hides, OneCapturePerStart, Served, TypeOK, Waits, UserHides, Dismiss,
     Cancel, Idle, mainVars, stepVars, slotVars, busVars, shotVars, sceneVars
<1>13. Hides /\ OneCapturePerStart /\ Served /\ TypeOK /\ BeginPicked => Hides'
  BY DEF Hides, OneCapturePerStart, Served, TypeOK, Waits, UserHides, BeginPicked,
     Begin, HideMain, Settle, RequestCapture, Idle, mainVars, stepVars, slotVars,
     busVars, shotVars, sceneVars
<1>14. Hides /\ OneCapturePerStart /\ Served /\ TypeOK /\ Ask => Hides'
  BY DEF Hides, OneCapturePerStart, Served, TypeOK, Waits, UserHides, Ask,
     RequestCapture, Idle, mainVars, stepVars, slotVars, busVars, shotVars,
     sceneVars
<1>15. Hides /\ OneCapturePerStart /\ Served /\ TypeOK /\ Exit => Hides'
  BY DEF Hides, OneCapturePerStart, Served, TypeOK, Waits, UserHides, Exit,
     LeaveIdle, Leave, Left, Idle, mainVars, stepVars, slotVars, busVars, shotVars,
     sceneVars
<1>16. Hides /\ OneCapturePerStart /\ Served /\ TypeOK /\ Bus => Hides'
  BY DEF Hides, OneCapturePerStart, Served, TypeOK, Waits, UserHides, Bus, Tasks,
     SendRequest, DropSlot, Wake, OnResponse, Ignore, mainVars, stepVars, slotVars,
     busVars, shotVars, sceneVars
<1>17. Hides /\ OneCapturePerStart /\ Served /\ TypeOK /\ World => Hides'
  BY DEF Hides, OneCapturePerStart, Served, TypeOK, Waits, UserHides, World, Fade,
     DeadlinePasses, PortalAnswers, mainVars, stepVars, slotVars, busVars, shotVars,
     sceneVars
<1>18. Hides /\ OneCapturePerStart /\ Served /\ TypeOK /\ UNCHANGED vars => Hides'
  BY DEF Hides, OneCapturePerStart, Served, TypeOK, Waits, UserHides, vars,
     mainVars, stepVars, slotVars, busVars, shotVars, sceneVars
<1> QED
  BY <1>1, <1>2, <1>3, <1>4, <1>5, <1>6, <1>7, <1>8, <1>9, <1>10, <1>11, <1>12,
     <1>13, <1>14, <1>15, <1>16, <1>17, <1>18 DEF Inv, Next, User, Loop,
        UpdateFlow, Exit, Bus, Tasks, World

(* The subscription and the answer stay those of the screenshot asked for   *)
(* last.                                                                    *)
LEMMA ListeningStep == Inv /\ [Next]_vars => Listening'
<1>1. Listening /\ Served /\ TypeOK /\ BeginIteration => Listening'
  BY DEF Listening, Served, TypeOK, Waits, None, Shot, BeginIteration, mainVars,
     stepVars, slotVars, shotVars, sceneVars, busVars
<1>2. Listening /\ Served /\ TypeOK /\ User => Listening'
  BY DEF Listening, Served, TypeOK, Waits, None, Shot, User, AnswerSelector,
     CloseWindow, ShowWindow, CanToggle, ToggleStop, ToggleStart, ToggleRegion,
     Begin, Settle, HideMain, ShowMain, RequestCapture, Idle, mainVars, stepVars,
     slotVars, busVars, shotVars, sceneVars
<1>3. Listening /\ Served /\ TypeOK /\ (Loop /\ ~UpdateFlow) => Listening'
  BY DEF Listening, Served, TypeOK, Waits, None, Shot, Loop, TakeRequests,
     UpdateRecorder, EndIteration, ShowMain, mainVars, stepVars, slotVars, busVars,
     shotVars, sceneVars
<1>4. Listening /\ Served /\ TypeOK /\ UpdateFlow => Listening'
  BY DEF Listening, Served, TypeOK, Waits, None, Shot, UpdateFlow, WaitOn, Ready,
     AskForShot, ShotAsked, ShotFailed, TakeShot, GiveUp, GivenUp, Accept, Dismiss,
     BeginPicked, Ask, OpenSelector, LoadBackdrop, Cancel, CloseSelector,
     Begin, Settle, HideMain,
     RequestCapture, Idle, mainVars, stepVars, slotVars, busVars, shotVars,
     sceneVars
<1>5. Listening /\ Served /\ TypeOK /\ Exit => Listening'
  BY DEF Listening, Served, TypeOK, Waits, None, Shot, Exit, LeaveIdle, Leave, Left,
     Idle, mainVars, stepVars, slotVars, busVars, shotVars, sceneVars
<1>6. Listening /\ Served /\ TypeOK /\ Bus => Listening'
  BY DEF Listening, Served, TypeOK, Waits, None, Shot, Bus, Tasks, SendRequest,
     DropSlot, Wake, OnResponse, Ignore, mainVars, stepVars, slotVars, busVars,
     shotVars, sceneVars
<1>7. Listening /\ Served /\ TypeOK /\ World => Listening'
  BY DEF Listening, Served, TypeOK, Waits, None, Shot, World, Fade, DeadlinePasses,
     PortalAnswers, mainVars, stepVars, slotVars, busVars, shotVars, sceneVars
<1>8. Listening /\ Served /\ TypeOK /\ UNCHANGED vars => Listening'
  BY DEF Listening, Served, TypeOK, Waits, None, Shot, vars, mainVars, stepVars,
     slotVars, busVars, shotVars, sceneVars
<1> QED
  BY <1>1, <1>2, <1>3, <1>4, <1>5, <1>6, <1>7, <1>8 DEF Inv, Next, User, Loop,
     UpdateFlow, Exit, Bus, Tasks, World

(* An answer stays noted: by a wake, or by the iteration under way.         *)
LEMMA NotedStep == Inv /\ [Next]_vars => Noted'
<1>1. Noted /\ Listening /\ Served /\ TypeOK /\ BeginIteration => Noted'
  BY DEF Noted, Listening, Served, TypeOK, Waits, BeginIteration, mainVars,
     stepVars, slotVars, shotVars, sceneVars, busVars
<1>2. Noted /\ Listening /\ Served /\ TypeOK /\ User => Noted'
  BY DEF Noted, Listening, Served, TypeOK, Waits, User, AnswerSelector, CloseWindow,
     ShowWindow, CanToggle, ToggleStop, ToggleStart, ToggleRegion, Begin, Settle,
     HideMain, ShowMain, RequestCapture, Idle, mainVars, stepVars, slotVars,
     busVars, shotVars, sceneVars
<1>3. Noted /\ Listening /\ Served /\ TypeOK /\ TakeRequests => Noted'
  BY DEF Noted, Listening, Served, TypeOK, Waits, TakeRequests, mainVars, stepVars,
     slotVars, busVars, shotVars, sceneVars
<1>4. Noted /\ Listening /\ Served /\ TypeOK /\ UpdateRecorder => Noted'
  BY DEF Noted, Listening, Served, TypeOK, Waits, UpdateRecorder, mainVars,
     stepVars, slotVars, busVars, shotVars, sceneVars
<1>5. Noted /\ Listening /\ Served /\ TypeOK /\ EndIteration => Noted'
  BY DEF Noted, Listening, Served, TypeOK, Waits, EndIteration, ShowMain, mainVars,
     stepVars, slotVars, busVars, shotVars, sceneVars
<1>6. Noted /\ Listening /\ Served /\ TypeOK /\ UpdateFlow => Noted'
  BY DEF Noted, Listening, Served, TypeOK, Waits, UpdateFlow, WaitOn, Ready,
     AskForShot, ShotAsked, ShotFailed, TakeShot, GiveUp, GivenUp, Accept, Dismiss,
     BeginPicked, Ask, OpenSelector, LoadBackdrop, Cancel, CloseSelector,
     Begin, Settle, HideMain,
     RequestCapture, Idle, mainVars, stepVars, slotVars, busVars, shotVars,
     sceneVars
<1>7. Noted /\ Listening /\ Served /\ TypeOK /\ Exit => Noted'
  BY DEF Noted, Listening, Served, TypeOK, Waits, Exit, LeaveIdle, Leave, Left,
     Idle, mainVars, stepVars, slotVars, busVars, shotVars, sceneVars
<1>8. Noted /\ Listening /\ Served /\ TypeOK /\ Bus => Noted'
  BY DEF Noted, Listening, Served, TypeOK, Waits, Bus, Tasks, SendRequest, DropSlot,
     Wake, OnResponse, Ignore, mainVars, stepVars, slotVars, busVars, shotVars,
     sceneVars
<1>9. Noted /\ Listening /\ Served /\ TypeOK /\ World => Noted'
  BY DEF Noted, Listening, Served, TypeOK, Waits, World, Fade, DeadlinePasses,
     PortalAnswers, mainVars, stepVars, slotVars, busVars, shotVars, sceneVars
<1>10. Noted /\ Listening /\ Served /\ TypeOK /\ UNCHANGED vars => Noted'
  BY DEF Noted, Listening, Served, TypeOK, Waits, vars, mainVars, stepVars,
     slotVars, busVars, shotVars, sceneVars
<1> QED
  BY <1>1, <1>2, <1>3, <1>4, <1>5, <1>6, <1>7, <1>8, <1>9, <1>10 DEF Inv, Next,
     User, Loop, UpdateFlow, Exit, Bus, Tasks, World

(* Klip leaves with nothing listened for.                                   *)
LEMMA EndStep == Inv /\ [Next]_vars => CleanEnd'
<1>1. CleanEnd /\ Served /\ Listening /\ OneCapturePerStart /\ TypeOK /\ BeginIteration => CleanEnd'
  BY DEF CleanEnd, Served, Listening, OneCapturePerStart, TypeOK, Waits, None, Shot,
     BeginIteration, mainVars, stepVars, slotVars, shotVars, sceneVars, busVars
<1>2. CleanEnd /\ Served /\ Listening /\ OneCapturePerStart /\ TypeOK /\ User => CleanEnd'
  BY DEF CleanEnd, Served, Listening, OneCapturePerStart, TypeOK, Waits, None, Shot,
     User, AnswerSelector, CloseWindow, ShowWindow, CanToggle, ToggleStop,
     ToggleStart,
     ToggleRegion, Begin, Settle, HideMain, ShowMain, RequestCapture, Idle,
     mainVars, stepVars, slotVars, busVars, shotVars, sceneVars
<1>3. CleanEnd /\ Served /\ Listening /\ OneCapturePerStart /\ TypeOK /\ (Loop /\ ~UpdateFlow) => CleanEnd'
  BY DEF CleanEnd, Served, Listening, OneCapturePerStart, TypeOK, Waits, None, Shot,
     Loop, TakeRequests, UpdateRecorder, EndIteration, ShowMain, mainVars, stepVars,
     slotVars, busVars, shotVars, sceneVars
<1>4. CleanEnd /\ Served /\ Listening /\ OneCapturePerStart /\ TypeOK /\ UpdateFlow => CleanEnd'
  BY DEF CleanEnd, Served, Listening, OneCapturePerStart, TypeOK, Waits, None, Shot,
     UpdateFlow, WaitOn, Ready, AskForShot, ShotAsked, ShotFailed, TakeShot, GiveUp,
     GivenUp, Accept, Dismiss, BeginPicked, Ask, OpenSelector, LoadBackdrop,
     Cancel, CloseSelector,
     Begin, Settle, HideMain, RequestCapture, Idle, mainVars, stepVars, slotVars,
     busVars, shotVars, sceneVars
<1>5. CleanEnd /\ Served /\ Listening /\ OneCapturePerStart /\ TypeOK /\ Exit => CleanEnd'
  BY DEF CleanEnd, Served, Listening, OneCapturePerStart, TypeOK, Waits, None, Shot,
     Exit, LeaveIdle, Leave, Left, Idle, mainVars, stepVars, slotVars, busVars,
     shotVars, sceneVars
<1>6. CleanEnd /\ Served /\ Listening /\ OneCapturePerStart /\ TypeOK /\ Bus => CleanEnd'
  BY DEF CleanEnd, Served, Listening, OneCapturePerStart, TypeOK, Waits, None, Shot,
     Bus, Tasks, SendRequest, DropSlot, Wake, OnResponse, Ignore, mainVars,
     stepVars, slotVars, busVars, shotVars, sceneVars
<1>7. CleanEnd /\ Served /\ Listening /\ OneCapturePerStart /\ TypeOK /\ World => CleanEnd'
  BY DEF CleanEnd, Served, Listening, OneCapturePerStart, TypeOK, Waits, None, Shot,
     World, Fade, DeadlinePasses, PortalAnswers, mainVars, stepVars, slotVars,
     busVars, shotVars, sceneVars
<1>8. CleanEnd /\ Served /\ Listening /\ OneCapturePerStart /\ TypeOK /\ UNCHANGED vars => CleanEnd'
  BY DEF CleanEnd, Served, Listening, OneCapturePerStart, TypeOK, Waits, None, Shot,
     vars, mainVars, stepVars, slotVars, busVars, shotVars, sceneVars
<1> QED
  BY <1>1, <1>2, <1>3, <1>4, <1>5, <1>6, <1>7, <1>8 DEF Inv, Next, User, Loop,
     UpdateFlow, Exit, Bus, Tasks, World

(* A screenshot is asked for with the next number.                          *)
LEMMA ShotsStep == Inv /\ [Next]_vars => Shots'
<1>1. Shots /\ Served /\ OneCapturePerStart /\ Listening /\ TypeOK /\ BeginIteration => Shots'
  BY DEF Shots, Served, OneCapturePerStart, Listening, TypeOK, Waits,
     BeginIteration, mainVars, stepVars, slotVars, shotVars, sceneVars, busVars
<1>2. Shots /\ Served /\ OneCapturePerStart /\ Listening /\ TypeOK /\ User => Shots'
  BY DEF Shots, Served, OneCapturePerStart, Listening, TypeOK, Waits, User,
     AnswerSelector, CloseWindow, ShowWindow, CanToggle, ToggleStop, ToggleStart,
     ToggleRegion, Begin, Settle, HideMain, ShowMain, RequestCapture, Idle,
     mainVars, stepVars, slotVars, busVars, shotVars, sceneVars
<1>3. Shots /\ Served /\ OneCapturePerStart /\ Listening /\ TypeOK /\ (Loop /\ ~UpdateFlow) => Shots'
  BY DEF Shots, Served, OneCapturePerStart, Listening, TypeOK, Waits, Loop,
     TakeRequests, UpdateRecorder, EndIteration, ShowMain, mainVars, stepVars,
     slotVars, busVars, shotVars, sceneVars
<1>4. Shots /\ Served /\ OneCapturePerStart /\ Listening /\ TypeOK /\ WaitOn => Shots'
  BY DEF Shots, Served, OneCapturePerStart, Listening, TypeOK, Waits, WaitOn, Ready,
     mainVars, stepVars, slotVars, busVars, shotVars, sceneVars
<1>5. Shots /\ Served /\ OneCapturePerStart /\ Listening /\ TypeOK /\ AskForShot => Shots'
  BY DEF Shots, Served, OneCapturePerStart, Listening, TypeOK, Waits, AskForShot,
     mainVars, stepVars, slotVars, busVars, shotVars, sceneVars
<1>6. Shots /\ Served /\ OneCapturePerStart /\ Listening /\ TypeOK /\ ShotAsked => Shots'
  BY DEF Shots, Served, OneCapturePerStart, Listening, TypeOK, Waits, ShotAsked,
     mainVars, stepVars, slotVars, busVars, shotVars, sceneVars
<1>7. Shots /\ Served /\ OneCapturePerStart /\ Listening /\ TypeOK /\ ShotFailed => Shots'
  <2> SUFFICES ASSUME Shots, Listening, TypeOK, ShotFailed PROVE Shots'
    OBVIOUS
  <2>1. ASSUME NEW s \in Shot, s > asked PROVE shot'[s] = "none"
    BY <2>1 DEF Shots, Listening, TypeOK, Shot, None, ShotFailed, OpenSelector,
       LoadBackdrop
  <2>2. asked' = asked /\ step' \in {"None", "Picking"}
    BY DEF ShotFailed, OpenSelector, LoadBackdrop, Cancel, Idle
  <2> QED
    BY <2>1, <2>2 DEF Shots
<1>8. Shots /\ Served /\ OneCapturePerStart /\ Listening /\ TypeOK /\ TakeShot => Shots'
  <2> SUFFICES ASSUME Shots, Listening, TypeOK, TakeShot PROVE Shots'
    OBVIOUS
  <2>1. ASSUME NEW s \in Shot, s > asked PROVE shot'[s] = "none"
    BY <2>1 DEF Shots, Listening, TypeOK, Shot, None, TakeShot, OpenSelector,
       LoadBackdrop
  <2>2. asked' = asked /\ step' \in {"None", "Picking"}
    BY DEF TakeShot, OpenSelector, LoadBackdrop, Cancel, Idle
  <2> QED
    BY <2>1, <2>2 DEF Shots
<1>9. Shots /\ Served /\ OneCapturePerStart /\ Listening /\ TypeOK /\ GiveUp => Shots'
  BY DEF Shots, Served, OneCapturePerStart, Listening, TypeOK, Waits, GiveUp,
     mainVars, stepVars, slotVars, busVars, shotVars, sceneVars
<1>10. Shots /\ Served /\ OneCapturePerStart /\ Listening /\ TypeOK /\ GivenUp => Shots'
  <2> SUFFICES ASSUME Shots, Listening, TypeOK, GivenUp PROVE Shots'
    OBVIOUS
  <2>1. ASSUME NEW s \in Shot, s > asked PROVE shot'[s] = "none"
    BY <2>1 DEF Shots, Listening, TypeOK, Shot, None, GivenUp, OpenSelector,
       LoadBackdrop
  <2>2. asked' = asked /\ step' \in {"None", "Picking"}
    BY DEF GivenUp, OpenSelector, LoadBackdrop, Cancel, Idle
  <2> QED
    BY <2>1, <2>2 DEF Shots
<1>11. Shots /\ Served /\ OneCapturePerStart /\ Listening /\ TypeOK /\ Accept => Shots'
  BY DEF Shots, Served, OneCapturePerStart, Listening, TypeOK, Waits, Accept,
     CloseSelector, Settle, mainVars, stepVars, slotVars, busVars, shotVars,
     sceneVars
<1>12. Shots /\ Served /\ OneCapturePerStart /\ Listening /\ TypeOK /\ Dismiss => Shots'
  BY DEF Shots, Served, OneCapturePerStart, Listening, TypeOK, Waits, Dismiss,
     Cancel, Idle, UserHides, mainVars, stepVars, slotVars, busVars, shotVars,
     sceneVars
<1>13. Shots /\ Served /\ OneCapturePerStart /\ Listening /\ TypeOK /\ BeginPicked => Shots'
  BY DEF Shots, Served, OneCapturePerStart, Listening, TypeOK, Waits, BeginPicked,
     Begin, HideMain, Settle, RequestCapture, Idle, mainVars, stepVars, slotVars,
     busVars, shotVars, sceneVars
<1>14. Shots /\ Served /\ OneCapturePerStart /\ Listening /\ TypeOK /\ Ask => Shots'
  BY DEF Shots, Served, OneCapturePerStart, Listening, TypeOK, Waits, Ask,
     RequestCapture, Idle, mainVars, stepVars, slotVars, busVars, shotVars,
     sceneVars
<1>15. Shots /\ Served /\ OneCapturePerStart /\ Listening /\ TypeOK /\ LeaveIdle => Shots'
  BY DEF Shots, Served, OneCapturePerStart, Listening, TypeOK, Waits, LeaveIdle,
     mainVars, stepVars, slotVars, busVars, shotVars, sceneVars
<1>16. Shots /\ Served /\ OneCapturePerStart /\ Listening /\ TypeOK /\ Leave => Shots'
  BY DEF Shots, Served, OneCapturePerStart, Listening, TypeOK, Waits, Leave,
     mainVars, stepVars, slotVars, busVars, shotVars, sceneVars
<1>17. Shots /\ Served /\ OneCapturePerStart /\ Listening /\ TypeOK /\ Left => Shots'
  <2> SUFFICES ASSUME Shots, Listening, TypeOK, Left PROVE Shots'
    OBVIOUS
  <2>1. ASSUME NEW s \in Shot, s > asked PROVE shot'[s] = "none"
    BY <2>1 DEF Shots, Listening, TypeOK, Shot, None, Left
  <2>2. asked' = asked /\ step' \in {"None", "Picking"}
    BY DEF Left, Idle
  <2> QED
    BY <2>1, <2>2 DEF Shots
<1>18. Shots /\ Served /\ OneCapturePerStart /\ Listening /\ TypeOK /\ SendRequest => Shots'
  <2> SUFFICES ASSUME Shots, TypeOK, SendRequest PROVE Shots'
    OBVIOUS
  <2>1. ASSUME NEW s \in Shot, s > asked + 1 PROVE shot'[s] = "none"
    <3>1. s # asked + 1 /\ s > asked
      BY <2>1 DEF TypeOK, Shot
    <3>2. shot'[s] = shot[s]
      BY <3>1 DEF SendRequest, TypeOK
    <3> QED
      BY <3>1, <3>2 DEF Shots
  <2> QED
    BY <2>1 DEF Shots, SendRequest
<1>19. Shots /\ Served /\ OneCapturePerStart /\ Listening /\ TypeOK /\ DropSlot => Shots'
  BY DEF Shots, Served, OneCapturePerStart, Listening, TypeOK, Waits, DropSlot,
     mainVars, stepVars, slotVars, busVars, shotVars, sceneVars
<1>20. Shots /\ Served /\ OneCapturePerStart /\ Listening /\ TypeOK /\ Wake => Shots'
  BY DEF Shots, Served, OneCapturePerStart, Listening, TypeOK, Waits, Wake,
     mainVars, stepVars, slotVars, busVars, shotVars, sceneVars
<1>21. ASSUME Shots, Served, OneCapturePerStart, Listening, TypeOK, NEW s \in Shot, OnResponse(s) PROVE Shots'
  BY <1>21 DEF Shots, Served, OneCapturePerStart, Listening, TypeOK, Waits,
     OnResponse, mainVars, stepVars, slotVars, busVars, shotVars, sceneVars
<1>22. ASSUME Shots, Served, OneCapturePerStart, Listening, TypeOK, NEW s \in Shot, Ignore(s) PROVE Shots'
  BY <1>22 DEF Shots, Served, OneCapturePerStart, Listening, TypeOK, Waits, Ignore,
     mainVars, stepVars, slotVars, busVars, shotVars, sceneVars
<1>23. Shots /\ Served /\ OneCapturePerStart /\ Listening /\ TypeOK /\ World => Shots'
  BY DEF Shots, Served, OneCapturePerStart, Listening, TypeOK, Waits, World, Fade,
     DeadlinePasses, PortalAnswers, mainVars, stepVars, slotVars, busVars, shotVars,
     sceneVars
<1>24. Shots /\ Served /\ OneCapturePerStart /\ Listening /\ TypeOK /\ UNCHANGED vars => Shots'
  BY DEF Shots, Served, OneCapturePerStart, Listening, TypeOK, Waits, vars,
     mainVars, stepVars, slotVars, busVars, shotVars, sceneVars
<1> QED
  BY <1>1, <1>2, <1>3, <1>4, <1>5, <1>6, <1>7, <1>8, <1>9, <1>10, <1>11, <1>12,
     <1>13, <1>14, <1>15, <1>16, <1>17, <1>18, <1>19, <1>20, <1>21, <1>22, <1>23, <1>24
     DEF Inv, Next, User, Loop, UpdateFlow, Exit, Bus, Tasks, World

(* A file handed over is the one the answer names, and is deleted with the  *)
(* taking of the answer.                                                    *)
LEMMA HeldStep == Inv /\ [Next]_vars => HandedFilesAreHeld'
<1>1. HandedFilesAreHeld /\ Listening /\ Served /\ Shots /\ TypeOK /\ BeginIteration => HandedFilesAreHeld'
  BY DEF HandedFilesAreHeld, Listening, Served, Shots, TypeOK, Waits,
     BeginIteration, mainVars, stepVars, slotVars, shotVars, sceneVars, busVars
<1>2. HandedFilesAreHeld /\ Listening /\ Served /\ Shots /\ TypeOK /\ User => HandedFilesAreHeld'
  BY DEF HandedFilesAreHeld, Listening, Served, Shots, TypeOK, Waits, User,
     AnswerSelector, CloseWindow, ShowWindow, CanToggle, ToggleStop, ToggleStart,
     ToggleRegion, Begin, Settle, HideMain, ShowMain, RequestCapture, Idle,
     mainVars, stepVars, slotVars, busVars, shotVars, sceneVars
<1>3. HandedFilesAreHeld /\ Listening /\ Served /\ Shots /\ TypeOK /\ (Loop /\ ~UpdateFlow) => HandedFilesAreHeld'
  BY DEF HandedFilesAreHeld, Listening, Served, Shots, TypeOK, Waits, Loop,
     TakeRequests, UpdateRecorder, EndIteration, ShowMain, mainVars, stepVars,
     slotVars, busVars, shotVars, sceneVars
<1>4. HandedFilesAreHeld /\ Listening /\ Served /\ Shots /\ TypeOK /\ WaitOn => HandedFilesAreHeld'
  BY DEF HandedFilesAreHeld, Listening, Served, Shots, TypeOK, Waits, WaitOn, Ready,
     mainVars, stepVars, slotVars, busVars, shotVars, sceneVars
<1>5. HandedFilesAreHeld /\ Listening /\ Served /\ Shots /\ TypeOK /\ AskForShot => HandedFilesAreHeld'
  BY DEF HandedFilesAreHeld, Listening, Served, Shots, TypeOK, Waits, AskForShot,
     mainVars, stepVars, slotVars, busVars, shotVars, sceneVars
<1>6. HandedFilesAreHeld /\ Listening /\ Served /\ Shots /\ TypeOK /\ ShotAsked => HandedFilesAreHeld'
  BY DEF HandedFilesAreHeld, Listening, Served, Shots, TypeOK, Waits, ShotAsked,
     mainVars, stepVars, slotVars, busVars, shotVars, sceneVars
<1>7. HandedFilesAreHeld /\ Listening /\ Served /\ Shots /\ TypeOK /\ ShotFailed => HandedFilesAreHeld'
  BY DEF HandedFilesAreHeld, Listening, Served, Shots, TypeOK, Waits, ShotFailed,
     OpenSelector, LoadBackdrop, Cancel, Idle, mainVars, stepVars, slotVars,
     busVars, shotVars, sceneVars
<1>8. HandedFilesAreHeld /\ Listening /\ Served /\ Shots /\ TypeOK /\ TakeShot => HandedFilesAreHeld'
  BY DEF HandedFilesAreHeld, Listening, Served, Shots, TypeOK, Waits, TakeShot,
     OpenSelector, LoadBackdrop, Cancel, Idle, mainVars, stepVars, slotVars,
     busVars, shotVars, sceneVars
<1>9. HandedFilesAreHeld /\ Listening /\ Served /\ Shots /\ TypeOK /\ GiveUp => HandedFilesAreHeld'
  BY DEF HandedFilesAreHeld, Listening, Served, Shots, TypeOK, Waits, GiveUp,
     mainVars, stepVars, slotVars, busVars, shotVars, sceneVars
<1>10. HandedFilesAreHeld /\ Listening /\ Served /\ Shots /\ TypeOK /\ GivenUp => HandedFilesAreHeld'
  BY DEF HandedFilesAreHeld, Listening, Served, Shots, TypeOK, Waits, GivenUp,
     OpenSelector, LoadBackdrop, Cancel, Idle, mainVars, stepVars, slotVars,
     busVars, shotVars, sceneVars
<1>11. HandedFilesAreHeld /\ Listening /\ Served /\ Shots /\ TypeOK /\ Accept => HandedFilesAreHeld'
  BY DEF HandedFilesAreHeld, Listening, Served, Shots, TypeOK, Waits, Accept,
     CloseSelector, Settle, mainVars, stepVars, slotVars, busVars, shotVars,
     sceneVars
<1>12. HandedFilesAreHeld /\ Listening /\ Served /\ Shots /\ TypeOK /\ Dismiss => HandedFilesAreHeld'
  BY DEF HandedFilesAreHeld, Listening, Served, Shots, TypeOK, Waits, Dismiss,
     Cancel, Idle, UserHides, mainVars, stepVars, slotVars, busVars, shotVars,
     sceneVars
<1>13. HandedFilesAreHeld /\ Listening /\ Served /\ Shots /\ TypeOK /\ BeginPicked => HandedFilesAreHeld'
  BY DEF HandedFilesAreHeld, Listening, Served, Shots, TypeOK, Waits, BeginPicked,
     Begin, HideMain, Settle, RequestCapture, Idle, mainVars, stepVars, slotVars,
     busVars, shotVars, sceneVars
<1>14. HandedFilesAreHeld /\ Listening /\ Served /\ Shots /\ TypeOK /\ Ask => HandedFilesAreHeld'
  BY DEF HandedFilesAreHeld, Listening, Served, Shots, TypeOK, Waits, Ask,
     RequestCapture, Idle, mainVars, stepVars, slotVars, busVars, shotVars,
     sceneVars
<1>15. HandedFilesAreHeld /\ Listening /\ Served /\ Shots /\ TypeOK /\ LeaveIdle => HandedFilesAreHeld'
  BY DEF HandedFilesAreHeld, Listening, Served, Shots, TypeOK, Waits, LeaveIdle,
     mainVars, stepVars, slotVars, busVars, shotVars, sceneVars
<1>16. HandedFilesAreHeld /\ Listening /\ Served /\ Shots /\ TypeOK /\ Leave => HandedFilesAreHeld'
  BY DEF HandedFilesAreHeld, Listening, Served, Shots, TypeOK, Waits, Leave,
     mainVars, stepVars, slotVars, busVars, shotVars, sceneVars
<1>17. HandedFilesAreHeld /\ Listening /\ Served /\ Shots /\ TypeOK /\ Left => HandedFilesAreHeld'
  BY DEF HandedFilesAreHeld, Listening, Served, Shots, TypeOK, Waits, Left, Idle,
     mainVars, stepVars, slotVars, busVars, shotVars, sceneVars
<1>18. HandedFilesAreHeld /\ Listening /\ Served /\ Shots /\ TypeOK /\ SendRequest => HandedFilesAreHeld'
  BY DEF HandedFilesAreHeld, Listening, Served, Shots, TypeOK, Waits, SendRequest,
     mainVars, stepVars, slotVars, busVars, shotVars, sceneVars
<1>19. HandedFilesAreHeld /\ Listening /\ Served /\ Shots /\ TypeOK /\ DropSlot => HandedFilesAreHeld'
  BY DEF HandedFilesAreHeld, Listening, Served, Shots, TypeOK, Waits, DropSlot,
     mainVars, stepVars, slotVars, busVars, shotVars, sceneVars
<1>20. HandedFilesAreHeld /\ Listening /\ Served /\ Shots /\ TypeOK /\ Wake => HandedFilesAreHeld'
  BY DEF HandedFilesAreHeld, Listening, Served, Shots, TypeOK, Waits, Wake,
     mainVars, stepVars, slotVars, busVars, shotVars, sceneVars
<1>21. ASSUME HandedFilesAreHeld, Listening, Served, Shots, TypeOK, NEW s \in Shot, OnResponse(s) PROVE HandedFilesAreHeld'
  <2>1. shot[s] # "handed" /\ ~answered /\ path = None
    BY <1>21 DEF Listening, Shot, None, OnResponse
  <2>2. \A t \in Shot : shot[t] # "handed"
    BY <2>1, <1>21 DEF HandedFilesAreHeld
  <2>3. \A t \in Shot : t # None
    BY DEF Shot, None
  <2>4. ASSUME NEW t \in Shot
        PROVE  shot'[t] = "handed" <=> answered' /\ path' = t
    BY <2>1, <2>2, <2>3, <1>21 DEF OnResponse, TypeOK
  <2> QED
    BY <2>4 DEF HandedFilesAreHeld
<1>22. ASSUME HandedFilesAreHeld, Listening, Served, Shots, TypeOK, NEW s \in Shot, Ignore(s) PROVE HandedFilesAreHeld'
  BY <1>22 DEF HandedFilesAreHeld, Listening, Served, Shots, TypeOK, Waits, Ignore,
     mainVars, stepVars, slotVars, busVars, shotVars, sceneVars
<1>23. HandedFilesAreHeld /\ Listening /\ Served /\ Shots /\ TypeOK /\ World => HandedFilesAreHeld'
  BY DEF HandedFilesAreHeld, Listening, Served, Shots, TypeOK, Waits, World, Fade,
     DeadlinePasses, PortalAnswers, mainVars, stepVars, slotVars, busVars, shotVars,
     sceneVars
<1>24. HandedFilesAreHeld /\ Listening /\ Served /\ Shots /\ TypeOK /\ UNCHANGED vars => HandedFilesAreHeld'
  BY DEF HandedFilesAreHeld, Listening, Served, Shots, TypeOK, Waits, vars,
     mainVars, stepVars, slotVars, busVars, shotVars, sceneVars
<1> QED
  BY <1>1, <1>2, <1>3, <1>4, <1>5, <1>6, <1>7, <1>8, <1>9, <1>10, <1>11, <1>12,
     <1>13, <1>14, <1>15, <1>16, <1>17, <1>18, <1>19, <1>20, <1>21, <1>22, <1>23, <1>24
     DEF Inv, Next, User, Loop, UpdateFlow, Exit, Bus, Tasks, World

(* A capture or a screenshot is asked for once what Klip hid has faded.     *)
LEMMA ShootsOnceFaded == Inv /\ [Next]_vars => [Shoots => fading \subseteq UserHides]_vars
<1>1. Hides /\ OneCapturePerStart /\ Served /\ BeginIteration => [Shoots => fading \subseteq UserHides]_vars
  BY DEF Shoots, Hides, OneCapturePerStart, Served, Waits, UserHides, ShotFailed,
     BeginIteration, mainVars, stepVars, slotVars, shotVars, sceneVars, busVars
<1>2. Hides /\ OneCapturePerStart /\ Served /\ User => [Shoots => fading \subseteq UserHides]_vars
  BY DEF Shoots, Hides, OneCapturePerStart, Served, Waits, UserHides, ShotFailed,
     User, AnswerSelector, CloseWindow, ShowWindow, CanToggle, ToggleStop,
     ToggleStart,
     ToggleRegion, Begin, Settle, HideMain, ShowMain, RequestCapture, Idle,
     mainVars, stepVars, slotVars, busVars, shotVars, sceneVars
<1>3. Hides /\ OneCapturePerStart /\ Served /\ (Loop /\ ~UpdateFlow) => [Shoots => fading \subseteq UserHides]_vars
  BY DEF Shoots, Hides, OneCapturePerStart, Served, Waits, UserHides, ShotFailed,
     Loop, TakeRequests, UpdateRecorder, EndIteration, ShowMain, mainVars, stepVars,
     slotVars, busVars, shotVars, sceneVars
<1>4. Hides /\ OneCapturePerStart /\ Served /\ UpdateFlow => [Shoots => fading \subseteq UserHides]_vars
  BY DEF Shoots, Hides, OneCapturePerStart, Served, Waits, UserHides, ShotFailed,
     UpdateFlow, WaitOn, Ready, AskForShot, ShotAsked, TakeShot, GiveUp, GivenUp,
     Accept, Dismiss, BeginPicked, Ask, OpenSelector, LoadBackdrop, Cancel,
     CloseSelector, Begin,
     Settle, HideMain, RequestCapture, Idle, mainVars, stepVars, slotVars, busVars,
     shotVars, sceneVars
<1>5. Hides /\ OneCapturePerStart /\ Served /\ LeaveIdle => [Shoots => fading \subseteq UserHides]_vars
  BY DEF Shoots, Hides, OneCapturePerStart, Served, Waits, UserHides, ShotFailed,
     LeaveIdle, mainVars, stepVars, slotVars, busVars, shotVars, sceneVars
<1>6. Hides /\ OneCapturePerStart /\ Served /\ Leave => [Shoots => fading \subseteq UserHides]_vars
  BY DEF Shoots, Hides, OneCapturePerStart, Served, Waits, UserHides, ShotFailed,
     Leave, mainVars, stepVars, slotVars, busVars, shotVars, sceneVars
<1>7. Hides /\ OneCapturePerStart /\ Served /\ Left => [Shoots => fading \subseteq UserHides]_vars
  BY DEF Shoots, Hides, OneCapturePerStart, Served, Waits, UserHides, ShotFailed,
     Left, Idle, mainVars, stepVars, slotVars, busVars, shotVars, sceneVars
<1>8. Hides /\ OneCapturePerStart /\ Served /\ SendRequest => [Shoots => fading \subseteq UserHides]_vars
  BY DEF Shoots, Hides, OneCapturePerStart, Served, Waits, UserHides, ShotFailed,
     SendRequest, mainVars, stepVars, slotVars, busVars, shotVars, sceneVars
<1>9. Hides /\ OneCapturePerStart /\ Served /\ DropSlot => [Shoots => fading \subseteq UserHides]_vars
  BY DEF Shoots, Hides, OneCapturePerStart, Served, Waits, UserHides, ShotFailed,
     DropSlot, mainVars, stepVars, slotVars, busVars, shotVars, sceneVars
<1>10. Hides /\ OneCapturePerStart /\ Served /\ Wake => [Shoots => fading \subseteq UserHides]_vars
  BY DEF Shoots, Hides, OneCapturePerStart, Served, Waits, UserHides, ShotFailed,
     Wake, mainVars, stepVars, slotVars, busVars, shotVars, sceneVars
<1>11. ASSUME Hides, OneCapturePerStart, Served, NEW s \in Shot, OnResponse(s) PROVE [Shoots => fading \subseteq UserHides]_vars
  BY <1>11 DEF Shoots, Hides, OneCapturePerStart, Served, Waits, UserHides,
     ShotFailed, OnResponse, mainVars, stepVars, slotVars, busVars, shotVars,
     sceneVars
<1>12. ASSUME Hides, OneCapturePerStart, Served, NEW s \in Shot, Ignore(s) PROVE [Shoots => fading \subseteq UserHides]_vars
  BY <1>12 DEF Shoots, Hides, OneCapturePerStart, Served, Waits, UserHides,
     ShotFailed, Ignore, mainVars, stepVars, slotVars, busVars, shotVars, sceneVars
<1>13. Hides /\ OneCapturePerStart /\ Served /\ World => [Shoots => fading \subseteq UserHides]_vars
  BY DEF Shoots, Hides, OneCapturePerStart, Served, Waits, UserHides, ShotFailed,
     World, Fade, DeadlinePasses, PortalAnswers, mainVars, stepVars, slotVars,
     busVars, shotVars, sceneVars
<1>14. Hides /\ OneCapturePerStart /\ Served /\ UNCHANGED vars => [Shoots => fading \subseteq UserHides]_vars
  BY DEF Shoots, Hides, OneCapturePerStart, Served, Waits, UserHides, ShotFailed,
     vars, mainVars, stepVars, slotVars, busVars, shotVars, sceneVars
<1> QED
  BY <1>1, <1>2, <1>3, <1>4, <1>5, <1>6, <1>7, <1>8, <1>9, <1>10, <1>11, <1>12,
     <1>13, <1>14 DEF Inv, Next, User, Loop, UpdateFlow, Exit, Bus, Tasks, World

(* What Phase says, without its tables.                                     *)
LEMMA PhaseOf ==
  /\ TypeOK =>
       Phase = IF pc \in {"leaving", "done"} THEN "over"
               ELSE IF state = "Idle" THEN "idle"
               ELSE IF state = "Recording" THEN "recording"
               ELSE IF step = "None" THEN "asked"
               ELSE IF step = "SettlingBeforeCapture" THEN "settling"
               ELSE "picking"
  /\ TypeOK' =>
       Phase' = IF pc' \in {"leaving", "done"} THEN "over"
                ELSE IF state' = "Idle" THEN "idle"
                ELSE IF state' = "Recording" THEN "recording"
                ELSE IF step' = "None" THEN "asked"
                ELSE IF step' = "SettlingBeforeCapture" THEN "settling"
                ELSE "picking"
<1>1. ASSUME TypeOK
      PROVE  Phase = IF pc \in {"leaving", "done"} THEN "over"
                     ELSE IF state = "Idle" THEN "idle"
                     ELSE IF state = "Recording" THEN "recording"
                     ELSE IF step = "None" THEN "asked"
                     ELSE IF step = "SettlingBeforeCapture" THEN "settling"
                     ELSE "picking"
  BY <1>1 DEF TypeOK, Phase
<1>2. ASSUME TypeOK'
      PROVE  Phase' = IF pc' \in {"leaving", "done"} THEN "over"
                      ELSE IF state' = "Idle" THEN "idle"
                      ELSE IF state' = "Recording" THEN "recording"
                      ELSE IF step' = "None" THEN "asked"
                      ELSE IF step' = "SettlingBeforeCapture" THEN "settling"
                      ELSE "picking"
  BY <1>2 DEF TypeOK, Phase
<1> QED
  BY <1>1, <1>2

(* Every step of the flow is a step of StartPhases.                         *)
LEMMA PhaseStep == Inv /\ [Next]_vars => [Phases!Next]_Phase
<1>1. TypeOK /\ TypeOK' /\ OneCapturePerStart /\ Served /\ BeginIteration => [Phases!Next]_Phase
  BY PhaseOf DEF OneCapturePerStart, Served, Waits, Phases!Next, Phases!Prepare,
     Phases!Pick, Phases!Dismiss, Phases!Ask, Phases!Answer, Phases!Stop, Phases!Leave,
     BeginIteration, mainVars, stepVars, slotVars, shotVars, sceneVars, busVars
<1>2. TypeOK /\ TypeOK' /\ OneCapturePerStart /\ Served /\ User => [Phases!Next]_Phase
  BY PhaseOf DEF OneCapturePerStart, Served, Waits, Phases!Next, Phases!Prepare,
     Phases!Pick, Phases!Dismiss, Phases!Ask, Phases!Answer, Phases!Stop, Phases!Leave,
     User, AnswerSelector, CloseWindow, ShowWindow, CanToggle, ToggleStop,
     ToggleStart,
     ToggleRegion, Begin, Settle, HideMain, ShowMain, RequestCapture, Idle,
     mainVars, stepVars, slotVars, busVars, shotVars, sceneVars
<1>3. TypeOK /\ TypeOK' /\ OneCapturePerStart /\ Served /\ (Loop /\ ~UpdateFlow) => [Phases!Next]_Phase
  BY PhaseOf DEF OneCapturePerStart, Served, Waits, Phases!Next, Phases!Prepare,
     Phases!Pick, Phases!Dismiss, Phases!Ask, Phases!Answer, Phases!Stop, Phases!Leave,
     Loop, TakeRequests, UpdateRecorder, EndIteration, ShowMain, mainVars, stepVars,
     slotVars, busVars, shotVars, sceneVars
<1>4. TypeOK /\ TypeOK' /\ OneCapturePerStart /\ Served /\ UpdateFlow => [Phases!Next]_Phase
  BY PhaseOf DEF OneCapturePerStart, Served, Waits, Phases!Next, Phases!Prepare,
     Phases!Pick, Phases!Dismiss, Phases!Ask, Phases!Answer, Phases!Stop, Phases!Leave,
     UpdateFlow, WaitOn, Ready, AskForShot, ShotAsked, ShotFailed, TakeShot, GiveUp,
     GivenUp, Accept, Dismiss, BeginPicked, Ask, OpenSelector, LoadBackdrop,
     Cancel, CloseSelector,
     Begin, Settle, HideMain, RequestCapture, Idle, mainVars, stepVars, slotVars,
     busVars, shotVars, sceneVars
<1>5. TypeOK /\ TypeOK' /\ OneCapturePerStart /\ Served /\ Exit => [Phases!Next]_Phase
  BY PhaseOf DEF OneCapturePerStart, Served, Waits, Phases!Next, Phases!Prepare,
     Phases!Pick, Phases!Dismiss, Phases!Ask, Phases!Answer, Phases!Stop, Phases!Leave,
     Exit, LeaveIdle, Leave, Left, Idle, mainVars, stepVars, slotVars, busVars,
     shotVars, sceneVars
<1>6. TypeOK /\ TypeOK' /\ OneCapturePerStart /\ Served /\ Bus => [Phases!Next]_Phase
  BY PhaseOf DEF OneCapturePerStart, Served, Waits, Phases!Next, Phases!Prepare,
     Phases!Pick, Phases!Dismiss, Phases!Ask, Phases!Answer, Phases!Stop, Phases!Leave,
     Bus, Tasks, SendRequest, DropSlot, Wake, OnResponse, Ignore, mainVars,
     stepVars, slotVars, busVars, shotVars, sceneVars
<1>7. TypeOK /\ TypeOK' /\ OneCapturePerStart /\ Served /\ World => [Phases!Next]_Phase
  BY PhaseOf DEF OneCapturePerStart, Served, Waits, Phases!Next, Phases!Prepare,
     Phases!Pick, Phases!Dismiss, Phases!Ask, Phases!Answer, Phases!Stop, Phases!Leave,
     World, Fade, DeadlinePasses, PortalAnswers, mainVars, stepVars, slotVars,
     busVars, shotVars, sceneVars
<1>8. TypeOK /\ TypeOK' /\ OneCapturePerStart /\ Served /\ UNCHANGED vars => [Phases!Next]_Phase
  BY PhaseOf DEF OneCapturePerStart, Served, Waits, Phases!Next, Phases!Prepare,
     Phases!Pick, Phases!Dismiss, Phases!Ask, Phases!Answer, Phases!Stop, Phases!Leave,
     vars, mainVars, stepVars, slotVars, busVars, shotVars, sceneVars
<1> QED
  BY TypeStep, <1>1, <1>2, <1>3, <1>4, <1>5, <1>6, <1>7, <1>8 DEF Inv, Next, User,
     Loop, UpdateFlow, Exit, Bus, Tasks, World

(* The first state satisfies the invariant.                                 *)
LEMMA InvInit == Init => Inv
<1> SUFFICES ASSUME Init PROVE Inv
  OBVIOUS
<1>1. TypeOK
  <2>1. shot \in [Shot -> ShotState]
    BY DEF Init, ShotState
  <2>2. asked \in 0 .. MaxShots
    BY MaxShotsAssumption DEF Init
  <2> QED
    BY <2>1, <2>2 DEF Init, TypeOK
<1>2. HandedFilesAreHeld
  BY DEF Init, HandedFilesAreHeld
<1>3. Shots
  BY DEF Init, Shots
<1> QED
  BY <1>1, <1>2, <1>3 DEF Init, Inv, Noted, OneCapturePerStart, CleanEnd, Served,
     Waits, Listening, Owed, Hides

(* The invariant holds in every reachable state.                            *)
THEOREM Invariance == Spec => []Inv
<1>1. Inv /\ [Next]_vars => Inv'
  BY TypeStep, ServedStep, CaptureStep, OwedStep, HidesStep, ListeningStep,
     NotedStep,
     EndStep, ShotsStep, HeldStep DEF Inv
<1> QED
  BY InvInit, <1>1, PTL DEF Spec

(* Every variable keeps its type (TypeOK).                                  *)
THEOREM TypeCorrect == Spec => []TypeOK
<1>1. Inv => TypeOK
  BY DEF Inv
<1> QED
  BY Invariance, <1>1, PTL

(* A file that was handed over is held by the answer that names it, so its  *)
(* taker or its canceller deletes it (CScreenshot::TakeAnswer, Cancel).     *)
THEOREM FilesAreHeld == Spec => []HandedFilesAreHeld
<1>1. Inv => HandedFilesAreHeld
  BY DEF Inv
<1> QED
  BY Invariance, <1>1, PTL

(* No answer reaches a start it was not asked for (CScreenshot::Cancel).    *)
THEOREM AnswersAreOwn == Spec => []AnswersAreOfThisStart
<1>1. Inv => AnswersAreOfThisStart
  BY DEF Inv, Listening, AnswersAreOfThisStart
<1> QED
  BY Invariance, <1>1, PTL

(* The main thread never sleeps on an answer (CScreenshot::OnResponse).     *)
THEOREM NoWakeIsLost == Spec => []AnswerWakesTheLoop
<1>1. Inv => AnswerWakesTheLoop
  BY DEF Inv, Noted, AnswerWakesTheLoop
<1> QED
  BY Invariance, <1>1, PTL

(* A start asks for one capture, and the assertions of BeginRecording and   *)
(* RequestCapture hold (CStartFlow::Update).                                *)
THEOREM OneCapture == Spec => []OneCapturePerStart
<1>1. Inv => OneCapturePerStart
  BY DEF Inv
<1> QED
  BY Invariance, <1>1, PTL

(* Klip does not keep its own window hidden (CStartFlow::Cancel and         *)
(* CApplication::Reveal).                                                   *)
THEOREM WindowReturns == Spec => []WindowComesBack
<1>1. Inv => WindowComesBack
  BY DEF Inv, Owed, WindowComesBack
<1> QED
  BY Invariance, <1>1, PTL

(* Once CStartFlow::Terminate has returned nothing is listened for.         *)
THEOREM EndIsClean == Spec => []CleanEnd
<1>1. Inv => CleanEnd
  BY DEF Inv
<1> QED
  BY Invariance, <1>1, PTL

(* Types, the one capture, the window and the end, together (CStartFlow).   *)
THEOREM StartIsInOrder == Spec => []StartInvariant
<1> QED
  BY TypeCorrect, OneCapture, WindowReturns, EndIsClean, PTL DEF StartInvariant

(* Neither a capture nor a screenshot is asked for with something on screen *)
(* that Klip hid for it (CStartFlow::Settle).                               *)
THEOREM HidesAreSettled == Spec => OwnHidesSettle
<1>1. Inv /\ [Next]_vars => [Shoots => fading \subseteq UserHides]_vars
  BY ShootsOnceFaded
<1> QED
  BY Invariance, <1>1, PTL DEF Spec, OwnHidesSettle

(* The first phase is idle.                                                 *)
LEMMA PhaseInit == Init => Phases!Init
BY DEF Init, Phase, Phases!Init

(* Every step of the flow is a step of StartPhases, or leaves the phase as  *)
(* it is: the safety half of ImplementsPhases.                              *)
THEOREM FlowKeepsThePhases == Spec => Phases!Init /\ [][Phases!Next]_Phase
<1>1. Inv /\ [Next]_vars => [Phases!Next]_Phase
  BY PhaseStep
<1> QED
  BY Invariance, PhaseInit, <1>1, PTL DEF Spec
=============================================================================

---------------------------- MODULE PortalProofs ----------------------------
(***************************************************************************)
(* What TLAPS proves of PortalSession and of its two callers, for any      *)
(* number of Starts and Closes: lemmas that hold whoever calls, then       *)
(* PortalClient, which keeps to no discipline, then Recorder.              *)
(***************************************************************************)
EXTENDS PortalClient, RecorderProperties, SequenceTheorems, TLAPS

-----------------------------------------------------------------------------
(* The bus thread's queue of tasks.                                         *)

HasOp(queue, op) == \E i \in DOMAIN queue : queue[i].op = op

(* Behind a posted Start there is at most a Terminate.                      *)
StartIsLast(queue) ==
  \A i, j \in DOMAIN queue : i < j /\ queue[i].op = "Start" => queue[j].op = "Terminate"

(* A task is posted behind the ones that wait.                              *)
LEMMA PostLemma ==
  ASSUME NEW q \in Seq(Tasks), NEW t \in Tasks
  PROVE  /\ Append(q, t) \in Seq(Tasks)
         /\ \A op : HasOp(Append(q, t), op) <=> HasOp(q, op) \/ t.op = op
         /\ StartIsLast(q) /\ (HasOp(q, "Start") => t.op = "Terminate")
              => StartIsLast(Append(q, t))
<1> DEFINE r == Append(q, t)
<1>1. /\ r \in Seq(Tasks)
      /\ Len(r) = Len(q) + 1
      /\ \A i \in 1 .. Len(q) : r[i] = q[i]
      /\ r[Len(q) + 1] = t
  BY AppendProperties
<1>2. Len(q) \in Nat /\ DOMAIN q = 1 .. Len(q) /\ DOMAIN r = 1 .. Len(q) + 1
  BY <1>1, LenProperties
<1>3. ASSUME NEW op PROVE HasOp(r, op) <=> HasOp(q, op) \/ t.op = op
  BY <1>1, <1>2 DEF HasOp
<1>4. ASSUME StartIsLast(q), HasOp(q, "Start") => t.op = "Terminate"
      PROVE  StartIsLast(r)
  <2> SUFFICES ASSUME NEW i \in DOMAIN r, NEW j \in DOMAIN r, i < j, r[i].op = "Start"
               PROVE  r[j].op = "Terminate"
    BY DEF StartIsLast
  <2>1. i \in DOMAIN q /\ q[i].op = "Start"
    BY <1>1, <1>2
  <2>2. CASE j \in DOMAIN q
    BY <1>1, <1>2, <1>4, <2>1, <2>2 DEF StartIsLast
  <2>3. CASE j \notin DOMAIN q
    BY <1>1, <1>2, <1>4, <2>1, <2>3 DEF HasOp
  <2> QED
    BY <2>2, <2>3
<1> QED
  BY <1>1, <1>3, <1>4

(* The bus thread runs the task at the front.                               *)
LEMMA RunLemma ==
  ASSUME NEW q \in Seq(Tasks), q # <<>>
  PROVE  /\ Head(q) \in Tasks
         /\ Tail(q) \in Seq(Tasks)
         /\ \A op : HasOp(q, op) <=> HasOp(Tail(q), op) \/ Head(q).op = op
         /\ StartIsLast(q) =>
              /\ StartIsLast(Tail(q))
              /\ Head(q).op = "Start" => ~HasOp(Tail(q), "Start") /\ ~HasOp(Tail(q), "Close")
<1> DEFINE r == Tail(q)
<1>1. /\ Head(q) \in Tasks
      /\ r \in Seq(Tasks)
      /\ Len(r) = Len(q) - 1
      /\ \A i \in 1 .. Len(r) : r[i] = q[i + 1]
  BY HeadTailProperties
<1>2. Len(q) \in Nat \ {0} /\ DOMAIN q = 1 .. Len(q) /\ DOMAIN r = 1 .. Len(q) - 1
  BY <1>1, LenProperties, EmptySeq
<1>3. Head(q) = q[1]
  OBVIOUS
<1>4. ASSUME NEW op PROVE HasOp(q, op) <=> HasOp(r, op) \/ Head(q).op = op
  <2>1. ASSUME HasOp(q, op) PROVE HasOp(r, op) \/ q[1].op = op
    <3>1. PICK i \in 1 .. Len(q) : q[i].op = op
      BY <1>2, <2>1 DEF HasOp
    <3>2. i = 1 \/ (i - 1 \in DOMAIN r /\ r[i - 1] = q[i])
      BY <1>1, <1>2
    <3> QED
      BY <3>1, <3>2 DEF HasOp
  <2>2. ASSUME HasOp(r, op) \/ q[1].op = op PROVE HasOp(q, op)
    BY <1>1, <1>2, <2>2 DEF HasOp
  <2> QED
    BY <1>3, <2>1, <2>2
<1>5. ASSUME StartIsLast(q)
      PROVE  /\ StartIsLast(r)
             /\ Head(q).op = "Start" => ~HasOp(r, "Start") /\ ~HasOp(r, "Close")
  <2>1. StartIsLast(r)
    BY <1>1, <1>2, <1>5 DEF StartIsLast
  <2>2. ASSUME q[1].op = "Start", NEW i \in DOMAIN r PROVE r[i].op = "Terminate"
    BY <1>1, <1>2, <1>5, <2>2 DEF StartIsLast
  <2> QED
    BY <1>3, <2>1, <2>2 DEF HasOp
<1> QED
  BY <1>1, <1>4, <1>5

(* Nothing waits in an empty queue.                                         *)
LEMMA NoTaskLemma ==
  /\ <<>> \in Seq(Tasks) /\ StartIsLast(<<>>)
  /\ \A op : ~HasOp(<<>>, op)
BY EmptySeq DEF HasOp, StartIsLast

(* The first answer queued is the one that is taken, and then none is left. *)
LEMMA AnswerLemma ==
  /\ \A g \in Grants : /\ Append(<<>>, g) # <<>>
                       /\ Len(Append(<<>>, g)) = 1
                       /\ Head(Append(<<>>, g)) = g
  /\ \A q \in Seq(Grants) : q # <<>> /\ Len(q) <= 1 => Tail(q) = <<>>
<1>1. ASSUME NEW g \in Grants
      PROVE  Append(<<>>, g) # <<>> /\ Len(Append(<<>>, g)) = 1 /\ Head(Append(<<>>, g)) = g
  BY EmptySeq, AppendProperties, HeadTailAppend
<1>2. ASSUME NEW q \in Seq(Grants), q # <<>>, Len(q) <= 1
      PROVE  Tail(q) = <<>>
  <2>1. Tail(q) \in Seq(Grants) /\ Len(Tail(q)) = Len(q) - 1 /\ Len(q) \in Nat \ {0}
    BY <1>2, HeadTailProperties, EmptySeq
  <2> QED
    BY <1>2, <2>1, EmptySeq
<1> QED
  BY <1>1, <1>2

-----------------------------------------------------------------------------
(* Types.                                                                   *)

(* Queueing an answer keeps the answers and the wake to their types.        *)
LEMMA DeliverType ==
  ASSUME SessionTypeOK, NEW id \in Cast, NEW result \in Results, Deliver(id, result)
  PROVE  answers' \in Seq(Grants) /\ woken' \in BOOLEAN
<1>1. [id |-> id, result |-> result] \in Grants
  BY DEF Grants
<1>2. answers \in Seq(Grants)
  BY DEF SessionTypeOK
<1>3. Append(answers, [id |-> id, result |-> result]) \in Seq(Grants)
  BY <1>1, <1>2, AppendProperties
<1> QED
  BY <1>3 DEF Deliver

(* Whatever the bus thread closes, what it follows stays a session or none. *)
LEMMA CloseType ==
  ASSUME SessionTypeOK, CloseSession
  PROVE  /\ handle' \in Cast \cup {None} /\ slot' \in Cast \cup {None}
         /\ live' \in BOOLEAN /\ open' \in SUBSET Cast
BY DEF SessionTypeOK, CloseSession

(* A task of the bus thread leaves every variable its type.                 *)
LEMMA RunTaskType == SessionTypeOK /\ RunTask => SessionTypeOK'
<1> SUFFICES ASSUME SessionTypeOK, RunTask PROVE SessionTypeOK'
  OBVIOUS
<1>1. Head(tasks) \in Tasks /\ tasks' \in Seq(Tasks)
  BY RunLemma DEF SessionTypeOK, RunTask
<1>2. ASSUME NEW id \in Cast, RunStart(id) PROVE SessionTypeOK'
  <2>1. CASE RefuseStart(id)
    <3>1. answers' \in Seq(Grants) /\ woken' \in BOOLEAN
      BY <2>1, DeliverType DEF RefuseStart, Results
    <3> QED
      BY <1>1, <2>1, <3>1 DEF RefuseStart, RunTask, SessionTypeOK, clientVars,
         portalVars
  <2>2. CASE Begin(id)
    BY <1>1, <2>2 DEF Begin, Request, RunTask, SessionTypeOK, outVars, Steps
  <2>3. CASE BeginRefused(id)
    <3>1. answers' \in Seq(Grants) /\ woken' \in BOOLEAN
      BY <2>3, DeliverType DEF BeginRefused, Results
    <3> QED
      BY <1>1, <2>3, <3>1, CloseType DEF BeginRefused, RunTask, SessionTypeOK
  <2> QED
    BY <1>2, <2>1, <2>2, <2>3 DEF RunStart
<1>3. CASE RunClose
  BY <1>1, <1>3, CloseType DEF RunClose, RunTask, SessionTypeOK, outVars
<1>4. CASE RunTerminate
  BY <1>1, <1>4, CloseType DEF RunTerminate, RunTask, SessionTypeOK, outVars
<1> QED
  BY <1>1, <1>2, <1>3, <1>4 DEF RunTask, Tasks

(* So does a signal, heard or not.                                          *)
LEMMA DispatchType == SessionTypeOK /\ Dispatch => SessionTypeOK'
<1> SUFFICES ASSUME SessionTypeOK, Dispatch PROVE SessionTypeOK'
  OBVIOUS
<1> DEFINE signal == Head(signals)
<1>1. /\ signal \in Signals /\ signals' \in Seq(Signals)
      /\ started' = started /\ tasks' = tasks
  BY HeadTailProperties DEF SessionTypeOK, Dispatch
<1>2. CASE UNCHANGED <<clientVars, outVars, open, asked>>
  BY <1>1, <1>2 DEF SessionTypeOK, clientVars, outVars
<1>3. CASE OnSessionClosed
  BY <1>1, <1>3 DEF OnSessionClosed, SessionTypeOK, clientVars, outVars
<1>4. ASSUME callback \in Cast, OnResponse(signal) PROVE SessionTypeOK'
  <2>1. ASSUME NEW result \in Results, Release(result)
        PROVE  /\ answers' \in Seq(Grants) /\ woken' \in BOOLEAN
               /\ busy' \in BOOLEAN /\ callback' \in Cast \cup {None}
               /\ step' \in Steps \cup {"None"}
    BY <1>4, <2>1, DeliverType DEF Release
  <2>2. ASSUME NEW result \in Results, FinishWithout(result) PROVE SessionTypeOK'
    BY <1>1, <2>1, <2>2, CloseType DEF FinishWithout, SessionTypeOK
  <2>3. CASE OnSessionCreated
    BY <1>1, <1>4, <2>3 DEF OnSessionCreated, Request, SessionTypeOK, outVars, Steps
  <2>4. CASE OnSessionUnfollowed
    BY <1>1, <1>4, <2>1, <2>4 DEF OnSessionUnfollowed, SessionTypeOK, Results
  <2>5. CASE OnSourcesSelected
    BY <1>1, <1>4, <2>2, <2>5 DEF OnSourcesSelected, Request, SessionTypeOK, outVars,
       Steps, Results
  <2>6. CASE OnStarted
    BY <1>1, <1>4, <2>1, <2>2, <2>6 DEF OnStarted, SessionTypeOK, Results
  <2> QED
    BY <1>4, <2>2, <2>3, <2>4, <2>5, <2>6 DEF OnResponse, Results
<1>5. Heard(signal) /\ signal.name = "Response" => callback \in Cast
  BY <1>1 DEF Heard, Signals
<1> QED
  BY <1>2, <1>3, <1>4, <1>5 DEF Dispatch

(* And so does whatever the portal does.                                    *)
LEMMA PortalStepType == SessionTypeOK /\ PortalStep => SessionTypeOK'
<1> SUFFICES ASSUME SessionTypeOK, PortalStep PROVE SessionTypeOK'
  OBVIOUS
<1>1. ASSUME NEW id \in Cast, NEW at \in Steps, NEW code \in Codes, PortalRespond(id, at, code)
      PROVE  SessionTypeOK'
  <2>1. [name |-> "Response", id |-> id, step |-> at, code |-> code] \in Signals
    BY DEF Signals
  <2>2. signals' \in Seq(Signals)
    BY <1>1, <2>1, AppendProperties DEF PortalRespond, SessionTypeOK
  <2> QED
    BY <1>1, <2>2 DEF PortalRespond, SessionTypeOK, clientVars, outVars
<1>2. ASSUME NEW id \in Cast, PortalClose(id) PROVE SessionTypeOK'
  <2>1. [name |-> "Closed", id |-> id] \in Signals
    BY DEF Signals
  <2>2. signals' \in Seq(Signals)
    BY <1>2, <2>1, AppendProperties DEF PortalClose, SessionTypeOK
  <2> QED
    BY <1>2, <2>2 DEF PortalClose, SessionTypeOK, clientVars, outVars
<1> QED
  BY <1>1, <1>2 DEF PortalStep, PortalAnswers

-----------------------------------------------------------------------------
(* PortalClient: a refusal leaves the Start it is refused for alone, and    *)
(* nothing is heard of the session once its Terminate has returned.         *)

(* A session that is live can be closed: it has a handle.                   *)
Follows == live => handle # None

(* What RunTerminate leaves, and nothing after it can change.               *)
Ended == ~initialized /\ callback = None /\ ~live

(* The Terminate that is waited for is still to run, or has done its work.  *)
Closing ==
  /\ phase = "terminating" => HasOp(tasks, "Terminate") \/ Ended
  /\ phase = "terminated" => Ended /\ tasks = <<>>

CallerInv == CallerTypeOK /\ Follows /\ Closing

-----------------------------------------------------------------------------
(* What the bus thread queues, it logs: nothing where it queued nothing.    *)
LEMMA LogLemma ==
  ASSUME CallerTypeOK, SessionTypeOK', CallerBus
  PROVE  /\ log' \in Seq(Cast)
         /\ answers' = answers => log' = log
<1> DEFINE ids == [i \in 1 .. Len(NewAnswers) |-> NewAnswers[i].id]
<1>1. /\ log \in Seq(Cast) /\ answers \in Seq(Grants) /\ answers' \in Seq(Grants)
      /\ log' = log \o ids
  BY DEF CallerTypeOK, SessionTypeOK, CallerBus
<1>2. /\ Len(answers) \in Nat /\ Len(answers') \in Nat
      /\ NewAnswers \in Seq(Grants)
  <2>1. Len(answers) \in Nat /\ Len(answers') \in Nat
    BY <1>1, LenProperties
  <2>2. \A i \in Len(answers) + 1 .. Len(answers') : answers'[i] \in Grants
    BY <1>1, <2>1, ElementOfSeq
  <2>3. SubSeq(answers', Len(answers) + 1, Len(answers')) \in Seq(Grants)
    BY <2>1, <2>2, SubSeqProperties
  <2> QED
    BY <2>1, <2>3 DEF NewAnswers
<1>3. Len(NewAnswers) \in Nat /\ \A i \in 1 .. Len(NewAnswers) : NewAnswers[i] \in Grants
  BY <1>2, LenProperties, ElementOfSeq
<1>4. ids \in Seq(Cast)
  BY <1>3 DEF Grants
<1>5. log' \in Seq(Cast)
  BY <1>1, <1>4, ConcatProperties
<1>6. ASSUME answers' = answers PROVE log' = log
  <2>1. Len(NewAnswers) = 0
    BY <1>1, <1>2, <1>6, SubSeqProperties DEF NewAnswers
  <2>2. ids = <<>>
    BY <2>1, <1>4, EmptySeq
  <2> QED
    BY <1>1, <2>2, ConcatEmptySeq
<1> QED
  BY <1>5, <1>6

(* A response is only heard while somebody waits for it.                    *)
LEMMA HeardLemma ==
  ASSUME SessionTypeOK, Dispatch
  PROVE  /\ Head(signals) \in Signals
         /\ Heard(Head(signals)) /\ Head(signals).name = "Response" => callback \in Cast
<1>1. Head(signals) \in Signals
  BY HeadTailProperties DEF SessionTypeOK, Dispatch
<1> QED
  BY <1>1 DEF Heard, Signals

(* Every answer but a refusal takes the callback away.                      *)
LEMMA ResponseLemma ==
  ASSUME NEW answer, OnResponse(answer), callback \in Cast
  PROVE  /\ answers' = answers \/ callback' = None
         /\ ended' = ended
         /\ Follows => Follows'
<1> USE DEF Release, FinishWithout, CloseSession, Follows, outVars
<1>0. callback # None
  BY DEF Cast, None
<1>1. CASE OnSessionCreated
  BY <1>0, <1>1 DEF OnSessionCreated, Request
<1>2. CASE OnSessionUnfollowed
  BY <1>2 DEF OnSessionUnfollowed
<1>3. CASE OnSourcesSelected
  BY <1>3 DEF OnSourcesSelected, Request
<1>4. CASE FinishWithout("Cancelled") \/ FinishWithout("Failed")
  BY <1>4
<1>5. CASE OnStarted
  <2>1. CASE Release("Success") /\ UNCHANGED <<handle, live, ended>>
    BY <2>1
  <2> QED
    BY <1>5, <1>4, <2>1 DEF OnStarted
<1> QED
  BY <1>1, <1>2, <1>3, <1>4, <1>5 DEF OnResponse

-----------------------------------------------------------------------------
(* Nothing has been called.                                                 *)
LEMMA CallerInitInv == CallerInit => CallerInv
<1> SUFFICES ASSUME CallerInit PROVE CallerInv
  OBVIOUS
<1>1. started \in 0 .. MaxStarts /\ closes \in 0 .. MaxCloses
  BY MaxStartsAssumption, MaxClosesAssumption DEF CallerInit, SessionInit
<1>2. /\ tasks \in Seq(Tasks) /\ answers \in Seq(Grants)
      /\ signals \in Seq(Signals) /\ log \in Seq(Cast)
  BY EmptySeq DEF CallerInit, SessionInit
<1>3. CallerTypeOK
  BY <1>1, <1>2 DEF CallerInit, SessionInit, CallerTypeOK, SessionTypeOK
<1>4. Follows /\ Closing
  BY DEF CallerInit, SessionInit, Follows, Closing
<1> QED
  BY <1>3, <1>4 DEF CallerInv

(* A call posts its task behind the others.                                 *)
LEMMA CallInv == CallerInv /\ (Start \/ Close \/ CallerTerminate) => CallerInv'
<1> SUFFICES ASSUME CallerInv, Start \/ Close \/ CallerTerminate PROVE CallerInv'
  OBVIOUS
<1> USE DEF CallerInv
<1>1. /\ tasks \in Seq(Tasks) /\ CloseTask \in Tasks /\ TerminateTask \in Tasks
      /\ phase = "running" /\ UNCHANGED <<clientVars, portalVars, outVars, log>>
  BY DEF CallerTypeOK, SessionTypeOK, Tasks, CloseTask, TerminateTask, Start, Close,
     CallerTerminate
<1>2. started' \in 0 .. MaxStarts /\ tasks' \in Seq(Tasks)
  <2>1. CASE Start
    <3>1. started' \in Cast /\ started' \in 0 .. MaxStarts /\ StartTask(started') \in Tasks
      BY <2>1, MaxStartsAssumption DEF Start, PostStart, StartTask, Tasks, Cast,
         CallerTypeOK,
         SessionTypeOK
    <3> QED
      BY <1>1, <2>1, <3>1, PostLemma DEF Start, PostStart, Post
  <2>2. CASE Close \/ CallerTerminate
    BY <1>1, <2>2, PostLemma DEF Close, CallerTerminate, Post, CallerTypeOK,
       SessionTypeOK
  <2> QED
    BY <2>1, <2>2
<1>3. /\ closes' \in 0 .. MaxCloses
      /\ phase' \in {"running", "terminating", "terminated"}
      /\ log' \in Seq(Cast)
  BY MaxClosesAssumption DEF CallerTypeOK, Start, Close, CallerTerminate, clientCallVars
<1>4. CallerTypeOK'
  BY <1>1, <1>2, <1>3 DEF CallerTypeOK, SessionTypeOK, clientVars, portalVars, outVars
<1>5. Follows'
  BY <1>1 DEF Follows, clientVars
<1>6. Closing'
  <2>1. CASE CallerTerminate
    BY <1>1, <2>1, PostLemma DEF CallerTerminate, Post, Closing, TerminateTask
  <2>2. CASE Start \/ Close
    BY <1>1, <2>2 DEF Start, Close, Closing, clientCallVars
  <2> QED
    BY <2>1, <2>2
<1> QED
  BY <1>4, <1>5, <1>6

(* A task that is run is no longer waited for, and a Terminate leaves       *)
(* nothing that another task could bring back.                              *)
LEMMA CallerRunTaskInv ==
  ASSUME CallerInv, RunTask
  PROVE  /\ Follows'
         /\ Ended => Ended' 
         /\ HasOp(tasks, "Terminate") => HasOp(tasks', "Terminate") \/ Ended'
         /\ ended' = ended
<1> USE DEF CallerInv
<1> DEFINE task == Head(tasks)
<1>1. tasks # <<>> /\ tasks' = Tail(tasks) /\ tasks \in Seq(Tasks) /\ task \in Tasks
  BY RunLemma DEF RunTask, CallerTypeOK, SessionTypeOK
<1>2. HasOp(tasks, "Terminate") => HasOp(tasks', "Terminate") \/ task.op = "Terminate"
  BY <1>1, RunLemma
<1>3. CASE task.op = "Start" /\ RunStart(task.id)
  <2>1. task.id # None
    BY <1>1, <1>3 DEF Tasks, Cast, None
  <2>2. CASE RefuseStart(task.id)
    BY <1>2, <1>3, <2>2 DEF RefuseStart, Deliver, clientVars, Follows, Ended
  <2>3. CASE Begin(task.id)
    BY <1>2, <1>3, <2>3 DEF Begin, outVars, Follows, Ended
  <2>4. CASE BeginRefused(task.id)
    BY <1>2, <1>3, <2>4 DEF BeginRefused, CloseSession, Follows, Ended
  <2> QED
    BY <1>3, <2>2, <2>3, <2>4 DEF RunStart
<1>4. CASE task.op = "Close" /\ RunClose
  BY <1>2, <1>4 DEF RunClose, CloseSession, outVars, Follows, Ended
<1>5. CASE RunTerminate
  BY <1>2, <1>5 DEF RunTerminate, CloseSession, outVars, Follows, Ended
<1> QED
  BY <1>3, <1>4, <1>5 DEF RunTask

(* A signal that is heard finds a session with a handle, and none is heard  *)
(* once the session has ended.                                              *)
LEMMA CallerDispatchInv ==
  ASSUME CallerInv, Dispatch
  PROVE  /\ Follows'
         /\ Ended => Ended' /\ UNCHANGED <<answers, ended>>
         /\ tasks' = tasks
<1> USE DEF CallerInv
<1>1. tasks' = tasks
  BY DEF Dispatch
<1>2. CASE UNCHANGED <<clientVars, outVars, open, asked>>
  BY <1>1, <1>2 DEF Follows, Ended, clientVars, outVars
<1>3. CASE OnSessionClosed
  BY <1>1, <1>3 DEF OnSessionClosed, Follows, Ended, clientVars, outVars
<1>4. CASE callback \in Cast /\ OnResponse(Head(signals))
  <2>1. ~Ended
    BY <1>4 DEF Ended, Cast, None
  <2> QED
    BY <1>1, <1>4, <2>1, ResponseLemma
<1> QED
  BY <1>2, <1>3, <1>4, HeardLemma DEF Dispatch, CallerTypeOK

(* Every step keeps the invariant.                                          *)
LEMMA CallerStepInv == CallerInv /\ [CallerNext]_callerVars => CallerInv'
<1> SUFFICES ASSUME CallerInv, [CallerNext]_callerVars PROVE CallerInv'
  OBVIOUS
<1> USE DEF CallerInv
<1>1. CASE UNCHANGED callerVars
  BY <1>1 DEF callerVars, sessionVars, clientVars, portalVars, outVars, clientCallVars,
     CallerTypeOK, SessionTypeOK,
     Follows, Closing, Ended
<1>2. CASE Start \/ Close \/ CallerTerminate
  BY <1>2, CallInv
<1>3. CASE TerminateReturns
  <2>1. /\ phase = "terminating" /\ phase' = "terminated" /\ tasks = <<>>
        /\ UNCHANGED <<sessionVars, closes, log>>
    BY <1>3 DEF TerminateReturns
  <2>2. CallerTypeOK' /\ Follows'
    BY <2>1 DEF sessionVars, clientVars, portalVars, outVars, CallerTypeOK,
       SessionTypeOK,
       Follows
  <2>3. Ended /\ Ended'
    BY <2>1, NoTaskLemma DEF Closing, Ended, sessionVars, clientVars
  <2> QED
    BY <2>1, <2>2, <2>3 DEF Closing, sessionVars
<1>4. CASE Take
  <2>1. answers' \in Seq(Grants) /\ fds' \in SUBSET Cast
    BY <1>4, HeadTailProperties DEF Take, CallerTypeOK, SessionTypeOK
  <2>2. CallerTypeOK' /\ Follows'
    BY <1>4, <2>1 DEF Take, clientVars, portalVars, clientCallVars, CallerTypeOK,
       SessionTypeOK, Follows
  <2>3. Closing'
    BY <1>4 DEF Take, clientVars, clientCallVars, Closing, Ended
  <2> QED
    BY <2>2, <2>3
<1>5. CASE CallerBus
  <2>1. SessionTypeOK'
    BY <1>5, RunTaskType, DispatchType DEF CallerBus, BusStep, CallerTypeOK
  <2>2. CallerTypeOK'
    BY <1>5, <2>1, LogLemma DEF CallerBus, clientCallVars, CallerTypeOK
  <2>3. CASE RunTask
    <3>1. phase # "terminated" /\ phase' = phase
      BY <1>5, <2>3 DEF RunTask, Closing, CallerBus, clientCallVars
    <3> QED
      BY <2>2, <2>3, <3>1, CallerRunTaskInv DEF Closing
  <2>4. CASE Dispatch
    BY <1>5, <2>2, <2>4, CallerDispatchInv DEF Closing, CallerBus, clientCallVars
  <2> QED
    BY <1>5, <2>3, <2>4 DEF CallerBus, BusStep
<1>6. CASE CallerPortal
  <2>1. UNCHANGED <<tasks, clientVars, closes, phase, log>>
    BY <1>6 DEF CallerPortal, PortalStep, PortalAnswers, PortalRespond, PortalClose,
       clientCallVars
  <2>2. CallerTypeOK'
    BY <1>6, <2>1, PortalStepType DEF CallerPortal, CallerTypeOK
  <2> QED
    BY <2>1, <2>2 DEF clientVars, Follows, Closing, Ended
<1> QED
  BY <1>1, <1>2, <1>3, <1>4, <1>5, <1>6 DEF CallerNext

-----------------------------------------------------------------------------
(* Of the steps that queue an answer while a Start keeps its callback, only *)
(* a refusal is left, which touches nothing of that Start.                  *)
LEMMA RefusalLemma ==
  ASSUME CallerInv, [CallerNext]_callerVars, busy, callback' = callback, answers' # answers, log' # log
  PROVE  UNCHANGED <<busy, step, handle, live, slot, open>>
<1> USE DEF CallerInv
<1>1. CallerBus
  BY DEF CallerNext, Start, Close, CallerTerminate, TerminateReturns, Take,
     CallerPortal, callerVars
<1>2. CASE RunTask
  BY <1>2 DEF RunTask, RunStart, RefuseStart, Begin, BeginRefused, RunClose,
     RunTerminate, outVars,
     clientVars, portalVars
<1>3. CASE Dispatch
  <2>1. CASE callback \in Cast /\ OnResponse(Head(signals))
    BY <2>1, ResponseLemma DEF Cast, None
  <2>2. CASE OnSessionClosed \/ UNCHANGED <<clientVars, outVars, open, asked>>
    BY <2>2 DEF OnSessionClosed, outVars
  <2> QED
    BY <1>3, <2>1, <2>2, HeardLemma DEF Dispatch, CallerTypeOK
<1> QED
  BY <1>1, <1>2, <1>3 DEF CallerBus, BusStep

(* Whatever the portal still sends to a session that has ended, nothing is  *)
(* queued for it or reported of it.                                         *)
LEMMA SilenceLemma ==
  ASSUME CallerInv, [CallerNext]_callerVars, phase = "terminated"
  PROVE  log' = log /\ ended' = ended
<1> USE DEF CallerInv
<1>1. Ended /\ tasks = <<>>
  BY DEF Closing
<1>2. CASE CallerBus
  <2>1. Dispatch
    BY <1>1, <1>2 DEF CallerBus, BusStep, RunTask
  <2>2. UNCHANGED <<answers, ended>> /\ SessionTypeOK'
    BY <1>1, <2>1, CallerDispatchInv, DispatchType DEF CallerTypeOK
  <2> QED
    BY <1>2, <2>2, LogLemma
<1>3. CASE CallerPortal
  BY <1>3 DEF CallerPortal, PortalStep, PortalAnswers, PortalRespond, PortalClose,
     outVars
<1>4. CASE Start \/ Close \/ CallerTerminate \/ TerminateReturns \/ Take \/ UNCHANGED callerVars
  BY <1>4 DEF Start, Close, CallerTerminate, TerminateReturns, Take, callerVars,
     sessionVars,
     outVars
<1> QED
  BY <1>2, <1>3, <1>4 DEF CallerNext

(* A Start, a Close and a Terminate that come at any moment leave what the  *)
(* others have made as it should be, however many there are: types hold, a  *)
(* refusal is harmless, and after Terminate there is silence                *)
(* (CPortalSession::Start, Finish, Terminate).                              *)
THEOREM CallsAreApart == CallerSpec => CallsStayApart
<1>1. CallerInit => CallerInv
  BY CallerInitInv
<1>2. CallerInv /\ [CallerNext]_callerVars => CallerInv'
  BY CallerStepInv
<1>3. CallerSpec => []CallerInv
  BY <1>1, <1>2, PTL DEF CallerSpec
<1>4. CallerInv => CallerTypeOK
  BY DEF CallerInv
<1>5. CallerInv /\ [CallerNext]_callerVars =>
        [busy /\ callback' = callback /\ answers' # answers /\ log' # log
           => UNCHANGED <<busy, step, handle, live, slot, open>>]_callerVars
  BY RefusalLemma
<1>6. CallerSpec => RefusalIsHarmless
  BY <1>3, <1>5, PTL DEF CallerSpec, RefusalIsHarmless
<1>7. CallerInv /\ [CallerNext]_callerVars => [phase = "terminated" => log' = log /\ ended' = ended]_callerVars
  BY SilenceLemma
<1>8. CallerSpec => SilentOnceTerminated
  BY <1>3, <1>7, PTL DEF CallerSpec, SilentOnceTerminated
<1> QED
  BY <1>3, <1>4, <1>6, <1>8, PTL DEF CallsStayApart

-----------------------------------------------------------------------------
(* PortalClient implements AsyncCall: a Start is answered once.             *)

(* The Starts a queue holds; each is there once, and behind a Terminate     *)
(* there is nothing.                                                        *)
Starts(q)   == {q[i].id : i \in {j \in DOMAIN q : q[j].op = "Start"}}
Distinct(q) == \A i, j \in DOMAIN q : i < j /\ q[i].op = "Start" /\ q[j].op = "Start" => q[i].id # q[j].id
EndsIt(q)   == \A i \in DOMAIN q : q[i].op = "Terminate" => i = Len(q)

Logged == {log[i] : i \in DOMAIN log}

(* Each Start that was called is posted, under way or answered, and only    *)
(* one of these.                                                            *)
AnsweredOnce ==
  /\ Starts(tasks) \subseteq 1 .. started /\ Logged \subseteq 1 .. started
  /\ callback # None => callback \in 1 .. started
  /\ Starts(tasks) \cap Logged = {}
  /\ callback \notin Starts(tasks) \cup Logged
  /\ Distinct(tasks)
  /\ busy <=> callback # None
  /\ EndsIt(tasks) /\ (phase = "running" => ~HasOp(tasks, "Terminate"))

(* A task that is posted.                                                   *)
LEMMA PostedLemma ==
  ASSUME NEW q \in Seq(Tasks), NEW t \in Tasks
  PROVE  /\ Starts(Append(q, t)) = Starts(q) \cup (IF t.op = "Start" THEN {t.id} ELSE {})
         /\ Distinct(q) /\ (t.op = "Start" => t.id \notin Starts(q)) => Distinct(Append(q, t))
         /\ ~HasOp(q, "Terminate") => EndsIt(Append(q, t))
<1> DEFINE r == Append(q, t)
           n == Len(q)
<1>1. /\ r \in Seq(Tasks) /\ Len(r) = n + 1 /\ r[n + 1] = t
      /\ \A i \in 1 .. n : r[i] = q[i]
  BY AppendProperties
<1>2. n \in Nat /\ DOMAIN q = 1 .. n /\ DOMAIN r = 1 .. n + 1
  BY <1>1, LenProperties
<1> HIDE DEF r, n
<1>3. \A i \in DOMAIN r : (i \in DOMAIN q /\ r[i] = q[i]) \/ (i = n + 1 /\ r[i] = t)
  <2>1. ASSUME NEW i \in DOMAIN r, i # n + 1 PROVE i \in DOMAIN q /\ r[i] = q[i]
    <3>1. i \in 1 .. n
      BY <1>2, <2>1
    <3> QED BY <1>1, <1>2, <3>1
  <2> QED BY <1>1, <2>1
<1>4. n + 1 \in DOMAIN r /\ \A i \in DOMAIN q : i \in DOMAIN r
  BY <1>2
<1>5. Starts(r) = Starts(q) \cup (IF t.op = "Start" THEN {t.id} ELSE {})
  <2>1. ASSUME NEW id PROVE id \in Starts(r) <=> id \in Starts(q) \/ (t.op = "Start" /\ id = t.id)
    <3>1. ASSUME id \in Starts(r) PROVE id \in Starts(q) \/ (t.op = "Start" /\ id = t.id)
      <4>1. PICK i \in DOMAIN r : r[i].op = "Start" /\ id = r[i].id
        BY <3>1 DEF Starts
      <4> QED BY <1>3, <4>1 DEF Starts
    <3>2. ASSUME id \in Starts(q) PROVE id \in Starts(r)
      <4>1. PICK i \in DOMAIN q : q[i].op = "Start" /\ id = q[i].id
        BY <3>2 DEF Starts
      <4>2. i \in DOMAIN r /\ r[i] = q[i]
        BY <1>1, <1>2, <1>4
      <4> QED BY <4>1, <4>2 DEF Starts
    <3>3. ASSUME t.op = "Start", id = t.id PROVE id \in Starts(r)
      BY <1>1, <1>4, <3>3 DEF Starts
    <3> QED BY <3>1, <3>2, <3>3
  <2>2. CASE t.op = "Start"
    BY <2>1, <2>2
  <2>3. CASE t.op # "Start"
    BY <2>1, <2>3
  <2> QED BY <2>2, <2>3
<1>6. ASSUME Distinct(q), t.op = "Start" => t.id \notin Starts(q) PROVE Distinct(r)
  <2> SUFFICES ASSUME NEW i \in DOMAIN r, NEW j \in DOMAIN r, i < j, r[i].op = "Start", r[j].op = "Start"
               PROVE  r[i].id # r[j].id
    BY DEF Distinct
  <2>1. i \in DOMAIN q /\ r[i] = q[i]
    BY <1>1, <1>2
  <2>2. CASE j \in DOMAIN q
    <3>1. r[j] = q[j]
      BY <1>1, <1>2, <2>2
    <3> QED BY <1>6, <2>1, <2>2, <3>1 DEF Distinct
  <2>3. CASE j \notin DOMAIN q
    <3>1. r[j] = t
      BY <1>3, <2>3
    <3>2. r[i].id \in Starts(q)
      BY <2>1 DEF Starts
    <3> QED BY <1>6, <3>1, <3>2
  <2> QED BY <2>2, <2>3
<1>7. ASSUME ~HasOp(q, "Terminate") PROVE EndsIt(r)
  BY <1>1, <1>3, <1>7 DEF HasOp, EndsIt
<1> QED BY <1>5, <1>6, <1>7 DEF r

(* A task that is run.                                                      *)
LEMMA FrontLemma ==
  ASSUME NEW q \in Seq(Tasks), q # <<>>
  PROVE  /\ Starts(q) = Starts(Tail(q)) \cup (IF Head(q).op = "Start" THEN {Head(q).id} ELSE {})
         /\ Distinct(q) => Distinct(Tail(q)) /\ (Head(q).op = "Start" => Head(q).id \notin Starts(Tail(q)))
         /\ EndsIt(q) => EndsIt(Tail(q)) /\ (Head(q).op = "Terminate" => Tail(q) = <<>>)
<1> DEFINE r == Tail(q)
           n == Len(q)
<1>1. /\ n \in Nat /\ n # 0 /\ DOMAIN q = 1 .. n /\ Head(q) = q[1]
      /\ r \in Seq(Tasks) /\ Len(r) = n - 1
      /\ \A i \in 1 .. n - 1 : r[i] = q[i + 1]
  BY HeadTailProperties, LenProperties, EmptySeq
<1>2. DOMAIN r = 1 .. n - 1
  BY <1>1, LenProperties
<1> HIDE DEF r, n
<1>3. \A i \in DOMAIN r : i \in Nat /\ i + 1 \in DOMAIN q /\ r[i] = q[i + 1]
  BY <1>1, <1>2
<1>4. \A i \in DOMAIN q : i = 1 \/ (i - 1 \in DOMAIN r /\ r[i - 1] = q[i])
  <2>1. ASSUME NEW i \in DOMAIN q, i # 1 PROVE i - 1 \in DOMAIN r /\ r[i - 1] = q[i]
    <3>1. i - 1 \in 1 .. n - 1 /\ (i - 1) + 1 = i
      BY <1>1, <2>1
    <3> QED BY <1>1, <1>2, <3>1
  <2> QED BY <2>1
<1>5. 1 \in DOMAIN q
  BY <1>1
<1>6. Starts(q) = Starts(r) \cup (IF Head(q).op = "Start" THEN {Head(q).id} ELSE {})
  <2>1. ASSUME NEW id PROVE id \in Starts(q) <=> id \in Starts(r) \/ (Head(q).op = "Start" /\ id = Head(q).id)
    <3>1. ASSUME id \in Starts(q) PROVE id \in Starts(r) \/ (Head(q).op = "Start" /\ id = Head(q).id)
      <4>1. PICK i \in DOMAIN q : q[i].op = "Start" /\ id = q[i].id
        BY <3>1 DEF Starts
      <4>2. CASE i = 1
        BY <1>1, <4>1, <4>2
      <4>3. CASE i # 1
        <5>1. PICK j \in DOMAIN r : r[j] = q[i]
          BY <1>4, <4>3
        <5> QED BY <4>1, <5>1 DEF Starts
      <4> QED BY <4>2, <4>3
    <3>2. ASSUME id \in Starts(r) PROVE id \in Starts(q)
      <4>1. PICK i \in DOMAIN r : r[i].op = "Start" /\ id = r[i].id
        BY <3>2 DEF Starts
      <4> QED BY <1>3, <4>1 DEF Starts
    <3>3. ASSUME Head(q).op = "Start", id = Head(q).id PROVE id \in Starts(q)
      BY <1>1, <1>5, <3>3 DEF Starts
    <3> QED BY <3>1, <3>2, <3>3
  <2>2. CASE Head(q).op = "Start"
    BY <2>1, <2>2
  <2>3. CASE Head(q).op # "Start"
    BY <2>1, <2>3
  <2> QED BY <2>2, <2>3
<1>7. ASSUME Distinct(q) PROVE Distinct(r) /\ (Head(q).op = "Start" => Head(q).id \notin Starts(r))
  <2>1. ASSUME NEW i \in DOMAIN r, NEW j \in DOMAIN r, i < j, r[i].op = "Start", r[j].op = "Start"
        PROVE  r[i].id # r[j].id
    <3>1. i + 1 < j + 1 /\ i + 1 \in DOMAIN q /\ j + 1 \in DOMAIN q /\ r[i] = q[i + 1] /\ r[j] = q[j + 1]
      BY <1>3, <2>1
    <3> QED BY <1>7, <2>1, <3>1 DEF Distinct
  <2>2. ASSUME Head(q).op = "Start", Head(q).id \in Starts(r) PROVE FALSE
    <3>1. PICK i \in DOMAIN r : r[i].op = "Start" /\ Head(q).id = r[i].id
      BY <2>2 DEF Starts
    <3>2. i + 1 \in DOMAIN q /\ 1 < i + 1 /\ r[i] = q[i + 1]
      BY <1>2, <1>3
    <3> QED BY <1>1, <1>5, <1>7, <2>2, <3>1, <3>2 DEF Distinct
  <2> QED BY <2>1, <2>2 DEF Distinct
<1>8. ASSUME EndsIt(q) PROVE EndsIt(r) /\ (Head(q).op = "Terminate" => r = <<>>)
  <2>1. ASSUME NEW i \in DOMAIN r, r[i].op = "Terminate" PROVE i = Len(r)
    <3>1. i + 1 = n
      BY <1>3, <1>8, <2>1 DEF EndsIt, n
    <3> QED BY <1>1, <1>2, <3>1
  <2>2. ASSUME Head(q).op = "Terminate" PROVE r = <<>>
    <3>1. 1 = n
      BY <1>1, <1>5, <1>8, <2>2 DEF EndsIt, n
    <3> QED BY <1>1, <3>1, EmptySeq
  <2> QED BY <2>1, <2>2 DEF EndsIt
<1> QED BY <1>6, <1>7, <1>8 DEF r

(* An answer that is queued is logged.                                      *)
LEMMA LoggedLemma ==
  ASSUME CallerTypeOK, CallerBus, NEW g \in Grants, answers' = Append(answers, g)
  PROVE  /\ log' = Append(log, g.id) /\ log' \in Seq(Cast)
         /\ Logged' = Logged \cup {g.id}
<1> DEFINE n == Len(answers)
           e == NewAnswers
           ids == [i \in 1 .. Len(e) |-> e[i].id]
<1>1. log \in Seq(Cast) /\ answers \in Seq(Grants) /\ g.id \in Cast
  BY DEF CallerTypeOK, SessionTypeOK, Grants
<1>2. /\ answers' \in Seq(Grants) /\ n \in Nat /\ Len(answers') = n + 1 /\ answers'[n + 1] = g
  BY <1>1, AppendProperties, LenProperties
<1>3. e = SubSeq(answers', n + 1, n + 1)
  BY <1>2 DEF NewAnswers
<1>4. e \in Seq(Grants) /\ Len(e) = 1 /\ e[1] = g
  <2>1. \A i \in (n + 1) .. (n + 1) : answers'[i] \in Grants
    BY <1>2
  <2>2. /\ SubSeq(answers', n + 1, n + 1) \in Seq(Grants)
        /\ Len(SubSeq(answers', n + 1, n + 1)) = 1
        /\ SubSeq(answers', n + 1, n + 1)[1] = answers'[n + 1]
    <3> HIDE DEF n
    <3> QED BY <1>2, <2>1, SubSeqProperties
  <2> QED BY <1>2, <1>3, <2>2
<1>5. log' = log \o ids
  BY DEF CallerBus
<1> HIDE DEF e, n
<1>6. ids = <<g.id>>
  <2>1. ids = [i \in 1 .. 1 |-> g.id]
    BY <1>4
  <2> HIDE DEF ids
  <2>2. <<g.id>> = [i \in 1 .. 1 |-> g.id]
    OBVIOUS
  <2> QED BY <2>1, <2>2
<1>7. log' = Append(log, g.id)
  <2> HIDE DEF ids
  <2> QED BY <1>1, <1>5, <1>6, AppendIsConcat
<1>8. Logged' = Logged \cup {g.id}
  <2>1. /\ log' \in Seq(Cast) /\ Len(log') = Len(log) + 1 /\ log'[Len(log) + 1] = g.id
        /\ \A i \in 1 .. Len(log) : log'[i] = log[i]
        /\ Len(log) \in Nat
    BY <1>1, <1>7, AppendProperties, LenProperties
  <2>2. DOMAIN log = 1 .. Len(log) /\ DOMAIN log' = 1 .. Len(log) + 1
    BY <1>1, <2>1, LenProperties
  <2>3. ASSUME NEW id PROVE id \in Logged' <=> id \in Logged \/ id = g.id
    <3>1. ASSUME id \in Logged' PROVE id \in Logged \/ id = g.id
      <4>1. PICK i \in DOMAIN log' : id = log'[i]
        BY <3>1 DEF Logged
      <4>2. CASE i = Len(log) + 1
        BY <2>1, <4>1, <4>2
      <4>3. CASE i # Len(log) + 1
        <5>1. i \in DOMAIN log
          BY <2>1, <2>2, <4>3
        <5>2. log'[i] = log[i]
          BY <2>1, <2>2, <5>1
        <5> QED BY <4>1, <5>1, <5>2 DEF Logged
      <4> QED BY <4>2, <4>3
    <3>2. ASSUME id \in Logged PROVE id \in Logged'
      <4>1. PICK i \in DOMAIN log : id = log[i]
        BY <3>2 DEF Logged
      <4>2. i \in DOMAIN log' /\ log'[i] = log[i]
        BY <2>1, <2>2
      <4> QED BY <4>1, <4>2 DEF Logged
    <3>3. Len(log) + 1 \in DOMAIN log'
      BY <2>1, <2>2
    <3> QED BY <2>1, <3>1, <3>2, <3>3 DEF Logged
  <2> QED BY <2>3
<1>9. log' \in Seq(Cast)
  BY <1>1, <1>7, AppendProperties
<1> QED BY <1>7, <1>8, <1>9

(* What the steps of AsyncCall keep.                                        *)
CallsInv == CallerInv /\ AnsweredOnce

(* The starts that are not answered, and whether the end has been reached.  *)
Outstanding == Starts(tasks) \cup ({callback} \ {None})
Over        == phase # "running" /\ ~HasOp(tasks, "Terminate")

(* What a caller does to them.                                              *)
AsyncStep ==
  \/ \E n \in Cast : n \notin Outstanding \cup Logged
                     /\ Outstanding' = Outstanding \cup {n} /\ log' = log /\ Over' = Over
  \/ \E n \in Cast : n \in Outstanding
                     /\ Outstanding' = Outstanding \ {n} /\ log' = Append(log, n) /\ Over' = Over
  \/ ~Over /\ Over' /\ Outstanding' \subseteq Outstanding /\ log' = log
  \/ Outstanding' = Outstanding /\ log' = log /\ Over' = Over

(* A call: a Start is outstanding from now on.                              *)
LEMMA AsyncCallStep ==
  ASSUME CallsInv, Start \/ Close \/ CallerTerminate
  PROVE  AnsweredOnce' /\ AsyncStep
<1>1. /\ tasks \in Seq(Tasks) /\ started \in Nat /\ phase = "running"
      /\ AnsweredOnce /\ UNCHANGED <<callback, busy, log>>
  BY MaxStartsAssumption DEF CallsInv, CallerInv, CallerTypeOK, SessionTypeOK, Start, Close, CallerTerminate, clientVars
<1>2. Logged' = Logged
  BY <1>1 DEF Logged
<1>3. ~HasOp(tasks, "Terminate")
  BY <1>1 DEF AnsweredOnce
<1>4. CASE Start
  <2> DEFINE n == started + 1
             t == StartTask(n)
  <2>1. /\ started' = n /\ n \in Cast /\ n \in Nat /\ tasks' = Append(tasks, t) /\ phase' = phase
        /\ t \in Tasks /\ t.op = "Start" /\ t.id = n
    BY <1>1, <1>4, MaxStartsAssumption DEF Start, PostStart, Post, Cast, StartTask, Tasks, clientCallVars
  <2>2. \A k \in 1 .. started : k \in 1 .. n /\ k # n
    BY <1>1
  <2>3. n \in 1 .. n /\ n # None
    BY <1>1 DEF None
  <2> HIDE DEF n, t
  <2>4. n \notin Starts(tasks) /\ n \notin Logged /\ n # callback
    BY <1>1, <2>2, <2>3 DEF AnsweredOnce
  <2>5. Starts(tasks') = Starts(tasks) \cup {n} /\ Distinct(tasks') /\ EndsIt(tasks')
    BY <1>1, <1>3, <2>1, <2>4, PostedLemma DEF AnsweredOnce
  <2>6. ~HasOp(tasks', "Terminate")
    BY <1>1, <1>3, <2>1, PostLemma
  <2>7. AnsweredOnce'
    BY <1>1, <1>2, <2>1, <2>2, <2>3, <2>4, <2>5, <2>6 DEF AnsweredOnce
  <2>8. Outstanding' = Outstanding \cup {n} /\ n \notin Outstanding \cup Logged
    BY <1>1, <2>4, <2>5 DEF Outstanding
  <2>9. Over' = Over
    BY <1>1, <2>1 DEF Over
  <2> QED BY <1>1, <2>1, <2>7, <2>8, <2>9 DEF AsyncStep
<1>5. CASE Close \/ CallerTerminate
  <2>1. PICK t \in Tasks : tasks' = Append(tasks, t) /\ t.op # "Start" /\ (t.op = "Terminate" <=> phase' # "running")
    <3>1. CASE Close
      <4>1. CloseTask \in Tasks /\ CloseTask.op = "Close" /\ tasks' = Append(tasks, CloseTask) /\ phase' = "running"
        BY <1>1, <3>1 DEF Close, Post, CloseTask, Tasks
      <4> QED BY <4>1
    <3>2. CASE CallerTerminate
      <4>1. /\ TerminateTask \in Tasks /\ TerminateTask.op = "Terminate"
            /\ tasks' = Append(tasks, TerminateTask) /\ phase' = "terminating"
        BY <3>2 DEF CallerTerminate, Post, TerminateTask, Tasks
      <4> QED BY <4>1
    <3> QED BY <1>5, <3>1, <3>2
  <2>2. started' = started
    BY <1>5 DEF Close, CallerTerminate
  <2>3. Starts(tasks') = Starts(tasks) /\ Distinct(tasks') /\ EndsIt(tasks')
    BY <1>1, <1>3, <2>1, PostedLemma DEF AnsweredOnce
  <2>4. HasOp(tasks', "Terminate") <=> t.op = "Terminate"
    BY <1>1, <1>3, <2>1, PostLemma
  <2>5. AnsweredOnce'
    BY <1>1, <1>2, <2>1, <2>2, <2>3, <2>4 DEF AnsweredOnce
  <2>6. Outstanding' = Outstanding /\ Over' = Over
    BY <1>1, <2>1, <2>3, <2>4 DEF Outstanding, Over
  <2> QED BY <1>1, <2>5, <2>6 DEF AsyncStep
<1> QED BY <1>4, <1>5

(* A task that is run: a Start is refused, or goes under way; a Terminate   *)
(* drops what is under way.                                                 *)
LEMMA AsyncRunStep ==
  ASSUME CallsInv, CallerBus, RunTask
  PROVE  AnsweredOnce' /\ AsyncStep
<1> DEFINE task == Head(tasks)
<1>1. /\ tasks \in Seq(Tasks) /\ tasks # <<>> /\ tasks' = Tail(tasks) /\ task \in Tasks
      /\ started' = started /\ phase' = phase
      /\ AnsweredOnce /\ CallerTypeOK /\ CallerTypeOK' /\ SessionTypeOK'
  <2>1. CallerTypeOK'
    BY CallerStepInv DEF CallsInv, CallerInv, CallerNext
  <2> QED BY <2>1, RunLemma DEF CallsInv, CallerInv, CallerTypeOK, SessionTypeOK, RunTask, CallerBus, clientCallVars
<1>2. /\ Starts(tasks) = Starts(tasks') \cup (IF task.op = "Start" THEN {task.id} ELSE {})
      /\ Distinct(tasks') /\ (task.op = "Start" => task.id \notin Starts(tasks'))
      /\ EndsIt(tasks') /\ (task.op = "Terminate" => tasks' = <<>>)
  BY <1>1, FrontLemma DEF AnsweredOnce
<1>3. HasOp(tasks, "Terminate") <=> HasOp(tasks', "Terminate") \/ task.op = "Terminate"
  BY <1>1, RunLemma
<1>4. /\ Starts(tasks) \subseteq 1 .. started /\ Logged \subseteq 1 .. started
      /\ callback # None => callback \in 1 .. started
      /\ Starts(tasks) \cap Logged = {} /\ callback \notin Starts(tasks) \cup Logged
      /\ busy <=> callback # None
      /\ phase = "running" => ~HasOp(tasks, "Terminate")
  BY <1>1 DEF AnsweredOnce
<1>5. answers' = answers => log' = log /\ Logged' = Logged
  <2>1. answers' = answers => log' = log
    BY <1>1, LogLemma
  <2> QED BY <2>1 DEF Logged
<1> HIDE DEF task
<1>6. CASE task.op = "Start" /\ RunStart(task.id)
  <2>1. task.id \in Cast /\ task.id # None
    BY <1>1, <1>6 DEF Tasks, Cast, None
  <2>2. Over' = Over
    BY <1>1, <1>3, <1>6 DEF Over
  <2>3. Starts(tasks) = Starts(tasks') \cup {task.id} /\ task.id \notin Starts(tasks')
    BY <1>2, <1>6
  <2>4. task.id \in Starts(tasks) /\ task.id \in 1 .. started /\ task.id \notin Logged /\ task.id # callback
    BY <1>4, <2>3
  <2>5. ~HasOp(tasks', "Terminate") \/ phase # "running"
    BY <1>3, <1>4
  <2>6. CASE /\ answers' = Append(answers, [id |-> task.id, result |-> "Failed"])
             /\ UNCHANGED <<busy, callback>>
    <3> DEFINE g == [id |-> task.id, result |-> "Failed"]
    <3>1. g \in Grants /\ g.id = task.id
      BY <2>1 DEF Grants, Results
    <3>2. answers' = Append(answers, g)
      BY <2>6
    <3> HIDE DEF g
    <3>3. log' = Append(log, task.id) /\ Logged' = Logged \cup {task.id}
      BY <1>1, <3>1, <3>2, LoggedLemma
    <3>4. AnsweredOnce'
      BY <1>1, <1>2, <1>4, <2>3, <2>4, <2>5, <2>6, <3>3 DEF AnsweredOnce
    <3>5. Outstanding' = Outstanding \ {task.id} /\ task.id \in Outstanding
      BY <2>3, <2>4, <2>6 DEF Outstanding
    <3> QED BY <2>1, <2>2, <3>3, <3>4, <3>5 DEF AsyncStep
  <2>7. CASE Begin(task.id)
    <3>1. ~busy /\ busy' = TRUE /\ callback' = task.id /\ answers' = answers
      BY <2>7 DEF Begin, outVars
    <3>2. callback = None
      BY <1>4, <3>1
    <3>3. log' = log /\ Logged' = Logged
      BY <1>5, <3>1
    <3>4. AnsweredOnce'
      BY <1>1, <1>2, <1>4, <2>1, <2>3, <2>4, <2>5, <3>1, <3>3 DEF AnsweredOnce
    <3>5. Outstanding' = Outstanding
      BY <2>1, <2>3, <3>1, <3>2 DEF Outstanding
    <3> QED BY <2>2, <3>3, <3>4, <3>5 DEF AsyncStep
  <2> QED BY <1>6, <2>6, <2>7 DEF RunStart, RefuseStart, BeginRefused, Deliver, clientVars
<1>7. CASE task.op = "Close" /\ RunClose
  <2>1. UNCHANGED <<busy, callback>> /\ answers' = answers
    BY <1>7 DEF RunClose, outVars
  <2>2. log' = log /\ Logged' = Logged /\ Starts(tasks') = Starts(tasks) /\ Over' = Over
    BY <1>1, <1>2, <1>3, <1>5, <1>7, <2>1 DEF Over
  <2>3. AnsweredOnce'
    BY <1>1, <1>2, <1>3, <1>4, <2>1, <2>2 DEF AnsweredOnce
  <2> QED BY <2>1, <2>2, <2>3 DEF AsyncStep, Outstanding
<1>8. CASE task.op = "Terminate" /\ RunTerminate
  <2>1. busy' = FALSE /\ callback' = None /\ answers' = answers
    BY <1>8 DEF RunTerminate, outVars
  <2>2. log' = log /\ Logged' = Logged /\ Starts(tasks') = Starts(tasks)
    BY <1>2, <1>5, <1>8, <2>1
  <2>3. ~HasOp(tasks', "Terminate") /\ phase # "running"
    BY <1>2, <1>3, <1>4, <1>8, NoTaskLemma
  <2>4. ~Over /\ Over'
    BY <1>1, <1>3, <1>8, <2>3 DEF Over
  <2>5. None \notin Starts(tasks) \cup Logged
    BY <1>4 DEF None
  <2>6. AnsweredOnce'
    BY <1>1, <1>2, <1>4, <2>1, <2>2, <2>3, <2>5 DEF AnsweredOnce
  <2>7. Outstanding' \subseteq Outstanding
    BY <2>1, <2>2 DEF Outstanding
  <2> QED BY <2>2, <2>4, <2>6, <2>7 DEF AsyncStep
<1> QED BY <1>6, <1>7, <1>8 DEF RunTask, task

(* A response leaves the Start under way, or ends it with one answer.       *)
LEMMA EndsWithOneAnswer ==
  ASSUME NEW answer, OnResponse(answer), callback \in Cast, busy
  PROVE  \/ answers' = answers /\ callback' = callback /\ busy' = busy
         \/ /\ callback' = None /\ busy' = FALSE
            /\ \E result \in Results : answers' = Append(answers, [id |-> callback, result |-> result])
<1> USE DEF Release, FinishWithout, Deliver, outVars, Results
<1>1. CASE OnSessionCreated
  BY <1>1 DEF OnSessionCreated, Request
<1>2. CASE OnSessionUnfollowed
  BY <1>2 DEF OnSessionUnfollowed
<1>3. CASE OnSourcesSelected
  BY <1>3 DEF OnSourcesSelected, Request
<1>4. CASE FinishWithout("Cancelled") \/ FinishWithout("Failed")
  BY <1>4
<1>5. CASE OnStarted
  BY <1>5 DEF OnStarted
<1> QED BY <1>1, <1>2, <1>3, <1>4, <1>5 DEF OnResponse

(* A signal.                                                                *)
LEMMA AsyncDispatchStep ==
  ASSUME CallsInv, CallerBus, Dispatch
  PROVE  AnsweredOnce' /\ AsyncStep
<1>1. /\ tasks' = tasks /\ started' = started /\ phase' = phase
      /\ AnsweredOnce /\ CallerTypeOK /\ SessionTypeOK'
  <2>1. CallerTypeOK'
    BY CallerStepInv DEF CallsInv, CallerInv, CallerNext
  <2> QED BY <2>1 DEF CallsInv, CallerInv, CallerTypeOK, Dispatch, CallerBus, clientCallVars
<1>2. Over' = Over /\ Starts(tasks') = Starts(tasks)
  BY <1>1 DEF Over
<1>3. CASE answers' = answers /\ callback' = callback /\ busy' = busy
  <2>1. log' = log /\ Logged' = Logged
    <3>1. log' = log
      BY <1>1, <1>3, LogLemma
    <3> QED BY <3>1 DEF Logged
  <2>2. AnsweredOnce'
    BY <1>1, <1>3, <2>1 DEF AnsweredOnce
  <2> QED BY <1>2, <1>3, <2>1, <2>2 DEF AsyncStep, Outstanding
<1>4. ASSUME callback \in Cast, callback' = None, busy' = FALSE,
             NEW result \in Results, answers' = Append(answers, [id |-> callback, result |-> result])
      PROVE  AnsweredOnce' /\ AsyncStep
  <2> DEFINE g == [id |-> callback, result |-> result]
  <2>1. g \in Grants /\ g.id = callback
    BY <1>4 DEF Grants
  <2>2. answers' = Append(answers, g)
    BY <1>4
  <2> HIDE DEF g
  <2>3. log' = Append(log, callback) /\ Logged' = Logged \cup {callback}
    BY <1>1, <2>1, <2>2, LoggedLemma
  <2>4. callback # None /\ callback \in 1 .. started /\ callback \notin Starts(tasks)
    BY <1>1, <1>4 DEF AnsweredOnce, Cast, None
  <2>5. None \notin Starts(tasks) /\ None \notin Logged'
    BY <1>1, <2>3, <2>4 DEF AnsweredOnce, None
  <2>6. AnsweredOnce'
    BY <1>1, <1>2, <1>4, <2>3, <2>4, <2>5 DEF AnsweredOnce
  <2>7. Outstanding' = Outstanding \ {callback} /\ callback \in Outstanding
    BY <1>2, <1>4, <2>4 DEF Outstanding
  <2> QED BY <1>2, <1>4, <2>3, <2>6, <2>7 DEF AsyncStep
<1>5. CASE UNCHANGED <<clientVars, outVars, open, asked>>
  BY <1>3, <1>5 DEF clientVars, outVars
<1>6. CASE OnSessionClosed
  BY <1>3, <1>6 DEF OnSessionClosed, clientVars, outVars
<1>7. CASE callback \in Cast /\ OnResponse(Head(signals))
  <2>1. busy
    BY <1>1, <1>7 DEF AnsweredOnce, Cast, None
  <2> QED BY <1>3, <1>4, <1>7, <2>1, EndsWithOneAnswer
<1> QED BY <1>1, <1>5, <1>6, <1>7, HeardLemma DEF Dispatch, CallerTypeOK

(* Every step.                                                              *)
LEMMA AsyncNextStep == CallsInv /\ [CallerNext]_callerVars => CallsInv' /\ AsyncStep
<1> SUFFICES ASSUME CallsInv, [CallerNext]_callerVars PROVE CallsInv' /\ AsyncStep
  OBVIOUS
<1>1. CallerInv'
  BY CallerStepInv DEF CallsInv
<1>2. CASE Start \/ Close \/ CallerTerminate
  BY <1>1, <1>2, AsyncCallStep DEF CallsInv
<1>3. CASE CallerBus
  BY <1>1, <1>3, AsyncRunStep, AsyncDispatchStep DEF CallsInv, CallerBus, BusStep
<1>4. CASE UNCHANGED <<started, tasks, busy, callback, log>> /\ (phase' = phase \/ (phase = "terminating" /\ phase' = "terminated"))
  <2>1. AnsweredOnce
    BY DEF CallsInv
  <2>2. AnsweredOnce'
    BY <1>4, <2>1 DEF AnsweredOnce, Logged
  <2>3. Outstanding' = Outstanding /\ log' = log /\ Over' = Over
    BY <1>4 DEF Outstanding, Over
  <2> QED BY <1>1, <2>2, <2>3 DEF CallsInv, AsyncStep
<1>5. CASE TerminateReturns
  BY <1>4, <1>5 DEF TerminateReturns, sessionVars, clientVars
<1>6. CASE Take
  <2>1. UNCHANGED <<started, tasks, busy, callback, log>> /\ phase' = phase
    BY <1>6 DEF Take, clientVars, clientCallVars
  <2> QED BY <1>4, <2>1
<1>7. CASE CallerPortal
  <2>1. UNCHANGED <<started, tasks, busy, callback, log>> /\ phase' = phase
    BY <1>7 DEF CallerPortal, PortalStep, PortalAnswers, PortalRespond, PortalClose, clientVars, clientCallVars
  <2> QED BY <1>4, <2>1
<1>8. CASE UNCHANGED callerVars
  <2>1. UNCHANGED <<started, tasks, busy, callback, log>> /\ phase' = phase
    BY <1>8 DEF callerVars, sessionVars, clientVars, clientCallVars
  <2> QED BY <1>4, <2>1
<1> QED BY <1>2, <1>3, <1>5, <1>6, <1>7, <1>8 DEF CallerNext

(* The names AsyncCall has for them.                                        *)
LEMMA AsMapped ==
  /\ Call!Init <=> Outstanding = {} /\ log = <<>> /\ Over = FALSE
  /\ AsyncStep => [Call!Next]_(Call!vars)
<1>1. StartTasks = Starts(tasks)
  BY DEF StartTasks, Starts
<1>2. Call!Init <=> Outstanding = {} /\ log = <<>> /\ Over = FALSE
  BY <1>1 DEF Call!Init, Outstanding, Over, HasOp
<1>3. ASSUME AsyncStep PROVE [Call!Next]_(Call!vars)
  <2>1. ASSUME NEW n \in Cast, n \notin Outstanding \cup Logged,
               Outstanding' = Outstanding \cup {n}, log' = log, Over' = Over
        PROVE  Call!Call(n)
    BY <1>1, <2>1 DEF Call!Call, Call!Answered, Logged, Outstanding, Over, HasOp, StartTasks, Starts
  <2>2. ASSUME NEW n \in Cast, n \in Outstanding, Outstanding' = Outstanding \ {n}, log' = Append(log, n), Over' = Over
        PROVE  Call!Answer(n)
    BY <1>1, <2>2 DEF Call!Answer, Outstanding, Over, HasOp, StartTasks, Starts
  <2>3. ASSUME ~Over, Over', Outstanding' \subseteq Outstanding, log' = log
        PROVE  Call!Terminate
    BY <1>1, <2>3 DEF Call!Terminate, Outstanding, Over, HasOp, StartTasks, Starts
  <2>4. ASSUME Outstanding' = Outstanding, log' = log, Over' = Over
        PROVE  UNCHANGED Call!vars
    BY <1>1, <2>4 DEF Call!vars, Outstanding, Over, HasOp, StartTasks, Starts
  <2> QED BY <1>3, <2>1, <2>2, <2>3, <2>4 DEF AsyncStep, Call!Next
<1> QED BY <1>2, <1>3

(* Every step of the session and its caller is a step of AsyncCall or       *)
(* leaves it alone: each Start has one answer at most, a refused one too,   *)
(* and only a Terminate drops one (CPortalSession::Start, Finish,           *)
(* Terminate). That each has its answer in the end is left to the runs.     *)
THEOREM StartsAreCalls == CallerSpec => Call!Init /\ [][Call!Next]_(Call!vars)
<1>1. CallerInit => CallsInv /\ Call!Init
  <2> SUFFICES ASSUME CallerInit PROVE CallsInv /\ Call!Init
    OBVIOUS
  <2>1. tasks = <<>> /\ callback = None /\ log = <<>> /\ busy = FALSE /\ phase = "running" /\ started = 0
    BY DEF CallerInit, SessionInit
  <2>2. Starts(tasks) = {} /\ Distinct(tasks) /\ EndsIt(tasks) /\ Logged = {}
    BY <2>1 DEF Starts, Distinct, EndsIt, Logged
  <2>3. ~HasOp(tasks, "Terminate")
    BY <2>1, NoTaskLemma
  <2>4. AnsweredOnce
    BY <2>1, <2>2, <2>3 DEF AnsweredOnce
  <2>5. Outstanding = {} /\ Over = FALSE
    BY <2>1, <2>2 DEF Outstanding, Over
  <2> QED BY <2>1, <2>4, <2>5, CallerInitInv, AsMapped DEF CallsInv
<1>2. CallsInv /\ [CallerNext]_callerVars => CallsInv' /\ [Call!Next]_(Call!vars)
  BY AsyncNextStep, AsMapped
<1> QED BY <1>1, <1>2, PTL DEF CallerSpec

-----------------------------------------------------------------------------
(* Recorder.                                                                *)

(* A Start is under way from its posting until its answer is taken.         *)
UnderWay == HasOp(tasks, "Start") \/ busy \/ answers # <<>>

Ending == pc \in {"terminating", "done"}

Client ==
  /\ busy <=> callback # None
  /\ handle = None => slot = None /\ ~live

Stages ==
  /\ stream # None <=> state = "Recording"
  /\ flow # "none" => state = "Starting"
  /\ UnderWay => state = "Starting" /\ flow = "none"
  /\ Awaiting /\ ~Ending => UnderWay
  /\ Ending => state # "Recording"

OneAtATime ==
  /\ StartIsLast(tasks)
  /\ HasOp(tasks, "Start") => ~busy /\ answers = <<>>
  /\ HasOp(tasks, "Close") => ~busy /\ answers = <<>> /\ state # "Recording"
  /\ busy => answers = <<>>
  /\ Len(answers) <= 1

Owned ==
  fds = IF answers # <<>> /\ Head(answers).result = "Success" THEN {Head(answers).id}
        ELSE {stream} \ {None}

Ends ==
  /\ HasOp(tasks, "Terminate") => pc = "terminating"
  /\ Ending /\ ~HasOp(tasks, "Terminate") => ~initialized /\ ~busy /\ handle = None
  /\ pc = "done" => tasks = <<>> /\ answers = <<>>

Windows ==
  /\ window = "away" /\ state = "Idle" => reveal /\ pc # "wait"
  /\ OneOwnerOfTheDevices

Inv ==
  /\ TypeOK
  /\ Client
  /\ Stages
  /\ OneAtATime
  /\ Owned
  /\ Ends
  /\ Windows

-----------------------------------------------------------------------------
(* Types.                                                                   *)

(* The first state has the types.                                           *)
LEMMA TypeInit == Init => TypeOK
<1> SUFFICES ASSUME Init PROVE TypeOK
  OBVIOUS
<1>1. /\ tasks \in Seq(Tasks) /\ answers \in Seq(Grants) /\ signals \in Seq(Signals)
  BY EmptySeq DEF Init, SessionInit
<1>2. 0 \in 0 .. MaxStarts
  BY MaxStartsAssumption
<1>3. SessionTypeOK
  BY <1>1, <1>2, Zenon DEF Init, SessionInit, SessionTypeOK
<1> QED
  BY <1>3 DEF Init, TypeOK

(* What posts a Start keeps to the types.                                   *)
LEMMA PostStartType ==
  ASSUME SessionTypeOK, PostStart
  PROVE  started' \in 0 .. MaxStarts /\ tasks' \in Seq(Tasks)
<1>1. started' \in 0 .. MaxStarts /\ started' \in Cast
  BY MaxStartsAssumption DEF SessionTypeOK, PostStart, Cast
<1>2. StartTask(started') \in Tasks /\ tasks \in Seq(Tasks)
  BY <1>1 DEF StartTask, Tasks, SessionTypeOK
<1> QED
  BY <1>1, <1>2, PostLemma DEF PostStart, Post

(* So does what posts a Close, a Terminate, or both.                        *)
LEMMA PostTypes ==
  ASSUME SessionTypeOK
  PROVE  /\ Append(tasks, CloseTask) \in Seq(Tasks)
         /\ Append(tasks, TerminateTask) \in Seq(Tasks)
         /\ tasks \o <<CloseTask, TerminateTask>> = Append(Append(tasks, CloseTask), TerminateTask)
         /\ tasks \o <<CloseTask, TerminateTask>> \in Seq(Tasks)
<1>1. tasks \in Seq(Tasks) /\ CloseTask \in Tasks /\ TerminateTask \in Tasks
  BY DEF SessionTypeOK, Tasks, CloseTask, TerminateTask
<1>2. Append(tasks, CloseTask) \in Seq(Tasks) /\ Append(tasks, TerminateTask) \in Seq(Tasks)
  BY <1>1, PostLemma
<1>3. Append(Append(tasks, CloseTask), TerminateTask) \in Seq(Tasks)
  BY <1>1, <1>2, PostLemma
<1>4. tasks \o <<CloseTask, TerminateTask>> = Append(Append(tasks, CloseTask), TerminateTask)
  BY <1>1
<1> QED
  BY <1>2, <1>3, <1>4

(* And what stops a recording.                                              *)
LEMMA StopType ==
  ASSUME SessionTypeOK, StopRecording
  PROVE  /\ state' = "Idle" /\ audio' \in BOOLEAN /\ reveal' \in BOOLEAN
         /\ stream' = None /\ streaming' = "no" /\ fds' \in SUBSET Cast
BY DEF StopRecording, SessionTypeOK

(* Every step keeps to the types.                                           *)
LEMMA TypeStep == TypeOK /\ [Next]_vars => TypeOK'
<1> SUFFICES ASSUME TypeOK, [Next]_vars PROVE TypeOK'
  OBVIOUS
<1>1. CASE CloseWindow
  BY <1>1 DEF CloseWindow, TypeOK, SessionTypeOK, sessionVars, clientVars, portalVars,
     outVars, windowVars, audioVars, streamVars
<1>2. CASE ShowWindow
  BY <1>2 DEF ShowWindow, TypeOK, SessionTypeOK, sessionVars, clientVars, portalVars,
     outVars, windowVars, audioVars, streamVars
<1>3. CASE ToggleStart
  <2>1. started' \in 0 .. MaxStarts /\ tasks' \in Seq(Tasks)
    BY <1>3, PostStartType DEF ToggleStart, BeginCapture, TypeOK, SessionTypeOK
  <2>2. /\ flow' \in {"none", "picking", "settling"} /\ window' \in {"shown", "away", "closed"}
        /\ previews' \in BOOLEAN /\ state' = "Starting"
    BY <1>3 DEF ToggleStart, BeginCapture, Hidden, TypeOK
  <2> QED
    BY <1>3, <2>1, <2>2 DEF ToggleStart, TypeOK, SessionTypeOK, clientVars, portalVars,
       outVars, streamVars
<1>4. CASE ToggleRefused
  BY <1>4 DEF ToggleRefused, TypeOK, SessionTypeOK, sessionVars, clientVars, portalVars,
     outVars, windowVars, audioVars, streamVars
<1>5. CASE ToggleStop
  <2>1. tasks' \in Seq(Tasks)
    BY <1>5, PostTypes DEF ToggleStop, Post, TypeOK
  <2>2. previews' \in BOOLEAN
    BY <1>5 DEF ToggleStop, RefreshMonitoring
  <2> QED
    BY <1>5, <2>1, <2>2, StopType DEF ToggleStop, TypeOK, SessionTypeOK, clientVars,
       portalVars
<1>6. CASE ChangeAudio
  <2>1. previews' \in BOOLEAN /\ ticked' \in BOOLEAN
    BY <1>6 DEF ChangeAudio, RefreshMonitoring
  <2> QED
    BY <1>6, <2>1 DEF ChangeAudio, TypeOK, SessionTypeOK, sessionVars, clientVars,
       portalVars, outVars, windowVars, streamVars
<1>7. CASE BeginIteration
  <2>1. woken' \in BOOLEAN
    BY <1>7 DEF BeginIteration
  <2>2. SessionTypeOK'
    BY <1>7, <2>1, Zenon DEF BeginIteration, TypeOK, SessionTypeOK, clientVars,
       portalVars
  <2> QED
    BY <1>7, <2>2 DEF BeginIteration, TypeOK, windowVars, audioVars, streamVars
<1>8. CASE TakeRequests
  BY <1>8 DEF TakeRequests, TypeOK, SessionTypeOK, sessionVars, clientVars, portalVars,
     outVars, windowVars, audioVars, streamVars
<1>9. CASE Continue
  <2>0. answers \in Seq(Grants) /\ answers # <<>>
    BY <1>9 DEF Continue, TypeOK, SessionTypeOK
  <2>1. Head(answers) \in Grants /\ answers' \in Seq(Grants)
    BY <1>9, <2>0, HeadTailProperties DEF Continue
  <2>3. stream' \in Cast
    BY <1>9, <2>1 DEF Continue, Grants
  <2>2. previews' \in BOOLEAN
    BY <1>9 DEF Continue, RefreshMonitoring
  <2> QED
    BY <1>9, <2>1, <2>2, <2>3 DEF Continue, TypeOK, SessionTypeOK, clientVars,
       portalVars, windowVars
<1>10. CASE ContinueWithout
  BY <1>10 DEF ContinueWithout, TypeOK, SessionTypeOK, sessionVars, clientVars,
     portalVars, outVars, windowVars, audioVars, streamVars
<1>11. CASE Drained
  BY <1>11 DEF Drained, TypeOK, SessionTypeOK, sessionVars, clientVars, portalVars,
     outVars, windowVars, audioVars, streamVars
<1>12. CASE TakeWithdrawal
  <2>1. tasks' \in Seq(Tasks) /\ fds' \in SUBSET Cast
    BY <1>12, PostTypes, StopType DEF TakeWithdrawal, Post, TypeOK, SessionTypeOK
  <2>2. ended' \in BOOLEAN /\ previews' \in BOOLEAN /\ reveal' \in BOOLEAN /\ audio' \in BOOLEAN
    BY <1>12, StopType DEF TakeWithdrawal, RefreshMonitoring, TypeOK
  <2>3. SessionTypeOK'
    BY <1>12, <2>1, <2>2 DEF TakeWithdrawal, TypeOK, SessionTypeOK, clientVars,
       portalVars
  <2>4. /\ state' \in {"Idle", "Starting", "Recording"} /\ stream' \in Cast \cup {None}
        /\ streaming' \in {"no", "yes", "ended"}
    BY <1>12, StopType DEF TakeWithdrawal, TypeOK, streamVars
  <2> QED
    BY <1>12, <2>2, <2>3, <2>4 DEF TakeWithdrawal, TypeOK
<1>13. CASE UpdateFlow
  <2>1. started' \in 0 .. MaxStarts /\ tasks' \in Seq(Tasks)
    BY <1>13, PostStartType
    DEF UpdateFlow, Waits, Picked, Cancel, Settled, BeginCapture, TypeOK, SessionTypeOK
  <2>2. /\ flow' \in {"none", "picking", "settling"} /\ window' \in {"shown", "away", "closed"}
        /\ previews' \in BOOLEAN /\ state' \in {"Idle", "Starting", "Recording"}
    BY <1>13 DEF UpdateFlow, Waits, Picked, Cancel, Settled, BeginCapture, TypeOK
  <2> QED
    BY <1>13, <2>1, <2>2 DEF UpdateFlow, TypeOK, SessionTypeOK, clientVars, portalVars,
       outVars, streamVars
<1>14. CASE SyncVisibility
  <2>1. previews' \in BOOLEAN /\ visible' \in BOOLEAN
    BY <1>14 DEF SyncVisibility, RefreshMonitoring, TypeOK
  <2> QED
    BY <1>14, <2>1 DEF SyncVisibility, TypeOK, SessionTypeOK, sessionVars, clientVars,
       portalVars, outVars, streamVars
<1>15. CASE EndIteration
  <2>1. reveal' \in BOOLEAN
    BY <1>15 DEF EndIteration
  <2> QED
    BY <1>15, <2>1 DEF EndIteration, TypeOK, SessionTypeOK, sessionVars, clientVars,
       portalVars, outVars, audioVars, streamVars
<1>16. CASE Terminate
  <2>1. tasks' \in Seq(Tasks) /\ fds' \in SUBSET Cast
    BY <1>16, PostTypes, StopType DEF Terminate, Post, TypeOK, SessionTypeOK
  <2>2. previews' \in BOOLEAN /\ reveal' \in BOOLEAN /\ audio' \in BOOLEAN
    BY <1>16, StopType DEF Terminate, TypeOK
  <2>3. SessionTypeOK'
    BY <1>16, <2>1 DEF Terminate, TypeOK, SessionTypeOK, clientVars, portalVars
  <2>4. /\ state' \in {"Idle", "Starting", "Recording"} /\ stream' \in Cast \cup {None}
        /\ streaming' \in {"no", "yes", "ended"}
    BY <1>16, StopType DEF Terminate, TypeOK, streamVars
  <2> QED
    BY <1>16, <2>2, <2>3, <2>4 DEF Terminate, TypeOK
<1>17. CASE Terminated
  BY <1>17 DEF Terminated, TypeOK, SessionTypeOK, sessionVars, clientVars, portalVars,
     outVars, windowVars, audioVars, streamVars
<1>18. CASE StreamFlows
  BY <1>18 DEF StreamFlows, TypeOK, SessionTypeOK, sessionVars, clientVars, portalVars,
     outVars, windowVars, audioVars, streamVars
<1>19. CASE StreamEnds
  BY <1>19 DEF StreamEnds, TypeOK, SessionTypeOK, sessionVars, clientVars, portalVars,
     outVars, windowVars, audioVars, streamVars
<1>20. CASE Bus
  BY <1>20, RunTaskType, DispatchType DEF Bus, BusStep, TypeOK, recorderVars,
     windowVars, audioVars, streamVars
<1>21. CASE Portal
  BY <1>21, PortalStepType DEF Portal, TypeOK, recorderVars, windowVars, audioVars,
     streamVars
<1>22. CASE UNCHANGED vars
  BY <1>22 DEF vars, recorderVars, TypeOK, SessionTypeOK, sessionVars, clientVars,
     portalVars, outVars, windowVars, audioVars, streamVars
<1> QED
  BY <1>1, <1>2, <1>3, <1>4, <1>5, <1>6, <1>7, <1>8, <1>9, <1>10, <1>11, <1>12, <1>13,
     <1>14, <1>15, <1>16, <1>17, <1>18, <1>19, <1>20, <1>21, <1>22 DEF Next, User,
     Toggle, Loop, Update, Exit

(* Every variable of the recorder keeps to its type, in every state.        *)
THEOREM TypeCorrect == Spec => []TypeOK
<1>1. Init => TypeOK
  BY TypeInit
<1>2. TypeOK /\ [Next]_vars => TypeOK'
  BY TypeStep
<1> QED
  BY <1>1, <1>2, PTL DEF Spec

-----------------------------------------------------------------------------
(* The invariant.                                                           *)

(* A Start is posted only when none is under way, and is the last to run.   *)
LEMMA PostStartLemma ==
  ASSUME Inv, PostStart, ~UnderWay
  PROVE  /\ StartIsLast(tasks')
         /\ \A op : HasOp(tasks', op) <=> HasOp(tasks, op) \/ op = "Start"
<1>1. started' \in Cast
  BY MaxStartsAssumption DEF Inv, TypeOK, SessionTypeOK, PostStart, Cast
<1>2. StartTask(started') \in Tasks /\ StartTask(started').op = "Start" /\ tasks \in Seq(Tasks)
  BY <1>1 DEF StartTask, Tasks, Inv, TypeOK, SessionTypeOK
<1>3. tasks' = Append(tasks, StartTask(started'))
  BY DEF PostStart, Post
<1> QED
  BY <1>2, <1>3, PostLemma DEF Inv, OneAtATime, UnderWay

(* So are a Close, a Terminate, or both in that order.                      *)
LEMMA PostEndLemma ==
  ASSUME Inv
  PROVE  /\ \A op : HasOp(Append(tasks, CloseTask), op) <=> HasOp(tasks, op) \/ op = "Close"
         /\ ~UnderWay => StartIsLast(Append(tasks, CloseTask))
         /\ \A op : HasOp(Append(tasks, TerminateTask), op) <=> HasOp(tasks, op) \/ op = "Terminate"
         /\ StartIsLast(Append(tasks, TerminateTask))
         /\ \A op : HasOp(tasks \o <<CloseTask, TerminateTask>>, op)
                      <=> HasOp(tasks, op) \/ op = "Close" \/ op = "Terminate"
         /\ ~UnderWay => StartIsLast(tasks \o <<CloseTask, TerminateTask>>)
<1>1. /\ tasks \in Seq(Tasks) /\ StartIsLast(tasks)
      /\ CloseTask \in Tasks /\ CloseTask.op = "Close"
      /\ TerminateTask \in Tasks /\ TerminateTask.op = "Terminate"
  BY DEF Inv, OneAtATime, TypeOK, SessionTypeOK, Tasks, CloseTask, TerminateTask
<1>2. /\ Append(tasks, CloseTask) \in Seq(Tasks)
      /\ \A op : HasOp(Append(tasks, CloseTask), op) <=> HasOp(tasks, op) \/ op = "Close"
      /\ ~UnderWay => StartIsLast(Append(tasks, CloseTask))
  BY <1>1, PostLemma DEF UnderWay
<1>3. /\ \A op : HasOp(Append(tasks, TerminateTask), op) <=> HasOp(tasks, op) \/ op = "Terminate"
      /\ StartIsLast(Append(tasks, TerminateTask))
  BY <1>1, PostLemma
<1> DEFINE both == Append(Append(tasks, CloseTask), TerminateTask)
<1>4. /\ \A op : HasOp(both, op) <=> HasOp(tasks, op) \/ op = "Close" \/ op = "Terminate"
      /\ ~UnderWay => StartIsLast(both)
  BY <1>1, <1>2, PostLemma
<1>5. tasks \o <<CloseTask, TerminateTask>> = both
  BY PostTypes DEF Inv, TypeOK
<1> QED
  BY <1>2, <1>3, <1>4, <1>5, Zenon

(* Closing leaves nothing followed.                                         *)
LEMMA CloseLemma ==
  ASSUME Client, CloseSession
  PROVE  handle' = None /\ slot' = None /\ ~live'
<1>1. handle' = None /\ slot' = None
  BY DEF Client, CloseSession
<1>2. ~live'
  BY Zenon DEF Client, CloseSession
<1> QED
  BY <1>1, <1>2

(* The invariant holds at the start.                                        *)
LEMMA InvInit == Init => Inv
<1> SUFFICES ASSUME Init PROVE Inv
  OBVIOUS
<1>1. tasks = <<>> /\ answers = <<>> /\ Len(answers) = 0
  BY EmptySeq DEF Init, SessionInit
<1>2. StartIsLast(tasks) /\ \A op : ~HasOp(tasks, op)
  BY <1>1, NoTaskLemma
<1> QED
  BY <1>1, <1>2, TypeInit
  DEF Init, SessionInit, Inv, Client, Stages, OneAtATime, Owned, Ends, Windows, UnderWay, Awaiting,
      Ending, OneOwnerOfTheDevices

(* A task of the bus thread.                                                *)
LEMMA RunTaskInv ==
  ASSUME Inv, RunTask, UNCHANGED recorderVars, TypeOK'
  PROVE  Inv'
<1> DEFINE task == Head(tasks)
<1>1. /\ tasks \in Seq(Tasks) /\ tasks # <<>> /\ tasks' = Tail(tasks) /\ answers \in Seq(Grants)
  BY DEF Inv, TypeOK, SessionTypeOK, RunTask
<1>2. /\ task \in Tasks
      /\ \A op : HasOp(tasks, op) <=> HasOp(tasks', op) \/ task.op = op
      /\ StartIsLast(tasks')
      /\ task.op = "Start" => ~HasOp(tasks', "Start") /\ ~HasOp(tasks', "Close")
  BY <1>1, RunLemma DEF Inv, OneAtATime
<1>3. pc # "done" /\ (task.op = "Terminate" => Ending)
  BY <1>1, <1>2 DEF Inv, Ends, Ending
<1>4. UNCHANGED <<state, flow, window, visible, reveal, ticked, previews, audio, stream, streaming, pc>>
  BY DEF recorderVars, windowVars, audioVars, streamVars
<1>5. Windows'
  BY <1>4 DEF Inv, Windows, OneOwnerOfTheDevices
<1>6. ASSUME task.op = "Start", RunStart(task.id) PROVE Inv'
  <2>1. /\ ~busy /\ answers = <<>> /\ state = "Starting" /\ flow = "none" /\ callback = None
        /\ stream = None
        /\ task.id \in Cast
    BY <1>2, <1>6 DEF Inv, OneAtATime, Stages, UnderWay, Client, Tasks
  <2>2. ASSUME Deliver(task.id, "Failed")
        PROVE  answers' # <<>> /\ Len(answers') = 1 /\ Head(answers').result = "Failed"
    <3>1. [id |-> task.id, result |-> "Failed"] \in Grants
      BY <2>1 DEF Grants, Results
    <3> QED
      BY <2>1, <2>2, <3>1, AnswerLemma DEF Deliver
  <2>3. CASE RefuseStart(task.id)
    <3>1. /\ answers' # <<>> /\ Len(answers') = 1 /\ Head(answers').result = "Failed"
          /\ busy' = busy /\ callback' = callback /\ fds' = fds /\ initialized' = initialized
      BY <2>2, <2>3 DEF RefuseStart, clientVars
    <3>2. Client' /\ (handle' = None \/ handle' = handle)
      BY <2>1, <2>3, <3>1 DEF RefuseStart, CloseSession, clientVars, Client, Inv
    <3>3. Stages' /\ UnderWay'
      BY <1>2, <1>4, <2>1, <3>1 DEF Inv, Stages, UnderWay, Awaiting, Ending
    <3>4. OneAtATime' /\ Owned'
      BY <1>2, <1>4, <1>6, <2>1, <3>1 DEF Inv, OneAtATime, Owned
    <3>5. Ends'
      BY <1>2, <1>3, <1>4, <1>6, <2>1, <3>1, <3>2 DEF Inv, Ends, Ending
    <3> QED
      BY <1>5, <3>2, <3>3, <3>4, <3>5 DEF Inv
  <2>4. CASE Begin(task.id)
    BY <1>2, <1>3, <1>4, <1>5, <1>6, <2>1, <2>4
    DEF Begin, outVars, Inv, Client, Stages, OneAtATime, Owned, Ends, UnderWay, Awaiting, Ending,
        Cast, None
  <2>5. CASE BeginRefused(task.id)
    <3>1. /\ answers' # <<>> /\ Len(answers') = 1 /\ Head(answers').result = "Failed"
          /\ busy' = busy /\ callback' = callback /\ fds' = fds /\ initialized' = initialized
      BY <2>2, <2>5 DEF BeginRefused, clientVars
    <3>2. Client' /\ (handle' = None \/ handle' = handle)
      BY <2>5, <3>1, CloseLemma DEF BeginRefused, Client, Inv
    <3>3. Stages' /\ UnderWay'
      BY <1>2, <1>4, <2>1, <3>1 DEF Inv, Stages, UnderWay, Awaiting, Ending
    <3>4. OneAtATime' /\ Owned'
      BY <1>2, <1>4, <1>6, <2>1, <3>1 DEF Inv, OneAtATime, Owned
    <3>5. Ends'
      BY <1>2, <1>3, <1>4, <1>6, <2>1, <3>1, <3>2 DEF Inv, Ends, Ending
    <3> QED
      BY <1>5, <3>2, <3>3, <3>4, <3>5 DEF Inv
  <2> QED
    BY <1>6, <2>3, <2>4, <2>5 DEF RunStart
<1>7. ASSUME task.op = "Close", RunClose PROVE Inv'
  BY <1>2, <1>3, <1>4, <1>5, <1>7
  DEF RunClose, CloseSession, outVars, Inv, Client, Stages, OneAtATime, Owned, Ends, UnderWay, Awaiting,
      Ending
<1>8. ASSUME task.op = "Terminate", RunTerminate PROVE Inv'
  BY <1>2, <1>3, <1>4, <1>5, <1>8
  DEF RunTerminate, CloseSession, outVars, Inv, Client, Stages, OneAtATime, Owned, Ends, UnderWay,
      Awaiting, Ending
<1> QED
  BY <1>6, <1>7, <1>8 DEF RunTask

(* A signal: an answer that is heard belongs to the Start the client is     *)
(* busy with, and either asks for the next step or ends that Start.         *)
LEMMA DispatchInv ==
  ASSUME Inv, Dispatch, UNCHANGED recorderVars, TypeOK'
  PROVE  Inv'
<1> DEFINE signal == Head(signals)
<1>1. /\ signal \in Signals /\ tasks' = tasks
      /\ answers \in Seq(Grants)
  BY HeadTailProperties DEF Inv, TypeOK, SessionTypeOK, Dispatch
<1>2. UNCHANGED <<state, flow, window, visible, reveal, ticked, previews, audio, stream, streaming, pc>>
  BY DEF recorderVars, windowVars, audioVars, streamVars
<1>3. Windows'
  BY <1>2 DEF Inv, Windows, OneOwnerOfTheDevices
<1>4. CASE UNCHANGED <<clientVars, outVars, open, asked>>
  BY <1>1, <1>2, <1>3, <1>4
  DEF clientVars, outVars, Inv, Client, Stages, OneAtATime, Owned, Ends, UnderWay, Awaiting, Ending
<1>5. CASE OnSessionClosed
  <2>1. /\ busy' = busy /\ callback' = callback /\ answers' = answers /\ fds' = fds
        /\ initialized' = initialized
    BY <1>5 DEF OnSessionClosed, clientVars, outVars
  <2>2. Client' /\ (handle' = None \/ handle' = handle)
    BY <1>5, <2>1 DEF OnSessionClosed, clientVars, Client, Inv
  <2> QED
    BY <1>1, <1>2, <1>3, <2>1, <2>2
    DEF Inv, Stages, OneAtATime, Owned, Ends, UnderWay, Awaiting, Ending
<1>6. ASSUME callback \in Cast, OnResponse(signal) PROVE Inv'
  <2>1. /\ busy /\ answers = <<>> /\ state = "Starting" /\ flow = "none" /\ stream = None
        /\ ~HasOp(tasks, "Start") /\ ~HasOp(tasks, "Close") /\ fds = {}
    BY <1>6 DEF Inv, Client, OneAtATime, Stages, UnderWay, Owned, Cast, None
  <2>2. ASSUME NEW result \in Results, Release(result)
        PROVE  /\ ~busy' /\ callback' = None
               /\ answers' # <<>> /\ Len(answers') = 1
               /\ Head(answers') = [id |-> callback, result |-> result]
    <3>1. [id |-> callback, result |-> result] \in Grants
      BY <1>6 DEF Grants
    <3> QED
      BY <2>1, <2>2, <3>1, AnswerLemma DEF Release, Deliver
  <2>3. ASSUME callback' = None, ~busy', answers' # <<>>, Len(answers') = 1, initialized' = initialized,
               fds' = IF Head(answers').result = "Success" THEN {Head(answers').id} ELSE {},
               handle' = None => slot' = None /\ ~live',
               Ending /\ ~HasOp(tasks, "Terminate") => handle' = None
        PROVE  Inv'
    <3>1. Client'
      BY <2>3 DEF Client
    <3>2. Stages'
      BY <1>1, <1>2, <2>1, <2>3 DEF Inv, Stages, UnderWay, Awaiting, Ending
    <3>3. OneAtATime' /\ Owned'
      <4>1. {stream'} \ {None} = {}
        BY <1>2, <2>1
      <4>2. Owned'
        BY <2>3, <4>1 DEF Owned
      <4> QED
        BY <1>1, <1>2, <2>1, <2>3, <4>2 DEF Inv, OneAtATime
    <3>4. Ends'
      BY <1>1, <1>2, <2>1, <2>3 DEF Inv, Ends, Ending
    <3> QED
      BY <1>3, <3>1, <3>2, <3>3, <3>4 DEF Inv
  <2>4. ASSUME NEW result \in Results \ {"Success"}, FinishWithout(result) PROVE Inv'
    <3>1. handle' = None /\ slot' = None /\ ~live' /\ fds' = fds /\ initialized' = initialized
      BY <2>4, CloseLemma DEF FinishWithout, Inv
    <3>2. /\ callback' = None /\ ~busy' /\ answers' # <<>> /\ Len(answers') = 1
          /\ Head(answers').result # "Success"
      BY <2>2, <2>4 DEF FinishWithout
    <3> QED
      BY <2>1, <2>3, <3>1, <3>2
  <2>5. CASE OnSessionCreated
    BY <1>1, <1>2, <1>3, <1>6, <2>1, <2>5
    DEF OnSessionCreated, outVars, Inv, Client, Stages, OneAtATime, Owned, Ends, UnderWay, Awaiting,
        Ending, Cast, None
  <2>6. CASE OnSessionUnfollowed
    <3>1. /\ callback' = None /\ ~busy' /\ answers' # <<>> /\ Len(answers') = 1
          /\ Head(answers').result = "Failed"
      BY <2>2, <2>6 DEF OnSessionUnfollowed, Results
    <3>2. handle' = None /\ slot' = None /\ ~live' /\ fds' = fds /\ initialized' = initialized
      BY <2>6 DEF OnSessionUnfollowed
    <3> QED
      BY <2>1, <2>3, <3>1, <3>2
  <2>7. CASE OnSourcesSelected
    <3>1. CASE FinishWithout("Failed")
      BY <2>4, <3>1 DEF Results
    <3>2. CASE UNCHANGED <<initialized, busy, callback, handle, live, slot, stray, outVars, open>>
      BY <1>1, <1>2, <1>3, <3>2
      DEF outVars, Inv, Client, Stages, OneAtATime, Owned, Ends, UnderWay, Awaiting, Ending
    <3> QED
      BY <2>7, <3>1, <3>2 DEF OnSourcesSelected
  <2>8. CASE OnStarted
    <3>1. CASE FinishWithout("Failed")
      BY <2>4, <3>1 DEF Results
    <3>2. CASE /\ Release("Success") /\ fds' = fds \cup {callback}
               /\ UNCHANGED <<initialized, handle, live, slot, stray, ended, open, asked>>
      <4>1. /\ callback' = None /\ ~busy' /\ answers' # <<>> /\ Len(answers') = 1
            /\ Head(answers').result = "Success" /\ Head(answers').id = callback
        BY <2>2, <3>2 DEF Results
      <4>2. fds' = {callback}
        BY <2>1, <3>2
      <4>3. /\ handle' = None => slot' = None /\ ~live'
            /\ Ending /\ ~HasOp(tasks, "Terminate") => handle' = None
        BY <3>2 DEF Inv, Client, Ends
      <4> QED
        BY <2>3, <3>2, <4>1, <4>2, <4>3
    <3> QED
      BY <2>8, <3>1, <3>2 DEF OnStarted
  <2> QED
    BY <1>6, <2>4, <2>5, <2>6, <2>7, <2>8 DEF OnResponse, Results
<1>7. Heard(signal) /\ signal.name = "Response" => callback \in Cast
  BY <1>1 DEF Heard, Signals
<1> QED
  BY <1>4, <1>5, <1>6, <1>7 DEF Dispatch

(* The invariant is inductive: one step per action.                         *)
LEMMA InvStep == Inv /\ [Next]_vars => Inv'
<1> SUFFICES ASSUME Inv, [Next]_vars PROVE Inv'
  OBVIOUS
<1> USE DEF Inv, Stages, UnderWay, Awaiting, Ending
<1>0. TypeOK'
  BY TypeStep
<1>1. CASE CloseWindow \/ ShowWindow
  BY <1>0, <1>1
  DEF CloseWindow, ShowWindow, sessionVars, clientVars, outVars, audioVars, streamVars, Client,
      OneAtATime, Owned, Ends, Windows, OneOwnerOfTheDevices
<1>2. CASE ToggleStart
  <2>1. ~UnderWay /\ state = "Idle" /\ stream = None /\ ~audio /\ ~Ending /\ ~Awaiting
    BY <1>2 DEF ToggleStart, CanToggle, Windows, OneOwnerOfTheDevices
  <2>2. /\ UNCHANGED <<initialized, busy, callback, handle, live, slot, answers, fds, reveal, stream, pc>>
        /\ audio' = audio /\ state' = "Starting"
    BY <1>2 DEF ToggleStart, clientVars, outVars, streamVars
  <2>3. CASE UNCHANGED tasks /\ flow' # "none" /\ (previews' => flow' = "picking")
    BY <1>0, <2>1, <2>2, <2>3
    DEF Client, OneAtATime, Owned, Ends, Windows, OneOwnerOfTheDevices
  <2>4. CASE PostStart /\ flow' = "none" /\ ~previews'
    BY <1>0, <2>1, <2>2, <2>4, PostStartLemma
    DEF Client, OneAtATime, Owned, Ends, Windows, OneOwnerOfTheDevices
  <2> QED
    BY <1>2, <2>3, <2>4 DEF ToggleStart, BeginCapture
<1>3. CASE ToggleRefused
  BY <1>0, <1>3
  DEF ToggleRefused, sessionVars, clientVars, outVars, audioVars, streamVars, Client, OneAtATime, Owned,
      Ends, Windows, OneOwnerOfTheDevices
<1>4. ASSUME StopRecording, Post(CloseTask), RefreshMonitoring, state = "Recording",
             UNCHANGED <<initialized, busy, callback, handle, live, slot, answers, flow, window>>,
             ~Ending, ~Ending', pc' # "wait"
      PROVE  Inv'
  <2>1. ~UnderWay /\ flow = "none"
    BY <1>4
  <2>2. fds' = {} /\ fds' = {stream'} \ {None}
    BY <1>4, <2>1 DEF StopRecording, Owned
  <2>3. OneAtATime' /\ Owned'
    BY <1>4, <2>1, <2>2, PostEndLemma DEF StopRecording, Post, OneAtATime, Owned
  <2>4. Windows'
    BY <1>4 DEF StopRecording, Windows, OneOwnerOfTheDevices
  <2>5. Client' /\ Ends' /\ Stages'
    BY <1>4, <2>1, PostEndLemma DEF StopRecording, Post, Client, Ends, OneAtATime
  <2> QED
    BY <1>0, <2>3, <2>4, <2>5
<1>5. CASE ToggleStop
  <2>1. ~Ending /\ ~Ending' /\ pc' # "wait"
    BY <1>5 DEF ToggleStop, CanToggle
  <2> QED
    BY <1>4, <1>5, <2>1 DEF ToggleStop, clientVars
<1>6. CASE ChangeAudio
  <2>1. previews' => state = "Idle"
    BY <1>6 DEF ChangeAudio, RefreshMonitoring
  <2> QED
    BY <1>0, <1>6, <2>1
    DEF ChangeAudio, sessionVars, clientVars, outVars, windowVars, streamVars, Client, OneAtATime, Owned,
        Ends, Windows, OneOwnerOfTheDevices
<1>7. CASE BeginIteration
  BY <1>0, <1>7
  DEF BeginIteration, clientVars, windowVars, audioVars, streamVars, Client, OneAtATime, Owned, Ends,
      Windows, OneOwnerOfTheDevices
<1>8. CASE TakeRequests \/ Drained
  BY <1>0, <1>8
  DEF TakeRequests, Drained, sessionVars, clientVars, outVars, windowVars, audioVars, streamVars, Client,
      OneAtATime, Owned, Ends, Windows, OneOwnerOfTheDevices
<1>9. ASSUME pc = "drain", answers # <<>>, answers' = Tail(answers)
      PROVE  /\ state = "Starting" /\ flow = "none" /\ stream = None /\ ~busy
             /\ ~HasOp(tasks, "Start") /\ ~HasOp(tasks, "Close") /\ ~HasOp(tasks, "Terminate")
             /\ answers' = <<>> /\ Len(answers') = 0
             /\ Head(answers) \in Grants /\ ~previews /\ ~audio
  <2>1. answers \in Seq(Grants) /\ answers' = <<>> /\ Len(answers') = 0
    BY <1>9, AnswerLemma, EmptySeq DEF TypeOK, SessionTypeOK, OneAtATime
  <2> QED
    BY <1>9, <2>1, HeadTailProperties DEF OneAtATime, Ends, Windows,
       OneOwnerOfTheDevices
<1>10. CASE Continue
  <2>1. /\ UNCHANGED <<tasks, initialized, busy, callback, handle, live, slot, fds, flow, window, reveal, pc>>
        /\ pc = "drain" /\ answers # <<>> /\ answers' = Tail(answers)
        /\ state' = "Recording" /\ stream' = Head(answers).id /\ ~previews'
    BY <1>10 DEF Continue, RefreshMonitoring, clientVars, windowVars
  <2>2. stream' \in Cast /\ stream' # None
    BY <1>9, <2>1 DEF Grants, Cast, None
  <2>3. fds' = {stream'} \ {None}
    BY <1>10, <2>1, <2>2 DEF Continue, Owned
  <2>4. Client' /\ Stages' /\ Ends' /\ Windows'
    BY <1>9, <2>1, <2>2 DEF Client, Ends, Windows, OneOwnerOfTheDevices
  <2>5. OneAtATime'
    BY <1>9, <2>1 DEF OneAtATime
  <2>6. Owned'
    BY <1>9, <2>1, <2>3 DEF Owned
  <2> QED
    BY <1>0, <2>4, <2>5, <2>6
<1>11. CASE ContinueWithout
  <2>1. /\ UNCHANGED <<tasks, initialized, busy, callback, handle, live, slot, flow, window, stream, pc, audio, previews>>
        /\ pc = "drain" /\ answers # <<>> /\ answers' = Tail(answers)
        /\ state' = "Idle" /\ reveal'
    BY <1>11 DEF ContinueWithout, clientVars, audioVars, streamVars
  <2>2. fds' = {stream'} \ {None}
    BY <1>9, <1>11, <2>1 DEF ContinueWithout, Owned
  <2>3. Client' /\ Stages' /\ Ends' /\ Windows'
    BY <1>9, <2>1 DEF Client, Ends, Windows, OneOwnerOfTheDevices
  <2>4. OneAtATime' /\ Owned'
    BY <1>9, <2>1, <2>2 DEF OneAtATime, Owned
  <2> QED
    BY <1>0, <2>3, <2>4
<1>12. CASE TakeWithdrawal
  <2>1. ~Ending /\ ~Ending' /\ pc' # "wait"
        /\ UNCHANGED <<initialized, busy, callback, handle, live, slot, answers, flow, window>>
    BY <1>12 DEF TakeWithdrawal, clientVars
  <2>2. CASE UNCHANGED <<state, streamVars, fds, tasks, reveal, previews, audio>>
    BY <1>0, <2>1, <2>2
    DEF streamVars, Client, OneAtATime, Owned, Ends, Windows, OneOwnerOfTheDevices
  <2> QED
    BY <1>4, <1>12, <2>1, <2>2 DEF TakeWithdrawal
<1>13. CASE UpdateFlow
  <2>1. /\ ~Ending /\ ~Ending' /\ pc' # "wait"
        /\ UNCHANGED <<initialized, busy, callback, handle, live, slot, answers, fds, reveal, audio, stream>>
    BY <1>13 DEF UpdateFlow, clientVars, outVars, streamVars
  <2>2. CASE Waits
    BY <1>0, <2>1, <2>2 DEF Waits, Client, OneAtATime, Owned, Ends, Windows,
       OneOwnerOfTheDevices
  <2>3. CASE Cancel
    BY <1>0, <2>1, <2>3 DEF Cancel, Client, OneAtATime, Owned, Ends, Windows,
       OneOwnerOfTheDevices
  <2>4. CASE flow # "none" /\ PostStart /\ flow' = "none" /\ state' = state /\ ~previews'
    BY <1>0, <2>1, <2>4, PostStartLemma
    DEF Client, OneAtATime, Owned, Ends, Windows, OneOwnerOfTheDevices
  <2>5. CASE flow = "picking" /\ UNCHANGED <<tasks, state>> /\ flow' = "settling" /\ ~previews'
    BY <1>0, <2>1, <2>5 DEF Client, OneAtATime, Owned, Ends, Windows,
       OneOwnerOfTheDevices
  <2>6. Settled => ~previews'
    BY DEF Settled, Windows, OneOwnerOfTheDevices
  <2> QED
    BY <1>13, <2>2, <2>3, <2>4, <2>5, <2>6 DEF UpdateFlow, Picked, Settled, BeginCapture
<1>14. CASE SyncVisibility
  <2>1. previews' => state = "Idle" \/ flow = "picking"
    BY <1>14 DEF SyncVisibility, RefreshMonitoring, Windows, OneOwnerOfTheDevices
  <2> QED
    BY <1>0, <1>14, <2>1
    DEF SyncVisibility, sessionVars, clientVars, outVars, streamVars, Client, OneAtATime, Owned, Ends,
        Windows, OneOwnerOfTheDevices
<1>15. CASE EndIteration
  BY <1>0, <1>15
  DEF EndIteration, sessionVars, clientVars, outVars, audioVars, streamVars, Client, OneAtATime, Owned,
      Ends, Windows, OneOwnerOfTheDevices
<1>16. CASE Terminate
  <2>1. /\ pc \in {"wait", "requests"} /\ pc' = "terminating" /\ flow' = "none" /\ ~previews'
        /\ UNCHANGED <<initialized, busy, callback, handle, live, slot, answers, window>>
    BY <1>16 DEF Terminate, clientVars
  <2>2. CASE state = "Recording" /\ StopRecording /\ tasks' = tasks \o <<CloseTask, TerminateTask>>
    <3>1. ~UnderWay /\ flow = "none"
      BY <2>2
    <3>2. fds' = {} /\ fds' = {stream'} \ {None}
      BY <2>2, <3>1 DEF StopRecording, Owned
    <3>3. OneAtATime' /\ Owned'
      BY <2>1, <2>2, <3>1, <3>2, PostEndLemma DEF StopRecording, OneAtATime, Owned
    <3>4. Client' /\ Ends' /\ Stages' /\ Windows'
      BY <2>1, <2>2, <3>1, PostEndLemma
      DEF StopRecording, Client, Ends, OneAtATime, Windows, OneOwnerOfTheDevices
    <3> QED
      BY <1>0, <3>3, <3>4
  <2>3. CASE /\ state # "Recording" /\ tasks' = Append(tasks, TerminateTask)
             /\ UNCHANGED <<state, stream, fds, reveal, audio>>
    <3>1. OneAtATime' /\ Owned'
      BY <2>1, <2>3, PostEndLemma DEF OneAtATime, Owned
    <3>2. Client' /\ Ends' /\ Stages' /\ Windows'
      BY <2>1, <2>3, PostEndLemma DEF Client, Ends, OneAtATime, Windows,
         OneOwnerOfTheDevices
    <3> QED
      BY <1>0, <3>1, <3>2
  <2> QED
    BY <1>16, <2>2, <2>3 DEF Terminate, Post, streamVars
<1>17. CASE Terminated
  <2>1. /\ UNCHANGED <<tasks, initialized, busy, callback, handle, live, slot, flow, window, reveal, state, stream, audio, previews>>
        /\ pc = "terminating" /\ pc' = "done" /\ tasks = <<>> /\ answers' = <<>> /\ Len(answers') = 0
    BY <1>17, EmptySeq DEF Terminated, clientVars, windowVars, audioVars, streamVars
  <2>2. \A op : ~HasOp(tasks, op)
    BY <2>1, NoTaskLemma
  <2>3. stream = None /\ {stream'} \ {None} = {}
    BY <2>1
  <2>4. fds' = {}
    <3>1. answers # <<>> => 1 \in DOMAIN answers /\ Head(answers) = answers[1]
      BY HeadTailProperties, LenProperties, EmptySeq DEF TypeOK, SessionTypeOK
    <3> QED
      BY <1>17, <2>3, <3>1 DEF Terminated, Owned
  <2> QED
    BY <1>0, <2>1, <2>2, <2>3, <2>4
    DEF Client, OneAtATime, Owned, Ends, Windows, OneOwnerOfTheDevices
<1>18. CASE StreamFlows \/ StreamEnds
  BY <1>0, <1>18
  DEF StreamFlows, StreamEnds, sessionVars, clientVars, outVars, windowVars, audioVars, Client,
      OneAtATime, Owned, Ends, Windows, OneOwnerOfTheDevices
<1>19. CASE Bus
  BY <1>0, <1>19, RunTaskInv, DispatchInv DEF Bus, BusStep
<1>20. CASE Portal
  <2>1. /\ UNCHANGED <<tasks, initialized, busy, callback, handle, live, slot, answers, fds>>
        /\ UNCHANGED <<state, flow, window, reveal, previews, audio, stream, pc>>
    BY <1>20
    DEF Portal, PortalStep, PortalAnswers, PortalRespond, PortalClose, clientVars, outVars, recorderVars,
        windowVars, audioVars, streamVars
  <2> QED
    BY <1>0, <2>1 DEF Client, OneAtATime, Owned, Ends, Windows, OneOwnerOfTheDevices
<1>21. CASE UNCHANGED vars
  BY <1>0, <1>21
  DEF vars, sessionVars, clientVars, outVars, recorderVars, windowVars, audioVars, streamVars, Client,
      OneAtATime, Owned, Ends, Windows, OneOwnerOfTheDevices
<1> QED
  BY <1>1, <1>2, <1>3, <1>5, <1>6, <1>7, <1>8, <1>10, <1>11, <1>12, <1>13, <1>14, <1>15,
     <1>16, <1>17,
     <1>18, <1>19, <1>20, <1>21
  DEF Next, User, Toggle, Loop, Update, Exit

(* So it holds in every state.                                              *)
THEOREM Invariance == Spec => []Inv
<1> QED
  BY InvInit, InvStep, PTL DEF Spec

-----------------------------------------------------------------------------
(* What follows from it.                                                    *)

(* No descriptor the portal granted is leaked, closed twice or shared       *)
(* (CSession::Continue, Stop and Terminate).                                *)
THEOREM NoDescriptorLeaks == Spec => []DescriptorsOwned
<1>1. Inv => DescriptorsOwned
  <2> SUFFICES ASSUME Inv PROVE DescriptorsOwned
    OBVIOUS
  <2>1. CASE answers = <<>>
    BY <2>1, EmptySeq DEF Inv, Owned, DescriptorsOwned
  <2>2. CASE answers # <<>>
    <3>0. answers \in Seq(Grants) /\ Len(answers) <= 1
      BY DEF Inv, TypeOK, SessionTypeOK, OneAtATime
    <3>1. /\ Len(answers) = 1 /\ DOMAIN answers = {1}
          /\ Head(answers) = answers[1] /\ answers[1] \in Grants
      <4>1. Len(answers) \in Nat /\ Len(answers) # 0 /\ DOMAIN answers = 1 .. Len(answers)
        BY <2>2, <3>0, LenProperties, EmptySeq
      <4>2. Len(answers) = 1 /\ DOMAIN answers = {1}
        BY <3>0, <4>1
      <4>3. Head(answers) \in Grants /\ Head(answers) = answers[1]
        BY <2>2, <3>0, HeadTailProperties
      <4> QED
        BY <4>2, <4>3
    <3>2. stream = None /\ answers[1].id # stream
      BY <2>2, <3>1 DEF Inv, Stages, UnderWay, Grants, Cast, None
    <3> QED
      BY <2>2, <3>1, <3>2 DEF Inv, Owned, DescriptorsOwned
  <2> QED
    BY <2>1, <2>2
<1> QED
  BY <1>1, Invariance, PTL

(* While the recorder waits for an answer exactly one Start is under way,   *)
(* and none while it does not (CStartFlow::Toggle, CPortalSession::Start).  *)
THEOREM OneStart == Spec => []OneStartUnderWay
<1>1. Inv => OneStartUnderWay
  <2> SUFFICES ASSUME Inv, ~Ending PROVE OneStartUnderWay
    BY DEF OneStartUnderWay, Ending
  <2>1. tasks \in Seq(Tasks) /\ DOMAIN tasks \subseteq Int
    BY LenProperties DEF Inv, TypeOK, SessionTypeOK
  <2>2. HasOp(tasks, "Start") <=> StartsPosted # {}
    BY DEF HasOp, StartsPosted
  <2>3. \A i, j \in StartsPosted : i = j
    <3> SUFFICES ASSUME NEW i \in StartsPosted, NEW j \in StartsPosted, i < j PROVE FALSE
      BY <2>1 DEF StartsPosted
    <3> QED
      BY DEF StartsPosted, Inv, OneAtATime, StartIsLast
  <2> QED
    BY <2>2, <2>3 DEF Inv, Stages, OneAtATime, UnderWay, OneStartUnderWay, Awaiting,
       Ending
<1> QED
  BY <1>1, Invariance, PTL

(* After CRecorder::Terminate nothing is open and nothing can follow.       *)
THEOREM EndIsClean == Spec => []CleanEnd
<1>1. Inv => CleanEnd
  <2> SUFFICES ASSUME Inv, pc = "done" PROVE CleanEnd
    BY DEF CleanEnd
  <2>1. answers = <<>> /\ ~HasOp(tasks, "Terminate") /\ Ending
    BY NoTaskLemma DEF Inv, Ends, Ending
  <2>2. stream = None /\ ~busy /\ handle = None /\ slot = None /\ ~live
    BY <2>1 DEF Inv, Stages, Ends, Client
  <2> QED
    BY <2>1, <2>2 DEF Inv, Owned, CleanEnd
<1> QED
  BY <1>1, Invariance, PTL

(* A window Klip hid is on its way back whenever Klip is idle.              *)
THEOREM WindowReturns == Spec => []WindowComesBack
<1>1. Inv => WindowComesBack
  BY DEF Inv, Windows, WindowComesBack
<1> QED
  BY <1>1, Invariance, PTL

(* The previews and the session never have the audio devices open at once.  *)
THEOREM DevicesHaveOneOwner == Spec => []OneOwnerOfTheDevices
<1>1. Inv => OneOwnerOfTheDevices
  BY DEF Inv, Windows
<1> QED
  BY <1>1, Invariance, PTL

(* Types, window, audio devices and the end, together (CRecorder).          *)
THEOREM RecorderIsInOrder == Spec => []RecorderInvariant
<1> QED
  BY TypeCorrect, WindowReturns, DevicesHaveOneOwner, EndIsClean, PTL
     DEF RecorderInvariant

(* No Close of an earlier recording, nor anything else the bus thread does, *)
(* takes the portal session away from the recording in progress.            *)
THEOREM RecordingIsSafe == Spec => NeverClosesItsOwnRecording
<1>1. Inv /\ [Next]_vars => [BusStep => stream \notin open \ open']_vars
  <2> SUFFICES ASSUME Inv, BusStep, stream \in open PROVE stream \in open'
    OBVIOUS
  <2>1. /\ state = "Recording" /\ ~busy /\ callback \notin Cast
        /\ ~HasOp(tasks, "Start") /\ ~HasOp(tasks, "Close") /\ ~HasOp(tasks, "Terminate")
    BY DEF Inv, TypeOK, SessionTypeOK, Client, Stages, UnderWay, OneAtATime, Ends,
       Ending, Cast, None
  <2>2. ~RunTask
    <3> SUFFICES ASSUME RunTask PROVE FALSE
      OBVIOUS
    <3>1. Head(tasks).op \in {"Start", "Close", "Terminate"} /\ HasOp(tasks, Head(tasks).op)
      BY RunLemma DEF RunTask, Inv, TypeOK, SessionTypeOK
    <3> QED
      BY <2>1, <3>1
  <2>3. Dispatch => open' = open
    <3>1. Dispatch => Head(signals) \in Signals
      BY HeadTailProperties DEF Dispatch, Inv, TypeOK, SessionTypeOK
    <3> QED
      BY <2>1, <3>1 DEF Dispatch, Heard, OnSessionClosed, Signals
  <2> QED
    BY <2>2, <2>3 DEF BusStep
<1> QED
  BY <1>1, Invariance, PTL DEF Spec, NeverClosesItsOwnRecording

-----------------------------------------------------------------------------
(* Recorder implements StartPhases: one start at a time.                    *)

(* The phase in each of the recorder's states.                              *)
LEMMA PhaseIs ==
  ASSUME state \in {"Idle", "Starting", "Recording"}
  PROVE  /\ Ending => Phase = "over"
         /\ ~Ending /\ state = "Idle" => Phase = "idle"
         /\ ~Ending /\ state = "Starting" => Phase = IF flow = "none" THEN "asked" ELSE flow
         /\ ~Ending /\ state = "Recording" => Phase = "recording"
BY DEF Phase, Ending

(* The same after a step.                                                   *)
LEMMA PhaseBecomes ==
  ASSUME state' \in {"Idle", "Starting", "Recording"}
  PROVE  /\ Ending' => Phase' = "over"
         /\ ~Ending' /\ state' = "Idle" => Phase' = "idle"
         /\ ~Ending' /\ state' = "Starting" => Phase' = IF flow' = "none" THEN "asked" ELSE flow'
         /\ ~Ending' /\ state' = "Recording" => Phase' = "recording"
BY DEF Phase, Ending

(* What a step of the recorder is to the phase.                             *)
LEMMA PhaseStep == Inv /\ [Next]_vars => [Phases!Next]_Phase
<1> SUFFICES ASSUME Inv, [Next]_vars PROVE [Phases!Next]_Phase
  OBVIOUS
<1>1. /\ state \in {"Idle", "Starting", "Recording"} /\ flow \in {"none", "picking", "settling"}
      /\ Stages
  BY DEF Inv, TypeOK
<1>2. /\ state' \in {"Idle", "Starting", "Recording"} /\ flow' \in {"none", "picking", "settling"}
  <2>1. TypeOK'
    BY TypeStep DEF Inv
  <2> QED BY <2>1 DEF TypeOK
<1> USE DEF Phases!Next
<1>3. CASE UNCHANGED <<state, flow>> /\ (Ending' <=> Ending)
  <2>1. Phase' = Phase
    BY <1>1, <1>2, <1>3, PhaseIs, PhaseBecomes
  <2> QED BY <2>1
<1>4. CASE ToggleStart
  <2>1. state = "Idle" /\ state' = "Starting" /\ ~Ending /\ ~Ending'
    BY <1>4 DEF ToggleStart, CanToggle, Ending
  <2>2. Phase = "idle" /\ Phase' \in {"picking", "settling", "asked"}
    BY <1>1, <1>2, <2>1, PhaseIs, PhaseBecomes
  <2> QED BY <2>2 DEF Phases!Prepare
<1>5. ASSUME state = "Recording", state' = "Idle", ~Ending, ~Ending'
      PROVE  [Phases!Next]_Phase
  <2>1. Phase = "recording" /\ Phase' = "idle"
    BY <1>1, <1>2, <1>5, PhaseIs, PhaseBecomes
  <2> QED BY <2>1 DEF Phases!Stop
<1>6. CASE ToggleStop
  BY <1>5, <1>6 DEF ToggleStop, CanToggle, StopRecording, Ending
<1>7. CASE Continue \/ ContinueWithout
  <2>1. state = "Starting" /\ flow = "none" /\ ~Ending /\ ~Ending' /\ state' \in {"Recording", "Idle"}
    BY <1>1, <1>7 DEF Continue, ContinueWithout, Stages, UnderWay, Ending
  <2>2. Phase = "asked" /\ Phase' \in {"recording", "idle"}
    BY <1>1, <1>2, <2>1, PhaseIs, PhaseBecomes
  <2> QED BY <2>2 DEF Phases!Answer
<1>8. CASE TakeWithdrawal
  <2>1. ~Ending /\ ~Ending' /\ flow' = flow
    BY <1>8 DEF TakeWithdrawal, Ending
  <2>2. (state = "Recording" /\ state' = "Idle") \/ state' = state
    BY <1>8 DEF TakeWithdrawal, StopRecording
  <2> QED BY <1>3, <1>5, <2>1, <2>2
<1>9. CASE UpdateFlow
  <2>1. ~Ending /\ ~Ending'
    BY <1>9 DEF UpdateFlow, Ending
  <2>2. CASE Waits
    BY <1>3, <2>1, <2>2 DEF Waits
  <2>3. CASE Picked
    <3>1. state = "Starting" /\ state' = "Starting" /\ flow = "picking" /\ flow' \in {"settling", "none"}
      BY <1>1, <2>3 DEF Picked, BeginCapture, Stages
    <3>2. Phase = "picking" /\ Phase' \in {"settling", "asked"}
      BY <1>1, <1>2, <2>1, <3>1, PhaseIs, PhaseBecomes
    <3> QED BY <3>2 DEF Phases!Pick
  <2>4. CASE Cancel
    <3>1. state = "Starting" /\ state' = "Idle" /\ flow = "picking"
      BY <1>1, <2>4 DEF Cancel, Stages
    <3>2. Phase = "picking" /\ Phase' = "idle"
      BY <1>1, <1>2, <2>1, <3>1, PhaseIs, PhaseBecomes
    <3> QED BY <3>2 DEF Phases!Dismiss
  <2>5. CASE Settled
    <3>1. state = "Starting" /\ state' = "Starting" /\ flow = "settling" /\ flow' = "none"
      BY <1>1, <2>5 DEF Settled, Stages
    <3>2. Phase = "settling" /\ Phase' = "asked"
      BY <1>1, <1>2, <2>1, <3>1, PhaseIs, PhaseBecomes
    <3> QED BY <3>2 DEF Phases!Ask
  <2> QED BY <1>9, <2>2, <2>3, <2>4, <2>5 DEF UpdateFlow
<1>10. CASE Terminate
  <2>1. ~Ending /\ Ending'
    BY <1>10 DEF Terminate, Ending
  <2>2. Phase # "over" /\ Phase' = "over"
    BY <1>1, <1>2, <2>1, PhaseIs, PhaseBecomes
  <2> QED BY <2>2 DEF Phases!Leave
<1>11. CASE CloseWindow \/ ShowWindow \/ ToggleRefused \/ ChangeAudio
  BY <1>3, <1>11 DEF CloseWindow, ShowWindow, ToggleRefused, ChangeAudio, windowVars, Ending
<1>12. CASE BeginIteration \/ TakeRequests \/ Drained \/ SyncVisibility \/ EndIteration \/ Terminated
  BY <1>3, <1>12
  DEF BeginIteration, TakeRequests, Drained, SyncVisibility, EndIteration, Terminated, windowVars, Ending
<1>13. CASE StreamFlows \/ StreamEnds
  BY <1>3, <1>13 DEF StreamFlows, StreamEnds, windowVars, Ending
<1>14. CASE Bus \/ Portal \/ UNCHANGED vars
  BY <1>3, <1>14 DEF Bus, Portal, vars, recorderVars, windowVars, Ending
<1> QED
  BY <1>4, <1>6, <1>7, <1>8, <1>9, <1>10, <1>11, <1>12, <1>13, <1>14
  DEF Next, User, Toggle, Loop, Update, Exit

(* A recording goes through the phases of StartPhases, whatever the other   *)
(* threads, the portal and the user do meanwhile: one start at a time, a    *)
(* region before the window hides and a capture after it, one answer to     *)
(* each request (CStartFlow::Toggle, CRecorder::OnStarted, StopRecording).  *)
THEOREM RecorderKeepsThePhases == Spec => Phases!Init /\ [][Phases!Next]_Phase
<1>1. Init => Phases!Init
  BY PhaseIs DEF Init, Phases!Init, Ending
<1> QED
  BY <1>1, PhaseStep, Invariance, PTL DEF Spec
=============================================================================

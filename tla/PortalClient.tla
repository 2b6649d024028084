---------------------------- MODULE PortalClient ----------------------------
(***************************************************************************)
(* CPortalSession under a caller that keeps to no discipline at all: it    *)
(* calls Start and Close whenever it likes, as the tests of                *)
(* src/tests/capture/test_portal_session.cpp do, takes the answers, and    *)
(* terminates the session at some point.                                   *)
(***************************************************************************)
EXTENDS PortalSession, TLC

CONSTANT MaxCloses        \* how often the caller calls Close, at most

ASSUME MaxClosesAssumption == MaxCloses \in Nat

VARIABLES
  closes,                 \* how many Closes have been called
  phase,                  \* the caller: "running", "terminating" or "terminated"
  log                     \* history: the Starts answered, in order

clientCallVars == <<closes, phase>>
callerVars == <<sessionVars, clientCallVars, log>>

CallerTypeOK ==
  /\ SessionTypeOK
  /\ closes \in 0 .. MaxCloses
  /\ phase \in {"running", "terminating", "terminated"}
  /\ log \in Seq(Cast)

CallerInit ==
  /\ SessionInit
  /\ closes = 0
  /\ phase = "running"
  /\ log = <<>>

Start ==
  /\ phase = "running"
  /\ PostStart
  /\ UNCHANGED <<clientVars, portalVars, outVars, clientCallVars, log>>

Close ==
  /\ phase = "running"
  /\ closes < MaxCloses
  /\ closes' = closes + 1
  /\ Post(CloseTask)
  /\ UNCHANGED <<started, clientVars, portalVars, outVars, phase, log>>

(* Terminate posts its task and waits for it, so the caller is stuck in it  *)
(* until the bus thread has run everything posted before.                   *)
CallerTerminate ==
  /\ phase = "running"
  /\ phase' = "terminating"
  /\ Post(TerminateTask)
  /\ UNCHANGED <<started, clientVars, portalVars, outVars, closes, log>>

TerminateReturns ==
  /\ phase = "terminating"
  /\ tasks = <<>>
  /\ phase' = "terminated"
  /\ UNCHANGED <<sessionVars, closes, log>>

(* The caller takes an answer and closes the descriptor it carries.         *)
Take ==
  /\ answers # <<>>
  /\ answers' = Tail(answers)
  /\ fds' = fds \ {Head(answers).id}
  /\ UNCHANGED <<started, tasks, clientVars, portalVars, ended, woken, clientCallVars, log>>

NewAnswers == SubSeq(answers', Len(answers) + 1, Len(answers'))

CallerBus ==
  /\ BusStep
  /\ log' = log \o [i \in 1 .. Len(NewAnswers) |-> NewAnswers[i].id]
  /\ UNCHANGED clientCallVars

CallerPortal == PortalStep /\ UNCHANGED <<clientCallVars, log>>

CallerNext == Start \/ Close \/ CallerTerminate \/ TerminateReturns \/ Take \/ CallerBus \/ CallerPortal

CallerSpec ==
  /\ CallerInit
  /\ [][CallerNext]_callerVars
  /\ WF_callerVars(CallerBus)
  /\ WF_callerVars(PortalAnswers /\ UNCHANGED <<clientCallVars, log>>)
  /\ WF_callerVars(TerminateReturns)

-----------------------------------------------------------------------------
(* Properties.                                                              *)

StartTasks == {tasks[i].id : i \in {j \in DOMAIN tasks : tasks[j].op = "Start"}}

(* The abstract call: a Start is outstanding from the call until its answer *)
(* is queued, wherever it is meanwhile.                                     *)
Call == INSTANCE AsyncCall WITH
          Calls       <- Cast,
          outstanding <- StartTasks \cup ({callback} \ {None}),
          log         <- log,
          terminated  <- phase # "running" /\ ~\E i \in DOMAIN tasks : tasks[i].op = "Terminate"

(* Every Start is answered exactly once, including the ones refused because *)
(* another is under way, and only Terminate may leave one unanswered        *)
(* (CPortalSession::Start, Finish and Terminate).                           *)
EveryStartIsAnsweredOnce == Call!Spec

(* A Start refused because another is busy leaves that other one, and the   *)
(* session it has open, untouched ("Directly rather than through Finish").  *)
RefusalIsHarmless ==
  [][busy /\ callback' = callback /\ answers' # answers /\ log' # log
       => UNCHANGED <<busy, step, handle, live, slot, open>>]_callerVars

(* Once Terminate has returned no callback fires: nothing is queued and     *)
(* nothing is reported as ended, whatever the portal still sends.           *)
SilentOnceTerminated ==
  [][phase = "terminated" => log' = log /\ ended' = ended]_callerVars

(* Calls do not get in each other's way: a Start, a Close and a Terminate   *)
(* that come at any moment leave what the others have made as they should   *)
(* (CPortalSession::Start, Finish and Terminate).                           *)
CallsStayApart == []CallerTypeOK /\ RefusalIsHarmless /\ SilentOnceTerminated

(* Terminate returns: the caller waiting in Run is released, in whatever    *)
(* state the portal left the request it interrupts.                         *)
CallerIsReleased == phase = "terminating" ~> phase = "terminated"
=============================================================================

---------------------------- MODULE PortalSession ----------------------------
(***************************************************************************)
(* CPortalSession (src/src/capture/private/portal_session.cpp) on the bus  *)
(* thread of CConnection (src/src/bus/private/connection.cpp), with the    *)
(* desktop portal on the other end of the bus.                             *)
(*                                                                         *)
(* Every Start gets a number. It names the Start, the portal session that  *)
(* CreateSession opens for it and the PipeWire descriptor it is granted.   *)
(*                                                                         *)
(* The module has the steps of the bus thread and of the portal; who calls *)
(* Start, Close and Terminate, and who takes the answers, is the business  *)
(* of a module that extends it (PortalClient, Recorder).                   *)
(***************************************************************************)
EXTENDS Naturals, Sequences

CONSTANT MaxStarts        \* how often Start is called, at most

ASSUME MaxStartsAssumption == MaxStarts \in Nat

Cast == 1 .. MaxStarts
None == 0

VARIABLES
  started,      \* how many Starts have been called
  tasks,        \* CConnection: what is posted to the bus thread, oldest first
  initialized,  \* m_initialized
  busy,         \* m_busy
  callback,     \* m_callback: the Start it answers, or None
  step,         \* m_step, and with callback the path m_pResponseSlot listens on
  handle,       \* m_sessionHandle
  live,         \* m_sessionLive
  slot,         \* m_pClosedSlot: the session it listens to, or None
  stray,        \* sessions whose Closed subscription was overwritten, never dropped
  answers,      \* CSession::m_answers: grants nobody has taken yet
  fds,          \* the granted PipeWire descriptors that are open in Klip
  ended,        \* CRecorder::m_withdrawn, which the ended callbacks set
  woken,        \* a wake event waits in the main thread's queue
  open,         \* portal: the sessions it holds open
  asked,        \* portal: the requests it has accepted and not answered
  signals       \* the signals on their way from the portal, oldest first

clientVars  == <<initialized, busy, callback, step, handle, live, slot, stray>>
portalVars  == <<open, asked, signals>>
outVars     == <<answers, fds, ended, woken>>
sessionVars == <<started, tasks, clientVars, portalVars, outVars>>

Steps   == {"CreateSession", "SelectSources", "Start"}
Codes   == {"success", "cancelled", "other"}
Results == {"Success", "Cancelled", "Failed"}

Tasks   == [op : {"Start"}, id : Cast] \cup [op : {"Close", "Terminate"}, id : {None}]
Grants  == [id : Cast, result : Results]
Signals == [name : {"Response"}, id : Cast, step : Steps, code : Codes]
           \cup [name : {"Closed"}, id : Cast]

SessionTypeOK ==
  /\ started \in 0 .. MaxStarts
  /\ tasks \in Seq(Tasks)
  /\ initialized \in BOOLEAN
  /\ busy \in BOOLEAN
  /\ callback \in Cast \cup {None}
  /\ step \in Steps \cup {"None"}
  /\ handle \in Cast \cup {None}
  /\ live \in BOOLEAN
  /\ slot \in Cast \cup {None}
  /\ stray \in SUBSET Cast
  /\ answers \in Seq(Grants)
  /\ fds \in SUBSET Cast
  /\ ended \in BOOLEAN
  /\ woken \in BOOLEAN
  /\ open \in SUBSET Cast
  /\ asked \in SUBSET (Cast \X Steps)
  /\ signals \in Seq(Signals)

(* After Initialize: Probe found a portal fit for use, or it did not.       *)
SessionInit ==
  /\ started = 0
  /\ tasks = <<>>
  /\ initialized \in BOOLEAN
  /\ busy = FALSE
  /\ callback = None
  /\ step = "None"
  /\ handle = None
  /\ live = FALSE
  /\ slot = None
  /\ stray = {}
  /\ answers = <<>>
  /\ fds = {}
  /\ ended = FALSE
  /\ woken = FALSE
  /\ open = {}
  /\ asked = {}
  /\ signals = <<>>

-----------------------------------------------------------------------------
(* The calls other threads make. Each posts a task, which the bus thread    *)
(* runs in the order of posting.                                            *)

(* Mutation of Post: the newest task runs first.                            *)
PostFirst(task) == tasks' = <<task>> \o tasks

Post(task) == tasks' = Append(tasks, task)

StartTask(id) == [op |-> "Start", id |-> id]
CloseTask     == [op |-> "Close", id |-> None]
TerminateTask == [op |-> "Terminate", id |-> None]

(* CSession::Start hands the portal the callback that will queue the answer. *)
PostStart ==
  /\ started < MaxStarts
  /\ started' = started + 1
  /\ Post(StartTask(started'))

-----------------------------------------------------------------------------
(* The pieces the bus thread's steps are made of.                           *)

(* CloseSession: unsubscribes, then asks the portal to close what it holds. *)
CloseSession ==
  /\ handle' = None
  /\ live' = (handle = None /\ live)
  /\ slot' = IF handle = None THEN slot ELSE None
  /\ open' = open \ {handle}

(* Mutation of Deliver: the owner is not woken.                             *)
DeliverQuietly(id, result) ==
  /\ answers' = Append(answers, [id |-> id, result |-> result])
  /\ UNCHANGED woken

(* CSession::Start's callback: queue the grant, wake the owner.             *)
Deliver(id, result) ==
  /\ answers' = Append(answers, [id |-> id, result |-> result])
  /\ woken' = TRUE

(* Mutation of Release: the callback is read after it was reset.            *)
ReleaseAfterReset(result) ==
  /\ busy' = FALSE
  /\ callback' = None
  /\ step' = "None"
  /\ Deliver(callback', result)

(* The end of Finish, which every path of a Start takes exactly once.       *)
Release(result) ==
  /\ busy' = FALSE
  /\ callback' = None
  /\ step' = "None"
  /\ Deliver(callback, result)

(* Finish for anything but a success.                                       *)
FinishWithout(result) ==
  /\ CloseSession
  /\ Release(result)
  /\ UNCHANGED <<initialized, stray, fds, ended, asked>>

(* Request once sd_bus_call has gone through: the portal has accepted it.   *)
Request(id, next) ==
  /\ step' = next
  /\ asked' = asked \cup {<<id, next>>}

-----------------------------------------------------------------------------
(* Tasks.                                                                   *)

(* Mutation of RefuseStart: refused through Finish's close.                 *)
RefuseAndClose(id) ==
  /\ ~initialized \/ busy
  /\ CloseSession
  /\ Deliver(id, "Failed")
  /\ UNCHANGED <<initialized, busy, callback, step, stray, fds, ended, asked, signals>>

(* A Start on a session that is not ready, or that is busy with another one,*)
(* is answered past Finish, which would close the session the other holds.  *)
RefuseStart(id) ==
  /\ ~initialized \/ busy
  /\ Deliver(id, "Failed")
  /\ UNCHANGED <<clientVars, fds, ended, portalVars>>

Begin(id) ==
  /\ initialized
  /\ ~busy
  /\ busy' = TRUE
  /\ callback' = id
  /\ Request(id, "CreateSession")
  /\ UNCHANGED <<initialized, handle, live, slot, stray, outVars, open, signals>>

(* The same Start when the CreateSession call is refused: Finish, at once.  *)
BeginRefused(id) ==
  /\ initialized
  /\ ~busy
  /\ CloseSession
  /\ Deliver(id, "Failed")
  /\ UNCHANGED <<initialized, busy, callback, step, stray, fds, ended, asked, signals>>

(* Mutation of RunStart: a Start waits for the session to be ready for it.  *)
RunStartWhenReady(id) == Begin(id) \/ BeginRefused(id)

RunStart(id) == RefuseStart(id) \/ Begin(id) \/ BeginRefused(id)

RunClose ==
  /\ CloseSession
  /\ UNCHANGED <<initialized, busy, callback, step, stray, outVars, asked, signals>>

(* Mutation of RunTerminate: the request under way keeps its callback.      *)
TerminateKeepingRequest ==
  /\ CloseSession
  /\ initialized' = FALSE
  /\ UNCHANGED <<busy, callback, step, stray, outVars, asked, signals>>

RunTerminate ==
  /\ CloseSession
  /\ initialized' = FALSE
  /\ busy' = FALSE
  /\ callback' = None
  /\ step' = "None"
  /\ UNCHANGED <<stray, outVars, asked, signals>>

RunTask ==
  /\ tasks # <<>>
  /\ LET task == Head(tasks) IN
       \/ task.op = "Start" /\ RunStart(task.id)
       \/ task.op = "Close" /\ RunClose
       \/ task.op = "Terminate" /\ RunTerminate
  /\ tasks' = Tail(tasks)
  /\ UNCHANGED started

-----------------------------------------------------------------------------
(* Signals.                                                                 *)

(* The session exists: follow its Closed, then ask for its sources. The     *)
(* subscription and the handle of an earlier session are overwritten.       *)
OnSessionCreated ==
  /\ handle' = callback
  /\ live' = TRUE
  /\ slot' = callback
  /\ stray' = stray \cup ({slot} \ {None})
  /\ Request(callback, "SelectSources")
  /\ UNCHANGED <<initialized, busy, callback, outVars, open>>

(* The same when it cannot be followed, or SelectSources is refused.        *)
OnSessionUnfollowed ==
  /\ handle' = None
  /\ live' = FALSE
  /\ slot' = None
  /\ stray' = stray \cup ({slot} \ {None})
  /\ open' = open \ {callback}
  /\ Release("Failed")
  /\ UNCHANGED <<initialized, fds, ended, asked>>

(* Mutation of OnSourcesSelected: no answer when the session is gone.       *)
SourcesSelectedUnanswered ==
  \/ /\ handle # None
     /\ Request(callback, "Start")
     /\ UNCHANGED <<initialized, busy, callback, handle, live, slot, stray, outVars, open>>
  \/ /\ handle = None
     /\ UNCHANGED <<clientVars, outVars, open, asked>>

(* Start goes out for the session, unless that session is gone meanwhile.   *)
OnSourcesSelected ==
  \/ /\ handle # None
     /\ Request(callback, "Start")
     /\ UNCHANGED <<initialized, busy, callback, handle, live, slot, stray, outVars, open>>
  \/ FinishWithout("Failed")

(* A stream was granted and the portal handed over its PipeWire remote. No  *)
(* usable stream, no remote and no descriptor all end in a failed grant.    *)
OnStarted ==
  \/ /\ handle \in open
     /\ fds' = fds \cup {callback}
     /\ Release("Success")
     /\ UNCHANGED <<initialized, handle, live, slot, stray, ended, open, asked>>
  \/ FinishWithout("Failed")

OnResponse(answer) ==
  \/ /\ answer.code = "success"
     /\ \/ step = "CreateSession" /\ (OnSessionCreated \/ OnSessionUnfollowed)
        \/ step = "SelectSources" /\ OnSourcesSelected
        \/ step = "Start" /\ OnStarted
  \/ /\ answer.code = "cancelled" /\ step = "Start"
     /\ FinishWithout("Cancelled")
  \/ /\ answer.code # "success"
     /\ ~(answer.code = "cancelled" /\ step = "Start")
     /\ FinishWithout("Failed")

(* Any session's Closed ends the one being followed; the callback does not  *)
(* look at which session the signal came from.                              *)
OnSessionClosed ==
  \/ /\ live
     /\ live' = FALSE
     /\ slot' = None
     /\ handle' = None
     /\ ended' = TRUE
     /\ woken' = TRUE
     /\ UNCHANGED <<initialized, busy, callback, step, stray, answers, fds, open, asked>>
  \/ /\ ~live
     /\ UNCHANGED <<clientVars, outVars, open, asked>>

Heard(signal) ==
  \/ signal.name = "Response" /\ signal.id = callback /\ signal.step = step
  \/ signal.name = "Closed" /\ signal.id \in {slot} \cup stray

Dispatch ==
  /\ signals # <<>>
  /\ LET signal == Head(signals) IN
       \/ /\ Heard(signal)
          /\ \/ signal.name = "Response" /\ OnResponse(signal)
             \/ signal.name = "Closed" /\ OnSessionClosed
       \/ /\ ~Heard(signal)
          /\ UNCHANGED <<clientVars, outVars, open, asked>>
  /\ signals' = Tail(signals)
  /\ UNCHANGED <<started, tasks>>

BusStep == RunTask \/ Dispatch

-----------------------------------------------------------------------------
(* The desktop portal, as portal_session.cpp uses it. It answers each       *)
(* request once, in whatever way it likes, and the compositor or the user   *)
(* may end any open session at any time.                                    *)

PortalRespond(id, at, code) ==
  /\ <<id, at>> \in asked
  /\ asked' = asked \ {<<id, at>>}
  /\ signals' = Append(signals, [name |-> "Response", id |-> id, step |-> at, code |-> code])
  /\ open' = IF at = "CreateSession" /\ code = "success" THEN open \cup {id} ELSE open
  /\ UNCHANGED <<started, tasks, clientVars, outVars>>

PortalClose(id) ==
  /\ id \in open
  /\ open' = open \ {id}
  /\ signals' = Append(signals, [name |-> "Closed", id |-> id])
  /\ UNCHANGED <<started, tasks, clientVars, outVars, asked>>

PortalAnswers == \E id \in Cast, at \in Steps, code \in Codes : PortalRespond(id, at, code)

PortalStep == PortalAnswers \/ \E id \in Cast : PortalClose(id)
=============================================================================

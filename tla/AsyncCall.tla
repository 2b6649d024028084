------------------------------ MODULE AsyncCall ------------------------------
(***************************************************************************)
(* What CPortalSession::Start promises its caller, with the bus, the       *)
(* portal and the steps of a request left out: a call is answered exactly  *)
(* once, calls and answers may interleave, and only Terminate may drop a   *)
(* call that is still outstanding.                                         *)
(***************************************************************************)
EXTENDS Naturals, Sequences

CONSTANT Calls            \* the identities a call may have

VARIABLES
  outstanding,            \* calls made and not answered yet
  log,                    \* the answered calls, in the order of their answers
  terminated              \* TRUE once the component has been told to end

vars == <<outstanding, log, terminated>>

Answered == {log[i] : i \in DOMAIN log}

Init ==
  /\ outstanding = {}
  /\ log = <<>>
  /\ terminated = FALSE

Call(n) ==
  /\ n \notin outstanding \cup Answered
  /\ outstanding' = outstanding \cup {n}
  /\ UNCHANGED <<log, terminated>>

Answer(n) ==
  /\ n \in outstanding
  /\ outstanding' = outstanding \ {n}
  /\ log' = Append(log, n)
  /\ UNCHANGED terminated

Terminate ==
  /\ ~terminated
  /\ terminated' = TRUE
  /\ outstanding' \in SUBSET outstanding
  /\ UNCHANGED log

Next ==
  \/ \E n \in Calls : Call(n) \/ Answer(n)
  \/ Terminate

Spec ==
  /\ Init
  /\ [][Next]_vars
  /\ \A n \in Calls : WF_vars(Answer(n))
=============================================================================

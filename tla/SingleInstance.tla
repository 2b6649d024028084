--------------------------- MODULE SingleInstance ---------------------------
(***************************************************************************)
(* Several Klips started in one session: the bus name that makes one of    *)
(* them the owner, the others that ask it to show itself and leave         *)
(* (CSingleInstance, main.cpp), the owner on its way in and on its way     *)
(* out, and a Klip that dies.  The bus is the session's own: it gives the  *)
(* name away, takes it back from a connection that closes, and answers a   *)
(* call nobody is there for.                                               *)
(***************************************************************************)
EXTENDS Naturals, Sequences, FiniteSets

CONSTANTS
  Klips,                  \* the processes that are started, each once
  None,
  MaxFaults               \* crashes, and names and objects the bus fails to take

ASSUME NoneIsNoKlip == None \notin Klips
ASSUME MaxFaultsAssumption == MaxFaults \in Nat

VARIABLES
  phase,                  \* where main has got to, for each Klip
  owner,                  \* who has the name
  serving,                \* the Klips whose object is on the bus
  open,                   \* the Klips whose application exists
  inbox,                  \* the Activate calls at each Klip's connection
  requests,               \* each application's m_requests: who asked for the window
  reply,                  \* what each call came to: None, "ok" or "failed"
  shown,                  \* history: who asked and has had the window presented
  unnamed,                \* history: the Klips that run without the name
  faults

vars == <<phase, owner, serving, open, inbox, requests, reply, shown, unnamed, faults>>

Asking == {"asking", "calling"}                    \* a second Klip
Running == {"starting", "running", "quitting"}     \* the owner, until it lets go of the name
Alive == Running \cup {"leaving"}

TypeOK ==
  /\ phase \in [Klips -> {"off", "gone"} \cup Asking \cup Alive]
  /\ owner \in Klips \cup {None}
  /\ serving \subseteq open /\ open \subseteq {k \in Klips : phase[k] \in Alive}
  /\ inbox \in [Klips -> Seq(Klips)] /\ requests \in [Klips -> Seq(Klips)]
  /\ reply \in [Klips -> {None, "ok", "failed"}]
  /\ shown \subseteq Klips /\ unnamed \subseteq Klips
  /\ faults \in 0 .. MaxFaults

Init ==
  /\ phase = [k \in Klips |-> "off"] /\ owner = None
  /\ serving = {} /\ open = {}
  /\ inbox = [k \in Klips |-> <<>>] /\ requests = [k \in Klips |-> <<>>]
  /\ reply = [k \in Klips |-> None]
  /\ shown = {} /\ unnamed = {} /\ faults = 0

GoTo(k, p) == phase' = [phase EXCEPT ![k] = p]

Fault == faults < MaxFaults /\ faults' = faults + 1

-----------------------------------------------------------------------------
(* Mutation of Claim: a name that is taken is a failure like any other.     *)
ClaimAnyway(k) ==
  /\ phase[k] = "off"
  /\ IF owner = None THEN owner' = k /\ UNCHANGED unnamed
                     ELSE UNCHANGED <<owner, unnamed>>
  /\ GoTo(k, "starting") /\ open' = open \cup {k}
  /\ UNCHANGED <<serving, inbox, requests, reply, shown, faults>>

(* A name that is taken makes this a second Klip; one that cannot be had    *)
(* for another reason does not.                                             *)
Claim(k) ==
  /\ phase[k] = "off"
  /\ \/ /\ owner = None
        /\ owner' = k
        /\ GoTo(k, "starting") /\ open' = open \cup {k}
        /\ UNCHANGED <<unnamed, faults>>
     \/ /\ owner # None
        /\ GoTo(k, "asking")
        /\ UNCHANGED <<owner, unnamed, open, faults>>
     \/ /\ Fault
        /\ unnamed' = unnamed \cup {k}
        /\ GoTo(k, "starting") /\ open' = open \cup {k}
        /\ UNCHANGED owner
  /\ UNCHANGED <<serving, inbox, requests, reply, shown>>

(* The call goes to whoever has the name when it is sent.                   *)
AskOwnerToShow(k) ==
  /\ phase[k] = "asking"
  /\ IF owner # None
       THEN /\ inbox' = [inbox EXCEPT ![owner] = Append(@, k)]
            /\ GoTo(k, "calling") /\ UNCHANGED reply
       ELSE /\ reply' = [reply EXCEPT ![k] = "failed"]
            /\ GoTo(k, "gone") /\ UNCHANGED inbox
  /\ UNCHANGED <<owner, serving, open, requests, shown, unnamed, faults>>

(* Mutation of Leave: the call waits for its answer, however long.          *)
LeaveAnswered(k) ==
  /\ phase[k] = "calling" /\ reply[k] # None
  /\ GoTo(k, "gone")
  /\ UNCHANGED <<owner, serving, open, inbox, requests, reply, shown, unnamed, faults>>

(* Answered or not, a second Klip leaves.  sd_bus_call gives up after its   *)
(* default time.                                                            *)
Leave(k) ==
  /\ phase[k] = "calling"
  /\ reply' = [reply EXCEPT ![k] = IF @ = None THEN "failed" ELSE @]
  /\ GoTo(k, "gone")
  /\ UNCHANGED <<owner, serving, open, inbox, requests, shown, unnamed, faults>>

(* RunKlip: the window is opened and shown, and from then on calls are      *)
(* served, unless the object cannot be put on the bus: then this Klip runs  *)
(* and none can raise it.  An application that does not open goes straight  *)
(* to its end.                                                              *)
Serve(k) ==
  /\ phase[k] = "starting"
  /\ \/ serving' = serving \cup {k} /\ GoTo(k, "running") /\ UNCHANGED faults
     \/ Fault /\ GoTo(k, "running") /\ UNCHANGED serving
     \/ GoTo(k, "quitting") /\ UNCHANGED <<serving, faults>>
  /\ UNCHANGED <<owner, open, inbox, requests, reply, shown, unnamed>>

(* OnActivate, on the bus thread.  Before Serve and after Terminate there   *)
(* is no object to call, and sd-bus says so.                                *)
OnActivate(k) ==
  /\ phase[k] \in Alive /\ inbox[k] # <<>>
  /\ inbox' = [inbox EXCEPT ![k] = Tail(@)]
  /\ LET caller == Head(inbox[k])
     IN  /\ requests' = IF k \in serving THEN [requests EXCEPT ![k] = Append(@, caller)] ELSE requests
         /\ reply' = IF phase[caller] = "calling"
                       THEN [reply EXCEPT ![caller] = IF k \in serving THEN "ok" ELSE "failed"]
                       ELSE reply
  /\ UNCHANGED <<phase, owner, serving, open, shown, unnamed, faults>>

(* Mutation of TakeRequests: one request for each time it is woken.         *)
TakeRequestsOnce(k) ==
  /\ phase[k] = "running" /\ Len(requests[k]) = 1
  /\ requests' = [requests EXCEPT ![k] = <<>>]
  /\ shown' = shown \cup {Head(requests[k])}
  /\ UNCHANGED <<phase, owner, serving, open, inbox, reply, unnamed, faults>>

(* CApplication::TakeRequests, one of them: the window is presented.        *)
TakeRequests(k) ==
  /\ phase[k] = "running" /\ requests[k] # <<>>
  /\ requests' = [requests EXCEPT ![k] = Tail(@)]
  /\ shown' = shown \cup {Head(requests[k])}
  /\ UNCHANGED <<phase, owner, serving, open, inbox, reply, unnamed, faults>>

(* The user quits, and what is queued behind the Quit is not taken.         *)
Quit(k) ==
  /\ phase[k] = "running"
  /\ GoTo(k, "quitting")
  /\ UNCHANGED <<owner, serving, open, inbox, requests, reply, shown, unnamed, faults>>

(* Mutation of Terminate: the application's end comes first.                *)
TerminateLast(k) ==
  \/ /\ phase[k] = "quitting" /\ k \in open
     /\ open' = open \ {k}
     /\ UNCHANGED <<phase, owner, serving>>
  \/ /\ phase[k] = "quitting" /\ k \notin open
     /\ serving' = serving \ {k}
     /\ owner' = IF owner = k THEN None ELSE owner
     /\ GoTo(k, "leaving") /\ UNCHANGED open

(* CSingleInstance::Terminate, which comes before the application's own.    *)
Terminate(k) ==
  /\ phase[k] = "quitting"
  /\ serving' = serving \ {k}
  /\ owner' = IF owner = k THEN None ELSE owner
  /\ GoTo(k, "leaving")
  /\ UNCHANGED open

(* A connection that closes leaves its callers an error and the name free.  *)
Disconnect(k) ==
  /\ GoTo(k, "gone")
  /\ open' = open \ {k} /\ serving' = serving \ {k}
  /\ owner' = IF owner = k THEN None ELSE owner
  /\ inbox' = [inbox EXCEPT ![k] = <<>>]
  /\ reply' = [c \in Klips |-> IF \E i \in DOMAIN inbox[k] : inbox[k][i] = c /\ phase[c] = "calling"
                                 THEN "failed" ELSE reply[c]]
  /\ requests' = [requests EXCEPT ![k] = <<>>]
  /\ UNCHANGED <<shown, unnamed>>

(* The application's Terminate, and the bus connection's.                   *)
Exit(k) == phase[k] = "leaving" /\ Disconnect(k) /\ UNCHANGED faults

Crash(k) == phase[k] \in Alive /\ Fault /\ Disconnect(k)

-----------------------------------------------------------------------------
Ends(k) == Terminate(k) /\ UNCHANGED <<inbox, requests, reply, shown, unnamed, faults>>

Klip(k) ==
  \/ Claim(k) \/ AskOwnerToShow(k) \/ Leave(k) \/ Serve(k) \/ OnActivate(k)
  \/ TakeRequests(k) \/ Quit(k) \/ Ends(k) \/ Exit(k) \/ Crash(k)

Next == \E k \in Klips : Klip(k)

(* A Klip that was started goes on; nobody has to quit or to crash.         *)
Spec ==
  /\ Init /\ [][Next]_vars
  /\ \A k \in Klips :
       /\ WF_vars(AskOwnerToShow(k)) /\ WF_vars(Leave(k)) /\ WF_vars(Serve(k))
       /\ WF_vars(TakeRequests(k)) /\ WF_vars(Ends(k)) /\ WF_vars(Exit(k))

-----------------------------------------------------------------------------
(* Properties.                                                              *)

(* Of the Klips that got the name or were refused it for being taken, one   *)
(* runs at a time: the next cannot open its window before the one before it *)
(* is past its loop (CSingleInstance::Claim and Terminate).                 *)
OneKlipRuns ==
  Cardinality({k \in Klips \ unnamed : phase[k] \in Running}) <= 1

(* No call of a second Klip reaches an application that is coming down or   *)
(* gone ("First: its callback points at the application", main.cpp).        *)
CallbackHasItsApplication ==
  [][\A k \in Klips : Len(requests'[k]) > Len(requests[k]) => k \in open]_vars

(* One Klip at a time, and its callback only while there is an application  *)
(* for it to call.                                                          *)
KlipsTakeTurns == [](TypeOK /\ OneKlipRuns) /\ CallbackHasItsApplication

(* A second Klip never stays: it leaves whatever becomes of the owner it    *)
(* asked, which may be dead, deaf or a different one by then.               *)
EveryLaunchEnds == \A k \in Klips : phase[k] \in Asking ~> phase[k] = "gone"

(* Each call a Klip has accepted gets its window, however many came         *)
(* together, unless that Klip quits or dies first.                          *)
AcceptedIsShown ==
  \A c, k \in Klips :
    (\E i \in DOMAIN requests[k] : requests[k][i] = c) ~> c \in shown \/ phase[k] # "running"

(* Every launch is settled, the second one's and the owner's part of it.    *)
LaunchesSettle == EveryLaunchEnds /\ AcceptedIsShown

(* Starting Klip ends with a Klip on screen: a second one leaves only to    *)
(* one that has shown itself, or that is still to open its window or to     *)
(* take the request ("better two windows than none",                        *)
(* CSingleInstance::Claim).                                                 *)
BetterTwoThanNone ==
  \A c \in Klips :
    phase[c] = "gone" /\ reply[c] # None
      => c \in shown \/ \E k \in Klips : phase[k] \in {"starting", "running"}
=============================================================================

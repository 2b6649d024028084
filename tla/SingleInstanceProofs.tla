------------------------ MODULE SingleInstanceProofs ------------------------
(***************************************************************************)
(* Proofs about SingleInstance for any number of Klips and failures: of    *)
(* those that were given the name one runs at a time, and the callback of  *)
(* the one that serves always has its application.                         *)
(***************************************************************************)
EXTENDS SingleInstance, FiniteSetTheorems, SequenceTheorems, TLAPS

(* A Klip past its loop cannot have the name, and one before it that is not *)
(* running without one has it: this is what keeps two from running.         *)
RunnersOwn == \A k \in Klips : phase[k] \in Running /\ k \notin unnamed => owner = k

(* An application exists for as long as its process has a use for it.       *)
OpenWhileAlive == \A k \in Klips : phase[k] \in Alive => k \in open

Inv == TypeOK /\ RunnersOwn /\ OpenWhileAlive

(* Everyone who runs with the name has the one name there is.               *)
LEMMA OneOwner == Inv => OneKlipRuns
<1> SUFFICES ASSUME Inv PROVE OneKlipRuns
  OBVIOUS
<1> DEFINE R == {k \in Klips \ unnamed : phase[k] \in Running}
<1>1. R \subseteq {owner}
  BY DEF Inv, RunnersOwn
<1>2. IsFiniteSet({owner}) /\ Cardinality({owner}) = 1
  BY FS_Singleton
<1>3. Cardinality(R) <= 1
  BY <1>1, <1>2, FS_Subset
<1> QED
  BY <1>3 DEF OneKlipRuns

(* Nobody has asked, nobody runs.                                           *)
LEMMA InitInv == Init => Inv
<1> SUFFICES ASSUME Init PROVE Inv
  OBVIOUS
<1>1. TypeOK
  BY NoneIsNoKlip, MaxFaultsAssumption DEF Init, TypeOK, Alive, Running, Asking
<1>2. RunnersOwn /\ OpenWhileAlive
  BY DEF Init, RunnersOwn, OpenWhileAlive, Alive, Running
<1> QED
  BY <1>1, <1>2 DEF Inv

(* The bus forgets a connection that closes: its name, its object, what was *)
(* on the way to it.                                                        *)
LEMMA DisconnectInv ==
  ASSUME Inv, NEW k \in Klips, Disconnect(k), faults' \in 0 .. MaxFaults
  PROVE  Inv' /\ \A c \in Klips : Len(requests'[c]) <= Len(requests[c])
<1> USE DEF Inv, TypeOK, Disconnect, GoTo
<1>1. /\ phase' \in [Klips -> {"off", "gone"} \cup Asking \cup Alive]
      /\ owner' \in Klips \cup {None}
      /\ unnamed' \subseteq Klips /\ shown' \subseteq Klips
  OBVIOUS
<1>2. serving' \subseteq open' /\ open' \subseteq {c \in Klips : phase'[c] \in Alive}
  OBVIOUS
<1>3. inbox' \in [Klips -> Seq(Klips)] /\ requests' \in [Klips -> Seq(Klips)]
  OBVIOUS
<1>4. reply' \in [Klips -> {None, "ok", "failed"}]
  OBVIOUS
<1>5. RunnersOwn' /\ OpenWhileAlive'
  BY NoneIsNoKlip DEF RunnersOwn, Running, OpenWhileAlive, Alive
<1>6. \A c \in Klips : Len(requests'[c]) <= Len(requests[c])
  OBVIOUS
<1> QED
  BY <1>1, <1>2, <1>3, <1>4, <1>5, <1>6

(* Every step keeps the invariant, and calls an application that is there.  *)
LEMMA StepInv ==
  ASSUME Inv, [Next]_vars
  PROVE  /\ Inv'
         /\ \A c \in Klips : Len(requests'[c]) > Len(requests[c]) => c \in open
<1> DEFINE Calls == \A c \in Klips : Len(requests'[c]) > Len(requests[c]) => c \in open
<1> USE DEF Inv, Calls
<1>12. \A c \in Klips :
           requests[c] \in Seq(Klips) /\ inbox[c] \in Seq(Klips) /\ Len(requests[c]) \in Nat
  BY DEF TypeOK
<1>stutter. CASE UNCHANGED vars
  BY <1>stutter, <1>12 DEF vars, TypeOK, RunnersOwn, OpenWhileAlive
<1>1. ASSUME NEW k \in Klips, Claim(k) PROVE Inv' /\ Calls
  <2> USE <1>1 DEF Claim, GoTo
  <2>1. phase' \in [Klips -> {"off", "gone"} \cup Asking \cup Alive] /\ owner' \in Klips \cup {None}
    BY DEF TypeOK, Alive, Running, Asking
  <2>2. serving' \subseteq open' /\ open' \subseteq {c \in Klips : phase'[c] \in Alive}
    BY DEF TypeOK, Alive, Running, Asking
  <2>3. unnamed' \subseteq Klips /\ faults' \in 0 .. MaxFaults
    BY MaxFaultsAssumption DEF TypeOK, Fault
  <2>4. TypeOK'
    BY <2>1, <2>2, <2>3 DEF TypeOK
  <2>5. RunnersOwn' /\ OpenWhileAlive'
    BY NoneIsNoKlip DEF TypeOK, RunnersOwn, Running, Asking, OpenWhileAlive, Alive
  <2> QED
    BY <2>4, <2>5, <1>12
<1>2. ASSUME NEW k \in Klips, AskOwnerToShow(k) PROVE Inv' /\ Calls
  <2> USE <1>2 DEF AskOwnerToShow, GoTo
  <2>0. phase' = [phase EXCEPT ![k] = "calling"] \/ phase' = [phase EXCEPT ![k] = "gone"]
    OBVIOUS
  <2>1. phase' \in [Klips -> {"off", "gone"} \cup Asking \cup Alive]
    BY ONLY <2>0, TypeOK DEF TypeOK, Asking
  <2>2. serving' \subseteq open' /\ open' \subseteq {c \in Klips : phase'[c] \in Alive}
    BY DEF TypeOK, Alive, Running, Asking
  <2>3. inbox' \in [Klips -> Seq(Klips)]
    <3>1. CASE owner = None
      BY <3>1 DEF TypeOK
    <3>2. CASE owner # None
      <4>1. Append(inbox[owner], k) \in Seq(Klips)
        BY <3>2, <1>12, AppendProperties DEF TypeOK
      <4> QED
        BY <4>1, <3>2 DEF TypeOK
    <3> QED
      BY <3>1, <3>2
  <2>4. reply' \in [Klips -> {None, "ok", "failed"}]
    BY DEF TypeOK
  <2>5. TypeOK'
    BY <2>1, <2>2, <2>3, <2>4 DEF TypeOK
  <2>6. RunnersOwn' /\ OpenWhileAlive'
    BY DEF TypeOK, RunnersOwn, Running, Asking, OpenWhileAlive, Alive
  <2> QED
    BY <2>5, <2>6, <1>12
<1>3. ASSUME NEW k \in Klips, Leave(k) PROVE Inv' /\ Calls
  <2> USE <1>3 DEF Leave, GoTo
  <2>1. phase' \in [Klips -> {"off", "gone"} \cup Asking \cup Alive]
    BY DEF TypeOK, Alive, Running, Asking
  <2>2. serving' \subseteq open' /\ open' \subseteq {c \in Klips : phase'[c] \in Alive}
    BY DEF TypeOK, Alive, Running, Asking
  <2>3. inbox' \in [Klips -> Seq(Klips)] /\ reply' \in [Klips -> {None, "ok", "failed"}]
    BY <1>12 DEF TypeOK
  <2>4. TypeOK'
    BY <2>1, <2>2, <2>3 DEF TypeOK
  <2>5. RunnersOwn' /\ OpenWhileAlive'
    BY DEF TypeOK, RunnersOwn, Running, Asking, OpenWhileAlive, Alive
  <2> QED
    BY <2>4, <2>5, <1>12
<1>4. ASSUME NEW k \in Klips, Serve(k) PROVE Inv' /\ Calls
  <2> USE <1>4 DEF Serve, GoTo
  <2>1. phase' \in [Klips -> {"off", "gone"} \cup Asking \cup Alive]
    BY DEF TypeOK, Alive, Running, Asking
  <2>2. serving' \subseteq open' /\ open' \subseteq {c \in Klips : phase'[c] \in Alive}
    BY DEF TypeOK, OpenWhileAlive, Alive, Running, Asking
  <2>3. faults' \in 0 .. MaxFaults
    BY MaxFaultsAssumption DEF TypeOK, Fault
  <2>4. TypeOK'
    BY <2>1, <2>2, <2>3 DEF TypeOK
  <2>5. RunnersOwn' /\ OpenWhileAlive'
    BY DEF TypeOK, RunnersOwn, Running, Asking, OpenWhileAlive, Alive
  <2> QED
    BY <2>4, <2>5, <1>12
<1>5. ASSUME NEW k \in Klips, OnActivate(k) PROVE Inv' /\ Calls
  <2> USE <1>5 DEF OnActivate
  <2>1. Head(inbox[k]) \in Klips /\ Tail(inbox[k]) \in Seq(Klips)
    BY <1>12
  <2>2. inbox' \in [Klips -> Seq(Klips)] /\ reply' \in [Klips -> {None, "ok", "failed"}]
    BY <2>1 DEF TypeOK
  <2>3. requests' \in [Klips -> Seq(Klips)]
    BY <2>1, <1>12 DEF TypeOK
  <2>4. TypeOK'
    BY <2>2, <2>3 DEF TypeOK
  <2>5. RunnersOwn' /\ OpenWhileAlive'
    BY DEF RunnersOwn, OpenWhileAlive, Alive
  <2>6. Calls
    BY <2>1, <1>12 DEF TypeOK
  <2> QED
    BY <2>4, <2>5, <2>6
<1>6. ASSUME NEW k \in Klips, TakeRequests(k) PROVE Inv' /\ Calls
  <2> USE <1>6 DEF TakeRequests
  <2>1. /\ Head(requests[k]) \in Klips /\ Tail(requests[k]) \in Seq(Klips)
        /\ Len(Tail(requests[k])) < Len(requests[k])
    BY <1>12
  <2>2. TypeOK'
    BY <2>1, <1>12 DEF TypeOK
  <2>3. RunnersOwn' /\ OpenWhileAlive'
    BY DEF RunnersOwn, OpenWhileAlive, Alive
  <2>4. Calls
    BY <2>1, <1>12 DEF TypeOK
  <2> QED
    BY <2>2, <2>3, <2>4
<1>7. ASSUME NEW k \in Klips, Quit(k) PROVE Inv' /\ Calls
  <2> USE <1>7 DEF Quit, GoTo
  <2>1. TypeOK'
    BY DEF TypeOK, Alive, Running, Asking
  <2>2. RunnersOwn' /\ OpenWhileAlive'
    BY DEF TypeOK, RunnersOwn, Running, Asking, OpenWhileAlive, Alive
  <2> QED
    BY <2>1, <2>2, <1>12
<1>8. ASSUME NEW k \in Klips, Ends(k) PROVE Inv' /\ Calls
  <2> USE <1>8 DEF Ends, Terminate, GoTo
  <2>1. TypeOK'
    BY DEF TypeOK, Alive, Running, Asking
  <2>2. RunnersOwn' /\ OpenWhileAlive'
    BY NoneIsNoKlip DEF TypeOK, RunnersOwn, Running, Asking, OpenWhileAlive, Alive
  <2> QED
    BY <2>1, <2>2, <1>12
<1>9. ASSUME NEW k \in Klips, Exit(k) PROVE Inv' /\ Calls
  <2>1. faults' \in 0 .. MaxFaults
    BY <1>9 DEF Exit, TypeOK
  <2>2. Disconnect(k)
    BY <1>9 DEF Exit
  <2>3. Inv' /\ \A c \in Klips : Len(requests'[c]) <= Len(requests[c])
    BY <2>1, <2>2, DisconnectInv
  <2>4. \A c \in Klips : Len(requests'[c]) \in Nat
    BY <2>3, LenProperties DEF TypeOK
  <2> QED
    BY <2>3, <2>4, <1>12
<1>10. ASSUME NEW k \in Klips, Crash(k) PROVE Inv' /\ Calls
  <2>1. faults' \in 0 .. MaxFaults
    BY <1>10, MaxFaultsAssumption DEF Crash, Fault, TypeOK
  <2>2. Disconnect(k)
    BY <1>10 DEF Crash
  <2>3. Inv' /\ \A c \in Klips : Len(requests'[c]) <= Len(requests[c])
    BY <2>1, <2>2, DisconnectInv
  <2>4. \A c \in Klips : Len(requests'[c]) \in Nat
    BY <2>3, LenProperties DEF TypeOK
  <2> QED
    BY <2>3, <2>4, <1>12
<1> QED
  BY <1>stutter, <1>1, <1>2, <1>3, <1>4, <1>5, <1>6, <1>7, <1>8, <1>9, <1>10 DEF Next, Klip

(* Of the Klips that were given the name one runs at a time, and no call of *)
(* a second one reaches an application that is coming down or gone, however *)
(* many are started, quit and die (CSingleInstance, main.cpp).              *)
THEOREM KlipsAreInTurn == Spec => KlipsTakeTurns
<1>1. Init => Inv
  BY InitInv
<1>2. Inv /\ [Next]_vars => Inv'
  BY StepInv
<1>3. Spec => []Inv
  BY <1>1, <1>2, PTL DEF Spec
<1>4. Inv => TypeOK /\ OneKlipRuns
  BY OneOwner DEF Inv
<1>5. Inv /\ [Next]_vars =>
        [\A k \in Klips : Len(requests'[k]) > Len(requests[k]) => k \in open]_vars
  BY StepInv
<1>6. Spec => CallbackHasItsApplication
  BY <1>3, <1>5, PTL DEF Spec, CallbackHasItsApplication
<1> QED
  BY <1>3, <1>4, <1>6, PTL DEF KlipsTakeTurns
=============================================================================

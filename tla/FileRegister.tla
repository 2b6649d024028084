---------------------------- MODULE FileRegister ----------------------------
(***************************************************************************)
(* What WriteFileAtomically promises, with temporary files, permissions    *)
(* and links left out: a file of one value that several programs write at  *)
(* once. A write takes effect whole and at one point, or not at all, its   *)
(* result says which, and after a loss of power the file holds a value     *)
(* that was in it before.                                                  *)
(***************************************************************************)
CONSTANTS
  Writers,                \* the programs that write the file
  Texts,                  \* what they may write
  NoText                  \* no file, or no text being written

VARIABLES
  value,                  \* what a reader of the file gets
  kept,                   \* what is certain to survive a loss of power
  call,                   \* per writer: the text it is writing, or NoText
  stored                  \* per writer: its text has been in the file

vars == <<value, kept, call, stored>>

Init ==
  /\ value \in Texts \cup {NoText}
  /\ kept = value
  /\ call = [w \in Writers |-> NoText]
  /\ stored = [w \in Writers |-> FALSE]

Begin(w) ==
  /\ call[w] = NoText
  /\ \E t \in Texts : call' = [call EXCEPT ![w] = t]
  /\ stored' = [stored EXCEPT ![w] = FALSE]
  /\ UNCHANGED <<value, kept>>

Store(w) ==
  /\ call[w] # NoText
  /\ ~stored[w]
  /\ value' = call[w]
  /\ stored' = [stored EXCEPT ![w] = TRUE]
  /\ UNCHANGED <<kept, call>>

(* The writer returns, or its program dies: nothing more comes of the call. *)
End(w) ==
  /\ call' = [call EXCEPT ![w] = NoText]
  /\ stored' = [stored EXCEPT ![w] = FALSE]
  /\ UNCHANGED <<value, kept>>

Flush ==
  /\ kept' = value
  /\ UNCHANGED <<value, call, stored>>

PowerLoss ==
  /\ value' \in {value, kept}
  /\ kept' = value'
  /\ call' = [w \in Writers |-> NoText]
  /\ stored' = [w \in Writers |-> FALSE]

Next ==
  \/ \E w \in Writers : Begin(w) \/ Store(w) \/ End(w)
  \/ Flush
  \/ PowerLoss

Spec == Init /\ [][Next]_vars
=============================================================================

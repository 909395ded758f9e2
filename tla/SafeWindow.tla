----------------------------- MODULE SafeWindow -----------------------------
(***************************************************************************)
(* What the key window promises, without the mechanism: the node is        *)
(* exposed (key-management RPC is, or will be, served) only while someone  *)
(* is bound to close it, and the last one to leave leaves it closed.  The  *)
(* promise is void once an owner was lost.                                 *)
(***************************************************************************)
CONSTANT Owner

VARIABLES exposed, owners, lost

vars == <<exposed, owners, lost>>

Init == exposed = FALSE /\ owners = {} /\ lost = FALSE

\* A new owner takes on the duty before anything is exposed on its account.
Enter(h) ==
  /\ h \in Owner \ owners
  /\ owners' = owners \cup {h}
  /\ exposed' \in BOOLEAN
  /\ UNCHANGED lost

\* While it is owned (or lost) the door opens and shuts as the owners work.
Work ==
  /\ owners # {} \/ lost
  /\ exposed' \in BOOLEAN
  /\ UNCHANGED <<owners, lost>>

\* Whoever leaves may leave it open only to another owner.
Leave(h) ==
  /\ h \in owners
  /\ owners' = owners \ {h}
  /\ exposed' \in BOOLEAN
  /\ exposed' => owners' # {} \/ lost
  /\ UNCHANGED lost

Lose ==
  /\ lost' = TRUE
  /\ owners' \in SUBSET owners
  /\ exposed' \in BOOLEAN

Next == Work \/ Lose \/ \E h \in Owner : Enter(h) \/ Leave(h)

Spec == Init /\ [][Next]_vars

\* The promise.
Owned == exposed => owners # {} \/ lost
=============================================================================

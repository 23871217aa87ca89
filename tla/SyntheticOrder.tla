--------------------------- MODULE SyntheticOrder ---------------------------
(***************************************************************************)
(* What the harness promises the other readers of test-tenant-orders about   *)
(* the order it writes itself for a negotiation ("so the demo UI shows the   *)
(* PO step"), whatever it polls, when and how often: as long as it has not   *)
(* been restarted it writes one at most, and it deletes it only while a real  *)
(* order is in the table.  A restart forgets the order, but not the uuids,    *)
(* which are never drawn again.                                            *)
(***************************************************************************)
CONSTANTS
  RealOrder,   \* order ids the orchestrator delivers
  SynOrder     \* uuid4 values for the harness's own orders

VARIABLES
  rows,        \* the ids in the table
  spent,       \* uuids that have been put, or never will be
  forgotten    \* has the harness been restarted?

vars == <<rows, spent, forgotten>>

Init == rows = {} /\ spent = {} /\ forgotten = FALSE

Deliver(o) ==
  /\ o \notin rows /\ rows' = rows \cup {o}
  /\ UNCHANGED <<spent, forgotten>>

Spend(o) ==
  /\ o \notin spent /\ spent' = spent \cup {o}
  /\ spent = {} \/ forgotten

Put(o) == Spend(o) /\ rows' = rows \cup {o} /\ UNCHANGED forgotten

(* The put fails. *)
GiveUp(o) == Spend(o) /\ UNCHANGED <<rows, forgotten>>

Drop(o) ==
  /\ o \in rows /\ rows' = rows \ {o}
  /\ rows \cap RealOrder # {} \/ forgotten
  /\ UNCHANGED <<spent, forgotten>>

(* reset_demo *)
Empty == rows' = {} /\ UNCHANGED <<spent, forgotten>>

Forget == forgotten' = TRUE /\ UNCHANGED <<rows, spent>>

Next ==
  \/ \E o \in RealOrder : Deliver(o)
  \/ \E o \in SynOrder : Put(o) \/ GiveUp(o) \/ Drop(o)
  \/ Empty \/ Forget

Spec == Init /\ [][Next]_vars
=============================================================================

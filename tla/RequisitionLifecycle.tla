------------------------ MODULE RequisitionLifecycle ------------------------
(***************************************************************************)
(* What the requisitions API promises about one requisition, whatever      *)
(* handlers and dictionaries are behind it: the workflow only moves         *)
(* forward, an approver decides a paused requisition once, at most one      *)
(* purchase order comes out of it, the strategy is re-run at most once, and *)
(* nothing but a cancellation touches a decided requisition.               *)
(***************************************************************************)
EXTENDS Naturals

VARIABLES
  state,   \* "none" before the requisition is created
  pos,     \* purchase orders emitted for it
  reruns   \* times the strategy was run again

lifecycle == <<state, pos, reruns>>

(* The stages a requisition goes through by itself, in their order. *)
Stages == <<"NEW", "ACTIVE", "IN_NEGOTIATION", "PENDING_HUMAN_APPROVAL">>
Paused == Stages[4]

Init == state = "none" /\ pos = 0 /\ reruns = 0

Create == state = "none" /\ state' = "NEW" /\ UNCHANGED <<pos, reruns>>

Progress ==
  \E i, j \in 1..4 :
    /\ i < j /\ state = Stages[i] /\ state' = Stages[j]
    /\ UNCHANGED <<pos, reruns>>

Approve ==
  /\ state = Paused /\ state' = "COMPLETED"
  /\ pos' = pos + 1 /\ UNCHANGED reruns

Reject == state = Paused /\ state' = "CANCELLED" /\ UNCHANGED <<pos, reruns>>

Rerun ==
  /\ state = Paused /\ reruns = 0
  /\ state' = "IN_NEGOTIATION" /\ reruns' = 1 /\ UNCHANGED pos

HandOff ==
  /\ state = Paused /\ reruns = 1
  /\ state' = "REQUIRES_ATTENTION" /\ UNCHANGED <<pos, reruns>>

Cancel == state # "none" /\ state' = "CANCELLED" /\ UNCHANGED <<pos, reruns>>

Next == Create \/ Progress \/ Approve \/ Reject \/ Rerun \/ HandOff \/ Cancel

Spec == Init /\ [][Next]_lifecycle
=============================================================================

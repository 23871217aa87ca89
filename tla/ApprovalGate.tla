---------------------------- MODULE ApprovalGate ----------------------------
(***************************************************************************)
(* Deciding a paused negotiation in SKILL_MODE=live: the approval panel of  *)
(* the demo and approve_negotiation behind it, the tenant application's      *)
(* approve, reject, cycle_back and cancel, and the graph_client they share,  *)
(* which invokes the Lambda of Node 6.                                      *)
(*                                                                         *)
(* The execution, the rows its nodes write and the Lambda are external:      *)
(* what is assumed of them is what graph_client.py and                      *)
(* master_data_client.py say of Node 6 and Node 7.  An invocation whose      *)
(* response is lost is tried again by boto3, which knows nothing of tokens. *)
(***************************************************************************)
EXTENDS Naturals

CONSTANTS
  Request,    \* requests made about this negotiation
  Kinds,      \* which of them are made: "panel", "tenant", "cancel", "confirm"
  MaxLost,    \* bound: responses of the Lambda lost, so that boto3 invokes it again
  MaxErrors   \* bound: invocations that raise or end in a FunctionError

ASSUME GateAssumption ==
  /\ Kinds \subseteq {"panel", "tenant", "cancel", "confirm"}
  /\ {MaxLost, MaxErrors} \subseteq Nat

VARIABLES
  \* the orchestrator
  exec,     \* "negotiating", "paused", "released", "awarding" or "ended"
  verdict,  \* the decision the gate was released with last
  cycled,   \* has the strategy been run again?
  orders,   \* purchase orders issued
  req, neg, \* status of the requisition row, and of the negotiation row
  \* the harness
  offered,  \* has a snapshot been PENDING_APPROVAL, so that a page has the panel?
  \* the requests
  kind, decision, at, told,
  inPause,  \* observation: was the gate paused when the request was made?
  took,     \* observation: did the gate take this request's decision?
  refused,  \* observation: the requests whose approver the claims gate turned away
  lost, errors

orchestrator == <<exec, verdict, cycled, orders, req, neg>>
requests     == <<kind, decision, inPause, refused, at, told, took>>
bounds       == <<lost, errors>>
vars         == <<orchestrator, offered, requests, bounds>>

Decision == {"APPROVED", "REJECTED", "CYCLE_BACK"}
Pending == "PENDING_HUMAN_APPROVAL"
NegStatus == {"NEGOTIATING", "PENDING_APPROVAL", "APPROVED", "AWARDED", "CLOSED"}
Point == {"idle", "invoke", "taken", "no pending", "denied", "raised",
          "function error", "recheck", "set", "answered"}
Reply == {"none", "ok", "already", "error", "409", "500", "cancelled"}

TypeOK ==
  /\ exec \in {"negotiating", "paused", "released", "awarding", "ended"}
  /\ verdict \in Decision /\ {cycled, offered} \subseteq BOOLEAN /\ orders \in Nat
  /\ req \in {"IN_NEGOTIATION", Pending, "COMPLETED", "CANCELLED", "REQUIRES_ATTENTION"}
  /\ neg \in NegStatus
  /\ kind \in [Request -> Kinds \cup {"none"}] /\ decision \in [Request -> Decision]
  /\ at \in [Request -> Point] /\ told \in [Request -> Reply]
  /\ inPause \in [Request -> BOOLEAN] /\ took \in [Request -> BOOLEAN]
  /\ refused \subseteq Request
  /\ lost \in 0..MaxLost /\ errors \in 0..MaxErrors

Init ==
  /\ exec = "negotiating" /\ verdict = "APPROVED" /\ cycled = FALSE
  /\ orders = 0 /\ req = "IN_NEGOTIATION" /\ neg = "NEGOTIATING"
  /\ offered = FALSE
  /\ kind = [r \in Request |-> "none"] /\ decision = [r \in Request |-> "APPROVED"]
  /\ at = [r \in Request |-> "idle"] /\ told = [r \in Request |-> "none"]
  /\ inPause = [r \in Request |-> FALSE] /\ took = [r \in Request |-> FALSE]
  /\ refused = {} /\ lost = 0 /\ errors = 0

(***************************************************************************)
(* The orchestrator (external)                                             *)
(***************************************************************************)
Pause ==
  /\ exec = "negotiating" /\ exec' = "paused"
  /\ neg' = "PENDING_APPROVAL" /\ req' = Pending
  /\ UNCHANGED <<verdict, cycled, orders, offered, requests, bounds>>

AutoApprove ==
  /\ exec = "negotiating" /\ exec' = "awarding"
  /\ neg' = "APPROVED"
  /\ UNCHANGED <<verdict, cycled, orders, req, offered, requests, bounds>>

(* What Node 6 does after the token is back, before which its rows still
   say that it is paused.                                                  *)
Settle ==
  /\ exec = "released"
  /\ \/ /\ verdict = "APPROVED"
        /\ exec' = "awarding" /\ neg' = "APPROVED" /\ UNCHANGED <<cycled, req>>
     \/ /\ verdict = "REJECTED"
        /\ exec' = "ended" /\ neg' = "CLOSED" /\ req' = "CANCELLED" /\ UNCHANGED cycled
     \/ /\ verdict = "CYCLE_BACK" /\ ~cycled
        /\ exec' = "negotiating" /\ neg' = "NEGOTIATING" /\ req' = "IN_NEGOTIATION"
        /\ cycled' = TRUE
     \/ /\ verdict = "CYCLE_BACK" /\ cycled
        /\ exec' = "ended" /\ neg' = "CLOSED" /\ req' = "REQUIRES_ATTENTION"
        /\ UNCHANGED cycled
  /\ UNCHANGED <<verdict, orders, offered, requests, bounds>>

(* Node 7 *)
Award ==
  /\ exec = "awarding" /\ exec' = "ended"
  /\ orders' = orders + 1 /\ neg' = "AWARDED" /\ req' = "COMPLETED"
  /\ UNCHANGED <<verdict, cycled, offered, requests, bounds>>

(* Node 6 resumed with r's decision: it is taken if the gate is paused. *)
Resume(r) ==
  IF exec = "paused"
  THEN /\ exec' = "released" /\ verdict' = decision[r]
       /\ took' = [took EXCEPT ![r] = TRUE]
  ELSE UNCHANGED <<exec, verdict, took>>

Result == IF exec = "paused" THEN "taken" ELSE "no pending"

(***************************************************************************)
(* The harness polls the negotiation row.                                  *)
(***************************************************************************)
Poll ==
  /\ offered' = (offered \/ neg = "PENDING_APPROVAL")
  /\ UNCHANGED <<orchestrator, requests, bounds>>

(***************************************************************************)
(* Requests                                                                *)
(***************************************************************************)
Goto(r, p) == at' = [at EXCEPT ![r] = p]
Tell(r, t) == Goto(r, "answered") /\ told' = [told EXCEPT ![r] = t]

Ask(r, k, d) ==
  /\ at[r] = "idle" /\ k \in Kinds
  /\ kind' = [kind EXCEPT ![r] = k] /\ decision' = [decision EXCEPT ![r] = d]
  /\ inPause' = [inPause EXCEPT ![r] = exec = "paused"]
  /\ UNCHANGED <<orchestrator, offered, took, refused, bounds>>

(* Timeline renders the panel when the snapshot is PENDING_APPROVAL, and a
   page may be older than the projection; approve_negotiation itself looks
   at no row first.                                                        *)
AskPanel(r, d) ==
  /\ offered
  /\ Ask(r, "panel", d) /\ Goto(r, "invoke") /\ UNCHANGED told

(* approve_requisition, reject_requisition and cycle_back_requisition *)
AskTenant(r, d) ==
  /\ Ask(r, "tenant", d)
  /\ IF req = Pending THEN Goto(r, "invoke") /\ UNCHANGED told ELSE Tell(r, "409")

(* Faulty variant: cancelling an idle execution needs no gate. *)
AskCancelRowOnly(r, k) ==
  /\ Ask(r, k, "REJECTED")
  /\ IF req = "IN_NEGOTIATION" /\ k = "cancel"
     THEN Tell(r, "409") ELSE Goto(r, "set") /\ UNCHANGED told

(* cancel_requisition *)
AskCancel(r, k) ==
  /\ Ask(r, k, "REJECTED")
  /\ IF req = "IN_NEGOTIATION" /\ k = "cancel"
     THEN Tell(r, "409") ELSE Goto(r, "invoke") /\ UNCHANGED told

(* _resume_approval *)
Invoke(r) ==
  /\ at[r] = "invoke"
  /\ Resume(r) /\ Goto(r, Result)
  /\ UNCHANGED <<cycled, orders, req, neg, offered, kind, decision, inPause, refused, told, bounds>>

(* The Lambda ran, but its response is lost and boto3 invokes it again. *)
LoseResponse(r) ==
  /\ at[r] = "invoke" /\ lost < MaxLost /\ lost' = lost + 1
  /\ Resume(r)
  /\ UNCHANGED <<cycled, orders, req, neg, offered, kind, decision, inPause, refused, at, told, errors>>

(* The claims gate of Node 6 turns the approver away: a panel's and a
   cancellation's alike come with empty claims and the request's tenant.   *)
Denied(r) ==
  /\ at[r] = "invoke" /\ Goto(r, "denied") /\ refused' = refused \cup {r}
  /\ UNCHANGED <<orchestrator, offered, kind, decision, inPause, told, took, bounds>>

(* invoke raises, whether or not the Lambda ran; or the function raised,
   which only resp["FunctionError"] would tell.                            *)
InvokeFails(r) ==
  /\ at[r] = "invoke" /\ errors < MaxErrors /\ errors' = errors + 1
  /\ \/ Goto(r, "raised") /\ (Resume(r) \/ UNCHANGED <<exec, verdict, took>>)
     \/ Goto(r, "function error") /\ UNCHANGED <<exec, verdict, took>>
  /\ UNCHANGED <<cycled, orders, req, neg, offered, kind, decision, inPause, refused, told, lost>>

(* Faulty variant: a gate that is not paused is no error. *)
AnswerPanelOptimist(r) ==
  /\ kind[r] = "panel"
  /\ \/ at[r] \in {"taken", "function error", "no pending"} /\ Tell(r, "ok")
     \/ at[r] = "denied" /\ Tell(r, "error")
     \/ at[r] = "raised" /\ Tell(r, "500")
  /\ UNCHANGED <<orchestrator, offered, kind, decision, inPause, refused, took, bounds>>

(* approve_negotiation: only no_pending_approval is looked into. *)
AnswerPanel(r) ==
  /\ kind[r] = "panel"
  /\ \/ at[r] \in {"taken", "function error"} /\ Tell(r, "ok")
     \/ at[r] = "no pending" /\ Goto(r, "recheck") /\ UNCHANGED told
     \/ at[r] = "denied" /\ Tell(r, "error")
     \/ at[r] = "raised" /\ Tell(r, "500")
  /\ UNCHANGED <<orchestrator, offered, kind, decision, inPause, refused, took, bounds>>

(* poll_once reads the row; when it fails it returns None, and the gate's
   error is handed on whatever the row may say.                            *)
Recheck(r) ==
  /\ at[r] = "recheck"
  /\ \/ /\ offered' = (offered \/ neg = "PENDING_APPROVAL")
        /\ Tell(r, IF neg # "PENDING_APPROVAL" THEN "already" ELSE "error")
     \/ Tell(r, "error") /\ UNCHANGED offered
  /\ UNCHANGED <<orchestrator, kind, decision, inPause, refused, took, bounds>>

(* Faulty variant: the API sets the status, as the stub does. *)
AnswerTenantPreempts(r) ==
  /\ kind[r] = "tenant"
  /\ \/ at[r] \in {"taken", "function error"} /\ Tell(r, "ok")
     \/ at[r] \in {"no pending", "denied"} /\ Tell(r, "error")
     \/ at[r] = "raised" /\ Tell(r, "500")
  /\ req' = IF told'[r] = "ok" /\ decision[r] = "APPROVED" THEN "COMPLETED" ELSE req
  /\ UNCHANGED <<exec, verdict, cycled, orders, neg, offered, kind, decision, inPause, refused, took, bounds>>

(* approve_pr, reject_pr and cycle_back_pr hand the result on. *)
AnswerTenant(r) ==
  /\ kind[r] = "tenant"
  /\ \/ at[r] \in {"taken", "function error"} /\ Tell(r, "ok")
     \/ at[r] \in {"no pending", "denied"} /\ Tell(r, "error")
     \/ at[r] = "raised" /\ Tell(r, "500")
  /\ UNCHANGED <<orchestrator, offered, kind, decision, inPause, refused, took, bounds>>

(* cancel_pr does not look at the result, and then sets the status. *)
AnswerCancel(r) ==
  /\ kind[r] \in {"cancel", "confirm"}
  /\ \/ at[r] \in {"taken", "no pending", "denied", "function error"}
        /\ Goto(r, "set") /\ UNCHANGED told
     \/ at[r] = "raised" /\ Tell(r, "500")
  /\ UNCHANGED <<orchestrator, offered, kind, decision, inPause, refused, took, bounds>>

SetCancelled(r) ==
  /\ at[r] = "set" /\ req' = "CANCELLED" /\ Tell(r, "cancelled")
  /\ UNCHANGED <<exec, verdict, cycled, orders, neg, offered, kind, decision, inPause, refused, took, bounds>>

Next ==
  \/ Pause \/ AutoApprove \/ Settle \/ Award \/ Poll
  \/ \E r \in Request :
       \/ \E d \in Decision : AskPanel(r, d) \/ AskTenant(r, d)
       \/ AskCancel(r, "cancel") \/ AskCancel(r, "confirm")
       \/ Invoke(r) \/ LoseResponse(r) \/ Denied(r) \/ InvokeFails(r)
       \/ AnswerPanel(r) \/ Recheck(r) \/ AnswerTenant(r) \/ AnswerCancel(r) \/ SetCancelled(r)

Spec == Init /\ [][Next]_vars

(* handleDecision: a response that is neither ALREADY_RESOLVED nor ERROR,
   a 500 included, is taken for a success.                                 *)
Screen(t) == CASE t = "already" -> "reload" [] t = "error" -> "reason"
               [] t \in {"ok", "500"} -> "succeeded" [] OTHER -> "none"
-----------------------------------------------------------------------------
(***************************************************************************)
(* Properties                                                              *)
(***************************************************************************)
(* ApprovalControls.tsx:34 "Approval succeeded": the panel says so only of a
   decision the gate has taken, unless an invocation failed.               *)
SuccessTaken ==
  errors = 0 => \A r \in Request : kind[r] = "panel" /\ Screen(told[r]) = "succeeded" => took[r]

(* approve_pr "the API must not pre-empt that here": a requisition is
   COMPLETED only once its purchase order has been issued.                 *)
CompletedOrdered == req = "COMPLETED" => orders > 0

(* cancel_pr "so the execution does not hang": once a tenant has cancelled a
   paused requisition, the execution is not paused for an approver, unless an
   invocation failed, somebody else's decision was taken instead, or the
   claims gate turned the cancellation away, which cancel_pr never notices. *)
Cancels == {"cancel", "confirm"}

CancelReleases ==
  /\ errors = 0 /\ \A r \in Request : took[r] => kind[r] \in Cancels
  /\ \E r \in Request : inPause[r] /\ told[r] = "cancelled" /\ r \notin refused
  => exec # "paused"
=============================================================================

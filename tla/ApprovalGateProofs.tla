-------------------------- MODULE ApprovalGateProofs --------------------------
(***************************************************************************)
(* Proofs about ApprovalGate: its safety properties, for any number of      *)
(* requests and any bounds on lost responses and failed invocations.        *)
(***************************************************************************)
EXTENDS ApprovalGate, TLAPS

(***************************************************************************)
(* Types                                                                   *)
(***************************************************************************)
Exec == {"negotiating", "paused", "released", "awarding", "ended"}
ReqStatus == {"IN_NEGOTIATION", Pending, "COMPLETED", "CANCELLED", "REQUIRES_ATTENTION"}

(* The steps of requests, by what they do to the rest of the system. *)
Asks(r) ==
  \/ \E d \in Decision : AskPanel(r, d) \/ AskTenant(r, d)
  \/ AskCancel(r, "cancel") \/ AskCancel(r, "confirm")
Invokes(r) == Invoke(r) \/ LoseResponse(r) \/ InvokeFails(r)
Answers(r) == Denied(r) \/ AnswerPanel(r) \/ AnswerTenant(r) \/ AnswerCancel(r)

LEMMA NextCases ==
  ASSUME [Next]_vars
  PROVE  \/ Pause \/ AutoApprove \/ Settle \/ Award \/ Poll
         \/ \E r \in Request : Asks(r) \/ Invokes(r) \/ Answers(r) \/ Recheck(r) \/ SetCancelled(r)
         \/ UNCHANGED vars
BY DEF Next, Asks, Invokes, Answers

(* Goto and Tell keep the types of at and told. *)
LEMMA Replies ==
  ASSUME TypeOK, NEW r \in Request
  PROVE  /\ \A p \in Point : Goto(r, p) => at' \in [Request -> Point]
         /\ \A t \in Reply : Tell(r, t) => at' \in [Request -> Point] /\ told' \in [Request -> Reply]
<1>1. "answered" \in Point
  BY DEF Point
<1> QED
  BY <1>1 DEF TypeOK, Goto, Tell

LEMMA AskTypes ==
  ASSUME TypeOK, NEW r \in Request, Asks(r)
  PROVE  TypeOK'
<1>1. {"REJECTED", "APPROVED"} \subseteq Decision /\ {"invoke", "idle"} \subseteq Point /\ {"409", "none"} \subseteq Reply
  BY DEF Decision, Point, Reply
<1>2. ASSUME NEW k \in {"panel", "tenant", "cancel", "confirm"}, NEW d \in Decision, Ask(r, k, d),
             \/ Goto(r, "invoke") /\ UNCHANGED told
             \/ Tell(r, "409")
      PROVE TypeOK'
  <2>1. at' \in [Request -> Point] /\ told' \in [Request -> Reply]
    BY <1>1, <1>2, Replies DEF TypeOK
  <2>2. /\ kind' \in [Request -> Kinds \cup {"none"}] /\ decision' \in [Request -> Decision]
        /\ inPause' \in [Request -> BOOLEAN]
    BY <1>2 DEF Ask, TypeOK
  <2>3. UNCHANGED <<orchestrator, offered, took, refused, bounds>>
    BY <1>2 DEF Ask
  <2> QED
    BY <2>1, <2>2, <2>3 DEF TypeOK, orchestrator, bounds
<1>3. ASSUME NEW d \in Decision, AskPanel(r, d) PROVE TypeOK'
  BY <1>2, <1>3 DEF AskPanel
<1>4. ASSUME NEW d \in Decision, AskTenant(r, d) PROVE TypeOK'
  BY <1>2, <1>4 DEF AskTenant
<1>5. ASSUME NEW k \in {"cancel", "confirm"}, AskCancel(r, k) PROVE TypeOK'
  BY <1>1, <1>2, <1>5 DEF AskCancel
<1> QED
  BY <1>3, <1>4, <1>5 DEF Asks

LEMMA InvokeTypes ==
  ASSUME TypeOK, NEW r \in Request, Invokes(r)
  PROVE  TypeOK'
<1>1. {"taken", "no pending", "raised", "function error"} \subseteq Point /\ Result \in Point
  BY DEF Point, Result
<1>2. Resume(r) \/ UNCHANGED <<exec, verdict, took>>
  BY DEF Invokes, Invoke, LoseResponse, InvokeFails
<1>3. /\ exec' \in Exec /\ verdict' \in Decision /\ took' \in [Request -> BOOLEAN]
  <2>1. /\ exec \in Exec /\ verdict \in Decision /\ decision[r] \in Decision
        /\ took \in [Request -> BOOLEAN] /\ "released" \in Exec
    BY DEF TypeOK, Exec
  <2> QED
    BY <1>2, <2>1 DEF Resume
<1>4. at' \in [Request -> Point]
  <2>1. CASE Invoke(r)
    BY <1>1, <2>1, Replies DEF Invoke
  <2>2. CASE LoseResponse(r)
    BY <2>2 DEF LoseResponse, TypeOK
  <2>3. CASE InvokeFails(r)
    BY <1>1, <2>3, Replies DEF InvokeFails
  <2> QED
    BY <2>1, <2>2, <2>3 DEF Invokes
<1>5. lost' \in 0..MaxLost /\ errors' \in 0..MaxErrors
  <2>1. CASE Invoke(r)
    BY <2>1 DEF Invoke, TypeOK, bounds
  <2>2. CASE LoseResponse(r)
    BY <2>2, GateAssumption DEF LoseResponse, TypeOK
  <2>3. CASE InvokeFails(r)
    <3>1. errors < MaxErrors /\ errors' = errors + 1 /\ lost' = lost
      BY <2>3 DEF InvokeFails
    <3> QED
      BY <3>1, GateAssumption DEF TypeOK
  <2> QED
    BY <2>1, <2>2, <2>3 DEF Invokes
<1>6. UNCHANGED <<cycled, orders, req, neg, offered, kind, decision, inPause, refused, told>>
  BY DEF Invokes, Invoke, LoseResponse, InvokeFails
<1> QED
  BY <1>3, <1>4, <1>5, <1>6 DEF TypeOK, Exec

LEMMA AnswerTypes ==
  ASSUME TypeOK, NEW r \in Request, Answers(r)
  PROVE  TypeOK'
<1>1. {"denied", "recheck", "set"} \subseteq Point /\ {"ok", "error", "500"} \subseteq Reply
  BY DEF Point, Reply
<1>2. at' \in [Request -> Point] /\ told' \in [Request -> Reply]
  <2>1. CASE Denied(r)
    BY <1>1, <2>1, Replies DEF Denied, TypeOK
  <2>2. CASE AnswerPanel(r)
    BY <1>1, <2>2, Replies DEF AnswerPanel, TypeOK
  <2>3. CASE AnswerTenant(r)
    BY <1>1, <2>3, Replies DEF AnswerTenant
  <2>4. CASE AnswerCancel(r)
    BY <1>1, <2>4, Replies DEF AnswerCancel, TypeOK
  <2> QED
    BY <2>1, <2>2, <2>3, <2>4 DEF Answers
<1>3. UNCHANGED <<orchestrator, offered, kind, decision, inPause, took, bounds>> /\ refused' \subseteq Request
  BY DEF TypeOK, Answers, Denied, AnswerPanel, AnswerTenant, AnswerCancel
<1> QED
  BY <1>2, <1>3 DEF TypeOK, orchestrator, bounds

LEMMA RecheckTypes ==
  ASSUME TypeOK, NEW r \in Request, Recheck(r) \/ SetCancelled(r)
  PROVE  TypeOK'
<1>1. {"already", "error", "cancelled"} \subseteq Reply
  BY DEF Reply
<1>2. at' \in [Request -> Point] /\ told' \in [Request -> Reply]
  BY <1>1, Replies DEF Recheck, SetCancelled
<1>3. offered' \in BOOLEAN
  BY DEF Recheck, SetCancelled, TypeOK
<1>4. UNCHANGED <<exec, verdict, cycled, orders, neg, kind, decision, inPause, refused, took, bounds>>
  BY DEF Recheck, SetCancelled, orchestrator
<1>5. req' \in ReqStatus
  BY DEF Recheck, SetCancelled, orchestrator, TypeOK, ReqStatus
<1> QED
  BY <1>2, <1>3, <1>4, <1>5 DEF TypeOK, bounds, ReqStatus

LEMMA OrchestratorTypes ==
  ASSUME TypeOK, Pause \/ AutoApprove \/ Settle \/ Award \/ Poll \/ UNCHANGED vars
  PROVE  TypeOK'
<1>1. CASE Pause
  BY <1>1 DEF Pause, TypeOK, NegStatus, requests, bounds
<1>2. CASE AutoApprove
  BY <1>2 DEF AutoApprove, TypeOK, NegStatus, requests, bounds
<1>3. CASE Settle
  BY <1>3 DEF Settle, TypeOK, NegStatus, requests, bounds
<1>4. CASE Award
  BY <1>4 DEF Award, TypeOK, NegStatus, requests, bounds
<1>5. CASE Poll
  BY <1>5 DEF Poll, TypeOK, orchestrator, requests, bounds
<1>6. CASE UNCHANGED vars
  BY <1>6 DEF vars, TypeOK, orchestrator, requests, bounds
<1> QED
  BY <1>1, <1>2, <1>3, <1>4, <1>5, <1>6

LEMMA TypeStep == TypeOK /\ [Next]_vars => TypeOK'
BY NextCases, AskTypes, InvokeTypes, AnswerTypes, RecheckTypes, OrchestratorTypes

LEMMA TypeInit == Init => TypeOK
<1> SUFFICES ASSUME Init PROVE TypeOK
  OBVIOUS
<1>1. MaxLost \in Nat /\ MaxErrors \in Nat
  BY GateAssumption
<1>2. "APPROVED" \in Decision /\ "idle" \in Point /\ "none" \in Reply
  BY DEF Decision, Point, Reply
<1>3. lost \in 0..MaxLost /\ errors \in 0..MaxErrors
  BY <1>1 DEF Init
<1>4. /\ kind \in [Request -> Kinds \cup {"none"}] /\ decision \in [Request -> Decision]
      /\ at \in [Request -> Point] /\ told \in [Request -> Reply]
      /\ inPause \in [Request -> BOOLEAN] /\ took \in [Request -> BOOLEAN]
  BY <1>2 DEF Init
<1> QED
  BY <1>2, <1>3, <1>4 DEF Init, TypeOK, NegStatus

(* Every variable keeps its type. *)
THEOREM TypeCorrect == Spec => []TypeOK
  BY TypeInit, TypeStep, PTL DEF Spec

(***************************************************************************)
(* Only Node 7 completes a requisition                                     *)
(***************************************************************************)
LEMMA OrderedStep == TypeOK /\ CompletedOrdered /\ [Next]_vars => CompletedOrdered'
<1> SUFFICES ASSUME TypeOK, CompletedOrdered, [Next]_vars PROVE CompletedOrdered'
  OBVIOUS
<1>1. CASE Pause
  BY <1>1 DEF Pause, CompletedOrdered, Pending
<1>2. CASE Award
  BY <1>2 DEF Award, CompletedOrdered, TypeOK
<1>3. CASE AutoApprove
  BY <1>3 DEF AutoApprove, CompletedOrdered
<1>4. CASE Settle
  BY <1>4 DEF Settle, CompletedOrdered
<1>5. ASSUME UNCHANGED <<req, orders>> PROVE CompletedOrdered'
  BY <1>5 DEF CompletedOrdered
<1>6. CASE Poll \/ UNCHANGED vars
  BY <1>5, <1>6 DEF Poll, vars, orchestrator
<1>7. ASSUME NEW r \in Request, Asks(r) PROVE CompletedOrdered'
  BY <1>5, <1>7 DEF Asks, AskPanel, AskTenant, AskCancel, Ask, orchestrator
<1>8. ASSUME NEW r \in Request, Invokes(r) PROVE CompletedOrdered'
  BY <1>5, <1>8 DEF Invokes, Invoke, LoseResponse, InvokeFails
<1>9. ASSUME NEW r \in Request, Answers(r) \/ Recheck(r) PROVE CompletedOrdered'
  BY <1>5, <1>9 DEF Answers, Denied, AnswerPanel, AnswerTenant, AnswerCancel, Recheck, orchestrator
<1>10. ASSUME NEW r \in Request, SetCancelled(r) PROVE CompletedOrdered'
  BY <1>10 DEF SetCancelled, CompletedOrdered
<1> QED
  BY NextCases, <1>1, <1>2, <1>3, <1>4, <1>6, <1>7, <1>8, <1>9, <1>10

(* A requisition is COMPLETED only once its purchase order is issued. *)
THEOREM CompletedAfterOrder == Spec => []CompletedOrdered
<1>1. Init => CompletedOrdered
  BY DEF Init, CompletedOrdered
<1> QED
  BY <1>1, OrderedStep, TypeCorrect, PTL DEF Spec

(***************************************************************************)
(* Success is shown of decisions the gate has taken                        *)
(***************************************************************************)
(* What asking does, whoever asks. *)
LEMMA AskEffect ==
  ASSUME NEW r \in Request, Asks(r)
  PROVE  \E k \in {"panel", "tenant", "cancel", "confirm"}, d \in Decision :
           /\ Ask(r, k, d) /\ (k \in Cancels => d = "REJECTED")
           /\ \/ Goto(r, "invoke") /\ UNCHANGED told
              \/ Tell(r, "409")
<1>1. CASE \E d \in Decision : AskPanel(r, d)
  BY <1>1 DEF AskPanel, Cancels
<1>2. CASE \E d \in Decision : AskTenant(r, d)
  BY <1>2 DEF AskTenant, Cancels
<1>3. ASSUME NEW k \in Cancels, AskCancel(r, k)
      PROVE  /\ Ask(r, k, "REJECTED")
             /\ \/ Goto(r, "invoke") /\ UNCHANGED told
                \/ Tell(r, "409")
  BY <1>3 DEF AskCancel
<1> QED
  BY <1>1, <1>2, <1>3 DEF Asks, Cancels, Decision

LEMMA ErrorsCount == TypeOK => errors \in Nat
<1>1. MaxErrors \in Nat
  BY GateAssumption
<1>2. ASSUME TypeOK PROVE errors \in 0..MaxErrors
  BY <1>2 DEF TypeOK
<1> QED
  BY <1>1, <1>2

LEMMA FailureCounts == ASSUME TypeOK, NEW r \in Request, InvokeFails(r) PROVE errors' # 0
<1>1. errors \in Nat /\ errors' = errors + 1
  BY ErrorsCount DEF InvokeFails
<1> QED
  BY <1>1

Taken ==
  errors = 0 => \A r \in Request :
    at[r] \in {"taken", "function error", "raised"} \/ told[r] \in {"ok", "500"} => took[r]

LEMMA TakenStep == TypeOK /\ Taken /\ [Next]_vars => Taken'
<1> SUFFICES ASSUME TypeOK, Taken, [Next]_vars PROVE Taken'
  OBVIOUS
<1> USE DEF Taken
<1>1. CASE Pause \/ AutoApprove \/ Settle \/ Award \/ Poll \/ UNCHANGED vars
  BY <1>1 DEF Pause, AutoApprove, Settle, Award, Poll, vars, requests, bounds
<1>2. ASSUME NEW r \in Request, Asks(r) PROVE Taken'
  <2>1. UNCHANGED <<took, errors>>
    BY <1>2, AskEffect DEF Ask, bounds
  <2>2. \A q \in Request : at'[q] \in {at[q], "invoke", "answered"} /\ told'[q] \in {told[q], "409"}
    BY <1>2, AskEffect DEF Goto, Tell, TypeOK
  <2> QED
    BY <2>1, <2>2
<1>3. ASSUME NEW r \in Request, Invokes(r) PROVE Taken'
  <2>1. told' = told /\ \A q \in Request : took[q] => took'[q]
    BY <1>3 DEF Invokes, Invoke, LoseResponse, InvokeFails, Resume, TypeOK
  <2>2. CASE InvokeFails(r)
    BY <2>2, FailureCounts
  <2>3. CASE Invoke(r)
    <3>1. errors' = errors
      BY <2>3 DEF Invoke, bounds
    <3>2. \A q \in Request : q # r => at'[q] = at[q]
      BY <2>3 DEF Invoke, Goto, TypeOK
    <3>3. (at'[r] = "taken" /\ took'[r]) \/ at'[r] = "no pending"
      BY <2>3 DEF Invoke, Goto, Result, Resume, TypeOK
    <3> QED
      BY <2>1, <3>1, <3>2, <3>3
  <2>4. CASE LoseResponse(r)
    BY <2>1, <2>4 DEF LoseResponse
  <2> QED
    BY <1>3, <2>2, <2>3, <2>4 DEF Invokes
<1>4. ASSUME NEW r \in Request, Answers(r) PROVE Taken'
  <2>1. UNCHANGED <<took, errors>>
    BY <1>4 DEF Answers, Denied, AnswerPanel, AnswerTenant, AnswerCancel, bounds
  <2>2. \A q \in Request : at'[q] \in {at[q], "denied", "recheck", "set", "answered"}
    BY <1>4 DEF Answers, Denied, AnswerPanel, AnswerTenant, AnswerCancel, Goto, Tell, TypeOK
  <2>3. \A q \in Request : told'[q] # told[q] =>
          told'[q] = "error" \/ at[q] \in {"taken", "function error", "raised"}
    BY <1>4 DEF Answers, Denied, AnswerPanel, AnswerTenant, AnswerCancel, Tell, TypeOK
  <2> QED
    BY <2>1, <2>2, <2>3
<1>5. ASSUME NEW r \in Request, Recheck(r) \/ SetCancelled(r) PROVE Taken'
  <2>1. UNCHANGED <<took, errors>>
    BY <1>5 DEF Recheck, SetCancelled, bounds
  <2>2. \E t \in {"already", "error", "cancelled"} : Tell(r, t)
    BY <1>5 DEF Recheck, SetCancelled
  <2>3. \A q \in Request : at'[q] \in {at[q], "answered"} /\ told'[q] \in {told[q], "already", "error", "cancelled"}
    BY <2>2 DEF Tell, Goto, TypeOK
  <2> QED
    BY <2>1, <2>3
<1> QED
  BY NextCases, <1>1, <1>2, <1>3, <1>4, <1>5

(* Without a failed invocation the panel says "succeeded" only of a decision
   that the gate has taken.                                                *)
THEOREM SuccessIsTaken == Spec => []SuccessTaken
<1>1. Init => Taken
  BY DEF Init, Taken
<1>2. Taken => SuccessTaken
  BY DEF Taken, SuccessTaken, Screen
<1> QED
  BY <1>1, <1>2, TakenStep, TypeCorrect, PTL DEF Spec

(***************************************************************************)
(* A cancellation asked in the pause ends it                               *)
(***************************************************************************)
OnlyCancels == errors = 0 /\ \A r \in Request : took[r] => kind[r] \in Cancels

(* About single requests ... *)
Requested ==
  \A r \in Request :
    /\ at[r] = "idle" => ~took[r] /\ ~inPause[r] /\ told[r] = "none"
    /\ kind[r] \in Cancels => decision[r] = "REJECTED"
    /\ at[r] = "set" \/ told[r] = "cancelled" => kind[r] \in Cancels
    /\ at[r] = "denied" => r \in refused
    /\ errors = 0 => at[r] \notin {"function error", "raised"}

(* ... and, of an execution no other decision was taken for, where it is
   once a cancellation that was asked in its pause has been at the gate.   *)
Gone(p, t) == p \in {"taken", "no pending", "set"} \/ t = "cancelled"

Rejected ==
  OnlyCancels =>
    /\ exec = "released" => verdict = "REJECTED"
    /\ \A r \in Request : inPause[r] =>
         /\ exec # "negotiating"
         /\ r \notin refused /\ Gone(at[r], told[r]) => exec # "paused"

LEMMA RequestedStep == TypeOK /\ Requested /\ [Next]_vars => Requested'
<1> SUFFICES ASSUME TypeOK, Requested, [Next]_vars PROVE Requested'
  OBVIOUS
<1> USE DEF Requested
<1>1. CASE Pause \/ AutoApprove \/ Settle \/ Award \/ Poll \/ UNCHANGED vars
  BY <1>1 DEF Pause, AutoApprove, Settle, Award, Poll, vars, requests, bounds
<1>2. ASSUME NEW r \in Request, Asks(r) PROVE Requested'
  <2>1. PICK k \in {"panel", "tenant", "cancel", "confirm"}, d \in Decision :
          /\ Ask(r, k, d) /\ (k \in Cancels => d = "REJECTED")
          /\ \/ Goto(r, "invoke") /\ UNCHANGED told
             \/ Tell(r, "409")
    BY <1>2, AskEffect
  <2>2. /\ UNCHANGED <<took, refused, errors>> /\ at[r] = "idle"
        /\ kind'[r] = k /\ decision'[r] = d
        /\ \A q \in Request : q # r =>
             kind'[q] = kind[q] /\ decision'[q] = decision[q] /\ inPause'[q] = inPause[q]
    BY <2>1 DEF Ask, bounds, TypeOK
  <2>3. /\ at'[r] \in {"invoke", "answered"} /\ told'[r] \in {told[r], "409"}
        /\ \A q \in Request : q # r => at'[q] = at[q] /\ told'[q] = told[q]
    BY <2>1 DEF Goto, Tell, TypeOK
  <2> QED
    BY <2>1, <2>2, <2>3
<1>3. ASSUME NEW r \in Request, Invokes(r) PROVE Requested'
  <2>1. /\ UNCHANGED <<kind, decision, inPause, refused, told>> /\ at[r] = "invoke"
        /\ \A q \in Request : q # r => at'[q] = at[q] /\ took'[q] = took[q]
    BY <1>3 DEF Invokes, Invoke, LoseResponse, InvokeFails, Goto, Resume, TypeOK
  <2>2. CASE InvokeFails(r)
    <3>1. errors' # 0
      BY <2>2, FailureCounts
    <3>2. at'[r] \in {"raised", "function error"}
      BY <2>2 DEF InvokeFails, Goto, TypeOK
    <3> QED
      BY <2>1, <3>1, <3>2
  <2>3. CASE Invoke(r) \/ LoseResponse(r)
    <3>1. errors' = errors
      BY <2>3 DEF Invoke, LoseResponse, bounds
    <3>2. at'[r] \in {"taken", "no pending", "invoke"}
      BY <2>1, <2>3 DEF Invoke, LoseResponse, Goto, Result, TypeOK
    <3> QED
      BY <2>1, <3>1, <3>2
  <2> QED
    BY <1>3, <2>2, <2>3 DEF Invokes
<1>4. ASSUME NEW r \in Request, Answers(r) PROVE Requested'
  <2>1. UNCHANGED <<kind, decision, inPause, took, errors>> /\ refused \subseteq refused'
    BY <1>4 DEF Answers, Denied, AnswerPanel, AnswerTenant, AnswerCancel, bounds
  <2>2. /\ at'[r] \in {"denied", "recheck", "set", "answered"}
        /\ at'[r] = "denied" => r \in refused'
        /\ at'[r] = "set" => kind[r] \in Cancels
        /\ told'[r] \in {told[r], "ok", "error", "500"}
        /\ \A q \in Request : q # r => at'[q] = at[q] /\ told'[q] = told[q]
    BY <1>4 DEF Answers, Denied, AnswerPanel, AnswerTenant, AnswerCancel, Goto, Tell, TypeOK, Cancels
  <2> QED
    BY <2>1, <2>2
<1>5. ASSUME NEW r \in Request, Recheck(r) \/ SetCancelled(r) PROVE Requested'
  <2>1. UNCHANGED <<kind, decision, inPause, refused, took, errors>>
    BY <1>5 DEF Recheck, SetCancelled, bounds
  <2>2. /\ \A q \in Request : q # r => at'[q] = at[q] /\ told'[q] = told[q]
        /\ at'[r] = "answered"
    BY <1>5 DEF Recheck, SetCancelled, Tell, Goto, TypeOK
  <2>3. told'[r] = "cancelled" => at[r] = "set"
    BY <1>5 DEF Recheck, SetCancelled, Tell, TypeOK
  <2> QED
    BY <2>1, <2>2, <2>3
<1> QED
  BY NextCases, <1>1, <1>2, <1>3, <1>4, <1>5

(* A decision that has been taken stays so, and was then taken of the same
   kind of request.                                                        *)
LEMMA OnlyCancelsBack == TypeOK /\ Requested /\ [Next]_vars /\ OnlyCancels' => OnlyCancels
<1> SUFFICES ASSUME TypeOK, Requested, [Next]_vars, OnlyCancels' PROVE OnlyCancels
  OBVIOUS
<1>1. errors = 0
  <2>1. errors \in Nat
    BY ErrorsCount
  <2>2. errors' = errors \/ errors' = errors + 1
    <3>1. CASE Pause \/ AutoApprove \/ Settle \/ Award \/ Poll \/ UNCHANGED vars
      BY <3>1 DEF Pause, AutoApprove, Settle, Award, Poll, vars, bounds
    <3>2. ASSUME NEW r \in Request, Asks(r) PROVE errors' = errors
      BY <3>2, AskEffect DEF Ask, bounds
    <3>3. ASSUME NEW r \in Request, Invokes(r) PROVE errors' = errors \/ errors' = errors + 1
      BY <3>3 DEF Invokes, Invoke, LoseResponse, InvokeFails, bounds
    <3>4. ASSUME NEW r \in Request, Answers(r) \/ Recheck(r) \/ SetCancelled(r) PROVE errors' = errors
      BY <3>4 DEF Answers, Denied, AnswerPanel, AnswerTenant, AnswerCancel, Recheck, SetCancelled, bounds
    <3> QED
      BY NextCases, <3>1, <3>2, <3>3, <3>4
  <2> QED
    BY <2>1, <2>2 DEF OnlyCancels
<1>2. ASSUME NEW q \in Request, took[q] PROVE took'[q] /\ kind'[q] = kind[q]
  <2>1. at[q] # "idle"
    BY <1>2 DEF Requested
  <2>2. CASE Pause \/ AutoApprove \/ Settle \/ Award \/ Poll \/ UNCHANGED vars
    BY <1>2, <2>2 DEF Pause, AutoApprove, Settle, Award, Poll, vars, requests
  <2>3. ASSUME NEW r \in Request, Asks(r) PROVE took'[q] /\ kind'[q] = kind[q]
    BY <1>2, <2>1, <2>3, AskEffect DEF Ask, TypeOK
  <2>4. ASSUME NEW r \in Request, Invokes(r) PROVE took'[q] /\ kind'[q] = kind[q]
    BY <1>2, <2>4 DEF Invokes, Invoke, LoseResponse, InvokeFails, Resume, TypeOK
  <2>5. ASSUME NEW r \in Request, Answers(r) \/ Recheck(r) \/ SetCancelled(r)
        PROVE took'[q] /\ kind'[q] = kind[q]
    BY <1>2, <2>5 DEF Answers, Denied, AnswerPanel, AnswerTenant, AnswerCancel, Recheck, SetCancelled
  <2> QED
    BY NextCases, <2>2, <2>3, <2>4, <2>5
<1> QED
  BY <1>1, <1>2 DEF OnlyCancels

LEMMA RejectedStep == TypeOK /\ Requested /\ Rejected /\ [Next]_vars => Rejected'
<1> SUFFICES ASSUME TypeOK, Requested, Rejected, [Next]_vars, OnlyCancels' PROVE Rejected'
  BY DEF Rejected
<1> USE DEF Gone
<1>1. OnlyCancels
  BY OnlyCancelsBack
<1>2. /\ exec = "released" => verdict = "REJECTED"
      /\ \A r \in Request : inPause[r] =>
           /\ exec # "negotiating"
           /\ r \notin refused /\ Gone(at[r], told[r]) => exec # "paused"
  BY <1>1 DEF Rejected
<1>3. CASE Pause \/ AutoApprove \/ Settle \/ Award \/ Poll \/ UNCHANGED vars
  BY <1>2, <1>3 DEF Pause, AutoApprove, Settle, Award, Poll, vars, orchestrator, requests, Rejected
<1>4. ASSUME NEW r \in Request, Asks(r) PROVE Rejected'
  <2>1. /\ UNCHANGED <<exec, verdict, refused>>
        /\ \A q \in Request : q # r => inPause'[q] = inPause[q] /\ at'[q] = at[q] /\ told'[q] = told[q]
        /\ inPause'[r] = (exec = "paused") /\ at'[r] \in {"invoke", "answered"}
        /\ told'[r] \in {told[r], "409"} /\ at[r] = "idle"
    BY <1>4, AskEffect DEF Ask, Goto, Tell, TypeOK, orchestrator
  <2>2. told[r] = "none"
    BY <2>1 DEF Requested
  <2> QED
    BY <1>2, <2>1, <2>2 DEF Rejected
<1>5. ASSUME NEW r \in Request, Invokes(r) PROVE Rejected'
  <2>1. CASE InvokeFails(r)
    BY <2>1, FailureCounts DEF OnlyCancels
  <2>2. CASE Invoke(r) \/ LoseResponse(r)
    <3>1. UNCHANGED <<told, kind, decision, inPause, refused>> /\ Resume(r)
      BY <2>2 DEF Invoke, LoseResponse
    <3>2. CASE exec = "paused"
      <4>1. exec' = "released" /\ verdict' = decision[r] /\ took'[r]
        BY <3>1, <3>2 DEF Resume, TypeOK
      <4>2. verdict' = "REJECTED"
        BY <3>1, <4>1 DEF OnlyCancels, Requested
      <4> QED
        BY <4>1, <4>2 DEF Rejected
    <3>3. CASE exec # "paused"
      <4>1. exec' = exec /\ verdict' = verdict
        BY <3>1, <3>3 DEF Resume
      <4> QED
        BY <1>2, <3>1, <3>3, <4>1 DEF Rejected
    <3> QED
      BY <3>2, <3>3
  <2> QED
    BY <1>5, <2>1, <2>2 DEF Invokes
<1>6. ASSUME NEW r \in Request, Answers(r) \/ Recheck(r) \/ SetCancelled(r) PROVE Rejected'
  <2>1. UNCHANGED <<exec, verdict, inPause>> /\ refused \subseteq refused'
    BY <1>6 DEF Answers, Denied, AnswerPanel, AnswerTenant, AnswerCancel, Recheck, SetCancelled, orchestrator
  <2>2. \A q \in Request :
          Gone(at'[q], told'[q]) => Gone(at[q], told[q]) \/ at[q] \in {"denied", "function error"}
    BY <1>6 DEF Answers, Denied, AnswerPanel, AnswerTenant, AnswerCancel, Recheck, SetCancelled,
                Tell, Goto, TypeOK, Cancels
  <2>3. \A q \in Request : at[q] # "function error" /\ (at[q] = "denied" => q \in refused)
    BY <1>1 DEF Requested, OnlyCancels
  <2> QED
    BY <1>2, <2>1, <2>2, <2>3 DEF Rejected
<1> QED
  BY NextCases, <1>3, <1>4, <1>5, <1>6

(* A tenant who cancels a paused requisition releases its execution, unless
   an invocation fails, somebody else's decision is taken instead, or the
   claims gate turns the cancellation away.                                *)
THEOREM CancellationReleases == Spec => []CancelReleases
<1>1. Init => Requested /\ Rejected
  BY DEF Init, Requested, Rejected, Cancels
<1>2. Requested /\ Rejected => CancelReleases
  BY DEF Rejected, OnlyCancels, CancelReleases, Gone
<1> QED
  BY <1>1, <1>2, RequestedStep, RejectedStep, TypeCorrect, PTL DEF Spec
==============================================================================

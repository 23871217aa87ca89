---------------------------- MODULE Requisitions ----------------------------
(***************************************************************************)
(* One requisition of the tenant application in SKILL_MODE=stub: the row in *)
(* _stub_requisitions, the purchase orders in _stub_orders, and the HTTP    *)
(* handlers of api/requisitions.py over master_data_client.py.             *)
(*                                                                         *)
(* The handlers are plain `def` functions, which FastAPI runs in a thread   *)
(* pool; there is no lock.  get_pr and list_prs hand out the LIVE           *)
(* dictionary, so a handler re-reads, in a later step, a row that another   *)
(* thread may have changed.  A step of a thread here is the code between    *)
(* two accesses to the row that another thread can tell apart.             *)
(*                                                                         *)
(* Time is the age of the row in the four bands _advance_stub_state         *)
(* distinguishes: under 5 s, under 10 s, under 20 s, and older.             *)
(***************************************************************************)
EXTENDS Naturals, FiniteSets

CONSTANTS
  Worker   \* threads that serve requests about this requisition

ASSUME WorkerAssumption == IsFiniteSet(Worker) /\ Worker # {}

VARIABLES
  stored,  \* is the row in _stub_requisitions?
  status, age,
  cycles,  \* _cycle_back_count
  context, \* is approval_context in the row?
  orders,  \* rows of _stub_orders for this requisition
  pc, op,  \* where each thread is, in which request
  sampled, \* the age _advance_stub_state computed
  answer,  \* what the last response of each thread says of the inbox
  reruns   \* observation: cycle-backs that restarted the strategy

row  == <<stored, status, age, cycles, context, orders>>
vars == <<row, pc, op, sampled, answer, reruns>>

Request == {"get", "inbox", "approve", "reject", "cycle_back", "cancel", "confirm"}
Point == {"idle", "advance", "context", "decide", "serialise", "approve", "append",
          "reject", "cycle_back", "rerun", "rewind", "pop", "cancel"}

(* _advance_stub_state: the status of a row of each age. *)
Band == 0..3
(* Faulty variant: the last band is not told apart. *)
ByAgeNeverPauses == [a \in Band |->
  CASE a = 0 -> "NEW" [] a = 1 -> "ACTIVE" [] OTHER -> "IN_NEGOTIATION"]

ByAge == [a \in Band |->
  CASE a = 0 -> "NEW" [] a = 1 -> "ACTIVE" [] a = 2 -> "IN_NEGOTIATION"
    [] OTHER -> "PENDING_HUMAN_APPROVAL"]
Pending == "PENDING_HUMAN_APPROVAL"
Active == {"IN_NEGOTIATION", "ACTIVE"}
(* Faulty variant: a cancelled row is advanced like any other. *)
HeldButCancelled == {"COMPLETED", "FAILED", Pending, "REQUIRES_ATTENTION"}

(* Nothing in stub mode sets FAILED. *)
Held == {"CANCELLED", "COMPLETED", "FAILED", Pending, "REQUIRES_ATTENTION"}
Statuses == {"NEW", "ACTIVE", "IN_NEGOTIATION", Pending, "COMPLETED", "CANCELLED",
             "REQUIRES_ATTENTION", "FAILED"}

RowOK ==
  /\ stored \in BOOLEAN /\ status \in Statuses /\ age \in Band
  /\ cycles \in Nat /\ context \in BOOLEAN /\ orders \in Nat

ThreadsOK ==
  /\ pc \in [Worker -> Point] /\ op \in [Worker -> Request]
  /\ sampled \in [Worker -> Band]
  /\ answer \in [Worker -> {"none", "listed", "left out"}]

TypeOK == RowOK /\ ThreadsOK /\ reruns \in Nat

Init ==
  /\ stored = FALSE /\ status = "NEW" /\ age = 0 /\ cycles = 0
  /\ context = FALSE /\ orders = 0 /\ reruns = 0
  /\ pc = [w \in Worker |-> "idle"] /\ op = [w \in Worker |-> "get"]
  /\ sampled = [w \in Worker |-> 0] /\ answer = [w \in Worker |-> "none"]

At(w, p) == pc[w] = p
Goto(w, p) == pc' = [pc EXCEPT ![w] = p]

(* The response, 200, 404 or 409, whose wording no property tells apart. *)
Reply(w, a) ==
  /\ Goto(w, "idle")
  /\ op' = [op EXCEPT ![w] = "get"] /\ answer' = [answer EXCEPT ![w] = a]

(* create_pr.  The id is drawn there, so nobody asks for the row earlier. *)
Create ==
  /\ ~stored
  /\ stored' = TRUE /\ status' = "NEW" /\ age' = 0
  /\ UNCHANGED <<cycles, context, orders, pc, op, sampled, answer, reruns>>

Tick ==
  /\ stored /\ age < 3 /\ age' = age + 1
  /\ UNCHANGED <<stored, status, cycles, context, orders, pc, op, sampled, answer, reruns>>

(* get_pr and list_prs find nothing. *)
Missing(w) ==
  /\ At(w, "idle") /\ ~stored
  /\ Reply(w, "none") /\ UNCHANGED <<row, sampled, reruns>>

(* get_pr or list_prs finds the row: a held status stays, and the age is
   taken for any other.                                                    *)
Begin(w, r) ==
  /\ At(w, "idle") /\ stored
  /\ op' = [op EXCEPT ![w] = r]
  /\ Goto(w, IF status \in Held THEN "decide" ELSE "advance")
  /\ sampled' = [sampled EXCEPT ![w] = IF status \in Held THEN 0 ELSE age]
  /\ UNCHANGED <<row, answer, reruns>>

(* The rest of _advance_stub_state: the status first, the context later. *)
Advance(w) ==
  /\ At(w, "advance")
  /\ status' = ByAge[sampled[w]]
  /\ Goto(w, IF sampled[w] = 3 THEN "context" ELSE "decide")
  /\ sampled' = [sampled EXCEPT ![w] = 0]
  /\ UNCHANGED <<stored, age, cycles, context, orders, op, answer, reruns>>

(* Faulty variant: the context is only written the first time. *)
ExplainFirstPause(w) ==
  /\ At(w, "context")
  /\ context' = (cycles = 0) /\ Goto(w, "decide")
  /\ UNCHANGED <<stored, status, age, cycles, orders, op, sampled, answer, reruns>>

Explain(w) ==
  /\ At(w, "context")
  /\ context' = TRUE /\ Goto(w, "decide")
  /\ UNCHANGED <<stored, status, age, cycles, orders, op, sampled, answer, reruns>>

(* Faulty variant: cycle_back does not look at the status. *)
RefusedButCyclesBack(w) ==
  \/ op[w] \in {"approve", "reject"} /\ status # Pending
  \/ op[w] = "cancel" /\ status \in Active

(* 409: only a paused requisition is decided, and cancelling one in
   negotiation has to be confirmed.                                        *)
Refused(w) ==
  \/ op[w] \in {"approve", "reject", "cycle_back"} /\ status # Pending
  \/ op[w] = "cancel" /\ status \in Active

(* Faulty variant: the inbox lists every row that no longer advances. *)
DecideListsHeld(w) ==
  /\ At(w, "decide")
  /\ \/ (op[w] = "get" \/ Refused(w)) /\ Reply(w, "none")
     \/ op[w] = "inbox" /\ Reply(w, IF status \in Held THEN "listed" ELSE "left out")
     \/ /\ op[w] \notin {"get", "inbox"} /\ ~Refused(w)
        /\ Goto(w, IF op[w] = "confirm" THEN "cancel" ELSE op[w])
        /\ UNCHANGED <<op, answer>>
  /\ UNCHANGED <<row, sampled, reruns>>

(* The handler looks at the status of the live row and answers, or goes on.
   list_prs appends the row to its result and the route serialises it later. *)
Decide(w) ==
  /\ At(w, "decide")
  /\ \/ (op[w] = "get" \/ Refused(w)) /\ Reply(w, "none")
     \/ op[w] = "inbox" /\ status # Pending /\ Reply(w, "left out")
     \/ op[w] = "inbox" /\ status = Pending /\ Goto(w, "serialise") /\ UNCHANGED <<op, answer>>
     \/ /\ op[w] \notin {"get", "inbox"} /\ ~Refused(w)
        /\ Goto(w, IF op[w] = "confirm" THEN "cancel" ELSE op[w])
        /\ UNCHANGED <<op, answer>>
  /\ UNCHANGED <<row, sampled, reruns>>

Serialise(w) ==
  /\ At(w, "serialise")
  /\ Reply(w, "listed") /\ UNCHANGED <<row, sampled, reruns>>

(* Faulty variant: only an explained requisition gets its order. *)
ApproveExplained(w) ==
  /\ At(w, "approve") /\ status' = "COMPLETED"
  /\ IF context THEN Goto(w, "append") /\ UNCHANGED <<op, answer>> ELSE Reply(w, "none")
  /\ UNCHANGED <<stored, age, cycles, context, orders, sampled, reruns>>

(* approve_pr: the status, then (after get_awards) the purchase order. *)
Approve(w) ==
  /\ At(w, "approve")
  /\ status' = "COMPLETED" /\ Goto(w, "append")
  /\ UNCHANGED <<stored, age, cycles, context, orders, op, sampled, answer, reruns>>

Append(w) ==
  /\ At(w, "append")
  /\ orders' = orders + 1 /\ Reply(w, "none")
  /\ UNCHANGED <<stored, status, age, cycles, context, sampled, reruns>>

(* reject_pr, and cancel_pr, which looks at no status of its own. *)
Cancel(w) ==
  /\ At(w, "reject") \/ At(w, "cancel")
  /\ status' = "CANCELLED" /\ Reply(w, "none")
  /\ UNCHANGED <<stored, age, cycles, context, orders, sampled, reruns>>

(* Faulty variant: "more than once" instead of "once". *)
CycleBackTwice(w) ==
  /\ At(w, "cycle_back")
  /\ \/ cycles > 1 /\ status' = "REQUIRES_ATTENTION" /\ Goto(w, "pop")
     \/ cycles <= 1 /\ Goto(w, "rerun") /\ UNCHANGED status
  /\ UNCHANGED <<stored, age, cycles, context, orders, op, sampled, answer, reruns>>

(* cycle_back_pr looks at _cycle_back_count, and later adds to it. *)
CycleBack(w) ==
  /\ At(w, "cycle_back")
  /\ \/ cycles >= 1 /\ status' = "REQUIRES_ATTENTION" /\ Goto(w, "pop")
     \/ cycles = 0 /\ Goto(w, "rerun") /\ UNCHANGED status
  /\ UNCHANGED <<stored, age, cycles, context, orders, op, sampled, answer, reruns>>

Rerun(w) ==
  /\ At(w, "rerun")
  /\ cycles' = cycles + 1 /\ status' = "IN_NEGOTIATION"
  /\ reruns' = reruns + 1 /\ Goto(w, "rewind")
  /\ UNCHANGED <<stored, age, context, orders, op, sampled, answer>>

Rewind(w) ==
  /\ At(w, "rewind")
  /\ age' = 2 /\ Goto(w, "pop")
  /\ UNCHANGED <<stored, status, cycles, context, orders, op, sampled, answer, reruns>>

Pop(w) ==
  /\ At(w, "pop")
  /\ context' = FALSE /\ Reply(w, "none")
  /\ UNCHANGED <<stored, status, age, cycles, orders, sampled, reruns>>

Continue(w) ==
  \/ Advance(w) \/ Explain(w) \/ Decide(w) \/ Serialise(w)
  \/ Approve(w) \/ Append(w) \/ Cancel(w)
  \/ CycleBack(w) \/ Rerun(w) \/ Rewind(w) \/ Pop(w)

Next ==
  \/ Create \/ Tick
  \/ \E w \in Worker : Missing(w) \/ Continue(w) \/ \E r \in Request : Begin(w, r)

Spec == Init /\ [][Next]_vars

(* Time passes, a request once begun is served, and a client keeps asking:
   the tracker's polling is what makes a stub requisition move at all.     *)
Fairness ==
  /\ WF_vars(Create) /\ WF_vars(Tick)
  /\ \A w \in Worker : WF_vars(Continue(w)) /\ SF_vars(Begin(w, "get"))

FairSpec == Spec /\ Fairness
-----------------------------------------------------------------------------
(***************************************************************************)
(* Properties                                                              *)
(***************************************************************************)
(* approve_pr: a completed requisition has its purchase order, or the
   thread that completed it is about to emit it - also under concurrency,
   and whatever else the requisition goes through.                         *)
CompletedHasOrder ==
  status = "COMPLETED" => orders > 0 \/ \E w \in Worker : At(w, "append")

(* cycle_back_pr "re-run the strategy once": the count is looked at and raised
   in two steps, and decisions in several threads may pass; but however they
   overlap, and whatever stale status lets them begin, each thread of the
   pool re-runs the strategy at most once.                                 *)
RerunsBounded == reruns <= Cardinality(Worker)

(* A decision that nothing overlaps is final: a requisition found cancelled,
   or completed, while no thread serves a request about it stays so (but that
   a completed one can be cancelled), whatever requests overlap later.  A
   stale _advance_stub_state can undo only what overlapped it.             *)
Quiet == \A w \in Worker : At(w, "idle")

DecisionsSettle ==
  /\ [](Quiet /\ status = "CANCELLED" => [](status = "CANCELLED"))
  /\ [](Quiet /\ status = "COMPLETED" => [](status \in {"COMPLETED", "CANCELLED"}))

(* list_prs and get_pr: a paused requisition says why it is paused.  The
   thread that is just pausing it has not said so yet.                     *)
PausedExplained ==
  status = Pending /\ (\A w \in Worker : ~At(w, "context")) => context

(* list_requisitions(status=PENDING): the inbox lists the row iff it is paused. *)
InboxExact ==
  \A w \in Worker : At(w, "idle") /\ answer[w] # "none" =>
    (answer[w] = "listed" <=> status = Pending)

(* _advance_stub_state: a requisition somebody keeps asking about is paused
   for its approver, or decided.                                           *)
ReachesApprover == stored ~> status \in Held

(* What the API promises about a requisition (RequisitionLifecycle): an
   approval counts from the moment the status changes.                     *)
Lifecycle == INSTANCE RequisitionLifecycle WITH
  state <- IF stored THEN status ELSE "none",
  pos <- orders + (IF \E w \in Worker : At(w, "append") THEN 1 ELSE 0),
  reruns <- reruns

Implements == Lifecycle!Spec
=============================================================================

----------------------------- MODULE TenantLive -----------------------------
(***************************************************************************)
(* SKILL_MODE=live: what the tenant application and the harness's supplier   *)
(* inbox answer about one requisition, read table by table while the         *)
(* orchestrator writes the rows, the harness puts and deletes its synthetic  *)
(* order, the buyer cancels and decides orders, and reset_demo deletes.      *)
(*                                                                         *)
(* A request is a handler of the thread pool; each of its steps is one call  *)
(* to DynamoDB.  Any number of others may be in flight: of these only the     *)
(* writes matter.  The requisition has one negotiation; the tables also hold *)
(* the bid and the award of another one.  The orchestrator is external: its  *)
(* rows appear in the order the code expects of it.                         *)
(*                                                                         *)
(* No query or scan follows LastEvaluatedKey, and requisition_index follows  *)
(* its table eventually: the reads of bids, awards and communications are a  *)
(* page that may lack rows, and the index may lack the negotiation.  All     *)
(* other reads are taken to be current and complete.                        *)
(***************************************************************************)
EXTENDS NegotiationReport, FiniteSets

CONSTANTS
  Supplier,    \* suppliers invited to, or bidding in, this negotiation
  Stranger,    \* the bidder, and winner, of a negotiation of another requisition
  Handler,     \* requests followed from call to call
  Decisions,   \* acknowledge and reject
  Lines,       \* the requisition's line items
  Catalogues   \* catalogues the report may read

Lookup == {"track", "list", "inbox", "cancel", "negotiations", "bids", "awards", "rfqs",
           "orders", "order", "report"}
Op == Lookup \cup Decisions
Synthetic == "synthetic"
Delivered == "delivered"
Order == {Synthetic, Delivered}

ASSUME LinesAssumption == Lines \in Seq([item : STRING, total : Int])

ASSUME LiveAssumption ==
  /\ Stranger \notin Supplier /\ "none" \notin Supplier
  /\ Decisions \cap (Lookup \cup {"none", "RECEIVED"}) = {}

VARIABLES
  req,       \* the row of requisitions: what there is of it, its status, order_ids?
  neg,       \* status of the row of negotiations, or "none"
  invited,   \* suppliers with an invitation in communications
  told,      \* suppliers with an award or rejection notice in communications
  bids,      \* suppliers with a bid in bids
  award,     \* the winner in awards, or "none"
  po,        \* the two rows of test-tenant-orders
  issued,    \* observation: orders ever put, whose ids a buyer may know
  cleared,   \* how many of its tables reset_demo has emptied
  ask        \* the requests

tables == <<req, neg, invited, told, bids, award, po>>
vars == <<tables, issued, cleared, ask>>

Pending == "PENDING_HUMAN_APPROVAL"
PRStatus == {"IN_NEGOTIATION", Pending, "COMPLETED", "CANCELLED"}
NegRow == {"none", "NEGOTIATING", "PENDING_APPROVAL", "APPROVED", "REJECTED", "AWARDED"}
(* A row is "full", or has only what an update wrote where there was none. *)
Shape == {"none", "partial", "full"}
NoRow == [row |-> "none", status |-> "IN_NEGOTIATION", ordered |-> FALSE]
ReqRow == [row : Shape, status : PRStatus, ordered : BOOLEAN]
NoOrder == [row |-> "none", status |-> "RECEIVED"]
OrderRow == [row : Shape, status : Decisions \cup {"RECEIVED"}]
Call == {"idle", "requisition", "negotiations", "context", "bids", "awards", "communications",
         "supplier bids", "negotiation", "set status", "orders", "order", "update",
         "catalogue", "answered"}
Facts == {"ingested", "opened", "approved", "awarded", "ordered"}

(* A request: what it is about, its next call, what it has read so far, and
   what was there when it was made.  Observation: was what it read cut, by a
   page or by the index?                                                   *)
Idle == [op |-> "none", about |-> "none", at |-> "idle", code |-> 0, req |-> NoRow,
         neg |-> "none", why |-> FALSE, bids |-> {}, awards |-> {}, invited |-> {},
         told |-> {}, report |-> <<>>, cut |-> FALSE,
         asked |-> [bids |-> {}, award |-> "none", invited |-> {}, facts |-> {}]]

TypeOK ==
  /\ req \in ReqRow /\ neg \in NegRow /\ cleared \in 0..6
  /\ {invited, told, bids} \subseteq SUBSET Supplier /\ award \in Supplier \cup {"none"}
  /\ po \in [Order -> OrderRow] /\ issued \subseteq Order
  /\ DOMAIN ask = Handler
  /\ \A h \in Handler :
       /\ ask[h].op \in Op \cup {"none"} /\ ask[h].at \in Call
       /\ ask[h].about \in Supplier \cup Order \cup {"none"}
       /\ ask[h].code \in {0, 200, 404, 409, 500}
       /\ ask[h].req \in ReqRow /\ ask[h].neg \in NegRow
       /\ {ask[h].bids, ask[h].awards} \subseteq SUBSET (Supplier \cup {Stranger})
       /\ {ask[h].invited, ask[h].told} \subseteq SUBSET Supplier /\ ask[h].cut \in BOOLEAN

Init ==
  /\ req = NoRow /\ neg = "none" /\ invited = {} /\ told = {} /\ bids = {} /\ award = "none"
  /\ po = [o \in Order |-> NoOrder] /\ issued = {} /\ cleared = 0
  /\ ask = [h \in Handler |-> Idle]

(***************************************************************************)
(* The orchestrator (external), up to the reset                            *)
(***************************************************************************)
Running == cleared = 0

Ingest ==
  /\ Running /\ req.row = "none"
  /\ req' = [NoRow EXCEPT !.row = "full"]
  /\ UNCHANGED <<neg, invited, told, bids, award, po, issued, cleared, ask>>

(* The negotiation's status; a cycle back leads to NEGOTIATING again. *)
NegNext(s) ==
  CASE s = "none" -> {"NEGOTIATING"}
    [] s = "NEGOTIATING" -> IF bids = {} THEN {} ELSE {"PENDING_APPROVAL", "APPROVED"}
    [] s = "PENDING_APPROVAL" -> {"NEGOTIATING", "APPROVED", "REJECTED"}
    [] s = "APPROVED" -> IF award = "none" THEN {} ELSE {"AWARDED"}
    [] OTHER -> {}

Negotiate ==
  /\ Running /\ req.row = "full" /\ neg' \in NegNext(neg)
  /\ UNCHANGED <<req, invited, told, bids, award, po, issued, cleared, ask>>

(* The requisition's status is another row, written before or after. *)
StatusFor(n) ==
  CASE n = "REJECTED" -> {"CANCELLED"}
    [] n = "AWARDED" -> {"COMPLETED"}
    [] n \in {"NEGOTIATING", "PENDING_APPROVAL"} -> {"IN_NEGOTIATION", Pending}
    [] OTHER -> {"IN_NEGOTIATION"}

Follow ==
  /\ Running /\ req.row = "full" /\ neg # "none"
  /\ \E s \in StatusFor(neg) \ {req.status} : \E issues \in BOOLEAN :
       /\ issues => s = "COMPLETED"
       /\ req' = [req EXCEPT !.status = s, !.ordered = req.ordered \/ issues]
  /\ UNCHANGED <<neg, invited, told, bids, award, po, issued, cleared, ask>>

Invite(s) ==
  /\ Running /\ neg = "NEGOTIATING" /\ invited' = invited \cup {s}
  /\ UNCHANGED <<req, neg, told, bids, award, po, issued, cleared, ask>>

(* The fallback prices a bid of a supplier that was never invited. *)
Bid(s) ==
  /\ Running /\ neg = "NEGOTIATING" /\ bids' = bids \cup {s}
  /\ UNCHANGED <<req, neg, invited, told, award, po, issued, cleared, ask>>

Award(s) ==
  /\ Running /\ neg = "APPROVED" /\ award = "none" /\ s \in bids
  /\ award' = s
  /\ UNCHANGED <<req, neg, invited, told, bids, po, issued, cleared, ask>>

(* award_comms: a notice to every bidder; flows priced without agents skip it. *)
Notify ==
  /\ Running /\ award # "none" /\ told' = bids
  /\ UNCHANGED <<req, neg, invited, bids, award, po, issued, cleared, ask>>

PutOrder(o) ==
  /\ po' = [po EXCEPT ![o] = [NoOrder EXCEPT !.row = "full"]] /\ issued' = issued \cup {o}
  /\ UNCHANGED <<req, neg, invited, told, bids, award, cleared, ask>>

Deliver == Running /\ award # "none" /\ Delivered \notin issued /\ PutOrder(Delivered)

(***************************************************************************)
(* The harness: poll_once's synthetic order, decided on reads that may be     *)
(* old when it is put, and deleted once a real one is seen; reset_demo.     *)
(***************************************************************************)
PutSynthetic == Running /\ award # "none" /\ Synthetic \notin issued /\ PutOrder(Synthetic)

DropSynthetic ==
  /\ Order \subseteq issued /\ po[Synthetic].row # "none"
  /\ po' = [po EXCEPT ![Synthetic] = NoOrder]
  /\ UNCHANGED <<req, neg, invited, told, bids, award, issued, cleared, ask>>

(* The tables of reset_demo that are read here, in its order. *)
ResetStep ==
  /\ req.row # "none" \/ cleared > 0
  /\ cleared < 6 /\ cleared' = cleared + 1
  /\ neg' = (IF cleared = 0 THEN "none" ELSE neg)
  /\ bids' = (IF cleared = 1 THEN {} ELSE bids)
  /\ award' = (IF cleared = 2 THEN "none" ELSE award)
  /\ req' = (IF cleared = 3 THEN NoRow ELSE req)
  /\ po' = (IF cleared = 4 THEN [o \in Order |-> NoOrder] ELSE po)
  /\ invited' = (IF cleared = 5 THEN {} ELSE invited)
  /\ told' = (IF cleared = 5 THEN {} ELSE told)
  /\ UNCHANGED <<issued, ask>>
-----------------------------------------------------------------------------
(***************************************************************************)
(* Requests                                                                *)
(***************************************************************************)
(* What has happened, in the tracker's words. *)
FactsNow ==
  {f \in Facts :
    \/ f = "ingested" /\ req.row = "full"
    \/ f = "opened" /\ neg # "none"
    \/ f = "approved" /\ neg \in {"APPROVED", "AWARDED"}
    \/ f = "awarded" /\ neg = "AWARDED"
    \/ f = "ordered" /\ req.ordered}

FirstCall(op) ==
  CASE op \in {"track", "list", "inbox", "cancel"} -> "requisition"
    [] op \in {"negotiations", "bids", "awards"} -> "negotiations"
    [] op = "rfqs" -> "communications"
    [] op = "orders" -> "orders"
    [] op \in {"order", "report"} -> "order"
    [] op \in Decisions -> "update"

About(op) ==
  CASE op = "rfqs" -> Supplier
    [] op \in {"order", "report"} \cup Decisions -> issued
    [] OTHER -> {"none"}

(* What a property will compare the answer with. *)
Before(op, x) ==
  [bids    |-> CASE op = "bids" -> bids [] op = "rfqs" -> bids \cap {x} [] OTHER -> {},
   award   |-> IF op = "awards" THEN award ELSE "none",
   invited |-> IF op = "rfqs" THEN invited \cap {x} ELSE {},
   facts   |-> IF op \in {"track", "list"} THEN FactsNow ELSE {}]

Ask(h) ==
  /\ ask[h].at = "idle"
  /\ \E op \in Op : \E x \in About(op) :
       ask' = [ask EXCEPT ![h] = [Idle EXCEPT
         !.op = op, !.about = x, !.at = FirstCall(op), !.asked = Before(op, x)]]
  /\ UNCHANGED <<tables, issued, cleared>>

Forget(h) ==
  /\ ask[h].at = "answered" /\ ask' = [ask EXCEPT ![h] = Idle]
  /\ UNCHANGED <<tables, issued, cleared>>

(* A call of h returns: r is the request with what was read. *)
Continue(h, r, at) == ask' = [ask EXCEPT ![h] = [r EXCEPT !.at = at]]
Answer(h, r, code) == ask' = [ask EXCEPT ![h] = [r EXCEPT !.at = "answered", !.code = code]]

(* get_pr has returned: what its caller does with the requisition. *)
GotRequisition(h, r) ==
  LET checked == [r EXCEPT !.req = NoRow, !.neg = "none", !.why = FALSE] IN
  CASE r.op = "report" -> Continue(h, checked, "catalogue")
    [] r.op = "cancel" ->
         \/ Continue(h, checked, "set status")
         \/ r.req.status = "IN_NEGOTIATION" /\ Answer(h, checked, 409)  \* not confirmed
    [] OTHER -> Answer(h, r, 200)

Listing == {"list", "inbox"}
NotListed(h) == Answer(h, ask[h], 200)

(* Faulty variant: list_prs does not look for requisition_id. *)
ReadRequisitionUnskipped(h) ==
  LET r == [ask[h] EXCEPT !.req = req] IN
  /\ ask[h].at = "requisition"
  /\ CASE req.row = "none" -> IF r.op \in Listing THEN NotListed(h) ELSE Answer(h, ask[h], 404)
       [] req.row = "partial" -> IF r.op = "cancel" THEN GotRequisition(h, r)
                                 ELSE Answer(h, ask[h], 500)
       [] req.row = "full" -> IF r.op = "inbox" /\ req.status # Pending THEN NotListed(h)
                              ELSE IF req.status = "CANCELLED" THEN GotRequisition(h, r)
                              ELSE Continue(h, r, "negotiations")
  /\ UNCHANGED <<tables, issued, cleared>>

(* get_pr's get_item and list_prs's scan.  The nodes of a cancelled
   requisition need no negotiation.  A partial row, which is cancelled, is
   skipped by the list; get_pr returns it, and PurchaseRequisition, which
   only cancel_requisition does without, does not take it.                 *)
ReadRequisition(h) ==
  LET r == [ask[h] EXCEPT !.req = req]
      listed == req.row = "full" /\ (r.op = "inbox" => req.status = Pending)
  IN
  /\ ask[h].at = "requisition"
  /\ \/ r.op \in Listing /\ ~listed /\ NotListed(h)
     \/ r.op \notin Listing /\ req.row = "none" /\ Answer(h, ask[h], 404)
     \/ r.op \notin Listing \cup {"cancel"} /\ req.row = "partial" /\ Answer(h, ask[h], 500)
     \/ r.op = "cancel" /\ req.row = "partial" /\ GotRequisition(h, r)
     \/ listed /\ req.status = "CANCELLED" /\ GotRequisition(h, r)
     \/ listed /\ req.status # "CANCELLED" /\ Continue(h, r, "negotiations")
  /\ UNCHANGED <<tables, issued, cleared>>

(* What _normalize_negotiation makes of a status, if Negotiation takes it. *)
Contract(n) ==
  CASE n = "NEGOTIATING" -> "IN_PROGRESS"
    [] n = "AWARDED" -> "COMPLETED"
    [] OTHER -> n
NegotiationStatus == {"PENDING", "IN_PROGRESS", "COMPLETED", "FAILED"}

(* Faulty variant: the negotiations are those of when the request came in. *)
ReadNegotiationsEarlier(h) ==
  LET was == ask[h].asked.facts
      r == [ask[h] EXCEPT !.neg = IF "awarded" \in was THEN "AWARDED"
                                  ELSE IF "opened" \in was THEN "NEGOTIATING" ELSE "none"]
  IN
  /\ ask[h].at = "negotiations" /\ ask[h].op \notin {"negotiations", "bids", "awards"}
  /\ IF r.req.status = Pending THEN Continue(h, r, "context") ELSE GotRequisition(h, r)
  /\ UNCHANGED <<tables, issued, cleared>>

(* get_negotiations; for get_bids and get_awards the index may not yet have
   the negotiation, or still have one that the reset has deleted.          *)
ReadNegotiations(h) ==
  LET r == [ask[h] EXCEPT !.neg = neg] IN
  /\ ask[h].at = "negotiations"
  /\ CASE r.op = "negotiations" ->
            Answer(h, r, IF neg = "none" \/ Contract(neg) \in NegotiationStatus THEN 200 ELSE 500)
       [] r.op \in {"bids", "awards"} ->
            \/ Answer(h, [r EXCEPT !.cut = neg # "none"], 200)
            \/ (neg # "none" \/ ~Running) /\ Continue(h, ask[h], "bids")
       [] OTHER ->
            IF r.req.status = Pending THEN Continue(h, r, "context") ELSE GotRequisition(h, r)
  /\ UNCHANGED <<tables, issued, cleared>>

(* _approval_context *)
ReadContext(h) ==
  /\ ask[h].at = "context" /\ GotRequisition(h, [ask[h] EXCEPT !.why = neg # "none"])
  /\ UNCHANGED <<tables, issued, cleared>>

(* Faulty variant: every bid of the tenant. *)
ReadBidsOfAll(h) ==
  /\ ask[h].at = "bids"
  /\ \E got \in SUBSET (bids \cup {Stranger}) :
       LET r == [ask[h] EXCEPT !.bids = got, !.cut = ~(bids \subseteq got)] IN
         IF r.op = "awards" /\ got # {} THEN Continue(h, r, "awards") ELSE Answer(h, r, 200)
  /\ UNCHANGED <<tables, issued, cleared>>

(* get_bids: a page of the tenant's bids, of the negotiations just read. *)
ReadBids(h) ==
  /\ ask[h].at = "bids"
  /\ \E page \in SUBSET (bids \cup {Stranger}) :
       LET got == page \cap Supplier
           r == [ask[h] EXCEPT !.bids = got, !.cut = ~(bids \subseteq page)]
       IN IF r.op = "awards" /\ got # {} THEN Continue(h, r, "awards") ELSE Answer(h, r, 200)
  /\ UNCHANGED <<tables, issued, cleared>>

(* get_awards: a page of the tenant's awards, of the bids just read. *)
ReadAwards(h) ==
  /\ ask[h].at = "awards"
  /\ \E page \in SUBSET ({award, Stranger} \ {"none"}) :
       Answer(h, [ask[h] EXCEPT !.awards = page \cap ask[h].bids,
                                !.cut = @ \/ award \notin page \cup {"none"}], 200)
  /\ UNCHANGED <<tables, issued, cleared>>

(* Faulty variant: bids and communications are read the other way round. *)
ReadCommunicationsLast(h) ==
  LET s == ask[h].about IN
  /\ ask[h].at = "communications"
  /\ \E old \in {ask[h].asked.bids, bids \cap {s}} :
       ask' = [ask EXCEPT ![h] = [@ EXCEPT !.invited = invited \cap {s}, !.told = told \cap {s},
                                           !.bids = old, !.at = "negotiation"]]
  /\ UNCHANGED <<tables, issued, cleared>>

(* get_supplier_rfqs: a page of the scan of everybody's communications,
   filtered by the supplier ...                                            *)
ReadCommunications(h) ==
  /\ ask[h].at = "communications"
  /\ \E i \in SUBSET (invited \cap {ask[h].about}), t \in SUBSET (told \cap {ask[h].about}) :
       Continue(h, [ask[h] EXCEPT !.invited = i, !.told = t,
                                  !.cut = <<i, t>> # <<invited \cap {ask[h].about}, told \cap {ask[h].about}>>],
                "supplier bids")
  /\ UNCHANGED <<tables, issued, cleared>>

(* ... then a page of bids, where one without invitation counts as well ... *)
ReadSupplierBids(h) ==
  /\ ask[h].at = "supplier bids"
  /\ \E b \in SUBSET (bids \cap {ask[h].about}) :
       LET r == [ask[h] EXCEPT !.bids = b, !.cut = @ \/ b # bids \cap {ask[h].about}] IN
         IF r.invited \cup r.told \cup r.bids = {} THEN Answer(h, r, 200)
         ELSE Continue(h, r, "negotiation")
  /\ UNCHANGED <<tables, issued, cleared>>

(* ... then, in a pool, the negotiations found: status None if one has gone. *)
ReadNegotiation(h) ==
  /\ ask[h].at = "negotiation" /\ Answer(h, [ask[h] EXCEPT !.neg = neg], 200)
  /\ UNCHANGED <<tables, issued, cleared>>

(* cancel_pr's _set_status, once the gate has been told (ApprovalGate):
   update_item creates the row if it has gone.                             *)
Cancel ==
  /\ req' = [req EXCEPT !.status = "CANCELLED", !.row = IF @ = "none" THEN "partial" ELSE @]
  /\ UNCHANGED <<neg, invited, told, bids, award, po, issued, cleared>>

SetStatus(h) == ask[h].at = "set status" /\ Cancel /\ Answer(h, ask[h], 200)

(* PurchaseOrder takes what the orchestrator delivered, but neither a row
   without order_id nor the synthetic one, which has no received_at.       *)
Parses(o, row) == row.row = "full" /\ o = Delivered

(* list_orders: the rows with a tenant_id, all or none of them. *)
ReadOrders(h) ==
  /\ ask[h].at = "orders"
  /\ LET found == {o \in Order : po[o].row = "full"} IN
     Answer(h, ask[h], IF \A o \in found : Parses(o, po[o]) THEN 200 ELSE 500)
  /\ UNCHANGED <<tables, issued, cleared>>

(* Faulty variant: there is a report only of an order not yet decided. *)
ReadOrderReceived(h) ==
  LET o == ask[h].about
      found == po[o].row # "none" /\ (ask[h].op = "report" => po[o].status = "RECEIVED")
  IN
  /\ ask[h].at = "order"
  /\ \/ ~found /\ Answer(h, ask[h], 404)
     \/ found /\ ~Parses(o, po[o]) /\ Answer(h, ask[h], 500)
     \/ found /\ Parses(o, po[o]) /\ ask[h].op = "report" /\ Continue(h, ask[h], "requisition")
     \/ found /\ Parses(o, po[o]) /\ ask[h].op # "report" /\ Answer(h, ask[h], 200)
  /\ UNCHANGED <<tables, issued, cleared>>

(* DynamoClient.get_order, for each of the routes that call it. *)
ReadOrder(h) ==
  LET o == ask[h].about IN
  /\ ask[h].at = "order"
  /\ \/ po[o].row = "none" /\ Answer(h, ask[h], 404)
     \/ po[o].row # "none" /\ ~Parses(o, po[o]) /\ Answer(h, ask[h], 500)
     \/ Parses(o, po[o]) /\ ask[h].op = "report" /\ Continue(h, ask[h], "requisition")
     \/ Parses(o, po[o]) /\ ask[h].op # "report" /\ Answer(h, ask[h], 200)
  /\ UNCHANGED <<tables, issued, cleared>>

(* Faulty variant: the row is put, with the decision and nothing else. *)
DecidePut(o, decision) ==
  /\ po' = [po EXCEPT ![o] = [row |-> "partial", status |-> decision]]
  /\ UNCHANGED <<req, neg, invited, told, bids, award, issued, cleared>>

(* acknowledge_order and reject_order: update_item, whatever is there ... *)
Decide(o, decision) ==
  /\ po' = [po EXCEPT ![o] =
              [row |-> IF @.row = "none" THEN "partial" ELSE @.row, status |-> decision]]
  /\ UNCHANGED <<req, neg, invited, told, bids, award, issued, cleared>>

(* ... and then get_order. *)
UpdateOrder(h) ==
  LET r == ask[h] IN r.at = "update" /\ Decide(r.about, r.op) /\ Continue(h, r, "order")

(* Another request of the pool, which has passed its checks at some time. *)
OtherRequest ==
  /\ \/ \E o \in issued, decision \in Decisions : Decide(o, decision)
     \/ (req.row = "full" \/ cleared > 0) /\ Cancel
  /\ UNCHANGED ask

(* _build_negotiations, from the catalogue of the moment. *)
ReadCatalogue(h) ==
  /\ ask[h].at = "catalogue"
  /\ \E cat \in Catalogues : Answer(h, [ask[h] EXCEPT !.report = Report(cat, Lines)], 200)
  /\ UNCHANGED <<tables, issued, cleared>>

Orchestrator ==
  \/ Ingest \/ Negotiate \/ Follow \/ Notify \/ Deliver
  \/ \E s \in Supplier : Invite(s) \/ Bid(s) \/ Award(s)

Request(h) ==
  \/ Ask(h) \/ Forget(h)
  \/ ReadRequisition(h) \/ ReadNegotiations(h) \/ ReadContext(h) \/ ReadBids(h) \/ ReadAwards(h)
  \/ ReadCommunications(h) \/ ReadSupplierBids(h) \/ ReadNegotiation(h) \/ SetStatus(h)
  \/ ReadOrders(h) \/ ReadOrder(h) \/ UpdateOrder(h) \/ ReadCatalogue(h)

Next ==
  \/ Orchestrator \/ PutSynthetic \/ DropSynthetic \/ ResetStep \/ OtherRequest
  \/ \E h \in Handler : Request(h)

Spec == Init /\ [][Next]_vars
-----------------------------------------------------------------------------
(***************************************************************************)
(* Properties.  Those about answers of a request during which nothing was    *)
(* reset say so with Running.                                              *)
(***************************************************************************)
Answered(h, ops) == ask[h].at = "answered" /\ ask[h].op \in ops

(* Faulty variant: an approval counts before the requisition has left the gate. *)
CompletedOfTwo(r) ==
  {"ingest"} \cup
  (IF r.req.status = "CANCELLED" \/ r.neg = "none" THEN {}
   ELSE (IF r.neg = "AWARDED" THEN {"negotiation", "bid_evaluation"} ELSE {}) \cup
        (IF r.neg \in {"APPROVED", "AWARDED"} THEN {"approval"} ELSE {}) \cup
        (IF r.req.status = "COMPLETED" THEN {"award"} ELSE {}))

(* _synthesize_graph_nodes: the nodes the tracker shows as completed. *)
Completed(r) ==
  {"ingest"} \cup
  (IF r.req.status = "CANCELLED" \/ r.neg = "none" THEN {}
   ELSE (IF r.neg = "AWARDED" \/ r.req.ordered THEN {"negotiation", "bid_evaluation"} ELSE {}) \cup
        (IF r.req.status # Pending /\ r.neg \in {"APPROVED", "AWARDED"} THEN {"approval"} ELSE {}) \cup
        (IF r.req.ordered THEN {"award"} ELSE {}))

Shown(h, node) == node \in Completed(ask[h])
Listed(h) == ask[h].code = 200 /\ ask[h].req.row = "full"

(* get_pr and list_prs, which read the requisition's row before the
   negotiation's while both change: what the tracker shows as completed has
   happened, and what had happened when the page asked is shown, except an
   approval that the requisition's row does not know of yet, and all of it
   once the requisition is cancelled.  A paused requisition says why.      *)
TrackerTrue ==
  \A h \in Handler : Running /\ Answered(h, {"track", "list"}) /\ Listed(h) =>
    LET was == ask[h].asked.facts IN
    /\ Shown(h, "negotiation") => "awarded" \in FactsNow
    /\ Shown(h, "approval") => "approved" \in FactsNow
    /\ Shown(h, "award") => "ordered" \in FactsNow
    /\ ask[h].req.status # "CANCELLED" =>
         /\ "awarded" \in was => Shown(h, "negotiation")
         /\ "approved" \in was => Shown(h, "approval") \/ ask[h].req.status = Pending
         /\ "ordered" \in was => Shown(h, "award")
    /\ ask[h].req.status = Pending => ask[h].why

(* _synthesize_graph_nodes: although it mixes two rows read one after the
   other, the pipeline it shows is one: reset or not, no node is completed
   before those that lead to it, but for an approval that the requisition's
   row, read first, still waits for.                                       *)
TrackerOrdered ==
  \A h \in Handler : Answered(h, {"track", "list", "inbox"}) /\ Listed(h) =>
    /\ Shown(h, "award") => Shown(h, "approval")
    /\ Shown(h, "negotiation") => Shown(h, "approval") \/ ask[h].req.status = Pending

(* get_bids and get_awards, which find rows of a requisition by way of one
   or two other tables: nothing of another requisition, whatever the pages
   hold; and, if neither a page nor the index left a row out, everything that
   was there when the request was made.                                    *)
ReadsBetween ==
  \A h \in Handler : Answered(h, {"bids", "awards"}) =>
    /\ Stranger \notin ask[h].bids \cup ask[h].awards
    /\ Running /\ ~ask[h].cut =>
         /\ ask[h].op = "bids" => ask[h].asked.bids \subseteq ask[h].bids
         /\ ask[h].asked.award # "none" => ask[h].asked.award \in ask[h].awards

(* get_supplier_rfqs: three tables read one after the other give a story in
   the order it happened: whoever is told of an award is shown a negotiation
   that was decided, and whoever was invited, or has bid, one that exists; if
   no page left a row out, whoever is told of an award is also shown to have
   bid, and nothing that was there when the request was made is missing.   *)
RfqsCausal ==
  \A h \in Handler : Running /\ Answered(h, {"rfqs"}) =>
    /\ ask[h].told # {} => ask[h].neg \in {"APPROVED", "AWARDED"}
    /\ ask[h].invited \cup ask[h].bids # {} => ask[h].neg # "none"
    /\ ~ask[h].cut =>
         /\ ask[h].told \subseteq ask[h].bids
         /\ ask[h].asked.invited \subseteq ask[h].invited /\ ask[h].asked.bids \subseteq ask[h].bids

(* list_prs "one such row would otherwise 500 the whole list": the lists of
   requisitions are served whatever a cancellation that overlaps a reset
   leaves behind; and so is the list of orders whatever a decision of an
   order that has gone leaves, unless the harness has put its own.         *)
ListsServed ==
  /\ \A h \in Handler : Answered(h, Listing) => ask[h].code = 200
  /\ Synthetic \notin issued => \A h \in Handler : Answered(h, {"orders"}) => ask[h].code = 200

(* acknowledge_order, reject_order: the buyer is told of success only about a
   delivered order that is, and until the reset stays, decided; and of
   failure only about a synthetic order or after a reset.                  *)
DecisionStands ==
  \A h \in Handler : Answered(h, Decisions) =>
    IF ask[h].code = 200
    THEN /\ ask[h].about = Delivered
         /\ cleared < 5 => po[Delivered].row = "full" /\ po[Delivered].status \in Decisions
    ELSE ask[h].about = Synthetic \/ cleared > 0

(* get_negotiation_report_pdf, across orders, requisition, negotiation and
   catalogue: until a reset the report of a delivered order is there, decided
   or not, whatever becomes of the requisition.                            *)
ReportServed ==
  \A h \in Handler : Running /\ Answered(h, {"report"}) =>
    ask[h].code = 200 \/ ask[h].about = Synthetic

(* negotiation_report.py:12 "they reconcile exactly": each line is in one
   section, no category has two, the quotes come down (a quantity may be
   negative, then they do not), and the sections add up to the summary of an
   order issued at the requisition's prices.                               *)
ReportReconciles ==
  \A h \in Handler : Answered(h, {"report"}) /\ ask[h].code = 200 =>
    LET report == ask[h].report
        sum == 200 * SumTotals(Lines, DOMAIN Lines)
    IN /\ \A k \in DOMAIN Lines : \E i \in DOMAIN report : k \in report[i].lines
       /\ \A i, j \in DOMAIN report : i # j =>
            /\ report[i].category # report[j].category
            /\ report[i].lines \cap report[j].lines = {}
       /\ SumOf("final", report) = sum
       /\ SumOf("savings", report) = SummaryTotal(report, sum).savings
       /\ \A i \in DOMAIN report :
            report[i].final >= 0 =>
              report[i].opening >= report[i].counter /\ report[i].counter >= report[i].final
=============================================================================

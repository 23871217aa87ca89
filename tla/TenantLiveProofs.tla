--------------------------- MODULE TenantLiveProofs ---------------------------
(***************************************************************************)
(* Proofs about TenantLive, for any suppliers, decisions, lines, catalogues  *)
(* and any number of requests: what its answers tell of the tables.         *)
(***************************************************************************)
EXTENDS TenantLive, NegotiationReportProofs, TLAPS

(***************************************************************************)
(* Requests as records                                                     *)
(***************************************************************************)
Shaped == DOMAIN ask = Handler /\ \A h \in Handler : DOMAIN ask[h] = DOMAIN Idle

(* What r says, h's request says as well, but for where it is. *)
Says(h, r) ==
  /\ ask'[h].op = r.op /\ ask'[h].about = r.about /\ ask'[h].asked = r.asked
  /\ ask'[h].req = r.req /\ ask'[h].neg = r.neg /\ ask'[h].why = r.why
  /\ ask'[h].bids = r.bids /\ ask'[h].awards = r.awards
  /\ ask'[h].invited = r.invited /\ ask'[h].told = r.told /\ ask'[h].cut = r.cut
Alone(h) == Shaped' /\ \A g \in Handler : g # h => ask'[g] = ask[g]

LEMMA ContinueEffect ==
  ASSUME Shaped, NEW h \in Handler, NEW r, DOMAIN r = DOMAIN Idle, NEW at, Continue(h, r, at)
  PROVE  Alone(h) /\ Says(h, r) /\ ask'[h].at = at /\ ask'[h].code = r.code
<1>1. ask' = [ask EXCEPT ![h] = [r EXCEPT !.at = at]]
  BY DEF Continue
<1>2. ask'[h] = [r EXCEPT !.at = at] /\ DOMAIN ask' = Handler /\ \A g \in Handler : g # h => ask'[g] = ask[g]
  BY <1>1 DEF Shaped
<1>3. DOMAIN ask'[h] = DOMAIN Idle
  BY <1>2
<1>4. Says(h, r) /\ ask'[h].at = at /\ ask'[h].code = r.code
  BY <1>2 DEF Idle, Says
<1> QED
  BY <1>2, <1>3, <1>4 DEF Alone, Shaped

LEMMA AnswerEffect ==
  ASSUME Shaped, NEW h \in Handler, NEW r, DOMAIN r = DOMAIN Idle, NEW code, Answer(h, r, code)
  PROVE  /\ Alone(h) /\ Says(h, r) /\ ask'[h].at = "answered" /\ ask'[h].code = code
         /\ ask'[h].report = r.report
<1>1. ask' = [ask EXCEPT ![h] = [r EXCEPT !.at = "answered", !.code = code]]
  BY DEF Answer
<1>2. /\ ask'[h] = [r EXCEPT !.at = "answered", !.code = code] /\ DOMAIN ask' = Handler
      /\ \A g \in Handler : g # h => ask'[g] = ask[g]
  BY <1>1 DEF Shaped
<1>3. DOMAIN ask'[h] = DOMAIN Idle
  BY <1>2
<1>4. Says(h, r) /\ ask'[h].at = "answered" /\ ask'[h].code = code /\ ask'[h].report = r.report
  BY <1>2 DEF Idle, Says
<1> QED
  BY <1>2, <1>3, <1>4 DEF Alone, Shaped

(* GotRequisition, by what the request is. *)
LEMMA GotEffect ==
  ASSUME Shaped, NEW h \in Handler, NEW r, DOMAIN r = DOMAIN Idle, GotRequisition(h, r)
  PROVE  /\ Alone(h) /\ ask'[h].op = r.op /\ ask'[h].about = r.about /\ ask'[h].asked = r.asked
         /\ \/ r.op = "report" /\ ask'[h].at = "catalogue"
            \/ r.op = "cancel" /\ ask'[h].at \in {"set status", "answered"}
            \/ r.op \notin {"report", "cancel"} /\ Says(h, r) /\ ask'[h].at = "answered" /\ ask'[h].code = 200
<1> DEFINE checked == [r EXCEPT !.req = NoRow, !.neg = "none", !.why = FALSE]
<1>1. DOMAIN checked = DOMAIN Idle /\ checked.op = r.op /\ checked.about = r.about /\ checked.asked = r.asked
  BY DEF Idle
<1> HIDE DEF checked
<1>2. CASE r.op = "report"
  <2>1. Continue(h, checked, "catalogue")
    BY <1>2 DEF GotRequisition, checked
  <2>2. Alone(h) /\ Says(h, checked) /\ ask'[h].at = "catalogue"
    BY <1>1, <2>1, ContinueEffect
  <2> QED
    BY <1>1, <1>2, <2>2 DEF Says
<1>3. CASE r.op = "cancel"
  <2>1. Continue(h, checked, "set status") \/ Answer(h, checked, 409)
    BY <1>3 DEF GotRequisition, checked
  <2>2. Alone(h) /\ Says(h, checked) /\ ask'[h].at \in {"set status", "answered"}
    <3>1. CASE Continue(h, checked, "set status")
      <4>1. Alone(h) /\ Says(h, checked) /\ ask'[h].at = "set status"
        BY <1>1, <3>1, ContinueEffect
      <4> QED
        BY <4>1
    <3>2. CASE Answer(h, checked, 409)
      <4>1. Alone(h) /\ Says(h, checked) /\ ask'[h].at = "answered"
        BY <1>1, <3>2, AnswerEffect
      <4> QED
        BY <4>1
    <3> QED
      BY <2>1, <3>1, <3>2
  <2> QED
    BY <1>1, <1>3, <2>2 DEF Says
<1>4. CASE r.op \notin {"report", "cancel"}
  <2>1. Answer(h, r, 200)
    BY <1>4 DEF GotRequisition
  <2>2. Alone(h) /\ Says(h, r) /\ ask'[h].at = "answered" /\ ask'[h].code = 200
    BY <2>1, AnswerEffect
  <2> QED
    BY <1>4, <2>2 DEF Says
<1> QED
  BY <1>2, <1>3, <1>4

(***************************************************************************)
(* The tables                                                              *)
(***************************************************************************)
Pages == {"track", "list", "inbox"}

(* Which requests make which call, and what they may be about. *)
Stage(h) ==
  /\ ask[h].op \in Op \cup {"none"} /\ (ask[h].at = "idle" => ask[h] = Idle)
  /\ ask[h].at \in {"requisition", "context"} => ask[h].op \in Pages \cup {"cancel", "report"}
  /\ ask[h].at = "negotiations" =>
       ask[h].op \in Pages \cup {"cancel", "report", "negotiations", "bids", "awards"}
  /\ ask[h].at = "set status" => ask[h].op = "cancel"
  /\ ask[h].at = "bids" => ask[h].op \in {"bids", "awards"}
  /\ ask[h].at = "awards" => ask[h].op = "awards"
  /\ ask[h].at \in {"communications", "supplier bids", "negotiation"} => ask[h].op = "rfqs"
  /\ ask[h].at = "orders" => ask[h].op = "orders"
  /\ ask[h].at = "order" => ask[h].op \in {"order", "report"} \cup Decisions
  /\ ask[h].at = "update" => ask[h].op \in Decisions
  /\ ask[h].at = "catalogue" => ask[h].op = "report"
  /\ ask[h].op \in {"order", "report"} \cup Decisions => ask[h].about \in issued
  /\ ask[h].op = "rfqs" => ask[h].about \in Supplier

Stages == \A h \in Handler : Stage(h)

TableType ==
  /\ req \in ReqRow /\ neg \in NegRow /\ cleared \in 0..6
  /\ invited \subseteq Supplier /\ told \subseteq Supplier /\ bids \subseteq Supplier
  /\ award \in Supplier \cup {"none"} /\ po \in [Order -> OrderRow] /\ issued \subseteq Order

(* What the rows of the tables say of each other, up to the reset and after. *)
Story ==
  /\ Running =>
       /\ req.row \in {"none", "full"}
       /\ neg # "none" => req.row = "full"
       /\ bids # {} => neg # "none"
       /\ invited # {} => neg # "none"
       /\ award # "none" => award \in bids /\ neg \in {"APPROVED", "AWARDED"}
       /\ told \subseteq bids /\ (told # {} => award # "none")
       /\ issued # {} => award # "none"
       /\ req.ordered => neg = "AWARDED"
       /\ req.status = Pending => neg # "none"
  /\ ~Running => neg = "none"
  /\ req.ordered => req.status \in {"COMPLETED", "CANCELLED"}
  /\ Delivered \in issued /\ cleared < 5 => po[Delivered].row = "full"
  /\ \A o \in Order \ issued : po[o] = NoOrder

(* A cancellation in flight found a requisition. *)
Cancelling ==
  \A h \in Handler :
    Running /\ ask[h].op = "cancel" /\ ask[h].at \in {"negotiations", "context", "set status"} =>
      req.row = "full"

IInv == TableType /\ Shaped /\ Stages /\ Story /\ Cancelling

(* What requests, followed or not, write. *)
Writes ==
  \/ Cancel /\ (Running => req.row = "full")
  \/ \E o \in issued, decision \in Decisions : Decide(o, decision)

LEMMA TableCases ==
  ASSUME IInv, [Next]_vars
  PROVE  \/ UNCHANGED <<tables, issued, cleared>>
         \/ Orchestrator \/ PutSynthetic \/ DropSynthetic \/ ResetStep
         \/ Writes
<1>1. ASSUME OtherRequest PROVE Writes
  BY <1>1 DEF OtherRequest, Writes, Running
<1>2. ASSUME NEW h \in Handler, Request(h) PROVE Writes \/ UNCHANGED <<tables, issued, cleared>>
  <2>1. CASE SetStatus(h)
    BY <2>1 DEF SetStatus, Writes, IInv, Cancelling, Stages, Stage
  <2>2. CASE UpdateOrder(h)
    <3>1. ask[h].about \in issued /\ ask[h].op \in Decisions
      BY <2>2 DEF UpdateOrder, IInv, Stages, Stage
    <3> QED
      BY <2>2, <3>1 DEF UpdateOrder, Writes
  <2> QED
    BY <1>2, <2>1, <2>2 DEF Request, Ask, Forget, ReadRequisition, ReadNegotiations, ReadContext, ReadBids,
       ReadAwards, ReadCommunications, ReadSupplierBids, ReadNegotiation, ReadOrders, ReadOrder, ReadCatalogue
<1>3. CASE UNCHANGED vars
  BY <1>3 DEF vars
<1> QED
  BY <1>1, <1>2, <1>3 DEF Next

LEMMA OrderFacts == /\ Order = {Synthetic, Delivered} /\ Synthetic # Delivered
                    /\ NoOrder \in OrderRow /\ NoRow \in ReqRow
BY DEF Order, Synthetic, Delivered, NoOrder, OrderRow, NoRow, ReqRow, Shape, PRStatus

LEMMA PutEffect ==
  ASSUME TableType, NEW o \in Order, PutOrder(o)
  PROVE  /\ po' \in [Order -> OrderRow] /\ issued' = issued \cup {o} /\ po'[o].row = "full"
         /\ \A p \in Order : p # o => po'[p] = po[p]
         /\ UNCHANGED <<req, neg, invited, told, bids, award, cleared>>
<1>1. [NoOrder EXCEPT !.row = "full"] \in OrderRow /\ [NoOrder EXCEPT !.row = "full"].row = "full"
  BY DEF NoOrder, OrderRow, Shape
<1> QED
  BY <1>1 DEF PutOrder, TableType

LEMMA DecideEffect ==
  ASSUME TableType, NEW o \in Order, NEW decision \in Decisions, Decide(o, decision)
  PROVE  /\ po' \in [Order -> OrderRow]
         /\ po'[o].status = decision /\ (po[o].row = "full" => po'[o].row = "full")
         /\ \A p \in Order : p # o => po'[p] = po[p]
         /\ UNCHANGED <<req, neg, invited, told, bids, award, issued, cleared>>
<1> DEFINE row == [row |-> IF po[o].row = "none" THEN "partial" ELSE po[o].row, status |-> decision]
<1>1. row \in OrderRow
  BY DEF TableType, OrderRow, Shape
<1>2. po' = [po EXCEPT ![o] = row]
  BY DEF Decide
<1>3. po' \in [Order -> OrderRow] /\ po'[o] = row /\ \A p \in Order : p # o => po'[p] = po[p]
  BY <1>1, <1>2 DEF TableType
<1> QED
  BY <1>3 DEF Decide

LEMMA CancelEffect ==
  ASSUME TableType, Cancel
  PROVE  /\ req' \in ReqRow /\ req'.status = "CANCELLED" /\ req'.ordered = req.ordered
         /\ req'.row = (IF req.row = "none" THEN "partial" ELSE req.row)
         /\ UNCHANGED <<neg, invited, told, bids, award, po, issued, cleared>>
<1>1. req \in [row : Shape, status : PRStatus, ordered : BOOLEAN]
  BY DEF TableType, ReqRow
<1> QED
  BY <1>1 DEF Cancel, ReqRow, Shape, PRStatus

(* The requisition's row as the orchestrator writes it. *)
LEMMA FollowEffect ==
  ASSUME TableType, Follow
  PROVE  /\ req' \in ReqRow /\ req'.row = req.row /\ req.row = "full" /\ neg # "none" /\ Running
         /\ req'.status \in StatusFor(neg)
         /\ req.ordered => req'.ordered
         /\ req'.ordered => req.ordered \/ req'.status = "COMPLETED"
         /\ UNCHANGED <<neg, invited, told, bids, award, po, issued, cleared>>
<1>1. req \in [row : Shape, status : PRStatus, ordered : BOOLEAN]
  BY DEF TableType, ReqRow
<1>2. PICK st \in StatusFor(neg), issues \in BOOLEAN :
        /\ issues => st = "COMPLETED"
        /\ req' = [req EXCEPT !.status = st, !.ordered = req.ordered \/ issues]
  BY DEF Follow
<1>3. st \in PRStatus
  BY <1>2 DEF StatusFor, PRStatus
<1>4. req'.row = req.row /\ req'.status = st /\ req'.ordered = (req.ordered \/ issues) /\ req' \in ReqRow
  BY <1>1, <1>2, <1>3 DEF ReqRow
<1> QED
  BY <1>1, <1>2, <1>4 DEF Follow

LEMMA TableTypeStep == ASSUME IInv, [Next]_vars PROVE TableType'
<1>t. TableType
  BY DEF IInv
<1>1. CASE UNCHANGED <<tables, issued, cleared>>
  BY <1>t, <1>1 DEF tables, TableType
<1>2. CASE Ingest
  <2>1. [NoRow EXCEPT !.row = "full"] \in ReqRow
    BY DEF NoRow, ReqRow, Shape, PRStatus
  <2> QED
    BY <1>t, <1>2, <2>1 DEF Ingest, TableType
<1>3. CASE Negotiate
  <2>1. neg' \in NegRow
    BY <1>3 DEF Negotiate, NegNext, NegRow
  <2> QED
    BY <1>t, <1>3, <2>1 DEF Negotiate, TableType
<1>4. CASE Follow
  BY <1>t, <1>4, FollowEffect DEF TableType
<1>5. CASE Notify
  BY <1>t, <1>5 DEF Notify, TableType
<1>6. CASE Deliver \/ PutSynthetic
  <2>1. PICK o \in Order : PutOrder(o)
    BY <1>6, OrderFacts DEF Deliver, PutSynthetic
  <2> QED
    BY <1>t, <2>1, PutEffect DEF TableType
<1>7. ASSUME NEW s \in Supplier, Invite(s) \/ Bid(s) \/ Award(s) PROVE TableType'
  BY <1>t, <1>7 DEF Invite, Bid, Award, TableType
<1>8. CASE DropSynthetic
  BY <1>t, <1>8, OrderFacts DEF DropSynthetic, TableType
<1>9. CASE ResetStep
  <2>1. cleared' \in 0..6
    BY <1>t, <1>9 DEF ResetStep, TableType
  <2>2. neg' \in NegRow /\ req' \in ReqRow /\ po' \in [Order -> OrderRow]
    BY <1>t, <1>9, OrderFacts DEF ResetStep, TableType, NegRow
  <2>3. /\ bids' \subseteq Supplier /\ award' \in Supplier \cup {"none"} /\ invited' \subseteq Supplier
        /\ told' \subseteq Supplier /\ issued' = issued
    BY <1>t, <1>9 DEF ResetStep, TableType
  <2> QED
    BY <1>t, <2>1, <2>2, <2>3 DEF TableType
<1>10. CASE Writes
  <2>1. CASE Cancel
    BY <1>t, <2>1, CancelEffect DEF TableType
  <2>2. ASSUME NEW o \in issued, NEW decision \in Decisions, Decide(o, decision) PROVE TableType'
    <3>1. o \in Order
      BY <1>t DEF TableType
    <3> QED
      BY <1>t, <2>2, <3>1, DecideEffect DEF TableType
  <2> QED
    BY <1>10, <2>1, <2>2 DEF Writes
<1> QED
  BY <1>1, <1>2, <1>3, <1>4, <1>5, <1>6, <1>7, <1>8, <1>9, <1>10, TableCases DEF Orchestrator

LEMMA StoryOrchestrated ==
  ASSUME TableType, Story,
         Ingest \/ Negotiate \/ Follow \/ Notify \/ \E s \in Supplier : Invite(s) \/ Bid(s) \/ Award(s)
  PROVE  Story'
<1>1. CASE Ingest
  <2>1. req'.row = "full" /\ req'.ordered = FALSE /\ req'.status # Pending
    BY <1>1 DEF Ingest, NoRow, Pending
  <2> QED
    BY <1>1, <2>1 DEF Ingest, Story, Running
<1>2. CASE Negotiate
  <2>1. Running /\ neg # "AWARDED" /\ ~req.ordered /\ neg' # "none" /\ req.row = "full"
    BY <1>2 DEF Negotiate, NegNext, Story
  <2>2. award # "none" => neg' = "AWARDED"
    BY <1>2, <2>1 DEF Negotiate, NegNext, Story
  <2> QED
    BY <1>2, <2>1, <2>2 DEF Negotiate, Story, Running
<1>3. CASE Follow
  <2>1. /\ req'.row = req.row /\ req.row = "full" /\ neg # "none" /\ Running
        /\ req'.status \in StatusFor(neg)
        /\ req'.ordered => req.ordered \/ req'.status = "COMPLETED"
        /\ UNCHANGED <<neg, invited, told, bids, award, po, issued, cleared>>
    BY <1>3, FollowEffect
  <2>2. req.ordered => neg = "AWARDED"
    BY <2>1 DEF Story
  <2>3. (req'.status = "COMPLETED" => neg = "AWARDED") /\ (neg = "AWARDED" => req'.status = "COMPLETED")
    BY <2>1 DEF StatusFor, Pending
  <2> QED
    BY <2>1, <2>2, <2>3 DEF Story, Running
<1>4. CASE Notify
  BY <1>4 DEF Notify, Story, Running
<1>5. ASSUME NEW s \in Supplier, Invite(s) \/ Bid(s) \/ Award(s) PROVE Story'
  <2>1. s # "none"
    BY LiveAssumption
  <2> QED
    BY <1>5, <2>1 DEF Invite, Bid, Award, Story, Running
<1> QED
  BY <1>1, <1>2, <1>3, <1>4, <1>5

LEMMA StoryStep == ASSUME IInv, [Next]_vars PROVE Story'
<1>t. TableType /\ Story
  BY DEF IInv
<1>1. CASE UNCHANGED <<tables, issued, cleared>>
  BY <1>t, <1>1 DEF tables, Story, Running
<1>2. CASE Deliver \/ PutSynthetic
  <2>1. PICK o \in Order : PutOrder(o) /\ Running /\ award # "none" /\ o \notin issued
    BY <1>2, OrderFacts DEF Deliver, PutSynthetic
  <2>2. /\ issued' = issued \cup {o} /\ po'[o].row = "full" /\ \A p \in Order : p # o => po'[p] = po[p]
        /\ UNCHANGED <<req, neg, invited, told, bids, award, cleared>>
    BY <1>t, <2>1, PutEffect
  <2>3. Delivered \in Order
    BY OrderFacts
  <2> QED
    BY <1>t, <2>1, <2>2, <2>3 DEF Story, Running
<1>3. CASE DropSynthetic
  <2>1. /\ Delivered \in issued /\ Order \subseteq issued /\ po'[Delivered] = po[Delivered]
        /\ UNCHANGED <<req, neg, invited, told, bids, award, issued, cleared>>
    BY <1>t, <1>3, OrderFacts DEF DropSynthetic, TableType
  <2> QED
    BY <1>t, <2>1 DEF Story, Running
<1>4. CASE ResetStep
  <2>1. cleared' # 0 /\ cleared' = cleared + 1 /\ cleared \in Nat
    BY <1>t, <1>4 DEF ResetStep, TableType
  <2>2. neg' = "none"
    BY <1>t, <1>4 DEF ResetStep, Story, Running
  <2>3. req'.ordered => req'.status \in {"COMPLETED", "CANCELLED"}
    BY <1>t, <1>4 DEF ResetStep, Story, NoRow
  <2>4. cleared' < 5 => po' = po /\ cleared < 5
    BY <1>4, <2>1 DEF ResetStep
  <2>5. \A o \in Order \ issued' : po'[o] = NoOrder
    BY <1>t, <1>4 DEF ResetStep, Story
  <2>6. issued' = issued
    BY <1>4 DEF ResetStep
  <2> QED
    BY <1>t, <2>1, <2>2, <2>3, <2>4, <2>5, <2>6 DEF Story, Running
<1>5. CASE Writes
  <2>1. CASE Cancel /\ (Running => req.row = "full")
    <3>1. /\ req'.status = "CANCELLED" /\ req'.ordered = req.ordered
          /\ req'.row = (IF req.row = "none" THEN "partial" ELSE req.row)
          /\ UNCHANGED <<neg, invited, told, bids, award, po, issued, cleared>>
      BY <1>t, <2>1, CancelEffect
    <3> QED
      BY <1>t, <2>1, <3>1 DEF Story, Running, Pending
  <2>2. ASSUME NEW o \in issued, NEW decision \in Decisions, Decide(o, decision) PROVE Story'
    <3>1. o \in Order
      BY <1>t DEF TableType
    <3>2. /\ po[o].row = "full" => po'[o].row = "full"
          /\ \A p \in Order : p # o => po'[p] = po[p]
          /\ UNCHANGED <<req, neg, invited, told, bids, award, issued, cleared>>
      BY <1>t, <2>2, <3>1, DecideEffect
    <3>3. Delivered \in Order
      BY OrderFacts
    <3> QED
      BY <1>t, <3>1, <3>2, <3>3 DEF Story, Running
  <2> QED
    BY <1>5, <2>1, <2>2 DEF Writes
<1> QED
  BY <1>t, <1>1, <1>2, <1>3, <1>4, <1>5, TableCases, StoryOrchestrated DEF Orchestrator

(* Nothing that has been so far is undone before the reset. *)
Grows ==
  /\ Running
  /\ bids \subseteq bids' /\ invited \subseteq invited' /\ told \subseteq told'
  /\ award # "none" => award' = award
  /\ neg # "none" => neg' # "none"
  /\ neg = "AWARDED" => neg' = "AWARDED"
  /\ neg \in {"APPROVED", "AWARDED"} => neg' \in {"APPROVED", "AWARDED"}
  /\ req.ordered => req'.ordered
  /\ req.row = "full" => req'.row = "full"

LEMMA Growth == ASSUME IInv, [Next]_vars, Running' PROVE Grows
<1>t. TableType /\ Story
  BY DEF IInv
<1>1. CASE UNCHANGED <<tables, issued, cleared>>
  BY <1>t, <1>1 DEF tables, Grows, Running
<1>2. CASE Deliver \/ PutSynthetic
  BY <1>2 DEF Deliver, PutSynthetic, PutOrder, Grows, Running
<1>3. CASE DropSynthetic
  BY <1>3 DEF DropSynthetic, Grows, Running
<1>4. CASE ResetStep
  <2>1. cleared' # 0
    BY <1>t, <1>4 DEF ResetStep, TableType
  <2> QED
    BY <2>1 DEF Running
<1>5. CASE Writes
  <2>1. CASE Cancel
    <3>1. /\ req'.ordered = req.ordered /\ req'.row = (IF req.row = "none" THEN "partial" ELSE req.row)
          /\ UNCHANGED <<neg, invited, told, bids, award, po, issued, cleared>>
      BY <1>t, <2>1, CancelEffect
    <3> QED
      BY <3>1 DEF Grows, Running
  <2>2. ASSUME NEW o \in issued, NEW decision \in Decisions, Decide(o, decision) PROVE Grows
    BY <2>2 DEF Decide, Grows, Running
  <2> QED
    BY <1>5, <2>1, <2>2 DEF Writes
<1>6. CASE Ingest
  BY <1>t, <1>6 DEF Ingest, Grows, Running, NoRow, Story
<1>7. CASE Negotiate
  BY <1>t, <1>7 DEF Negotiate, NegNext, Grows, Running
<1>8. CASE Follow
  <2>1. /\ req'.row = req.row /\ (req.ordered => req'.ordered)
        /\ UNCHANGED <<neg, invited, told, bids, award, po, issued, cleared>>
    BY <1>t, <1>8, FollowEffect
  <2> QED
    BY <2>1 DEF Grows, Running
<1>9. CASE Notify
  BY <1>t, <1>9 DEF Notify, Grows, Running, Story
<1>10. ASSUME NEW s \in Supplier, Invite(s) \/ Bid(s) \/ Award(s) PROVE Grows
  BY <1>10 DEF Invite, Bid, Award, Grows, Running
<1> QED
  BY <1>1, <1>2, <1>3, <1>4, <1>5, <1>6, <1>7, <1>8, <1>9, <1>10, TableCases DEF Orchestrator

(***************************************************************************)
(* What each call does to its request                                      *)
(***************************************************************************)
Same(h) == ask'[h].op = ask[h].op /\ ask'[h].about = ask[h].about /\ ask'[h].asked = ask[h].asked
Quiet == UNCHANGED <<tables, issued, cleared>>
Still(h) == Alone(h) /\ Same(h) /\ Quiet

LEMMA AskEffect ==
  ASSUME IInv, NEW h \in Handler, Ask(h)
  PROVE  /\ Alone(h) /\ Quiet
         /\ \E op \in Op : \E x \in About(op) :
              /\ ask'[h].op = op /\ ask'[h].about = x /\ ask'[h].at = FirstCall(op)
              /\ ask'[h].asked = Before(op, x) /\ ask'[h].code = 0
              /\ ask'[h].req = NoRow /\ ask'[h].neg = "none" /\ ask'[h].why = FALSE
              /\ ask'[h].bids = {} /\ ask'[h].awards = {}
              /\ ask'[h].invited = {} /\ ask'[h].told = {} /\ ask'[h].cut = FALSE
<1>1. PICK op \in Op : \E x \in About(op) :
        ask' = [ask EXCEPT ![h] = [Idle EXCEPT
                 !.op = op, !.about = x, !.at = FirstCall(op), !.asked = Before(op, x)]]
  BY DEF Ask
<1>2. PICK x \in About(op) :
        ask' = [ask EXCEPT ![h] = [Idle EXCEPT
                 !.op = op, !.about = x, !.at = FirstCall(op), !.asked = Before(op, x)]]
  BY <1>1
<1> DEFINE first == FirstCall(op)
           before == Before(op, x)
           new == [Idle EXCEPT !.op = op, !.about = x, !.at = first, !.asked = before]
<1>3. ask' = [ask EXCEPT ![h] = new]
  BY <1>2
<1> HIDE DEF first, before
<1>4. /\ DOMAIN new = DOMAIN Idle
      /\ new.op = op /\ new.about = x /\ new.at = first /\ new.asked = before /\ new.code = 0
      /\ new.req = NoRow /\ new.neg = "none" /\ new.why = FALSE /\ new.bids = {} /\ new.awards = {}
      /\ new.invited = {} /\ new.told = {} /\ new.cut = FALSE
  BY DEF Idle
<1> HIDE DEF new
<1>5. /\ DOMAIN ask' = Handler /\ ask'[h] = new /\ \A g \in Handler : g # h => ask'[g] = ask[g]
  BY <1>3 DEF IInv, Shaped
<1>6. Alone(h)
  BY <1>4, <1>5 DEF Alone, IInv, Shaped
<1>7. Quiet
  BY DEF Ask, Quiet
<1> QED
  BY <1>4, <1>5, <1>6, <1>7 DEF first, before

LEMMA IdleFacts == /\ Idle.op = "none" /\ Idle.at = "idle" /\ Idle.about = "none" /\ Idle.code = 0
BY DEF Idle

LEMMA ForgetEffect ==
  ASSUME IInv, NEW h \in Handler, Forget(h)
  PROVE  Alone(h) /\ Quiet /\ ask'[h] = Idle
<1>1. DOMAIN ask' = Handler /\ ask'[h] = Idle /\ \A g \in Handler : g # h => ask'[g] = ask[g]
  BY DEF Forget, IInv, Shaped
<1> QED
  BY <1>1 DEF Alone, Forget, Quiet, IInv, Shaped

(* What remains of a request with one field or more read anew. *)
LEMMA Fields ==
  ASSUME IInv, NEW h \in Handler
  PROVE  /\ DOMAIN ask[h] = DOMAIN Idle
         /\ \A r : DOMAIN [ask[h] EXCEPT !.req = r] = DOMAIN Idle
         /\ \A n : DOMAIN [ask[h] EXCEPT !.neg = n] = DOMAIN Idle
         /\ \A b : DOMAIN [ask[h] EXCEPT !.bids = b] = DOMAIN Idle
BY DEF IInv, Shaped

LEMMA ReadRequisitionEffect ==
  ASSUME IInv, NEW h \in Handler, ReadRequisition(h)
  PROVE  /\ Still(h) /\ ask[h].at = "requisition"
         /\ \/ ask[h].op \in Listing /\ Says(h, ask[h]) /\ ask'[h].at = "answered" /\ ask'[h].code = 200
            \/ /\ ask[h].op \notin Listing /\ req.row # "full"
               /\ Says(h, ask[h]) /\ ask'[h].at = "answered" /\ ask'[h].code \in {404, 500}
            \/ /\ ask[h].op = "cancel" /\ req.row # "none"
               /\ ask'[h].at \in {"set status", "answered"}
            \/ /\ ask[h].op # "cancel" /\ req.row = "full" /\ req.status = "CANCELLED"
               /\ \/ ask[h].op = "report" /\ ask'[h].at = "catalogue"
                  \/ /\ ask[h].op # "report" /\ ask'[h].at = "answered" /\ ask'[h].code = 200
                     /\ ask'[h].req = req /\ ask'[h].neg = ask[h].neg
            \/ /\ req.row = "full" /\ req.status # "CANCELLED" /\ ask'[h].at = "negotiations"
               /\ ask'[h].req = req /\ ask'[h].neg = ask[h].neg
<1> DEFINE r == [ask[h] EXCEPT !.req = req]
<1>0. /\ DOMAIN r = DOMAIN Idle /\ DOMAIN ask[h] = DOMAIN Idle /\ Shaped
      /\ r.op = ask[h].op /\ r.about = ask[h].about /\ r.asked = ask[h].asked
      /\ r.req = req /\ r.neg = ask[h].neg
  BY DEF IInv, Shaped, Idle
<1>1. /\ ask[h].at = "requisition" /\ Quiet
      /\ \/ r.op \in Listing /\ NotListed(h)
         \/ r.op \notin Listing /\ req.row = "none" /\ Answer(h, ask[h], 404)
         \/ r.op \notin Listing \cup {"cancel"} /\ req.row = "partial" /\ Answer(h, ask[h], 500)
         \/ r.op = "cancel" /\ req.row = "partial" /\ GotRequisition(h, r)
         \/ req.row = "full" /\ req.status = "CANCELLED" /\ GotRequisition(h, r)
         \/ req.row = "full" /\ req.status # "CANCELLED" /\ Continue(h, r, "negotiations")
  BY DEF ReadRequisition, Quiet
<1> HIDE DEF r
<1>2. CASE r.op \in Listing /\ NotListed(h)
  <2>1. Alone(h) /\ Says(h, ask[h]) /\ ask'[h].at = "answered" /\ ask'[h].code = 200
    BY <1>0, <1>2, AnswerEffect DEF NotListed
  <2> QED
    BY <1>0, <1>1, <1>2, <2>1 DEF Says, Still, Same
<1>3. ASSUME r.op \notin Listing, req.row # "full", NEW code \in {404, 500}, Answer(h, ask[h], code)
      PROVE  /\ Still(h) /\ ask[h].op \notin Listing
             /\ Says(h, ask[h]) /\ ask'[h].at = "answered" /\ ask'[h].code \in {404, 500}
  <2>1. Alone(h) /\ Says(h, ask[h]) /\ ask'[h].at = "answered" /\ ask'[h].code = code
    BY <1>0, <1>3, AnswerEffect
  <2> QED
    BY <1>0, <1>1, <1>3, <2>1 DEF Says, Still, Same
<1>4. CASE /\ GotRequisition(h, r) /\ req.row # "none"
           /\ r.op = "cancel" \/ (req.row = "full" /\ req.status = "CANCELLED")
  <2>1. /\ Alone(h) /\ ask'[h].op = r.op /\ ask'[h].about = r.about /\ ask'[h].asked = r.asked
        /\ \/ r.op = "report" /\ ask'[h].at = "catalogue"
           \/ r.op = "cancel" /\ ask'[h].at \in {"set status", "answered"}
           \/ r.op \notin {"report", "cancel"} /\ Says(h, r) /\ ask'[h].at = "answered" /\ ask'[h].code = 200
    BY <1>0, <1>4, GotEffect
  <2>2. Still(h)
    BY <1>0, <1>1, <2>1 DEF Still, Same
  <2>3. CASE r.op = "cancel"
    BY <1>0, <1>1, <1>4, <2>1, <2>2, <2>3
  <2>4. CASE r.op # "cancel"
    <3>1. ask[h].op # "cancel" /\ req.row = "full" /\ req.status = "CANCELLED"
      BY <1>0, <1>4, <2>4
    <3>2. \/ ask[h].op = "report" /\ ask'[h].at = "catalogue"
          \/ /\ ask[h].op # "report" /\ ask'[h].at = "answered" /\ ask'[h].code = 200
             /\ ask'[h].req = req /\ ask'[h].neg = ask[h].neg
      BY <1>0, <2>1, <2>4 DEF Says
    <3> QED
      BY <1>1, <2>2, <3>1, <3>2
  <2> QED
    BY <2>3, <2>4
<1>5. CASE req.row = "full" /\ req.status # "CANCELLED" /\ Continue(h, r, "negotiations")
  <2>1. Alone(h) /\ Says(h, r) /\ ask'[h].at = "negotiations"
    BY <1>0, <1>5, ContinueEffect
  <2>2. Still(h) /\ ask'[h].req = req /\ ask'[h].neg = ask[h].neg
    BY <1>0, <1>1, <2>1 DEF Says, Still, Same
  <2> QED
    BY <1>1, <1>5, <2>1, <2>2
<1>6. CASE r.op \notin Listing /\ req.row = "none" /\ Answer(h, ask[h], 404)
  <2>1. req.row # "full"
    BY <1>6
  <2> QED
    BY <1>1, <1>3, <1>6, <2>1
<1>7. CASE r.op \notin Listing \cup {"cancel"} /\ req.row = "partial" /\ Answer(h, ask[h], 500)
  <2>1. req.row # "full" /\ r.op \notin Listing /\ Answer(h, ask[h], 500)
    BY <1>7
  <2>2. /\ Still(h) /\ ask[h].op \notin Listing
        /\ Says(h, ask[h]) /\ ask'[h].at = "answered" /\ ask'[h].code \in {404, 500}
    BY <1>3, <2>1
  <2> QED
    BY <1>1, <2>1, <2>2
<1> QED
  BY <1>1, <1>2, <1>4, <1>5, <1>6, <1>7

LEMMA ReadNegotiationsEffect ==
  ASSUME IInv, NEW h \in Handler, ReadNegotiations(h)
  PROVE  /\ Still(h) /\ ask[h].at = "negotiations"
         /\ \/ ask[h].op = "negotiations" /\ ask'[h].at = "answered"
            \/ /\ ask[h].op \in {"bids", "awards"} /\ ask'[h].at = "answered"
               /\ ask'[h].bids = ask[h].bids /\ ask'[h].awards = ask[h].awards
               /\ neg = "none" \/ ask'[h].cut
            \/ /\ ask[h].op \in {"bids", "awards"} /\ ask'[h].at = "bids"
               /\ ask'[h].bids = ask[h].bids /\ ask'[h].awards = ask[h].awards
            \/ /\ ask[h].op \in Pages \cup {"cancel", "report"} /\ ask'[h].at = "context"
               /\ ask'[h].req = ask[h].req /\ ask'[h].neg = neg
            \/ ask[h].op = "report" /\ ask'[h].at = "catalogue"
            \/ ask[h].op = "cancel" /\ ask'[h].at \in {"set status", "answered"}
            \/ /\ ask[h].op \in Pages /\ ask'[h].at = "answered" /\ ask'[h].code = 200
               /\ ask[h].req.status # Pending /\ ask'[h].req = ask[h].req /\ ask'[h].neg = neg
<1> DEFINE r == [ask[h] EXCEPT !.neg = neg]
<1>0. /\ DOMAIN r = DOMAIN Idle /\ DOMAIN ask[h] = DOMAIN Idle /\ Shaped
      /\ r.op = ask[h].op /\ r.about = ask[h].about /\ r.asked = ask[h].asked
      /\ r.req = ask[h].req /\ r.neg = neg /\ r.bids = ask[h].bids /\ r.awards = ask[h].awards
  BY DEF IInv, Shaped, Idle
<1>1. ask[h].at = "negotiations" /\ Quiet
  BY DEF ReadNegotiations, Quiet
<1>o. ask[h].op \in Pages \cup {"cancel", "report", "negotiations", "bids", "awards"}
  BY <1>1 DEF IInv, Stages, Stage
<1>2. CASE ask[h].op = "negotiations"
  <2>1. PICK code \in {200, 500} : Answer(h, r, code)
    BY <1>0, <1>2 DEF ReadNegotiations
  <2> HIDE DEF r
  <2>2. Alone(h) /\ Says(h, r) /\ ask'[h].at = "answered"
    BY <1>0, <2>1, AnswerEffect
  <2> QED
    BY <1>0, <1>1, <1>2, <2>2 DEF Says, Still, Same
<1>3. CASE ask[h].op \in {"bids", "awards"}
  <2> DEFINE missed == [r EXCEPT !.cut = neg # "none"]
  <2>0. /\ DOMAIN missed = DOMAIN Idle /\ missed.op = r.op /\ missed.about = r.about /\ missed.asked = r.asked
        /\ missed.bids = r.bids /\ missed.awards = r.awards /\ missed.cut = (neg # "none")
    BY <1>0 DEF Idle
  <2>1. Answer(h, missed, 200) \/ Continue(h, ask[h], "bids")
    BY <1>0, <1>3 DEF ReadNegotiations
  <2> HIDE DEF r, missed
  <2>2. CASE Answer(h, missed, 200)
    <3>1. Alone(h) /\ Says(h, missed) /\ ask'[h].at = "answered"
      BY <1>0, <2>0, <2>2, AnswerEffect
    <3>2. neg = "none" \/ ask'[h].cut
      BY <2>0, <3>1 DEF Says
    <3> QED
      BY <1>0, <1>1, <1>3, <2>0, <3>1, <3>2 DEF Says, Still, Same
  <2>3. CASE Continue(h, ask[h], "bids")
    <3>1. Alone(h) /\ Says(h, ask[h]) /\ ask'[h].at = "bids"
      BY <1>0, <2>3, ContinueEffect
    <3> QED
      BY <1>0, <1>1, <1>3, <2>3, <3>1 DEF Says, Still, Same
  <2> QED
    BY <2>1, <2>2, <2>3
<1>4. CASE ask[h].op \in Pages \cup {"cancel", "report"}
  <2>1. \/ Continue(h, r, "context")
        \/ ask[h].req.status # Pending /\ GotRequisition(h, r)
    BY <1>0, <1>4 DEF ReadNegotiations, Pages
  <2> HIDE DEF r
  <2>2. CASE Continue(h, r, "context")
    <3>1. Alone(h) /\ Says(h, r) /\ ask'[h].at = "context"
      BY <1>0, <2>2, ContinueEffect
    <3> QED
      BY <1>0, <1>1, <1>4, <3>1 DEF Says, Still, Same
  <2>3. CASE ask[h].req.status # Pending /\ GotRequisition(h, r)
    <3>1. /\ Alone(h) /\ ask'[h].op = r.op /\ ask'[h].about = r.about /\ ask'[h].asked = r.asked
          /\ \/ r.op = "report" /\ ask'[h].at = "catalogue"
             \/ r.op = "cancel" /\ ask'[h].at \in {"set status", "answered"}
             \/ r.op \notin {"report", "cancel"} /\ Says(h, r) /\ ask'[h].at = "answered" /\ ask'[h].code = 200
      BY <1>0, <2>3, GotEffect
    <3>2. Still(h)
      BY <1>0, <1>1, <3>1 DEF Still, Same
    <3> QED
      BY <1>0, <1>1, <1>4, <2>3, <3>1, <3>2 DEF Says
  <2> QED
    BY <2>1, <2>2, <2>3
<1> QED
  BY <1>o, <1>2, <1>3, <1>4

LEMMA ReadContextEffect ==
  ASSUME IInv, NEW h \in Handler, ReadContext(h)
  PROVE  /\ Still(h) /\ ask[h].at = "context"
         /\ \/ ask[h].op = "report" /\ ask'[h].at = "catalogue"
            \/ ask[h].op = "cancel" /\ ask'[h].at \in {"set status", "answered"}
            \/ /\ ask[h].op \in Pages /\ ask'[h].at = "answered" /\ ask'[h].code = 200
               /\ ask'[h].req = ask[h].req /\ ask'[h].neg = ask[h].neg /\ ask'[h].why = (neg # "none")
<1> DEFINE r == [ask[h] EXCEPT !.why = neg # "none"]
<1>0. /\ DOMAIN r = DOMAIN Idle /\ Shaped
      /\ r.op = ask[h].op /\ r.about = ask[h].about /\ r.asked = ask[h].asked
      /\ r.req = ask[h].req /\ r.neg = ask[h].neg /\ r.why = (neg # "none")
  BY DEF IInv, Shaped, Idle
<1>1. ask[h].at = "context" /\ Quiet /\ GotRequisition(h, r)
  BY DEF ReadContext, Quiet
<1>2. ask[h].op \in Pages \cup {"cancel", "report"}
  BY <1>1 DEF IInv, Stages, Stage
<1> HIDE DEF r
<1>3. /\ Alone(h) /\ ask'[h].op = r.op /\ ask'[h].about = r.about /\ ask'[h].asked = r.asked
      /\ \/ r.op = "report" /\ ask'[h].at = "catalogue"
         \/ r.op = "cancel" /\ ask'[h].at \in {"set status", "answered"}
         \/ r.op \notin {"report", "cancel"} /\ Says(h, r) /\ ask'[h].at = "answered" /\ ask'[h].code = 200
  BY <1>0, <1>1, GotEffect
<1>4. Still(h)
  BY <1>0, <1>1, <1>3 DEF Still, Same
<1> QED
  BY <1>0, <1>1, <1>2, <1>3, <1>4 DEF Says

LEMMA ReadBidsEffect ==
  ASSUME IInv, NEW h \in Handler, ReadBids(h)
  PROVE  /\ Still(h) /\ ask[h].at = "bids"
         /\ ask'[h].bids \subseteq bids /\ ask'[h].awards = ask[h].awards
         /\ bids \subseteq ask'[h].bids \/ ask'[h].cut
         /\ \/ ask[h].op = "awards" /\ ask'[h].bids # {} /\ ask'[h].at = "awards"
            \/ (ask[h].op = "bids" \/ ask'[h].bids = {}) /\ ask'[h].at = "answered"
<1>1. ask[h].at = "bids" /\ Quiet
  BY DEF ReadBids, Quiet
<1>2. ask[h].op \in {"bids", "awards"}
  BY <1>1 DEF IInv, Stages, Stage
<1>3. PICK page \in SUBSET (bids \cup {Stranger}) :
        LET got == page \cap Supplier
            r == [ask[h] EXCEPT !.bids = got, !.cut = ~(bids \subseteq page)]
        IN IF r.op = "awards" /\ got # {} THEN Continue(h, r, "awards") ELSE Answer(h, r, 200)
  BY DEF ReadBids
<1> DEFINE got == page \cap Supplier
           lost == ~(bids \subseteq page)
           r == [ask[h] EXCEPT !.bids = got, !.cut = lost]
<1>4. IF r.op = "awards" /\ got # {} THEN Continue(h, r, "awards") ELSE Answer(h, r, 200)
  BY <1>3
<1>5. got \subseteq bids /\ (bids \subseteq got \/ lost)
  BY LiveAssumption DEF IInv, TableType
<1> HIDE DEF got, lost
<1>6. /\ DOMAIN r = DOMAIN Idle /\ Shaped
      /\ r.op = ask[h].op /\ r.about = ask[h].about /\ r.asked = ask[h].asked
      /\ r.bids = got /\ r.awards = ask[h].awards /\ r.cut = lost
  BY DEF IInv, Shaped, Idle
<1> HIDE DEF r
<1>7. Alone(h) /\ Says(h, r)
  BY <1>4, <1>6, ContinueEffect, AnswerEffect
<1>8. \/ ask[h].op = "awards" /\ got # {} /\ ask'[h].at = "awards"
      \/ (ask[h].op = "bids" \/ got = {}) /\ ask'[h].at = "answered"
  BY <1>2, <1>4, <1>6, ContinueEffect, AnswerEffect
<1>9. ask'[h].bids = got /\ ask'[h].cut = lost /\ ask'[h].awards = ask[h].awards
  BY <1>6, <1>7 DEF Says
<1>10. bids \subseteq ask'[h].bids \/ ask'[h].cut
  BY <1>5, <1>9
<1> QED
  BY <1>1, <1>5, <1>6, <1>7, <1>8, <1>9, <1>10 DEF Says, Still, Same

LEMMA ReadAwardsEffect ==
  ASSUME IInv, NEW h \in Handler, ReadAwards(h)
  PROVE  /\ Still(h) /\ ask[h].at = "awards" /\ ask'[h].at = "answered" /\ ask'[h].bids = ask[h].bids
         /\ ask'[h].awards \subseteq ask[h].bids
         /\ award \in ask[h].bids /\ award # "none" => award \in ask'[h].awards \/ ask'[h].cut
         /\ ask[h].cut => ask'[h].cut
<1>1. ask[h].at = "awards" /\ Quiet
  BY DEF ReadAwards, Quiet
<1>2. PICK page \in SUBSET ({award, Stranger} \ {"none"}) :
        Answer(h, [ask[h] EXCEPT !.awards = page \cap ask[h].bids,
                                 !.cut = ask[h].cut \/ award \notin page \cup {"none"}], 200)
  BY DEF ReadAwards
<1> DEFINE got == page \cap ask[h].bids
           lost == ask[h].cut \/ award \notin page \cup {"none"}
           r == [ask[h] EXCEPT !.awards = got, !.cut = lost]
<1>3. Answer(h, r, 200)
  BY <1>2
<1>4. /\ got \subseteq ask[h].bids /\ (ask[h].cut => lost)
      /\ award \in ask[h].bids /\ award # "none" => award \in got \/ lost
  OBVIOUS
<1> HIDE DEF got, lost
<1>5. /\ DOMAIN r = DOMAIN Idle /\ Shaped
      /\ r.op = ask[h].op /\ r.about = ask[h].about /\ r.asked = ask[h].asked
      /\ r.bids = ask[h].bids /\ r.awards = got /\ r.cut = lost
  BY DEF IInv, Shaped, Idle
<1> HIDE DEF r
<1>6. Alone(h) /\ Says(h, r) /\ ask'[h].at = "answered"
  BY <1>3, <1>5, AnswerEffect
<1>7. ask'[h].awards = got /\ ask'[h].cut = lost
  BY <1>5, <1>6 DEF Says
<1>8. /\ ask[h].cut => ask'[h].cut
      /\ award \in ask[h].bids /\ award # "none" => award \in ask'[h].awards \/ ask'[h].cut
  BY <1>4, <1>7
<1> QED
  BY <1>1, <1>4, <1>5, <1>6, <1>7, <1>8 DEF Says, Still, Same

LEMMA ReadCommunicationsEffect ==
  ASSUME IInv, NEW h \in Handler, ReadCommunications(h)
  PROVE  /\ Still(h) /\ ask[h].at = "communications" /\ ask'[h].at = "supplier bids"
         /\ ask'[h].invited \subseteq invited \cap {ask[h].about}
         /\ ask'[h].told \subseteq told \cap {ask[h].about}
         /\ invited \cap {ask[h].about} \subseteq ask'[h].invited \/ ask'[h].cut
<1> DEFINE I == invited \cap {ask[h].about}
           T == told \cap {ask[h].about}
<1>1. ask[h].at = "communications" /\ Quiet
  BY DEF ReadCommunications, Quiet
<1>2. PICK i \in SUBSET I, t \in SUBSET T :
        Continue(h, [ask[h] EXCEPT !.invited = i, !.told = t, !.cut = <<i, t>> # <<I, T>>], "supplier bids")
  BY DEF ReadCommunications
<1> HIDE DEF I, T
<1> DEFINE lost == <<i, t>> # <<I, T>>
           r == [ask[h] EXCEPT !.invited = i, !.told = t, !.cut = lost]
<1>3. Continue(h, r, "supplier bids")
  BY <1>2
<1>4. I \subseteq i \/ lost
  OBVIOUS
<1> HIDE DEF lost
<1>5. /\ DOMAIN r = DOMAIN Idle /\ Shaped
      /\ r.op = ask[h].op /\ r.about = ask[h].about /\ r.asked = ask[h].asked
      /\ r.invited = i /\ r.told = t /\ r.cut = lost
  BY DEF IInv, Shaped, Idle
<1> HIDE DEF r
<1>6. Alone(h) /\ Says(h, r) /\ ask'[h].at = "supplier bids"
  BY <1>3, <1>5, ContinueEffect
<1>7. ask'[h].invited = i /\ ask'[h].told = t /\ ask'[h].cut = lost
  BY <1>5, <1>6 DEF Says
<1>8. I \subseteq ask'[h].invited \/ ask'[h].cut
  BY <1>4, <1>7
<1>9. Still(h)
  BY <1>1, <1>5, <1>6 DEF Says, Still, Same
<1> QED
  BY <1>1, <1>6, <1>7, <1>8, <1>9 DEF I, T

LEMMA ReadSupplierBidsEffect ==
  ASSUME IInv, NEW h \in Handler, ReadSupplierBids(h)
  PROVE  /\ Still(h) /\ ask[h].at = "supplier bids"
         /\ ask'[h].bids \subseteq bids \cap {ask[h].about}
         /\ ask'[h].invited = ask[h].invited /\ ask'[h].told = ask[h].told /\ ask'[h].neg = ask[h].neg
         /\ bids \cap {ask[h].about} \subseteq ask'[h].bids \/ ask'[h].cut
         /\ ask[h].cut => ask'[h].cut
         /\ \/ /\ ask'[h].invited = {} /\ ask'[h].told = {} /\ ask'[h].bids = {} /\ ask'[h].at = "answered"
            \/ ask'[h].at = "negotiation"
<1> DEFINE B == bids \cap {ask[h].about}
<1>1. ask[h].at = "supplier bids" /\ Quiet
  BY DEF ReadSupplierBids, Quiet
<1>2. PICK b \in SUBSET B :
        LET r == [ask[h] EXCEPT !.bids = b, !.cut = ask[h].cut \/ b # B] IN
          IF r.invited \cup r.told \cup r.bids = {} THEN Answer(h, r, 200) ELSE Continue(h, r, "negotiation")
  BY DEF ReadSupplierBids
<1> HIDE DEF B
<1> DEFINE lost == ask[h].cut \/ b # B
           r == [ask[h] EXCEPT !.bids = b, !.cut = lost]
<1>3. IF r.invited \cup r.told \cup r.bids = {} THEN Answer(h, r, 200) ELSE Continue(h, r, "negotiation")
  BY <1>2
<1>4. (B \subseteq b \/ lost) /\ (ask[h].cut => lost)
  OBVIOUS
<1> HIDE DEF lost
<1>5. /\ DOMAIN r = DOMAIN Idle /\ Shaped
      /\ r.op = ask[h].op /\ r.about = ask[h].about /\ r.asked = ask[h].asked
      /\ r.invited = ask[h].invited /\ r.told = ask[h].told /\ r.neg = ask[h].neg
      /\ r.bids = b /\ r.cut = lost
  BY DEF IInv, Shaped, Idle
<1> HIDE DEF r
<1>6. /\ Alone(h) /\ Says(h, r)
      /\ \/ r.invited = {} /\ r.told = {} /\ r.bids = {} /\ ask'[h].at = "answered"
         \/ ask'[h].at = "negotiation"
  BY <1>3, <1>5, AnswerEffect, ContinueEffect
<1>7. /\ ask'[h].invited = ask[h].invited /\ ask'[h].told = ask[h].told /\ ask'[h].neg = ask[h].neg
      /\ ask'[h].bids = b /\ ask'[h].cut = lost
  BY <1>5, <1>6 DEF Says
<1>8. (B \subseteq ask'[h].bids \/ ask'[h].cut) /\ (ask[h].cut => ask'[h].cut)
  BY <1>4, <1>7
<1>9. Still(h)
  BY <1>1, <1>5, <1>6 DEF Says, Still, Same
<1> QED
  BY <1>1, <1>5, <1>6, <1>7, <1>8, <1>9 DEF B

LEMMA ReadNegotiationEffect ==
  ASSUME IInv, NEW h \in Handler, ReadNegotiation(h)
  PROVE  /\ Still(h) /\ ask[h].at = "negotiation" /\ ask'[h].at = "answered"
         /\ ask'[h].invited = ask[h].invited /\ ask'[h].told = ask[h].told /\ ask'[h].bids = ask[h].bids
         /\ ask'[h].neg = neg /\ ask'[h].cut = ask[h].cut
<1> DEFINE r == [ask[h] EXCEPT !.neg = neg]
<1>0. /\ DOMAIN r = DOMAIN Idle /\ Shaped
      /\ r.op = ask[h].op /\ r.about = ask[h].about /\ r.asked = ask[h].asked
      /\ r.invited = ask[h].invited /\ r.told = ask[h].told /\ r.bids = ask[h].bids /\ r.neg = neg
      /\ r.cut = ask[h].cut
  BY DEF IInv, Shaped, Idle
<1>1. ask[h].at = "negotiation" /\ Quiet /\ Answer(h, r, 200)
  BY DEF ReadNegotiation, Quiet
<1> HIDE DEF r
<1>2. Alone(h) /\ Says(h, r) /\ ask'[h].at = "answered"
  BY <1>0, <1>1, AnswerEffect
<1> QED
  BY <1>0, <1>1, <1>2 DEF Says, Still, Same

LEMMA SetStatusEffect ==
  ASSUME IInv, NEW h \in Handler, SetStatus(h)
  PROVE  Alone(h) /\ Same(h) /\ ask[h].at = "set status" /\ ask'[h].at = "answered" /\ UNCHANGED issued
<1>1. ask[h].at = "set status" /\ Answer(h, ask[h], 200) /\ UNCHANGED issued
  BY DEF SetStatus, Cancel
<1>2. Alone(h) /\ Says(h, ask[h]) /\ ask'[h].at = "answered"
  BY <1>1, AnswerEffect DEF IInv, Shaped
<1> QED
  BY <1>1, <1>2 DEF Says, Same

LEMMA ReadOrdersEffect ==
  ASSUME IInv, NEW h \in Handler, ReadOrders(h)
  PROVE  /\ Still(h) /\ ask[h].at = "orders" /\ ask'[h].at = "answered"
         /\ (\A o \in Order : po[o].row = "full" => o = Delivered) => ask'[h].code = 200
<1>1. PICK code \in {200, 500} :
        /\ Answer(h, ask[h], code)
        /\ (\A o \in Order : po[o].row = "full" => o = Delivered) => code = 200
  <2> DEFINE code == IF \A o \in {p \in Order : po[p].row = "full"} : Parses(o, po[o]) THEN 200 ELSE 500
  <2>1. Answer(h, ask[h], code) /\ code \in {200, 500}
    BY DEF ReadOrders
  <2>2. (\A o \in Order : po[o].row = "full" => o = Delivered) => code = 200
    BY DEF Parses
  <2> QED
    BY <2>1, <2>2
<1>2. Alone(h) /\ Says(h, ask[h]) /\ ask'[h].at = "answered" /\ ask'[h].code = code
  BY <1>1, AnswerEffect DEF IInv, Shaped
<1>3. ask[h].at = "orders" /\ Quiet
  BY DEF ReadOrders, Quiet
<1> QED
  BY <1>1, <1>2, <1>3 DEF Says, Still, Same

LEMMA ReadOrderEffect ==
  ASSUME IInv, NEW h \in Handler, ReadOrder(h)
  PROVE  /\ Still(h) /\ ask[h].at = "order"
         /\ \/ /\ ~Parses(ask[h].about, po[ask[h].about])
               /\ ask'[h].at = "answered" /\ ask'[h].code \in {404, 500}
            \/ /\ Parses(ask[h].about, po[ask[h].about]) /\ ask[h].op = "report"
               /\ ask'[h].at = "requisition"
            \/ /\ Parses(ask[h].about, po[ask[h].about]) /\ ask[h].op # "report"
               /\ ask'[h].at = "answered" /\ ask'[h].code = 200
<1> DEFINE o == ask[h].about
<1>1. /\ ask[h].at = "order" /\ Quiet
      /\ \/ ~Parses(o, po[o]) /\ Answer(h, ask[h], 404)
         \/ ~Parses(o, po[o]) /\ Answer(h, ask[h], 500)
         \/ Parses(o, po[o]) /\ ask[h].op = "report" /\ Continue(h, ask[h], "requisition")
         \/ Parses(o, po[o]) /\ ask[h].op # "report" /\ Answer(h, ask[h], 200)
  BY DEF ReadOrder, Parses, Quiet
<1>0. Shaped /\ DOMAIN ask[h] = DOMAIN Idle
  BY DEF IInv, Shaped
<1> HIDE DEF o
<1>2. ASSUME NEW code \in {200, 404, 500}, Answer(h, ask[h], code)
      PROVE  Still(h) /\ ask'[h].at = "answered" /\ ask'[h].code = code
  <2>1. Alone(h) /\ Says(h, ask[h]) /\ ask'[h].at = "answered" /\ ask'[h].code = code
    BY <1>0, <1>2, AnswerEffect
  <2> QED
    BY <1>1, <2>1 DEF Says, Still, Same
<1>3. ASSUME Continue(h, ask[h], "requisition") PROVE Still(h) /\ ask'[h].at = "requisition"
  <2>1. Alone(h) /\ Says(h, ask[h]) /\ ask'[h].at = "requisition"
    BY <1>0, <1>3, ContinueEffect
  <2> QED
    BY <1>1, <2>1 DEF Says, Still, Same
<1> QED
  BY <1>1, <1>2, <1>3 DEF o

LEMMA UpdateOrderEffect ==
  ASSUME IInv, NEW h \in Handler, UpdateOrder(h)
  PROVE  /\ Alone(h) /\ Same(h) /\ ask[h].at = "update" /\ ask'[h].at = "order"
         /\ ask[h].op \in Decisions /\ ask[h].about \in issued /\ Decide(ask[h].about, ask[h].op)
         /\ UNCHANGED <<issued, cleared>>
<1>1. /\ ask[h].at = "update" /\ Decide(ask[h].about, ask[h].op) /\ Continue(h, ask[h], "order")
  BY DEF UpdateOrder
<1>2. Alone(h) /\ Says(h, ask[h]) /\ ask'[h].at = "order"
  BY <1>1, ContinueEffect DEF IInv, Shaped
<1>3. ask[h].op \in Decisions /\ ask[h].about \in issued
  BY <1>1 DEF IInv, Stages, Stage
<1> QED
  BY <1>1, <1>2, <1>3 DEF Says, Same, Decide

LEMMA ReadCatalogueEffect ==
  ASSUME IInv, NEW h \in Handler, ReadCatalogue(h)
  PROVE  /\ Still(h) /\ ask[h].at = "catalogue" /\ ask'[h].at = "answered" /\ ask'[h].code = 200
         /\ \E cat \in Catalogues : ask'[h].report = Report(cat, Lines)
<1>1. PICK cat \in Catalogues : Answer(h, [ask[h] EXCEPT !.report = Report(cat, Lines)], 200)
  BY DEF ReadCatalogue
<1> DEFINE report == Report(cat, Lines)
           r == [ask[h] EXCEPT !.report = report]
<1> HIDE DEF report
<1>0. /\ DOMAIN r = DOMAIN Idle /\ Shaped
      /\ r.op = ask[h].op /\ r.about = ask[h].about /\ r.asked = ask[h].asked /\ r.report = report
  BY DEF IInv, Shaped, Idle
<1>2. ask[h].at = "catalogue" /\ Quiet /\ Answer(h, r, 200)
  BY <1>1 DEF ReadCatalogue, Quiet, report
<1> HIDE DEF r
<1>3. Alone(h) /\ Says(h, r) /\ ask'[h].at = "answered" /\ ask'[h].code = 200 /\ ask'[h].report = report
  BY <1>0, <1>2, AnswerEffect
<1>4. \E c \in Catalogues : ask'[h].report = Report(c, Lines)
  BY <1>3 DEF report
<1> QED
  BY <1>0, <1>2, <1>3, <1>4 DEF Says, Still, Same

LEMMA FirstCalls ==
  ASSUME NEW op \in Op
  PROVE  /\ op \in Pages \cup {"cancel"} => FirstCall(op) = "requisition"
         /\ op \in {"negotiations", "bids", "awards"} => FirstCall(op) = "negotiations"
         /\ op = "rfqs" => FirstCall(op) = "communications" /\ About(op) = Supplier
         /\ op = "orders" => FirstCall(op) = "orders"
         /\ op \in {"order", "report"} => FirstCall(op) = "order" /\ About(op) = issued
         /\ op \in Decisions => FirstCall(op) = "update" /\ About(op) = issued /\ op \notin Lookup
         /\ \/ op \in Pages \cup {"cancel"} \/ op \in {"negotiations", "bids", "awards"} \/ op = "rfqs"
            \/ op = "orders" \/ op \in {"order", "report"} \/ op \in Decisions
<1>1. op \in Decisions => op \notin Lookup
  BY LiveAssumption
<1>2. CASE op \in Lookup
  BY <1>1, <1>2 DEF Lookup, Pages, FirstCall, About
<1>3. CASE op \in Decisions
  <2>1. /\ op \notin {"track", "list", "inbox", "cancel"} /\ op \notin {"negotiations", "bids", "awards"}
        /\ op # "rfqs" /\ op # "orders" /\ op \notin {"order", "report"}
    BY <1>1, <1>3 DEF Lookup
  <2>2. FirstCall(op) = "update"
    BY <1>3, <2>1 DEF FirstCall
  <2>3. About(op) = issued
    BY <1>3, <2>1 DEF About
  <2> QED
    BY <1>1, <1>3, <2>1, <2>2, <2>3 DEF Pages
<1> QED
  BY <1>2, <1>3 DEF Op

(* One request moves at a time, and those of others do not. *)
LEMMA OneMoves ==
  ASSUME IInv, [Next]_vars
  PROVE  \/ ask' = ask
         \/ \E h \in Handler : Request(h) /\ Alone(h)
<1>1. ASSUME NEW h \in Handler, Request(h) PROVE Alone(h)
  <2>1. CASE Ask(h) \/ Forget(h)
    BY <2>1, AskEffect, ForgetEffect
  <2>2. CASE ReadRequisition(h) \/ ReadNegotiations(h) \/ ReadContext(h)
    BY <2>2, ReadRequisitionEffect, ReadNegotiationsEffect, ReadContextEffect DEF Still
  <2>3. CASE ReadBids(h) \/ ReadAwards(h)
    BY <2>3, ReadBidsEffect, ReadAwardsEffect DEF Still
  <2>4. CASE ReadCommunications(h) \/ ReadSupplierBids(h) \/ ReadNegotiation(h)
    BY <2>4, ReadCommunicationsEffect, ReadSupplierBidsEffect, ReadNegotiationEffect DEF Still
  <2>5. CASE SetStatus(h) \/ UpdateOrder(h)
    BY <2>5, SetStatusEffect, UpdateOrderEffect
  <2>6. CASE ReadOrders(h) \/ ReadOrder(h) \/ ReadCatalogue(h)
    BY <2>6, ReadOrdersEffect, ReadOrderEffect, ReadCatalogueEffect DEF Still
  <2> QED
    BY <1>1, <2>1, <2>2, <2>3, <2>4, <2>5, <2>6 DEF Request
<1>2. \/ ask' = ask \/ \E h \in Handler : Request(h)
  BY DEF Next, vars, Orchestrator, Ingest, Negotiate, Follow, Notify, Deliver, PutOrder, Invite, Bid, Award,
         PutSynthetic, DropSynthetic, ResetStep, OtherRequest
<1> QED
  BY <1>1, <1>2

LEMMA Moves ==
  ASSUME IInv, [Next]_vars, NEW g \in Handler
  PROVE  ask'[g] = ask[g] \/ Request(g)
BY OneMoves DEF Alone

LEMMA IssuedGrows == ASSUME IInv, [Next]_vars PROVE issued \subseteq issued'
<1>1. ASSUME Writes PROVE issued' = issued
  BY <1>1 DEF Writes, Cancel, Decide
<1> QED
  BY <1>1, TableCases DEF Orchestrator, Ingest, Negotiate, Follow, Notify, Deliver, PutOrder, Invite, Bid,
     Award, PutSynthetic, DropSynthetic, ResetStep

Opens(op, x, at) ==
  /\ at \in {"requisition", "negotiations", "communications", "orders", "order", "update"}
  /\ at = "requisition" => op \in Pages \cup {"cancel"}
  /\ at = "negotiations" => op \in {"negotiations", "bids", "awards"}
  /\ at = "communications" => op = "rfqs"
  /\ at = "orders" => op = "orders"
  /\ at = "order" => op \in {"order", "report"}
  /\ at = "update" => op \in Decisions
  /\ op = "rfqs" => x \in Supplier
  /\ op \in {"order", "report"} \cup Decisions => x \in issued

LEMMA OpensRight ==
  ASSUME NEW op \in Op, NEW x \in About(op)
  PROVE  Opens(op, x, FirstCall(op))
<1>1. CASE op \in Decisions
  <2>1. FirstCall(op) = "update" /\ x \in issued /\ op \notin Lookup
    BY <1>1, FirstCalls
  <2> QED
    BY <1>1, <2>1 DEF Opens, Lookup
<1>2. CASE op \notin Decisions
  BY <1>2, FirstCalls DEF Opens, Pages
<1> QED
  BY <1>1, <1>2

LEMMA StageStep ==
  ASSUME IInv, [Next]_vars, NEW h \in Handler, Request(h)
  PROVE  Stage(h)'
<1>i. issued \subseteq issued' /\ Stage(h)
  BY IssuedGrows DEF IInv, Stages
<1> USE DEF Stage
<1>1. CASE Ask(h)
  <2>1. PICK op \in Op : \E x \in About(op) :
          ask'[h].op = op /\ ask'[h].about = x /\ ask'[h].at = FirstCall(op)
    BY <1>1, AskEffect
  <2>2. PICK x \in About(op) :
          ask'[h].op = op /\ ask'[h].about = x /\ ask'[h].at = FirstCall(op)
    BY <2>1
  <2>3. op \in Op /\ x \in About(op)
    OBVIOUS
  <2> HIDE DEF Stage
  <2>4. Opens(op, x, FirstCall(op))
    BY <2>3, OpensRight
  <2> QED
    BY <1>i, <2>2, <2>3, <2>4 DEF Opens, Stage, Pages
<1>2. CASE Forget(h)
  <2>1. ask'[h] = Idle
    BY <1>2, ForgetEffect
  <2>2. Idle.op = "none" /\ Idle.at = "idle"
    BY IdleFacts
  <2>3. "none" \notin Decisions
    BY LiveAssumption
  <2> QED
    BY <2>1, <2>2, <2>3
<1>3. CASE ReadRequisition(h)
  <2>1. /\ Same(h) /\ ask[h].at = "requisition"
        /\ ask'[h].at \in {"answered", "set status", "catalogue", "negotiations"}
        /\ ask'[h].at = "set status" => ask[h].op = "cancel"
        /\ ask'[h].at = "catalogue" => ask[h].op = "report"
    BY <1>3, ReadRequisitionEffect DEF Still
  <2> QED
    BY <1>i, <2>1 DEF Same
<1>4. CASE ReadNegotiations(h)
  <2>1. /\ Same(h) /\ ask'[h].at \in {"answered", "bids", "context", "set status", "catalogue"}
        /\ ask'[h].at = "set status" => ask[h].op = "cancel"
        /\ ask'[h].at = "catalogue" => ask[h].op = "report"
        /\ ask'[h].at = "bids" => ask[h].op \in {"bids", "awards"}
        /\ ask'[h].at = "context" => ask[h].op \in Pages \cup {"cancel", "report"}
    BY <1>4, ReadNegotiationsEffect DEF Still
  <2> QED
    BY <1>i, <2>1 DEF Same
<1>5. CASE ReadContext(h)
  <2>1. /\ Same(h) /\ ask'[h].at \in {"answered", "set status", "catalogue"}
        /\ ask'[h].at = "set status" => ask[h].op = "cancel"
        /\ ask'[h].at = "catalogue" => ask[h].op = "report"
    BY <1>5, ReadContextEffect DEF Still
  <2> QED
    BY <1>i, <2>1 DEF Same
<1>6. CASE ReadBids(h) \/ ReadAwards(h)
  <2>1. /\ Same(h) /\ ask'[h].at \in {"answered", "awards"}
        /\ ask'[h].at = "awards" => ask[h].op = "awards"
    BY <1>6, ReadBidsEffect, ReadAwardsEffect DEF Still
  <2> QED
    BY <1>i, <2>1 DEF Same
<1>7. CASE ReadCommunications(h) \/ ReadSupplierBids(h) \/ ReadNegotiation(h)
  <2>1. /\ Same(h) /\ ask'[h].at \in {"supplier bids", "negotiation", "answered"}
        /\ ask[h].at \in {"communications", "supplier bids", "negotiation"}
    BY <1>7, ReadCommunicationsEffect, ReadSupplierBidsEffect, ReadNegotiationEffect DEF Still
  <2> QED
    BY <1>i, <2>1 DEF Same
<1>8. CASE SetStatus(h) \/ ReadOrders(h) \/ ReadCatalogue(h)
  <2>1. Same(h) /\ ask'[h].at = "answered"
    BY <1>8, SetStatusEffect, ReadOrdersEffect, ReadCatalogueEffect DEF Still
  <2> QED
    BY <1>i, <2>1 DEF Same
<1>9. CASE ReadOrder(h)
  <2>1. /\ Same(h) /\ ask'[h].at \in {"answered", "requisition"}
        /\ ask'[h].at = "requisition" => ask[h].op = "report"
    BY <1>9, ReadOrderEffect DEF Still
  <2> QED
    BY <1>i, <2>1 DEF Same
<1>10. CASE UpdateOrder(h)
  <2>1. Same(h) /\ ask'[h].at = "order" /\ ask[h].op \in Decisions
    BY <1>10, UpdateOrderEffect
  <2> QED
    BY <1>i, <2>1 DEF Same
<1> QED
  BY <1>1, <1>2, <1>3, <1>4, <1>5, <1>6, <1>7, <1>8, <1>9, <1>10 DEF Request

LEMMA CancellingStep == ASSUME IInv, [Next]_vars PROVE Cancelling'
<1> SUFFICES ASSUME NEW h \in Handler, Running', ask'[h].op = "cancel",
                    ask'[h].at \in {"negotiations", "context", "set status"}
             PROVE  req'.row = "full"
  BY DEF Cancelling
<1>1. Grows
  BY Growth
<1> SUFFICES req.row = "full"
  BY <1>1 DEF Grows
<1>2. CASE ask'[h] = ask[h]
  BY <1>1, <1>2 DEF IInv, Cancelling, Grows
<1>3. CASE ReadRequisition(h)
  <2>1. req.row # "none"
    BY <1>3, ReadRequisitionEffect
  <2> QED
    BY <1>1, <2>1 DEF Grows, IInv, Story
<1>4. CASE ReadNegotiations(h) \/ ReadContext(h)
  <2>1. ask[h].at \in {"negotiations", "context"} /\ ask[h].op = "cancel"
    BY <1>4, ReadNegotiationsEffect, ReadContextEffect DEF Still, Same
  <2> QED
    BY <1>1, <2>1 DEF Grows, IInv, Cancelling
<1>5. CASE Ask(h)
  <2>1. PICK op \in Op : ask'[h].op = op /\ ask'[h].at = FirstCall(op)
    BY <1>5, AskEffect
  <2> QED
    BY <2>1, FirstCalls
<1>6. CASE Forget(h)
  BY <1>6, ForgetEffect, IdleFacts
<1>7. CASE \/ ReadBids(h) \/ ReadAwards(h) \/ ReadCommunications(h) \/ ReadSupplierBids(h)
           \/ ReadNegotiation(h) \/ SetStatus(h) \/ ReadOrders(h) \/ ReadOrder(h) \/ UpdateOrder(h)
           \/ ReadCatalogue(h)
  <2>1. CASE ReadBids(h) \/ ReadAwards(h)
    BY <2>1, ReadBidsEffect, ReadAwardsEffect
  <2>2. CASE ReadCommunications(h) \/ ReadSupplierBids(h) \/ ReadNegotiation(h)
    BY <2>2, ReadCommunicationsEffect, ReadSupplierBidsEffect, ReadNegotiationEffect
  <2>3. CASE SetStatus(h) \/ UpdateOrder(h)
    BY <2>3, SetStatusEffect, UpdateOrderEffect
  <2>4. CASE ReadOrders(h) \/ ReadCatalogue(h)
    BY <2>4, ReadOrdersEffect, ReadCatalogueEffect
  <2>5. CASE ReadOrder(h)
    <3>1. ask'[h].at \in {"answered", "requisition"}
      BY <2>5, ReadOrderEffect
    <3> QED
      BY <3>1
  <2> QED
    BY <1>7, <2>1, <2>2, <2>3, <2>4, <2>5
<1> QED
  BY <1>2, <1>3, <1>4, <1>5, <1>6, <1>7, Moves DEF Request

LEMMA StagesStep == ASSUME IInv, [Next]_vars PROVE Stages'
<1> SUFFICES ASSUME NEW h \in Handler PROVE Stage(h)'
  BY DEF Stages
<1>1. CASE Request(h)
  BY <1>1, StageStep
<1>2. CASE ask'[h] = ask[h]
  <2>1. Stage(h) /\ issued \subseteq issued'
    BY IssuedGrows DEF IInv, Stages
  <2> QED
    BY <1>2, <2>1 DEF Stage
<1> QED
  BY <1>1, <1>2, Moves

LEMMA ShapedStep == ASSUME IInv, [Next]_vars PROVE Shaped'
BY OneMoves DEF Alone, IInv, Shaped

LEMMA InitInv == Init => IInv
<1> SUFFICES ASSUME Init PROVE IInv
  OBVIOUS
<1>1. TableType
  BY OrderFacts DEF Init, TableType, NegRow
<1>2. Shaped /\ \A h \in Handler : ask[h] = Idle
  BY DEF Init, Shaped
<1>3. Stages /\ Cancelling
  <2>1. "none" \notin Decisions
    BY LiveAssumption
  <2> QED
    BY <1>2, <2>1, IdleFacts DEF Stages, Stage, Cancelling
<1>4. Story
  BY OrderFacts DEF Init, Story, Running, NoRow, Pending
<1> QED
  BY <1>1, <1>2, <1>3, <1>4 DEF IInv

LEMMA NextInv == IInv /\ [Next]_vars => IInv'
BY TableTypeStep, ShapedStep, StagesStep, StoryStep, CancellingStep DEF IInv

THEOREM TablesTell == Spec => []IInv
BY InitInv, NextInv, PTL DEF Spec

(***************************************************************************)
(* Lists                                                                   *)
(***************************************************************************)
ServedTo(h) ==
  /\ ask[h].op \in Listing /\ ask[h].at = "answered" => ask[h].code = 200
  /\ ask[h].op = "orders" /\ ask[h].at = "answered" /\ Synthetic \notin issued => ask[h].code = 200

LEMMA PagesAre == Listing \subseteq Pages /\ Pages \cup {"cancel", "report"} = {"track", "list", "inbox", "cancel", "report"}
BY DEF Listing, Pages

(* What kind of request an operation is, once and for all. *)
LEMMA Kinds ==
  ASSUME NEW op \in Op
  PROVE  op \in Decisions => op \notin Lookup /\ op \notin Pages /\ op \notin {"report", "order", "rfqs", "bids", "awards", "orders"}
BY LiveAssumption DEF Lookup, Pages

LEMMA ServedStep ==
  ASSUME IInv, [Next]_vars, NEW h \in Handler, ServedTo(h)
  PROVE  ServedTo(h)'
<1>0. issued \subseteq issued'
  BY IssuedGrows
<1>1. CASE ask'[h] = ask[h]
  BY <1>0, <1>1 DEF ServedTo
<1>2. CASE Request(h)
  <2>s. Stage(h)
    BY DEF IInv, Stages
  <2>1. CASE Ask(h)
    <3>1. PICK op \in Op : ask'[h].op = op /\ ask'[h].at = FirstCall(op)
      BY <2>1, AskEffect
    <3>2. ask'[h].at # "answered"
      BY <3>1, FirstCalls
    <3> QED
      BY <3>2 DEF ServedTo
  <2>2. CASE Forget(h)
    BY <2>2, ForgetEffect, IdleFacts DEF ServedTo
  <2>3. CASE ReadRequisition(h) \/ ReadNegotiations(h) \/ ReadContext(h)
    <3>1. /\ ask'[h].op = ask[h].op
          /\ ask[h].op \in Pages \cup {"cancel", "report", "negotiations", "bids", "awards"}
          /\ ask[h].op \in Listing /\ ask'[h].at = "answered" => ask'[h].code = 200
      <4>1. CASE ReadRequisition(h)
        BY <2>s, <4>1, ReadRequisitionEffect DEF Still, Same, Stage, Listing
      <4>2. CASE ReadNegotiations(h)
        BY <2>s, <4>2, ReadNegotiationsEffect DEF Still, Same, Stage, Listing
      <4>3. CASE ReadContext(h)
        BY <2>s, <4>3, ReadContextEffect DEF Still, Same, Stage, Listing
      <4> QED
        BY <2>3, <4>1, <4>2, <4>3
    <3> QED
      BY <3>1 DEF ServedTo, Pages
  <2>4. CASE ReadOrders(h)
    <3>1. ask'[h].op = "orders" /\ UNCHANGED issued
      BY <2>s, <2>4, ReadOrdersEffect DEF Still, Same, Stage, Quiet
    <3>2. ASSUME Synthetic \notin issued PROVE \A o \in Order : po[o].row = "full" => o = Delivered
      BY <3>2, OrderFacts DEF IInv, Story, NoOrder
    <3>3. Synthetic \notin issued => ask'[h].code = 200
      BY <2>4, <3>2, ReadOrdersEffect
    <3> QED
      BY <3>1, <3>3 DEF ServedTo, Listing
  <2>5. CASE \/ ReadBids(h) \/ ReadAwards(h) \/ ReadCommunications(h) \/ ReadSupplierBids(h)
             \/ ReadNegotiation(h) \/ SetStatus(h) \/ ReadOrder(h) \/ UpdateOrder(h) \/ ReadCatalogue(h)
    <3>1. ask'[h].op = ask[h].op /\ ask[h].at \notin {"requisition", "negotiations", "context", "orders"}
          /\ ask[h].at \in {"bids", "awards", "communications", "supplier bids", "negotiation",
                            "set status", "order", "update", "catalogue"}
      <4>1. CASE ReadBids(h) \/ ReadAwards(h)
        BY <4>1, ReadBidsEffect, ReadAwardsEffect DEF Still, Same
      <4>2. CASE ReadCommunications(h) \/ ReadSupplierBids(h) \/ ReadNegotiation(h)
        BY <4>2, ReadCommunicationsEffect, ReadSupplierBidsEffect, ReadNegotiationEffect DEF Still, Same
      <4>3. CASE SetStatus(h) \/ UpdateOrder(h)
        BY <4>3, SetStatusEffect, UpdateOrderEffect DEF Same
      <4>4. CASE ReadOrder(h) \/ ReadCatalogue(h)
        BY <4>4, ReadOrderEffect, ReadCatalogueEffect DEF Still, Same
      <4> QED
        BY <2>5, <4>1, <4>2, <4>3, <4>4
    <3>2. ask[h].op \notin {"list", "inbox", "orders"}
      BY <2>s, <3>1, LiveAssumption DEF Stage, Lookup
    <3> QED
      BY <3>1, <3>2 DEF ServedTo, Listing
  <2> QED
    BY <1>2, <2>1, <2>2, <2>3, <2>4, <2>5 DEF Request
<1> QED
  BY <1>1, <1>2, Moves

(* list_prs and list_orders answer 200 whatever rows a cancellation or a
   decision that met the reset has left, unless the harness's own order,
   which list_orders cannot parse, is there.                               *)
THEOREM Served == Spec => []ListsServed
<1> DEFINE Inv == \A h \in Handler : ServedTo(h)
<1>1. Init => Inv
  BY IdleFacts DEF Init, ServedTo
<1>2. IInv /\ Inv /\ [Next]_vars => Inv'
  BY ServedStep
<1>3. Inv => ListsServed
  BY DEF ServedTo, ListsServed, Answered
<1> QED
  BY <1>1, <1>2, <1>3, TablesTell, PTL DEF Spec

(***************************************************************************)
(* Decisions                                                               *)
(***************************************************************************)
DecidedFor(h) ==
  ask[h].op \in Decisions =>
    /\ ask[h].at \in {"update", "order", "answered"}
    /\ ask[h].at = "order" /\ ask[h].about = Delivered /\ cleared < 5 =>
         po[Delivered].status \in Decisions
    /\ ask[h].at = "answered" =>
         IF ask[h].code = 200
         THEN /\ ask[h].about = Delivered
              /\ cleared < 5 => po[Delivered].status \in Decisions
         ELSE ask[h].about = Synthetic \/ cleared > 0

LEMMA ClearedGrows ==
  ASSUME IInv, [Next]_vars
  PROVE  cleared \in 0..6 /\ cleared' \in 0..6 /\ cleared' >= cleared
<1>1. cleared \in 0..6 /\ cleared' \in 0..6
  BY TableTypeStep DEF IInv, TableType
<1>2. cleared' = cleared \/ cleared' = cleared + 1
  <2>1. ASSUME Writes PROVE cleared' = cleared
    BY <2>1 DEF Writes, Cancel, Decide
  <2> QED
    BY <2>1, TableCases DEF Orchestrator, Ingest, Negotiate, Follow, Notify, Deliver, PutOrder, Invite, Bid,
       Award, PutSynthetic, DropSynthetic, ResetStep
<1> QED
  BY <1>1, <1>2

(* A decision, once there, is there until its table is emptied. *)
LEMMA DecisionStays ==
  ASSUME IInv, [Next]_vars, Delivered \in issued, cleared' < 5, po[Delivered].status \in Decisions
  PROVE  po'[Delivered].status \in Decisions
<1>0. Delivered \in Order /\ TableType /\ cleared < 5
  BY OrderFacts, ClearedGrows DEF IInv
<1>1. CASE Deliver \/ PutSynthetic
  <2>1. PICK o \in Order : PutOrder(o) /\ o \notin issued
    BY <1>1, OrderFacts DEF Deliver, PutSynthetic
  <2> QED
    BY <1>0, <2>1, PutEffect
<1>2. CASE DropSynthetic
  BY <1>0, <1>2, OrderFacts DEF DropSynthetic, TableType
<1>3. CASE ResetStep
  <2>1. cleared # 4
    BY <1>0, <1>3, ClearedGrows DEF ResetStep
  <2> QED
    BY <1>3, <2>1 DEF ResetStep
<1>4. CASE Writes
  <2>1. ASSUME NEW o \in issued, NEW decision \in Decisions, Decide(o, decision)
        PROVE  po'[Delivered].status \in Decisions
    <3>1. o \in Order
      BY <1>0 DEF TableType
    <3> QED
      BY <1>0, <2>1, <3>1, DecideEffect
  <2> QED
    BY <1>4, <2>1 DEF Writes, Cancel
<1>5. CASE \/ UNCHANGED <<tables, issued, cleared>> \/ Ingest \/ Negotiate \/ Follow \/ Notify
           \/ \E s \in Supplier : Invite(s) \/ Bid(s) \/ Award(s)
  BY <1>5 DEF tables, Ingest, Negotiate, Follow, Notify, Invite, Bid, Award
<1> QED
  BY <1>1, <1>2, <1>3, <1>4, <1>5, TableCases DEF Orchestrator

LEMMA DecidedStep ==
  ASSUME IInv, [Next]_vars, NEW h \in Handler, DecidedFor(h)
  PROVE  DecidedFor(h)'
<1>0. cleared \in 0..6 /\ cleared' \in 0..6 /\ cleared' >= cleared /\ Stage(h)
  BY ClearedGrows DEF IInv, Stages
<1>d. Delivered \in issued /\ cleared' < 5 /\ po[Delivered].status \in Decisions =>
        po'[Delivered].status \in Decisions
  BY DecisionStays
<1>1. CASE ask'[h] = ask[h]
  <2>1. ask[h].op \in Decisions => ask[h].about \in issued
    BY <1>0 DEF Stage
  <2> QED
    BY <1>0, <1>1, <1>d, <2>1 DEF DecidedFor
<1>2. CASE Request(h)
  <2> SUFFICES ASSUME ask'[h].op \in Decisions PROVE DecidedFor(h)'
    BY DEF DecidedFor
  <2>1. CASE Ask(h)
    <3>1. PICK op \in Op : ask'[h].op = op /\ ask'[h].at = FirstCall(op)
      BY <2>1, AskEffect
    <3>2. ask'[h].at = "update"
      BY <3>1, FirstCalls
    <3> QED
      BY <3>2 DEF DecidedFor
  <2>2. CASE Forget(h)
    BY <2>2, ForgetEffect, IdleFacts, LiveAssumption
  <2>3. CASE UpdateOrder(h)
    <3>1. /\ Same(h) /\ ask'[h].at = "order" /\ Decide(ask[h].about, ask[h].op)
          /\ ask[h].about \in issued /\ ask[h].op \in Decisions
      BY <2>3, UpdateOrderEffect
    <3>2. po'[ask[h].about].status = ask[h].op
      BY <3>1, DecideEffect DEF IInv, TableType
    <3> QED
      BY <3>1, <3>2 DEF DecidedFor, Same
  <2>4. CASE ReadOrder(h)
    <3>1. /\ Still(h) /\ ask[h].at = "order" /\ ask[h].op \in Decisions
          /\ ask[h].op # "report"
      BY <2>4, ReadOrderEffect, LiveAssumption DEF Still, Same, Lookup
    <3>2. /\ ask'[h].at = "answered" /\ ask'[h].about = ask[h].about /\ UNCHANGED <<po, cleared>>
          /\ \/ ~Parses(ask[h].about, po[ask[h].about]) /\ ask'[h].code # 200
             \/ Parses(ask[h].about, po[ask[h].about]) /\ ask'[h].code = 200
      BY <2>4, <3>1, ReadOrderEffect DEF Still, Same, Quiet, tables
    <3>3. CASE Parses(ask[h].about, po[ask[h].about]) /\ ask'[h].code = 200
      BY <3>1, <3>2, <3>3 DEF Parses, DecidedFor
    <3>4. CASE ~Parses(ask[h].about, po[ask[h].about]) /\ ask'[h].code # 200
      <4>1. ask[h].about \in issued /\ ask[h].about \in Order
        BY <1>0, <3>1 DEF Stage, IInv, TableType
      <4>2. ask[h].about = Synthetic \/ (ask[h].about = Delivered /\ po[Delivered].row # "full")
        BY <3>4, <4>1, OrderFacts DEF Parses
      <4>3. ask[h].about = Synthetic \/ ~(cleared < 5)
        BY <4>1, <4>2 DEF IInv, Story
      <4>4. ask[h].about = Synthetic \/ cleared' > 0
        BY <1>0, <4>3
      <4> QED
        BY <3>2, <3>4, <4>4 DEF DecidedFor
    <3> QED
      BY <3>2, <3>3, <3>4
  <2>5. CASE \/ ReadRequisition(h) \/ ReadNegotiations(h) \/ ReadContext(h) \/ ReadBids(h) \/ ReadAwards(h)
             \/ ReadCommunications(h) \/ ReadSupplierBids(h) \/ ReadNegotiation(h) \/ SetStatus(h)
             \/ ReadOrders(h) \/ ReadCatalogue(h)
    <3>1. ask'[h].op = ask[h].op /\ ask[h].at \notin {"update", "order", "answered"}
      <4>1. CASE ReadRequisition(h) \/ ReadNegotiations(h) \/ ReadContext(h)
        BY <4>1, ReadRequisitionEffect, ReadNegotiationsEffect, ReadContextEffect DEF Still, Same
      <4>2. CASE ReadBids(h) \/ ReadAwards(h)
        BY <4>2, ReadBidsEffect, ReadAwardsEffect DEF Still, Same
      <4>3. CASE ReadCommunications(h) \/ ReadSupplierBids(h) \/ ReadNegotiation(h)
        BY <4>3, ReadCommunicationsEffect, ReadSupplierBidsEffect, ReadNegotiationEffect DEF Still, Same
      <4>4. CASE SetStatus(h) \/ ReadOrders(h) \/ ReadCatalogue(h)
        BY <4>4, SetStatusEffect, ReadOrdersEffect, ReadCatalogueEffect DEF Still, Same
      <4> QED
        BY <2>5, <4>1, <4>2, <4>3, <4>4
    <3> QED
      BY <3>1 DEF DecidedFor
  <2> QED
    BY <1>2, <2>1, <2>2, <2>3, <2>4, <2>5 DEF Request
<1> QED
  BY <1>1, <1>2, Moves

(* acknowledge_order and reject_order: success means that the delivered order
   is there and decided until its table is emptied, and failure that the
   order was the harness's own or that the reset has begun.               *)
THEOREM Decided == Spec => []DecisionStands
<1> DEFINE Inv == \A h \in Handler : DecidedFor(h)
<1>1. Init => Inv
  BY IdleFacts, LiveAssumption DEF Init, DecidedFor
<1>2. IInv /\ Inv /\ [Next]_vars => Inv'
  BY DecidedStep
<1>3. IInv /\ Inv => DecisionStands
  <2> SUFFICES ASSUME IInv, Inv, NEW h \in Handler, Answered(h, Decisions)
               PROVE  IF ask[h].code = 200
                      THEN /\ ask[h].about = Delivered
                           /\ cleared < 5 => po[Delivered].row = "full" /\ po[Delivered].status \in Decisions
                      ELSE ask[h].about = Synthetic \/ cleared > 0
    BY DEF DecisionStands
  <2>1. ask[h].about \in issued /\ DecidedFor(h)
    BY DEF Answered, IInv, Stages, Stage
  <2> QED
    BY <2>1 DEF DecidedFor, Answered, IInv, Story
<1> QED
  BY <1>1, <1>2, <1>3, TablesTell, PTL DEF Spec

(***************************************************************************)
(* The report                                                              *)
(***************************************************************************)
ReportFor(h) ==
  Running /\ ask[h].op = "report" /\ ask[h].at = "answered" =>
    ask[h].code = 200 \/ ask[h].about = Synthetic

(* The calls that no report makes. *)
LEMMA NotOfReports ==
  ASSUME IInv, NEW h \in Handler,
         \/ ReadBids(h) \/ ReadAwards(h) \/ ReadCommunications(h) \/ ReadSupplierBids(h)
         \/ ReadNegotiation(h) \/ SetStatus(h) \/ ReadOrders(h) \/ UpdateOrder(h)
  PROVE  ask'[h].op # "report"
<1>1. /\ ask'[h].op = ask[h].op
      /\ ask[h].at \in {"bids", "awards", "communications", "supplier bids", "negotiation",
                        "set status", "orders", "update"}
  <2>1. CASE ReadBids(h) \/ ReadAwards(h)
    BY <2>1, ReadBidsEffect, ReadAwardsEffect DEF Still, Same
  <2>2. CASE ReadCommunications(h) \/ ReadSupplierBids(h) \/ ReadNegotiation(h)
    BY <2>2, ReadCommunicationsEffect, ReadSupplierBidsEffect, ReadNegotiationEffect DEF Still, Same
  <2>3. CASE SetStatus(h) \/ UpdateOrder(h)
    BY <2>3, SetStatusEffect, UpdateOrderEffect DEF Same
  <2>4. CASE ReadOrders(h)
    BY <2>4, ReadOrdersEffect DEF Still, Same
  <2> QED
    BY <2>1, <2>2, <2>3, <2>4
<1>2. Stage(h)
  BY DEF IInv, Stages
<1>3. ask[h].op # "report"
  BY <1>1, <1>2, LiveAssumption DEF Stage, Lookup
<1> QED
  BY <1>1, <1>3

LEMMA ReportStep ==
  ASSUME IInv, [Next]_vars, NEW h \in Handler, ReportFor(h)
  PROVE  ReportFor(h)'
<1> SUFFICES ASSUME Running', ask'[h].op = "report", ask'[h].at = "answered"
             PROVE  ask'[h].code = 200 \/ ask'[h].about = Synthetic
  BY DEF ReportFor
<1>0. Running /\ Stage(h) /\ cleared < 5
  BY Growth DEF IInv, Stages, Grows, Running
<1>1. CASE ask'[h] = ask[h]
  BY <1>0, <1>1 DEF ReportFor
<1>2. CASE Ask(h)
  <2>1. PICK op \in Op : ask'[h].op = op /\ ask'[h].at = FirstCall(op)
    BY <1>2, AskEffect
  <2> QED
    BY <2>1, FirstCalls
<1>3. CASE Forget(h)
  BY <1>3, ForgetEffect, IdleFacts
<1>4. CASE ReadRequisition(h)
  <2>1. ask[h].op = "report" /\ ask[h].about \in issued
    BY <1>0, <1>4, ReadRequisitionEffect DEF Still, Same, Stage
  <2>2. req.row = "full"
    BY <1>0, <2>1 DEF IInv, Story
  <2> QED
    BY <1>4, <2>1, <2>2, ReadRequisitionEffect DEF Listing
<1>5. CASE ReadNegotiations(h)
  BY <1>5, ReadNegotiationsEffect DEF Still, Same, Pages
<1>6. CASE ReadContext(h)
  BY <1>6, ReadContextEffect DEF Still, Same, Pages
<1>7. CASE ReadOrder(h)
  <2>1. /\ ask[h].op = "report" /\ ask'[h].about = ask[h].about /\ ask[h].about \in issued
        /\ ask[h].about \in Order
    BY <1>0, <1>7, ReadOrderEffect DEF Still, Same, Stage, IInv, TableType
  <2>2. ~Parses(ask[h].about, po[ask[h].about])
    BY <1>7, <2>1, ReadOrderEffect
  <2> QED
    BY <1>0, <2>1, <2>2, OrderFacts DEF Parses, IInv, Story
<1>8. CASE ReadCatalogue(h)
  BY <1>8, ReadCatalogueEffect
<1>9. CASE \/ ReadBids(h) \/ ReadAwards(h) \/ ReadCommunications(h) \/ ReadSupplierBids(h)
           \/ ReadNegotiation(h) \/ SetStatus(h) \/ ReadOrders(h) \/ UpdateOrder(h)
  BY <1>9, NotOfReports
<1> QED
  BY <1>1, <1>2, <1>3, <1>4, <1>5, <1>6, <1>7, <1>8, <1>9, Moves DEF Request

(* get_negotiation_report_pdf: the report of a delivered order, put together
   from four tables read one after the other, is there until the reset.   *)
THEOREM Reported == Spec => []ReportServed
<1> DEFINE Inv == \A h \in Handler : ReportFor(h)
<1>1. Init => Inv
  BY IdleFacts DEF Init, ReportFor
<1>2. IInv /\ Inv /\ [Next]_vars => Inv'
  BY ReportStep
<1>3. Inv => ReportServed
  BY DEF ReportFor, ReportServed, Answered
<1> QED
  BY <1>1, <1>2, <1>3, TablesTell, PTL DEF Spec

(* What is served as a report was made of some catalogue and the lines. *)
Written(h) ==
  ask[h].op = "report" /\ ask[h].at = "answered" /\ ask[h].code = 200 =>
    \E cat \in Catalogues : ask[h].report = Report(cat, Lines)

LEMMA WrittenStep ==
  ASSUME IInv, [Next]_vars, NEW h \in Handler, Written(h)
  PROVE  Written(h)'
<1> SUFFICES ASSUME ask'[h].op = "report", ask'[h].at = "answered", ask'[h].code = 200
             PROVE  \E cat \in Catalogues : ask'[h].report = Report(cat, Lines)
  BY DEF Written
<1>0. Stage(h)
  BY DEF IInv, Stages
<1>1. CASE ask'[h] = ask[h]
  BY <1>1 DEF Written
<1>2. CASE Ask(h)
  <2>1. PICK op \in Op : ask'[h].op = op /\ ask'[h].at = FirstCall(op)
    BY <1>2, AskEffect
  <2> QED
    BY <2>1, FirstCalls
<1>3. CASE Forget(h)
  BY <1>3, ForgetEffect, IdleFacts
<1>4. CASE ReadRequisition(h)
  <2>1. ask[h].op = "report"
    BY <1>4, ReadRequisitionEffect DEF Still, Same
  <2>2. CASE req.row = "full"
    BY <1>4, <2>1, <2>2, ReadRequisitionEffect DEF Listing
  <2>3. CASE req.row # "full"
    <3>1. ask'[h].code \in {404, 500}
      BY <1>4, <2>1, <2>3, ReadRequisitionEffect DEF Listing
    <3> QED
      BY <3>1
  <2> QED
    BY <2>2, <2>3
<1>5. CASE ReadNegotiations(h) \/ ReadContext(h)
  BY <1>5, ReadNegotiationsEffect, ReadContextEffect DEF Still, Same, Pages
<1>6. CASE ReadOrder(h)
  BY <1>6, ReadOrderEffect DEF Still, Same
<1>7. CASE ReadCatalogue(h)
  BY <1>7, ReadCatalogueEffect
<1>8. CASE \/ ReadBids(h) \/ ReadAwards(h) \/ ReadCommunications(h) \/ ReadSupplierBids(h)
           \/ ReadNegotiation(h) \/ SetStatus(h) \/ ReadOrders(h) \/ UpdateOrder(h)
  BY <1>8, NotOfReports
<1> QED
  BY <1>1, <1>2, <1>3, <1>4, <1>5, <1>6, <1>7, <1>8, Moves DEF Request

(* negotiation_report.py: whenever, between which other calls and from which
   catalogue a report is made, its sections divide the lines of the requisition
   among them and add up to the summary of an order at its prices.         *)
THEOREM Reconciled == Spec => []ReportReconciles
<1> DEFINE Inv == \A h \in Handler : Written(h)
<1>1. Init => Inv
  BY IdleFacts DEF Init, Written
<1>2. IInv /\ Inv /\ [Next]_vars => Inv'
  BY WrittenStep
<1>3. Inv => ReportReconciles
  <2> SUFFICES ASSUME NEW h \in Handler, Inv, Answered(h, {"report"}), ask[h].code = 200
               PROVE  LET report == ask[h].report
                          sum == 200 * SumTotals(Lines, DOMAIN Lines)
                      IN /\ \A k \in DOMAIN Lines : \E i \in DOMAIN report : k \in report[i].lines
                         /\ \A i, j \in DOMAIN report : i # j =>
                              /\ report[i].category # report[j].category
                              /\ report[i].lines \cap report[j].lines = {}
                         /\ SumOf("final", report) = sum
                         /\ SumOf("savings", report) = SummaryTotal(report, sum).savings
                         /\ \A i \in DOMAIN report :
                              report[i].final >= 0 =>
                                /\ report[i].opening >= report[i].counter
                                /\ report[i].counter >= report[i].final
    BY DEF ReportReconciles
  <2>1. PICK cat \in Catalogues : ask[h].report = Report(cat, Lines)
    BY DEF Answered, Written
  <2> QED
    BY <2>1, LinesAssumption, Reconciliation
<1> QED
  BY <1>1, <1>2, <1>3, TablesTell, PTL DEF Spec

(***************************************************************************)
(* Bids and awards                                                         *)
(***************************************************************************)
LEMMA BeforeBids ==
  ASSUME NEW op, NEW x
  PROVE  /\ op = "bids" => Before(op, x).bids = bids /\ Before(op, x).award = "none"
         /\ op = "awards" => Before(op, x).bids = {} /\ Before(op, x).award = award
         /\ op = "rfqs" => Before(op, x).bids = bids \cap {x} /\ Before(op, x).invited = invited \cap {x}
BY DEF Before

FindsFor(h) ==
  ask[h].op \in {"bids", "awards"} =>
    /\ ask[h].at \in {"negotiations", "bids", "awards", "answered"}
    /\ Stranger \notin ask[h].bids /\ Stranger \notin ask[h].awards
    /\ ask[h].op = "bids" => ask[h].asked.award = "none"
    /\ Running =>
         /\ ask[h].at \in {"negotiations", "bids"} =>
              /\ ask[h].asked.bids \subseteq bids
              /\ ask[h].asked.award # "none" => award = ask[h].asked.award
         /\ ask[h].at = "awards" /\ ~ask[h].cut /\ ask[h].asked.award # "none" =>
              award = ask[h].asked.award /\ award \in ask[h].bids
         /\ ask[h].at = "answered" /\ ~ask[h].cut =>
              /\ ask[h].op = "bids" => ask[h].asked.bids \subseteq ask[h].bids
              /\ ask[h].asked.award # "none" => ask[h].asked.award \in ask[h].awards

LEMMA FindsStep ==
  ASSUME IInv, [Next]_vars, NEW h \in Handler, FindsFor(h)
  PROVE  FindsFor(h)'
<1>0. Stage(h) /\ TableType /\ Story
  BY DEF IInv, Stages
<1>g. Running' => Grows
  BY Growth
<1>1. CASE ask'[h] = ask[h]
  BY <1>1, <1>g DEF FindsFor, Grows
<1> SUFFICES ASSUME Request(h), ask'[h].op \in {"bids", "awards"} PROVE FindsFor(h)'
  BY <1>1, Moves DEF FindsFor
<1>2. CASE Ask(h)
  <2>1. PICK op \in Op : \E x \in About(op) :
          /\ ask'[h].op = op /\ ask'[h].at = FirstCall(op) /\ ask'[h].asked = Before(op, x)
          /\ ask'[h].bids = {} /\ ask'[h].awards = {} /\ Quiet
    BY <1>2, AskEffect
  <2>2. PICK x \in About(op) : ask'[h].asked = Before(op, x)
    BY <2>1
  <2>3. ask'[h].at = "negotiations"
    BY <2>1, FirstCalls
  <2>4. /\ op = "bids" => ask'[h].asked.bids = bids /\ ask'[h].asked.award = "none"
        /\ op = "awards" => ask'[h].asked.bids = {} /\ ask'[h].asked.award = award
    BY <2>2, BeforeBids
  <2> QED
    BY <2>1, <2>3, <2>4 DEF FindsFor, Quiet, tables
<1>3. CASE Forget(h)
  BY <1>3, ForgetEffect, IdleFacts
<1>4. CASE ReadNegotiations(h)
  <2>1. /\ ask[h].at = "negotiations" /\ ask'[h].op = ask[h].op /\ ask'[h].asked = ask[h].asked
        /\ ask'[h].bids = ask[h].bids /\ ask'[h].awards = ask[h].awards /\ Quiet
        /\ \/ (neg = "none" \/ ask'[h].cut) /\ ask'[h].at = "answered"
           \/ ask'[h].at = "bids"
    BY <1>4, ReadNegotiationsEffect DEF Still, Same, Pages
  <2>2. Running /\ neg = "none" => bids = {} /\ award = "none"
    BY <1>0 DEF Story
  <2> QED
    BY <2>1, <2>2 DEF FindsFor, Quiet, tables, Running
<1>5. CASE ReadBids(h)
  <2>1. /\ ask[h].at = "bids" /\ ask'[h].op = ask[h].op /\ ask'[h].asked = ask[h].asked
        /\ ask'[h].bids \subseteq bids /\ ask'[h].awards = ask[h].awards /\ Quiet
        /\ bids \subseteq ask'[h].bids \/ ask'[h].cut
        /\ \/ ask[h].op = "awards" /\ ask'[h].at = "awards"
           \/ (ask[h].op = "bids" \/ ask'[h].bids = {}) /\ ask'[h].at = "answered"
    BY <1>5, ReadBidsEffect DEF Still, Same
  <2>2. Stranger \notin bids /\ (Running /\ award # "none" => award \in bids)
    BY <1>0, LiveAssumption DEF Story, TableType
  <2> QED
    BY <2>1, <2>2 DEF FindsFor, Quiet, tables, Running
<1>6. CASE ReadAwards(h)
  <2>1. /\ ask[h].at = "awards" /\ ask'[h].op = ask[h].op /\ ask'[h].asked = ask[h].asked
        /\ ask'[h].bids = ask[h].bids /\ ask'[h].at = "answered" /\ Quiet
        /\ ask'[h].awards \subseteq ask[h].bids
        /\ award \in ask[h].bids /\ award # "none" => award \in ask'[h].awards \/ ask'[h].cut
        /\ (ask[h].cut => ask'[h].cut) /\ ask[h].op = "awards"
    BY <1>0, <1>6, ReadAwardsEffect DEF Still, Same, Stage
  <2> QED
    BY <2>1 DEF FindsFor, Quiet, tables, Running
<1>7. CASE \/ ReadRequisition(h) \/ ReadContext(h) \/ ReadCommunications(h) \/ ReadSupplierBids(h)
           \/ ReadNegotiation(h) \/ SetStatus(h) \/ ReadOrders(h) \/ ReadOrder(h) \/ UpdateOrder(h)
           \/ ReadCatalogue(h)
  <2>1. ask'[h].op = ask[h].op /\ ask[h].at \notin {"negotiations", "bids", "awards", "answered"}
    <3>1. CASE ReadRequisition(h) \/ ReadContext(h)
      BY <3>1, ReadRequisitionEffect, ReadContextEffect DEF Still, Same
    <3>2. CASE ReadCommunications(h) \/ ReadSupplierBids(h) \/ ReadNegotiation(h)
      BY <3>2, ReadCommunicationsEffect, ReadSupplierBidsEffect, ReadNegotiationEffect DEF Still, Same
    <3>3. CASE SetStatus(h) \/ UpdateOrder(h)
      BY <3>3, SetStatusEffect, UpdateOrderEffect DEF Same
    <3>4. CASE ReadOrders(h)
      BY <3>4, ReadOrdersEffect DEF Still, Same
    <3>5. CASE ReadOrder(h)
      BY <3>5, ReadOrderEffect DEF Still, Same
    <3>6. CASE ReadCatalogue(h)
      BY <3>6, ReadCatalogueEffect DEF Still, Same
    <3> QED
      BY <1>7, <3>1, <3>2, <3>3, <3>4, <3>5, <3>6
  <2> QED
    BY <2>1 DEF FindsFor
<1> QED
  BY <1>2, <1>3, <1>4, <1>5, <1>6, <1>7 DEF Request

(* get_bids and get_awards, by way of one and two other tables: nothing of
   another requisition, whatever page is read, and all that was there when
   they were asked unless a page or the index has left a row out.          *)
THEOREM Found == Spec => []ReadsBetween
<1> DEFINE Inv == \A h \in Handler : FindsFor(h)
<1>1. Init => Inv
  BY IdleFacts DEF Init, FindsFor
<1>2. IInv /\ Inv /\ [Next]_vars => Inv'
  BY FindsStep
<1>3. Inv => ReadsBetween
  BY DEF FindsFor, ReadsBetween, Answered
<1> QED
  BY <1>1, <1>2, <1>3, TablesTell, PTL DEF Spec

(***************************************************************************)
(* The supplier's inbox                                                    *)
(***************************************************************************)
RfqsFor(h) ==
  Running /\ ask[h].op = "rfqs" =>
    /\ ask[h].at \in {"communications", "supplier bids", "negotiation", "answered"}
    /\ ask[h].at = "communications" =>
         /\ ask[h].asked.invited \subseteq invited \cap {ask[h].about}
         /\ ask[h].asked.bids \subseteq bids \cap {ask[h].about}
    /\ ask[h].at = "supplier bids" =>
         /\ ask[h].invited \subseteq invited /\ ask[h].told \subseteq told \cap {ask[h].about}
         /\ ask[h].asked.bids \subseteq bids \cap {ask[h].about}
         /\ ~ask[h].cut => ask[h].asked.invited \subseteq ask[h].invited
    /\ ask[h].at \in {"negotiation", "answered"} /\ ~ask[h].cut =>
         /\ ask[h].asked.invited \subseteq ask[h].invited /\ ask[h].asked.bids \subseteq ask[h].bids
         /\ ask[h].told \subseteq ask[h].bids
    /\ ask[h].at = "negotiation" =>
         /\ ask[h].told # {} => neg \in {"APPROVED", "AWARDED"}
         /\ ask[h].invited \cup ask[h].bids # {} => neg # "none"
    /\ ask[h].at = "answered" =>
         /\ ask[h].told # {} => ask[h].neg \in {"APPROVED", "AWARDED"}
         /\ ask[h].invited \cup ask[h].bids # {} => ask[h].neg # "none"

LEMMA RfqsStep ==
  ASSUME IInv, [Next]_vars, NEW h \in Handler, RfqsFor(h)
  PROVE  RfqsFor(h)'
<1> SUFFICES ASSUME Running', ask'[h].op = "rfqs" PROVE RfqsFor(h)'
  BY DEF RfqsFor
<1>0. Stage(h) /\ TableType /\ Story
  BY DEF IInv, Stages
<1>g. Grows /\ Running
  BY Growth DEF Grows
<1>1. CASE ask'[h] = ask[h]
  BY <1>1, <1>g DEF RfqsFor, Grows
<1>2. CASE Ask(h)
  <2>1. PICK op \in Op : \E x \in About(op) :
          /\ ask'[h].op = op /\ ask'[h].at = FirstCall(op) /\ ask'[h].asked = Before(op, x)
          /\ ask'[h].about = x /\ Quiet
    BY <1>2, AskEffect
  <2>2. PICK x \in About(op) : ask'[h].asked = Before(op, x) /\ ask'[h].about = x
    BY <2>1
  <2>3. ask'[h].at = "communications"
    BY <2>1, FirstCalls
  <2>4. ask'[h].asked.bids = bids \cap {x} /\ ask'[h].asked.invited = invited \cap {x}
    BY <2>1, <2>2, BeforeBids
  <2> QED
    BY <2>1, <2>2, <2>3, <2>4 DEF RfqsFor, Quiet, tables
<1>3. CASE Forget(h)
  BY <1>3, ForgetEffect, IdleFacts
<1>4. CASE ReadCommunications(h)
  <2>1. /\ Same(h) /\ Quiet /\ ask[h].at = "communications" /\ ask'[h].at = "supplier bids"
        /\ ask'[h].invited \subseteq invited \cap {ask[h].about}
        /\ ask'[h].told \subseteq told \cap {ask[h].about}
        /\ invited \cap {ask[h].about} \subseteq ask'[h].invited \/ ask'[h].cut
    BY <1>4, ReadCommunicationsEffect DEF Still
  <2> QED
    BY <1>g, <2>1 DEF RfqsFor, Quiet, tables, Same
<1>5. CASE ReadSupplierBids(h)
  <2>1. /\ Same(h) /\ Quiet /\ ask[h].at = "supplier bids"
        /\ ask'[h].bids \subseteq bids \cap {ask[h].about}
        /\ bids \cap {ask[h].about} \subseteq ask'[h].bids \/ ask'[h].cut
        /\ ask[h].cut => ask'[h].cut
        /\ ask'[h].invited = ask[h].invited /\ ask'[h].told = ask[h].told
        /\ \/ ask'[h].invited = {} /\ ask'[h].told = {} /\ ask'[h].bids = {} /\ ask'[h].at = "answered"
           \/ ask'[h].at = "negotiation"
    BY <1>5, ReadSupplierBidsEffect DEF Still
  <2>2. /\ ~ask[h].cut => ask[h].asked.invited \subseteq ask[h].invited
        /\ ask[h].invited \subseteq invited /\ ask[h].told \subseteq told \cap {ask[h].about}
        /\ ask[h].asked.bids \subseteq bids \cap {ask[h].about}
    BY <1>g, <2>1 DEF RfqsFor, Same
  <2>3. /\ told \subseteq bids /\ (told # {} => neg \in {"APPROVED", "AWARDED"})
        /\ invited \cup bids # {} => neg # "none"
    BY <1>0, <1>g DEF Story
  <2> QED
    BY <2>1, <2>2, <2>3 DEF RfqsFor, Quiet, tables, Same
<1>6. CASE ReadNegotiation(h)
  <2>1. /\ Same(h) /\ Quiet /\ ask[h].at = "negotiation" /\ ask'[h].at = "answered"
        /\ ask'[h].invited = ask[h].invited /\ ask'[h].told = ask[h].told /\ ask'[h].bids = ask[h].bids
        /\ ask'[h].neg = neg /\ ask'[h].cut = ask[h].cut
    BY <1>6, ReadNegotiationEffect DEF Still
  <2> QED
    BY <1>g, <2>1 DEF RfqsFor, Quiet, tables, Same
<1>7. CASE \/ ReadRequisition(h) \/ ReadNegotiations(h) \/ ReadContext(h) \/ ReadBids(h) \/ ReadAwards(h)
           \/ SetStatus(h) \/ ReadOrders(h) \/ ReadOrder(h) \/ UpdateOrder(h) \/ ReadCatalogue(h)
  <2>1. ask'[h].op = ask[h].op /\ ask[h].at \notin {"communications", "supplier bids", "negotiation", "answered"}
    <3>1. CASE ReadRequisition(h) \/ ReadNegotiations(h) \/ ReadContext(h)
      BY <3>1, ReadRequisitionEffect, ReadNegotiationsEffect, ReadContextEffect DEF Still, Same
    <3>2. CASE ReadBids(h) \/ ReadAwards(h)
      BY <3>2, ReadBidsEffect, ReadAwardsEffect DEF Still, Same
    <3>3. CASE SetStatus(h) \/ UpdateOrder(h)
      BY <3>3, SetStatusEffect, UpdateOrderEffect DEF Same
    <3>4. CASE ReadOrders(h)
      BY <3>4, ReadOrdersEffect DEF Still, Same
    <3>5. CASE ReadOrder(h)
      BY <3>5, ReadOrderEffect DEF Still, Same
    <3>6. CASE ReadCatalogue(h)
      BY <3>6, ReadCatalogueEffect DEF Still, Same
    <3> QED
      BY <1>7, <3>1, <3>2, <3>3, <3>4, <3>5, <3>6
  <2> QED
    BY <1>g, <2>1 DEF RfqsFor
<1> QED
  BY <1>1, <1>2, <1>3, <1>4, <1>5, <1>6, <1>7, Moves DEF Request

(* get_supplier_rfqs: of communications, bids and negotiations, read one after
   the other, a story in the order it happened, with nothing missing unless
   a page has left a row out.                                              *)
THEOREM Told == Spec => []RfqsCausal
<1> DEFINE Inv == \A h \in Handler : RfqsFor(h)
<1>1. Init => Inv
  BY IdleFacts DEF Init, RfqsFor
<1>2. IInv /\ Inv /\ [Next]_vars => Inv'
  BY RfqsStep
<1>3. Inv => RfqsCausal
  BY DEF RfqsFor, RfqsCausal, Answered
<1> QED
  BY <1>1, <1>2, <1>3, TablesTell, PTL DEF Spec

(***************************************************************************)
(* The tracker                                                             *)
(***************************************************************************)
LEMMA FactsAre ==
  /\ "awarded" \in FactsNow <=> neg = "AWARDED"
  /\ "approved" \in FactsNow <=> neg \in {"APPROVED", "AWARDED"}
  /\ "ordered" \in FactsNow <=> req.ordered
BY DEF FactsNow, Facts

LEMMA BeforeFacts ==
  ASSUME NEW op, NEW x
  PROVE  /\ "awarded" \in Before(op, x).facts => neg = "AWARDED"
         /\ "approved" \in Before(op, x).facts => neg \in {"APPROVED", "AWARDED"}
         /\ "ordered" \in Before(op, x).facts => req.ordered
<1>1. Before(op, x).facts \subseteq FactsNow
  BY DEF Before
<1> QED
  BY <1>1, FactsAre

Has(h, fact) == fact \in ask[h].asked.facts
ReadBoth(h) == ask[h].at = "context" \/ (ask[h].at = "answered" /\ ask[h].req.row = "full")
ReadOne(h) == ask[h].at = "negotiations" \/ ReadBoth(h)

(* What a page has read, before a reset and after. *)
PageRead(h) ==
  /\ ask[h].at \in {"requisition", "negotiations", "context", "answered"}
  /\ ask[h].at = "requisition" => ask[h].req = NoRow /\ ask[h].neg = "none"
  /\ ask[h].req.ordered => ask[h].req.status \in {"COMPLETED", "CANCELLED"}
  /\ ask[h].at = "negotiations" /\ ask[h].req.ordered /\ Running => neg = "AWARDED"
  /\ ask[h].at \in {"context", "answered"} /\ ask[h].req.ordered => ask[h].neg \in {"AWARDED", "none"}

(* What was there when it asked, and what is there now. *)
PageTrue(h) ==
  /\ ask[h].at = "requisition" => (Has(h, "ordered") => req.ordered)
  /\ ask[h].at \in {"requisition", "negotiations"} =>
       /\ Has(h, "awarded") => neg = "AWARDED"
       /\ Has(h, "approved") => neg \in {"APPROVED", "AWARDED"}
  /\ ReadOne(h) =>
       /\ Has(h, "ordered") => ask[h].req.ordered
       /\ ask[h].req.ordered => req.ordered
       /\ ask[h].req.status = Pending => neg # "none"
  /\ ReadBoth(h) =>
       /\ ask[h].req.status # "CANCELLED" =>
            /\ Has(h, "awarded") => ask[h].neg = "AWARDED"
            /\ Has(h, "approved") => ask[h].neg \in {"APPROVED", "AWARDED"}
            /\ ask[h].req.ordered => ask[h].neg = "AWARDED"
       /\ ask[h].neg = "AWARDED" => neg = "AWARDED"
       /\ ask[h].neg = "APPROVED" => neg \in {"APPROVED", "AWARDED"}
  /\ ask[h].at = "answered" /\ ask[h].req.row = "full" /\ ask[h].req.status = Pending => ask[h].why

TracksFor(h) == ask[h].op \in Pages => PageRead(h) /\ (Running => PageTrue(h))

LEMMA NoRowFacts == /\ NoRow.row = "none" /\ NoRow.ordered = FALSE /\ NoRow.status = "IN_NEGOTIATION"
                    /\ Pending \notin {"IN_NEGOTIATION", "COMPLETED", "CANCELLED"}
BY DEF NoRow, Pending

LEMMA TracksStep ==
  ASSUME IInv, [Next]_vars, NEW h \in Handler, TracksFor(h)
  PROVE  TracksFor(h)'
<1>0. Stage(h) /\ TableType /\ Story
  BY DEF IInv, Stages
<1>g. Running' => Grows
  BY Growth
<1>1. CASE ask'[h] = ask[h]
  <2> SUFFICES ASSUME ask[h].op \in Pages PROVE PageRead(h)' /\ (Running' => PageTrue(h)')
    BY <1>1 DEF TracksFor
  <2>1. PageRead(h)'
    BY <1>1, <1>g DEF TracksFor, PageRead, Grows
  <2>2. ASSUME Running' PROVE PageTrue(h)'
    <3>1. Grows /\ PageTrue(h)
      BY <1>g, <2>2 DEF TracksFor, Grows
    <3> QED
      BY <1>1, <3>1 DEF PageTrue, Has, ReadOne, ReadBoth, Grows
  <2> QED
    BY <2>1, <2>2
<1> SUFFICES ASSUME Request(h), ask'[h].op \in Pages PROVE PageRead(h)' /\ (Running' => PageTrue(h)')
  BY <1>1, Moves DEF TracksFor
<1>2. CASE Ask(h)
  <2>1. PICK op \in Op : \E x \in About(op) :
          /\ ask'[h].op = op /\ ask'[h].at = FirstCall(op) /\ ask'[h].asked = Before(op, x)
          /\ ask'[h].req = NoRow /\ ask'[h].neg = "none" /\ Quiet
    BY <1>2, AskEffect
  <2>2. PICK x \in About(op) : ask'[h].asked = Before(op, x)
    BY <2>1
  <2>3. ask'[h].at = "requisition"
    BY <2>1, FirstCalls
  <2>4. /\ Has(h, "awarded")' => neg = "AWARDED"
        /\ Has(h, "approved")' => neg \in {"APPROVED", "AWARDED"}
        /\ Has(h, "ordered")' => req.ordered
    BY <2>2, BeforeFacts DEF Has
  <2>5. PageRead(h)'
    BY <2>1, <2>3, NoRowFacts DEF PageRead
  <2>6. PageTrue(h)'
    BY <2>1, <2>3, <2>4 DEF PageTrue, ReadOne, ReadBoth, Quiet, tables
  <2> QED
    BY <2>5, <2>6
<1>3. CASE Forget(h)
  BY <1>3, ForgetEffect, IdleFacts DEF Pages
<1>4. CASE ReadRequisition(h)
  <2>1. /\ ask[h].at = "requisition" /\ ask'[h].op = ask[h].op /\ ask'[h].asked = ask[h].asked
        /\ Quiet /\ ask[h].op \in Pages
        /\ \/ Says(h, ask[h]) /\ ask'[h].at = "answered"
           \/ /\ req.row = "full" /\ req.status = "CANCELLED" /\ ask'[h].at = "answered"
              /\ ask'[h].req = req /\ ask'[h].neg = ask[h].neg
           \/ /\ req.row = "full" /\ ask'[h].at = "negotiations"
              /\ ask'[h].req = req /\ ask'[h].neg = ask[h].neg
    BY <1>4, ReadRequisitionEffect DEF Still, Same, Pages
  <2>2. /\ ask[h].req = NoRow /\ ask[h].neg = "none"
        /\ Running => PageTrue(h)
    BY <2>1 DEF TracksFor, PageRead
  <2>q. UNCHANGED <<req, neg, cleared>> /\ (Running' <=> Running)
    BY <2>1 DEF Quiet, tables, Running
  <2>3. CASE Says(h, ask[h]) /\ ask'[h].at = "answered"
    <3>1. ask'[h].req = NoRow /\ ask'[h].neg = "none"
      BY <2>2, <2>3 DEF Says
    <3> QED
      BY <2>3, <3>1, NoRowFacts DEF PageRead, PageTrue, ReadOne, ReadBoth
  <2>4. CASE /\ req.row = "full" /\ req.status = "CANCELLED" /\ ask'[h].at = "answered"
             /\ ask'[h].req = req /\ ask'[h].neg = ask[h].neg
    <3>1. PageRead(h)'
      BY <2>2, <2>4 DEF PageRead
    <3>2. ASSUME Running PROVE PageTrue(h)'
      <4>1. Has(h, "ordered")' => req.ordered
        BY <2>1, <2>2, <3>2 DEF PageTrue, Has
      <4> QED
        BY <2>q, <2>2, <2>4, <4>1, NoRowFacts DEF PageTrue, ReadOne, ReadBoth
    <3> QED
      BY <2>q, <3>1, <3>2
  <2>5. CASE /\ req.row = "full" /\ ask'[h].at = "negotiations"
             /\ ask'[h].req = req /\ ask'[h].neg = ask[h].neg
    <3>1. PageRead(h)'
      BY <1>0, <2>q, <2>2, <2>5 DEF PageRead, Story
    <3>2. ASSUME Running PROVE PageTrue(h)'
      <4>1. /\ Has(h, "ordered")' => req.ordered
            /\ Has(h, "awarded")' => neg = "AWARDED"
            /\ Has(h, "approved")' => neg \in {"APPROVED", "AWARDED"}
        BY <2>1, <2>2, <3>2 DEF PageTrue, Has
      <4>2. req.status = Pending => neg # "none"
        BY <1>0, <3>2 DEF Story
      <4> QED
        BY <2>q, <2>5, <4>1, <4>2 DEF PageTrue, ReadOne, ReadBoth
    <3> QED
      BY <2>q, <3>1, <3>2
  <2> QED
    BY <2>1, <2>3, <2>4, <2>5
<1>5. CASE ReadNegotiations(h)
  <2>1. /\ ask[h].at = "negotiations" /\ ask'[h].op = ask[h].op /\ ask'[h].asked = ask[h].asked
        /\ Quiet /\ ask[h].op \in Pages /\ ask'[h].req = ask[h].req /\ ask'[h].neg = neg
        /\ \/ ask'[h].at = "context"
           \/ ask'[h].at = "answered" /\ ask[h].req.status # Pending
    BY <1>5, ReadNegotiationsEffect DEF Still, Same, Pages
  <2>q. UNCHANGED <<req, neg, cleared>> /\ (Running' <=> Running)
    BY <2>1 DEF Quiet, tables, Running
  <2>2. PageRead(h) /\ (Running => PageTrue(h))
    BY <2>1 DEF TracksFor
  <2>3. PageRead(h)'
    <3>1. ask[h].req.ordered => neg \in {"AWARDED", "none"}
      BY <1>0, <2>1, <2>2 DEF PageRead, Story
    <3> QED
      BY <2>1, <2>2, <3>1 DEF PageRead
  <2>4. ASSUME Running PROVE PageTrue(h)'
    <3>1. /\ Has(h, "ordered")' => ask[h].req.ordered
          /\ Has(h, "awarded")' => neg = "AWARDED"
          /\ Has(h, "approved")' => neg \in {"APPROVED", "AWARDED"}
          /\ ask[h].req.ordered => req.ordered /\ neg = "AWARDED"
          /\ ask[h].req.status = Pending => neg # "none"
      BY <2>1, <2>2, <2>4 DEF PageTrue, PageRead, ReadOne, Has
    <3> QED
      BY <2>1, <2>q, <3>1 DEF PageTrue, ReadOne, ReadBoth
  <2> QED
    BY <2>q, <2>3, <2>4
<1>6. CASE ReadContext(h)
  <2>1. /\ ask[h].at = "context" /\ ask'[h].op = ask[h].op /\ ask'[h].asked = ask[h].asked
        /\ Quiet /\ ask[h].op \in Pages /\ ask'[h].req = ask[h].req /\ ask'[h].neg = ask[h].neg
        /\ ask'[h].at = "answered" /\ ask'[h].why = (neg # "none")
    BY <1>6, ReadContextEffect DEF Still, Same, Pages
  <2>q. UNCHANGED <<req, neg, cleared>> /\ (Running' <=> Running)
    BY <2>1 DEF Quiet, tables, Running
  <2>2. PageRead(h) /\ (Running => PageTrue(h))
    BY <2>1 DEF TracksFor
  <2>3. PageRead(h)'
    BY <2>1, <2>2 DEF PageRead
  <2>4. ASSUME Running PROVE PageTrue(h)'
    BY <2>1, <2>2, <2>4, <2>q DEF PageTrue, ReadOne, ReadBoth, Has
  <2> QED
    BY <2>q, <2>3, <2>4
<1>7. CASE \/ ReadBids(h) \/ ReadAwards(h) \/ ReadCommunications(h) \/ ReadSupplierBids(h)
           \/ ReadNegotiation(h) \/ SetStatus(h) \/ ReadOrders(h) \/ ReadOrder(h) \/ UpdateOrder(h)
           \/ ReadCatalogue(h)
  <2>1. /\ ask'[h].op = ask[h].op
        /\ ask[h].at \notin {"requisition", "negotiations", "context", "answered"}
    <3>1. CASE ReadBids(h) \/ ReadAwards(h)
      BY <3>1, ReadBidsEffect, ReadAwardsEffect DEF Still, Same
    <3>2. CASE ReadCommunications(h) \/ ReadSupplierBids(h) \/ ReadNegotiation(h)
      BY <3>2, ReadCommunicationsEffect, ReadSupplierBidsEffect, ReadNegotiationEffect DEF Still, Same
    <3>3. CASE SetStatus(h) \/ UpdateOrder(h)
      BY <3>3, SetStatusEffect, UpdateOrderEffect DEF Same
    <3>4. CASE ReadOrders(h)
      BY <3>4, ReadOrdersEffect DEF Still, Same
    <3>5. CASE ReadOrder(h)
      BY <3>5, ReadOrderEffect DEF Still, Same
    <3>6. CASE ReadCatalogue(h)
      BY <3>6, ReadCatalogueEffect DEF Still, Same
    <3> QED
      BY <1>7, <3>1, <3>2, <3>3, <3>4, <3>5, <3>6
  <2> QED
    BY <2>1 DEF TracksFor, PageRead
<1> QED
  BY <1>2, <1>3, <1>4, <1>5, <1>6, <1>7 DEF Request

LEMMA ShownMeans ==
  ASSUME NEW h
  PROVE  /\ Shown(h, "negotiation") <=>
              /\ ask[h].req.status # "CANCELLED" /\ ask[h].neg # "none"
              /\ ask[h].neg = "AWARDED" \/ ask[h].req.ordered
         /\ Shown(h, "approval") <=>
              /\ ask[h].req.status \notin {"CANCELLED", Pending}
              /\ ask[h].neg \in {"APPROVED", "AWARDED"}
         /\ Shown(h, "award") <=>
              ask[h].req.status # "CANCELLED" /\ ask[h].neg # "none" /\ ask[h].req.ordered
BY DEF Shown, Completed

LEMMA Tracked == Spec => [](\A h \in Handler : TracksFor(h))
<1> DEFINE Inv == \A h \in Handler : TracksFor(h)
<1>1. Init => Inv
  BY IdleFacts DEF Init, TracksFor, Pages
<1>2. IInv /\ Inv /\ [Next]_vars => Inv'
  BY TracksStep
<1> QED
  BY <1>1, <1>2, TablesTell, PTL DEF Spec

(* _synthesize_graph_nodes, which mixes a row of requisitions with a row of
   negotiations read later, shows one pipeline, reset or not.              *)
THEOREM Ordered == Spec => []TrackerOrdered
<1>1. (\A h \in Handler : TracksFor(h)) => TrackerOrdered
  <2> SUFFICES ASSUME NEW h \in Handler, TracksFor(h), Answered(h, {"track", "list", "inbox"})
               PROVE  /\ Shown(h, "award") => Shown(h, "approval")
                      /\ Shown(h, "negotiation") =>
                           Shown(h, "approval") \/ ask[h].req.status = Pending
    BY DEF TrackerOrdered
  <2>1. PageRead(h) /\ ask[h].at = "answered"
    BY DEF TracksFor, Answered, Pages
  <2> QED
    BY <2>1, ShownMeans, NoRowFacts DEF PageRead
<1> QED
  BY <1>1, Tracked, PTL

(* get_pr and list_prs: until the reset all that is shown has happened, and
   what had happened when the page asked is shown.                         *)
THEOREM ShownIsTrue == Spec => []TrackerTrue
<1>1. (\A h \in Handler : TracksFor(h)) => TrackerTrue
  <2> SUFFICES ASSUME NEW h \in Handler, TracksFor(h), Running, Answered(h, {"track", "list"}), Listed(h)
               PROVE  /\ Shown(h, "negotiation") => "awarded" \in FactsNow
                      /\ Shown(h, "approval") => "approved" \in FactsNow
                      /\ Shown(h, "award") => "ordered" \in FactsNow
                      /\ ask[h].req.status # "CANCELLED" =>
                           /\ Has(h, "awarded") => Shown(h, "negotiation")
                           /\ Has(h, "approved") => Shown(h, "approval") \/ ask[h].req.status = Pending
                           /\ Has(h, "ordered") => Shown(h, "award")
                      /\ ask[h].req.status = Pending => ask[h].why
    BY DEF TrackerTrue, Has
  <2>1. /\ PageRead(h) /\ PageTrue(h) /\ ask[h].at = "answered" /\ ask[h].req.row = "full"
        /\ ReadBoth(h) /\ ReadOne(h)
    BY DEF TracksFor, Answered, Pages, Listed, ReadBoth, ReadOne
  <2>2. /\ Shown(h, "negotiation") => "awarded" \in FactsNow
        /\ Shown(h, "approval") => "approved" \in FactsNow
        /\ Shown(h, "award") => "ordered" \in FactsNow
    BY <2>1, ShownMeans, FactsAre DEF PageRead, PageTrue
  <2>3. ask[h].req.status # "CANCELLED" =>
          /\ Has(h, "awarded") => Shown(h, "negotiation")
          /\ Has(h, "approved") => Shown(h, "approval") \/ ask[h].req.status = Pending
          /\ Has(h, "ordered") => Shown(h, "award")
    BY <2>1, ShownMeans DEF PageTrue
  <2>4. ask[h].req.status = Pending => ask[h].why
    BY <2>1 DEF PageTrue
  <2> QED
    BY <2>2, <2>3, <2>4
<1> QED
  BY <1>1, Tracked, PTL

(***************************************************************************)
(* Types                                                                   *)
(***************************************************************************)
Typed(r) ==
  /\ r.op \in Op \cup {"none"} /\ r.at \in Call
  /\ r.about \in Supplier \cup Order \cup {"none"}
  /\ r.code \in {0, 200, 404, 409, 500}
  /\ r.req \in ReqRow /\ r.neg \in NegRow
  /\ r.bids \subseteq Supplier \cup {Stranger} /\ r.awards \subseteq Supplier \cup {Stranger}
  /\ r.invited \subseteq Supplier /\ r.told \subseteq Supplier /\ r.cut \in BOOLEAN

LEMMA ContinueTyped ==
  ASSUME Shaped, NEW h \in Handler, NEW r, DOMAIN r = DOMAIN Idle, Typed(r),
         NEW at \in Call, Continue(h, r, at)
  PROVE  Alone(h) /\ Typed(ask'[h])
BY ContinueEffect DEF Typed, Says

LEMMA AnswerTyped ==
  ASSUME Shaped, NEW h \in Handler, NEW r, DOMAIN r = DOMAIN Idle, Typed(r),
         NEW code \in {200, 404, 409, 500}, Answer(h, r, code)
  PROVE  Alone(h) /\ Typed(ask'[h])
<1>1. Alone(h) /\ Says(h, r) /\ ask'[h].at = "answered" /\ ask'[h].code = code
  BY AnswerEffect
<1>2. "answered" \in Call
  BY DEF Call
<1> QED
  BY <1>1, <1>2 DEF Typed, Says

LEMMA GotTyped ==
  ASSUME Shaped, NEW h \in Handler, NEW r, DOMAIN r = DOMAIN Idle, Typed(r), GotRequisition(h, r)
  PROVE  Alone(h) /\ Typed(ask'[h])
<1> DEFINE checked == [r EXCEPT !.req = NoRow, !.neg = "none", !.why = FALSE]
<1>1. /\ DOMAIN checked = DOMAIN Idle
      /\ checked.op = r.op /\ checked.at = r.at /\ checked.about = r.about /\ checked.code = r.code
      /\ checked.req = NoRow /\ checked.neg = "none" /\ checked.bids = r.bids
      /\ checked.awards = r.awards /\ checked.invited = r.invited /\ checked.told = r.told
      /\ checked.cut = r.cut
  BY DEF Idle
<1>2. \/ Continue(h, checked, "catalogue") \/ Continue(h, checked, "set status")
      \/ Answer(h, checked, 409) \/ Answer(h, r, 200)
  BY DEF GotRequisition
<1> HIDE DEF checked
<1>3. Typed(checked)
  BY <1>1, OrderFacts DEF Typed, NegRow
<1>4. "catalogue" \in Call /\ "set status" \in Call
  BY DEF Call
<1>5. CASE Continue(h, checked, "catalogue")
  BY <1>1, <1>3, <1>4, <1>5, ContinueTyped
<1>6. CASE Continue(h, checked, "set status")
  BY <1>1, <1>3, <1>4, <1>6, ContinueTyped
<1>7. CASE Answer(h, checked, 409)
  BY <1>1, <1>3, <1>7, AnswerTyped
<1>8. CASE Answer(h, r, 200)
  BY <1>8, AnswerTyped
<1> QED
  BY <1>2, <1>5, <1>6, <1>7, <1>8

AllTyped == \A h \in Handler : Typed(ask[h])

LEMMA TypedStep ==
  ASSUME IInv, [Next]_vars, AllTyped, NEW h \in Handler, Request(h)
  PROVE  Typed(ask'[h])
<1>0. /\ Typed(ask[h]) /\ Shaped /\ DOMAIN ask[h] = DOMAIN Idle /\ TableType
  BY DEF AllTyped, IInv, Shaped
<1>c. /\ {"idle", "requisition", "negotiations", "context", "bids", "awards", "communications",
          "supplier bids", "negotiation", "set status", "orders", "order", "update",
          "catalogue", "answered"} \subseteq Call
  BY DEF Call
<1>a. /\ Answer(h, ask[h], 200) => Typed(ask'[h])
      /\ Answer(h, ask[h], 404) => Typed(ask'[h])
      /\ Answer(h, ask[h], 500) => Typed(ask'[h])
  BY <1>0, AnswerTyped
<1>1. CASE Ask(h)
  <2>1. PICK op \in Op : \E x \in About(op) :
          /\ ask'[h].op = op /\ ask'[h].about = x /\ ask'[h].at = FirstCall(op) /\ ask'[h].code = 0
          /\ ask'[h].req = NoRow /\ ask'[h].neg = "none" /\ ask'[h].bids = {} /\ ask'[h].awards = {}
          /\ ask'[h].invited = {} /\ ask'[h].told = {} /\ ask'[h].cut = FALSE
    BY <1>1, AskEffect
  <2>2. PICK x \in About(op) : ask'[h].about = x
    BY <2>1
  <2>3. FirstCall(op) \in Call
    <3>1. FirstCall(op) \in {"requisition", "negotiations", "communications", "orders", "order", "update"}
      BY OpensRight, <2>2 DEF Opens
    <3> QED
      BY <1>c, <3>1
  <2>4. x \in Supplier \cup Order \cup {"none"}
    BY <1>0 DEF About, TableType
  <2> QED
    BY <2>1, <2>2, <2>3, <2>4, OrderFacts DEF Typed, NegRow
<1>2. CASE Forget(h)
  <2>1. Typed(Idle)
    BY <1>c, OrderFacts DEF Typed, Idle, NegRow
  <2> QED
    BY <1>2, <2>1, ForgetEffect
<1>3. CASE ReadRequisition(h)
  <2> DEFINE r == [ask[h] EXCEPT !.req = req]
  <2>1. Typed(r) /\ DOMAIN r = DOMAIN Idle
    BY <1>0 DEF Typed, TableType, Idle
  <2>2. \/ Answer(h, ask[h], 200) \/ Answer(h, ask[h], 404) \/ Answer(h, ask[h], 500)
        \/ GotRequisition(h, r) \/ Continue(h, r, "negotiations")
    BY <1>3 DEF ReadRequisition, NotListed
  <2> HIDE DEF r
  <2>3. CASE Answer(h, ask[h], 200) \/ Answer(h, ask[h], 404) \/ Answer(h, ask[h], 500)
    BY <1>0, <1>a, <2>3
  <2>4. CASE GotRequisition(h, r)
    BY <1>0, <2>1, <2>4, GotTyped
  <2>5. CASE Continue(h, r, "negotiations")
    BY <1>0, <1>c, <2>1, <2>5, ContinueTyped
  <2> QED
    BY <2>2, <2>3, <2>4, <2>5
<1>4. CASE ReadNegotiations(h)
  <2> DEFINE r == [ask[h] EXCEPT !.neg = neg]
  <2>1. Typed(r) /\ DOMAIN r = DOMAIN Idle
    BY <1>0 DEF Typed, TableType, Idle
  <2> DEFINE missed == [r EXCEPT !.cut = neg # "none"]
  <2>0. Typed(missed) /\ DOMAIN missed = DOMAIN Idle
    BY <1>0 DEF Typed, TableType, Idle
  <2>2. \/ Answer(h, r, 200) \/ Answer(h, r, 500) \/ Continue(h, ask[h], "bids")
        \/ Answer(h, missed, 200) \/ Continue(h, r, "context") \/ GotRequisition(h, r)
    BY <1>4 DEF ReadNegotiations
  <2> HIDE DEF r, missed
  <2>7. CASE Answer(h, missed, 200)
    BY <1>0, <2>0, <2>7, AnswerTyped
  <2>3. CASE Answer(h, r, 200) \/ Answer(h, r, 500)
    BY <1>0, <2>1, <2>3, AnswerTyped
  <2>4. CASE GotRequisition(h, r)
    BY <1>0, <2>1, <2>4, GotTyped
  <2>5. CASE Continue(h, r, "context")
    BY <1>0, <1>c, <2>1, <2>5, ContinueTyped
  <2>6. CASE Continue(h, ask[h], "bids")
    BY <1>0, <1>c, <2>6, ContinueTyped
  <2> QED
    BY <2>2, <2>3, <2>4, <2>5, <2>6, <2>7
<1>5. CASE ReadContext(h)
  <2> DEFINE r == [ask[h] EXCEPT !.why = neg # "none"]
  <2>1. Typed(r) /\ DOMAIN r = DOMAIN Idle
    BY <1>0 DEF Typed, Idle
  <2>2. GotRequisition(h, r)
    BY <1>5 DEF ReadContext
  <2> HIDE DEF r
  <2> QED
    BY <1>0, <2>1, <2>2, GotTyped
<1>6. CASE ReadBids(h)
  <2>0. PICK page \in SUBSET (bids \cup {Stranger}) :
          LET got == page \cap Supplier
              r == [ask[h] EXCEPT !.bids = got, !.cut = ~(bids \subseteq page)]
          IN Answer(h, r, 200) \/ Continue(h, r, "awards")
    BY <1>6 DEF ReadBids
  <2> DEFINE r == [ask[h] EXCEPT !.bids = page \cap Supplier, !.cut = ~(bids \subseteq page)]
  <2>1. Typed(r) /\ DOMAIN r = DOMAIN Idle
    BY <1>0 DEF Typed, TableType, Idle
  <2>2. Answer(h, r, 200) \/ Continue(h, r, "awards")
    BY <2>0
  <2> HIDE DEF r
  <2>3. CASE Answer(h, r, 200)
    BY <1>0, <2>1, <2>3, AnswerTyped
  <2>4. CASE Continue(h, r, "awards")
    BY <1>0, <1>c, <2>1, <2>4, ContinueTyped
  <2> QED
    BY <2>2, <2>3, <2>4
<1>7. CASE ReadAwards(h)
  <2>0. PICK page \in SUBSET ({award, Stranger} \ {"none"}) :
          Answer(h, [ask[h] EXCEPT !.awards = page \cap ask[h].bids,
                                   !.cut = ask[h].cut \/ award \notin page \cup {"none"}], 200)
    BY <1>7 DEF ReadAwards
  <2> DEFINE r == [ask[h] EXCEPT !.awards = page \cap ask[h].bids,
                                 !.cut = ask[h].cut \/ award \notin page \cup {"none"}]
  <2>1. Typed(r) /\ DOMAIN r = DOMAIN Idle
    BY <1>0 DEF Typed, TableType, Idle
  <2>2. Answer(h, r, 200)
    BY <2>0
  <2> HIDE DEF r
  <2> QED
    BY <1>0, <2>1, <2>2, AnswerTyped
<1>8. CASE ReadCommunications(h)
  <2> DEFINE I == invited \cap {ask[h].about}
             T == told \cap {ask[h].about}
  <2>0. PICK i \in SUBSET I, t \in SUBSET T :
          Continue(h, [ask[h] EXCEPT !.invited = i, !.told = t, !.cut = <<i, t>> # <<I, T>>], "supplier bids")
    BY <1>8 DEF ReadCommunications
  <2> DEFINE r == [ask[h] EXCEPT !.invited = i, !.told = t, !.cut = <<i, t>> # <<I, T>>]
  <2>1. Typed(r) /\ DOMAIN r = DOMAIN Idle
    BY <1>0 DEF Typed, TableType, Idle
  <2>2. Continue(h, r, "supplier bids")
    BY <2>0
  <2> HIDE DEF r
  <2> QED
    BY <1>0, <1>c, <2>1, <2>2, ContinueTyped
<1>9. CASE ReadSupplierBids(h)
  <2> DEFINE B == bids \cap {ask[h].about}
  <2>0. PICK b \in SUBSET B :
          LET r == [ask[h] EXCEPT !.bids = b, !.cut = ask[h].cut \/ b # B] IN
            Answer(h, r, 200) \/ Continue(h, r, "negotiation")
    BY <1>9 DEF ReadSupplierBids
  <2> DEFINE r == [ask[h] EXCEPT !.bids = b, !.cut = ask[h].cut \/ b # B]
  <2>1. Typed(r) /\ DOMAIN r = DOMAIN Idle
    BY <1>0 DEF Typed, TableType, Idle
  <2>2. Answer(h, r, 200) \/ Continue(h, r, "negotiation")
    BY <2>0
  <2> HIDE DEF r
  <2>3. CASE Answer(h, r, 200)
    BY <1>0, <2>1, <2>3, AnswerTyped
  <2>4. CASE Continue(h, r, "negotiation")
    BY <1>0, <1>c, <2>1, <2>4, ContinueTyped
  <2> QED
    BY <2>2, <2>3, <2>4
<1>10. CASE ReadNegotiation(h)
  <2> DEFINE r == [ask[h] EXCEPT !.neg = neg]
  <2>1. Typed(r) /\ DOMAIN r = DOMAIN Idle
    BY <1>0 DEF Typed, TableType, Idle
  <2>2. Answer(h, r, 200)
    BY <1>10 DEF ReadNegotiation
  <2> HIDE DEF r
  <2> QED
    BY <1>0, <2>1, <2>2, AnswerTyped
<1>11. CASE SetStatus(h) \/ UpdateOrder(h)
  <2>1. Answer(h, ask[h], 200) \/ Continue(h, ask[h], "order")
    BY <1>11 DEF SetStatus, UpdateOrder
  <2>2. CASE Answer(h, ask[h], 200)
    BY <1>a, <2>2
  <2>3. CASE Continue(h, ask[h], "order")
    BY <1>0, <1>c, <2>3, ContinueTyped
  <2> QED
    BY <2>1, <2>2, <2>3
<1>12. CASE ReadOrders(h) \/ ReadOrder(h)
  <2>1. \/ Answer(h, ask[h], 200) \/ Answer(h, ask[h], 404) \/ Answer(h, ask[h], 500)
        \/ Continue(h, ask[h], "requisition")
    BY <1>12 DEF ReadOrders, ReadOrder
  <2>2. CASE Continue(h, ask[h], "requisition")
    BY <1>0, <1>c, <2>2, ContinueTyped
  <2> QED
    BY <1>a, <2>1, <2>2
<1>13. CASE ReadCatalogue(h)
  <2>1. PICK cat \in Catalogues : Answer(h, [ask[h] EXCEPT !.report = Report(cat, Lines)], 200)
    BY <1>13 DEF ReadCatalogue
  <2> DEFINE report == Report(cat, Lines)
             r == [ask[h] EXCEPT !.report = report]
  <2> HIDE DEF report
  <2>2. Typed(r) /\ DOMAIN r = DOMAIN Idle
    BY <1>0 DEF Typed, Idle
  <2>3. Answer(h, r, 200)
    BY <2>1 DEF report
  <2> HIDE DEF r
  <2> QED
    BY <1>0, <2>2, <2>3, AnswerTyped
<1> QED
  BY <1>1, <1>2, <1>3, <1>4, <1>5, <1>6, <1>7, <1>8, <1>9, <1>10, <1>11, <1>12, <1>13 DEF Request

(* The rows and the requests are what the code can read and answer. *)
THEOREM TypeCorrect == Spec => []TypeOK
<1>1. Init => AllTyped
  <2>1. Typed(Idle)
    BY OrderFacts DEF Typed, Idle, NegRow, Call
  <2> QED
    BY <2>1 DEF Init, AllTyped
<1>2. IInv /\ AllTyped /\ [Next]_vars => AllTyped'
  <2> SUFFICES ASSUME IInv, AllTyped, [Next]_vars, NEW h \in Handler PROVE Typed(ask'[h])
    BY DEF AllTyped, Typed
  <2> QED
    BY TypedStep, Moves DEF AllTyped
<1>3. IInv /\ AllTyped => TypeOK
  BY DEF IInv, TableType, Shaped, AllTyped, Typed, TypeOK
<1> QED
  BY <1>1, <1>2, <1>3, TablesTell, PTL DEF Spec
===============================================================================

--------------------------- MODULE OfferProjection ---------------------------
(***************************************************************************)
(* The observer's projection of ONE negotiation (offer_projection.py).     *)
(*                                                                         *)
(* Pollers run poll_once: the background poll_loop, and the GET and SSE     *)
(* handlers, all of them coroutines of one event loop.  A coroutine gives   *)
(* the loop up only at an await, and every await of poll_once that really  *)
(* suspends is a DynamoDB call made in a worker thread: the code between    *)
(* two of them is one action here.  DynamoDB is read table by table, so    *)
(* what a poller holds in loc[p] may be older than the tables and older     *)
(* than what another poller has already announced.                         *)
(*                                                                         *)
(* The tables are written by the orchestrator, which is not in the         *)
(* repository: its actions say no more than what poll_once must expect.     *)
(***************************************************************************)
EXTENDS Naturals, FiniteSets

CONSTANTS
  Poller,      \* callers of poll_once
  Loop,        \* the one that is poll_loop, and polls for ever
  Comm,        \* BID_INVITATION communications
  Feedback,    \* AUCTION_ROUND_FEEDBACK communications
  Supplier,    \* a bid row is named by its supplier
  Price,       \* (amount, evaluation_rank) fingerprints of a priced bid
  NoBid, Unpriced,
  Award,
  RealOrder,   \* order ids the orchestrator delivers
  SynOrder,    \* uuid4 values for the harness's own orders
  NoOrder,
  Status,      \* normalised negotiation statuses
  Absent,      \* no negotiation row, or no quadrant in it
  Approved,    \* the status "APPROVED"
  Moves,       \* the orchestrator's status changes
  Quadrant,    \* (quadrant, strategy) of a classified negotiation
  Bypass,      \* does the strategy price bids without inviting suppliers?
  MaxMoves,    \* bound: status changes in a behaviour
  MaxFaults,   \* bound: DynamoDB calls that fail or time out
  PutMayFail,  \* may the put of a synthetic order be one of them?
  MaxRestarts, \* bound: restarts of the harness process
  AllowReset   \* may reset_demo.py clear the tables meanwhile?

ASSUME ConstantAssumption ==
  /\ Loop \in Poller
  /\ NoBid \notin Price /\ Unpriced \notin Price /\ NoBid # Unpriced
  /\ NoOrder \notin SynOrder
  /\ RealOrder \cap SynOrder = {}
  /\ Absent \notin Status \cup Quadrant /\ Approved \in Status
  /\ Moves \subseteq (Status \cup {Absent}) \X Status
  /\ {MaxMoves, MaxFaults, MaxRestarts} \subseteq Nat
  /\ {Bypass, PutMayFail, AllowReset} \subseteq BOOLEAN

VARIABLES
  \* DynamoDB
  neg,         \* the negotiation row: status and quadrant
  invites, feedback, bids, awards,
  orders,      \* ids of the order rows, real and synthetic
  cleared,     \* how many tables reset_demo.py has emptied
  \* memory of the harness process
  st,          \* _state[negotiation_id]
  published,   \* the _published_* sets, as events
  pubStatus,   \* _published_statuses[negotiation_id]
  synIds,      \* _synthetic_order_ids
  synNeg,      \* negotiation_id \in _synthetic_neg_ids
  watched,     \* negotiation_id \in _subscribers
  pc, loc,     \* where each poller is, and its local variables
  landing,     \* calls of abandoned threads that may still reach DynamoDB
  \* bounds and observations
  moves, faults, restarts,
  usedSyn,     \* uuids already drawn
  sent, resent,\* events announced since boot: at all, and more than once
  entered, reentered  \* statuses the row has had: at all, and again

db    == <<neg, invites, feedback, bids, awards, orders, cleared>>
hist  == <<moves, entered, reentered>>
proc  == <<st, published, pubStatus, synIds, synNeg, watched>>
seen  == <<sent, resent>>
meter == <<faults, restarts, usedSyn, landing>>
vars  == <<db, hist, proc, seen, meter, pc, loc>>

(***************************************************************************)
(* Shapes                                                                  *)
(***************************************************************************)
BidValue == Price \cup {NoBid, Unpriced}
Order    == RealOrder \cup SynOrder
AnyStatus == Status \cup {Absent}

(* An event of the SSE stream: its kind and the id its guard is keyed by. *)
GuardedEvent ==
  ({"rfq"} \X Comm) \cup ({"feedback"} \X Feedback) \cup ({"class"} \X {Absent})
    \cup ({"offer"} \X Supplier) \cup ({"award"} \X Award) \cup ({"po"} \X Order)
Event == GuardedEvent \cup ({"auto"} \X Supplier) \cup ({"status"} \X Status)

Projection ==
  [tracked: BOOLEAN, status: AnyStatus, quadrant: Quadrant \cup {Absent},
   invites: SUBSET Comm, auto: SUBSET Supplier, feedback: SUBSET Feedback,
   bids: [Supplier -> BidValue], awards: SUBSET Award, orders: SUBSET Order]

NoBids == [s \in Supplier |-> NoBid]

Untracked ==
  [tracked |-> FALSE, status |-> Absent, quadrant |-> Absent, invites |-> {},
   auto |-> {}, feedback |-> {}, bids |-> NoBids, awards |-> {}, orders |-> {}]

(* Locals of poll_once: what it has read (cur), what it compares with (prev)
   and the orders it has still to delete or the one it is putting.         *)
Locals == [cur: Projection, prev: Projection, doomed: SUBSET SynOrder,
           order: SynOrder \cup {NoOrder}]

NoLocals == [cur |-> Untracked, prev |-> Untracked, doomed |-> {}, order |-> NoOrder]

Point == {"idle", "bids", "comms", "feedback", "resume", "awards", "orders",
          "split", "delete", "deleted", "put", "finish"}

TypeOK ==
  /\ neg \in [status: AnyStatus, quadrant: Quadrant \cup {Absent}]
  /\ invites \subseteq Comm /\ feedback \subseteq Feedback
  /\ bids \in [Supplier -> BidValue]
  /\ awards \subseteq Award /\ orders \subseteq Order
  /\ cleared \in 0..5
  /\ st \in Projection
  /\ published \subseteq GuardedEvent
  /\ pubStatus \in AnyStatus
  /\ synIds \subseteq SynOrder /\ synNeg \in BOOLEAN /\ watched \in BOOLEAN
  /\ pc \in [Poller -> Point] /\ loc \in [Poller -> Locals]
  /\ landing \subseteq {"put", "delete"} \X SynOrder
  /\ moves \in Nat /\ faults \in Nat /\ restarts \in Nat
  /\ usedSyn \subseteq SynOrder
  /\ sent \subseteq Event /\ resent \subseteq sent
  /\ entered \subseteq Status /\ reentered \subseteq entered

Init ==
  /\ neg = [status |-> Absent, quadrant |-> Absent]
  /\ invites = {} /\ feedback = {} /\ bids = NoBids /\ awards = {} /\ orders = {}
  /\ cleared = 0
  /\ st = Untracked /\ published = {} /\ pubStatus = Absent
  /\ synIds = {} /\ synNeg = FALSE /\ watched = FALSE
  /\ pc = [p \in Poller |-> "idle"] /\ loc = [p \in Poller |-> NoLocals]
  /\ landing = {} /\ moves = 0 /\ faults = 0 /\ restarts = 0
  /\ usedSyn = {} /\ sent = {} /\ resent = {} /\ entered = {} /\ reentered = {}

(***************************************************************************)
(* The orchestrator (external).  A bid of an agent-run round follows an     *)
(* invitation; a strategy that bypasses the agents prices bids directly     *)
(* and invites nobody.                                                     *)
(***************************************************************************)
Running == cleared = 0

OrchStatus(s) ==
  /\ Running /\ moves < MaxMoves
  /\ <<neg.status, s>> \in Moves
  /\ neg' = [neg EXCEPT !.status = s]
  /\ moves' = moves + 1
  /\ entered' = entered \cup {s}
  /\ reentered' = reentered \cup (entered \cap {s})
  /\ UNCHANGED <<invites, feedback, bids, awards, orders, cleared,
                 proc, seen, meter, pc, loc>>

OrchClassify(q) ==
  /\ Running /\ neg.status # Absent /\ neg.quadrant # q
  /\ neg' = [neg EXCEPT !.quadrant = q]
  /\ UNCHANGED <<invites, feedback, bids, awards, orders, cleared,
                 hist, proc, seen, meter, pc, loc>>

OrchInvite(c) ==
  /\ Running /\ neg.status # Absent /\ ~Bypass /\ c \notin invites
  /\ invites' = invites \cup {c}
  /\ UNCHANGED <<neg, feedback, bids, awards, orders, cleared,
                 hist, proc, seen, meter, pc, loc>>

OrchFeedback(f) ==
  /\ Running /\ neg.status # Absent /\ f \notin feedback
  /\ feedback' = feedback \cup {f}
  /\ UNCHANGED <<neg, invites, bids, awards, orders, cleared,
                 hist, proc, seen, meter, pc, loc>>

OrchBid(s, v) ==
  /\ Running /\ neg.status # Absent
  /\ Bypass \/ invites # {}
  /\ bids[s] # v /\ (v = Unpriced => bids[s] = NoBid)
  /\ bids' = [bids EXCEPT ![s] = v]
  /\ UNCHANGED <<neg, invites, feedback, awards, orders, cleared,
                 hist, proc, seen, meter, pc, loc>>

OrchAward(a) ==
  /\ Running /\ neg.status # Absent /\ a \notin awards /\ bids # NoBids
  /\ awards' = awards \cup {a}
  /\ UNCHANGED <<neg, invites, feedback, bids, orders, cleared,
                 hist, proc, seen, meter, pc, loc>>

OrchOrder(o) ==
  /\ Running /\ neg.status = Approved /\ awards # {} /\ o \notin orders
  /\ orders' = orders \cup {o}
  /\ UNCHANGED <<neg, invites, feedback, bids, awards, cleared,
                 hist, proc, seen, meter, pc, loc>>

(* reset_demo.reset, seen from this negotiation: it empties negotiations,
   bids, awards, test-tenant-orders and communications, in that order.     *)
ResetStep ==
  /\ AllowReset /\ cleared < 5
  /\ cleared' = cleared + 1
  /\ neg' = IF cleared = 0 THEN [status |-> Absent, quadrant |-> Absent] ELSE neg
  /\ bids' = IF cleared = 1 THEN NoBids ELSE bids
  /\ awards' = IF cleared = 2 THEN {} ELSE awards
  /\ orders' = IF cleared = 3 THEN {} ELSE orders
  /\ invites' = IF cleared = 4 THEN {} ELSE invites
  /\ feedback' = IF cleared = 4 THEN {} ELSE feedback
  /\ UNCHANGED <<hist, proc, seen, meter, pc, loc>>

(***************************************************************************)
(* poll_once.  Its tables are read one after the other by a worker thread   *)
(* (_fetch_dynamo_data); the coroutine resumes later.                      *)
(***************************************************************************)
Set(p, point, locals) ==
  /\ pc' = [pc EXCEPT ![p] = point]
  /\ loc' = [loc EXCEPT ![p] = locals]

Announce(E) ==
  /\ sent' = sent \cup E
  /\ resent' = resent \cup (E \cap sent)

(* The SSE handler registers its queue; unsubscribe empties the list but
   leaves the key in _subscribers for good.                                *)
Subscribe ==
  /\ ~watched /\ watched' = TRUE
  /\ UNCHANGED <<db, hist, st, published, pubStatus, synIds, synNeg, seen, meter, pc, loc>>

(* poll_loop polls a negotiation it tracks or that somebody has subscribed
   to; a handler polls whenever it is called.                              *)
ReadNegotiation(p) ==
  /\ pc[p] = "idle"
  /\ p = Loop => st.tracked \/ watched
  /\ Set(p, "bids", [NoLocals EXCEPT !.cur.status = neg.status,
                                     !.cur.quadrant = neg.quadrant])
  /\ UNCHANGED <<db, hist, proc, seen, meter>>

ReadBids(p) ==
  /\ pc[p] = "bids"
  /\ Set(p, "comms", [loc[p] EXCEPT !.cur.bids = bids])
  /\ UNCHANGED <<db, hist, proc, seen, meter>>

ReadInvitations(p) ==
  /\ pc[p] = "comms"
  /\ Set(p, "feedback", [loc[p] EXCEPT !.cur.invites = invites])
  /\ UNCHANGED <<db, hist, proc, seen, meter>>

(* Faulty variant: bids are read last. *)
ReadFeedbackThenBids(p) ==
  /\ pc[p] = "feedback"
  /\ Set(p, "resume", [loc[p] EXCEPT !.cur.feedback = feedback, !.cur.bids = bids])
  /\ UNCHANGED <<db, hist, proc, seen, meter>>

ReadFeedback(p) ==
  /\ pc[p] = "feedback"
  /\ Set(p, "resume", [loc[p] EXCEPT !.cur.feedback = feedback])
  /\ UNCHANGED <<db, hist, proc, seen, meter>>

(* Any of the four reads may fail or overrun the 5 s: poll_once gives up.   *)
FetchFault(p) ==
  /\ pc[p] \in {"bids", "comms", "feedback", "resume"}
  /\ faults < MaxFaults /\ faults' = faults + 1
  /\ Set(p, "idle", NoLocals)
  /\ UNCHANGED <<db, hist, proc, seen, restarts, usedSyn, landing>>

(* The coroutine resumes: nothing to do for an unknown negotiation; without
   a row there is no requisition, hence no awards and no orders to read.    *)
Resume(p) ==
  /\ pc[p] = "resume"
  /\ CASE loc[p].cur.status = Absent /\ ~st.tracked -> Set(p, "idle", NoLocals)
       [] loc[p].cur.status = Absent /\ st.tracked ->
            Set(p, "split", [loc[p] EXCEPT !.prev = st])
       [] OTHER -> Set(p, "awards", [loc[p] EXCEPT !.prev = st])
  /\ UNCHANGED <<db, hist, proc, seen, meter>>

(* get_awards reaches an award through the negotiation and its winning bid. *)
VisibleAwards == IF neg.status = Absent \/ bids = NoBids THEN {} ELSE awards

ReadAwards(p) ==
  /\ pc[p] = "awards"
  /\ Set(p, "orders", [loc[p] EXCEPT !.cur.awards = VisibleAwards])
  /\ UNCHANGED <<db, hist, proc, seen, meter>>

ReadOrders(p) ==
  /\ pc[p] = "orders"
  /\ Set(p, "split", [loc[p] EXCEPT !.cur.orders = orders])
  /\ UNCHANGED <<db, hist, proc, seen, meter>>

(* A failed or late read of awards or of orders counts as an empty one.     *)
ReadFault(p) ==
  /\ pc[p] \in {"awards", "orders"}
  /\ faults < MaxFaults /\ faults' = faults + 1
  /\ Set(p, IF pc[p] = "awards" THEN "orders" ELSE "split", loc[p])
  /\ UNCHANGED <<db, hist, proc, seen, restarts, usedSyn, landing>>

(* Faulty variant: an offer is new only when the bid row is. *)
NewBidRows(cur, prev) ==
  {s \in Supplier : cur.bids[s] \in Price /\ prev.bids[s] = NoBid}

(* What the poll has to announce, kind by kind: what it read and the
   projection it started from did not have.                                *)
ChangedBids(cur, prev) ==
  {s \in Supplier : cur.bids[s] \in Price /\ cur.bids[s] # prev.bids[s]}

Reclassified(cur, prev) == cur.quadrant \notin {Absent, prev.quadrant}

NewEvents(cur, prev) ==
  ({"rfq"} \X (cur.invites \ prev.invites))
    \cup ({"feedback"} \X (cur.feedback \ prev.feedback))
    \cup (IF Reclassified(cur, prev) THEN {<<"class", Absent>>} ELSE {})
    \cup ({"offer"} \X ChangedBids(cur, prev))
    \cup ({"award"} \X (cur.awards \ prev.awards))

NewOrders(cur, prev) == {"po"} \X (cur.orders \ prev.orders)

(* Invitations derived from bids when nobody was invited: saved with the
   others, announced unless the previous projection had them, unguarded.    *)
AutoInvited(cur) ==
  IF cur.invites = {} THEN {s \in Supplier : cur.bids[s] # NoBid} ELSE {}

(* Faulty variant: the derived invitations are not saved. *)
CompleteWithoutAuto(cur) == [cur EXCEPT !.tracked = TRUE]

(* Faulty variant: orders once seen are kept. *)
CompleteMerged(cur) ==
  [cur EXCEPT !.tracked = TRUE, !.auto = AutoInvited(cur), !.orders = @ \cup st.orders]

Complete(cur) == [cur EXCEPT !.tracked = TRUE, !.auto = AutoInvited(cur)]

(* Faulty variant: the status is announced at every poll. *)
StatusEventEachPoll(cur) ==
  IF cur.status # Absent THEN {<<"status", cur.status>>} ELSE {}

StatusEvent(cur) ==
  IF cur.status \notin {Absent, pubStatus} THEN {<<"status", cur.status>>} ELSE {}

(* Faulty variant: _synthetic_neg_ids is not consulted. *)
NeedsSyntheticUnmarked(cur) ==
  cur.status = Approved /\ cur.awards # {} /\ cur.orders = {}

(* Faulty variant: only the poll that sees the change to APPROVED acts. *)
NeedsSyntheticOnChange(cur) ==
  /\ cur.status = Approved /\ cur.awards # {} /\ ~synNeg /\ cur.orders = {}
  /\ cur.status # pubStatus

NeedsSynthetic(cur) ==
  cur.status = Approved /\ cur.awards # {} /\ ~synNeg /\ cur.orders = {}

(* Faulty variant: no guard. *)
AllOf(events) == events

(* The guard sets: only what has not been published yet. *)
FirstTime(events) == events \ published

(* The poll to its end, from the point where its reads are complete.        *)
PublishAll(p, cur) ==
  LET prev == loc[p].prev
      due  == FirstTime(NewEvents(cur, prev) \cup NewOrders(cur, prev))
      auto == {"auto"} \X (AutoInvited(cur) \ prev.auto)
  IN /\ st' = Complete(cur)
     /\ published' = published \cup due
     /\ pubStatus' = IF cur.status = Absent THEN pubStatus ELSE cur.status
     /\ Announce(due \cup auto \cup StatusEvent(cur))
     /\ Set(p, "idle", NoLocals)
     /\ UNCHANGED <<synIds, synNeg, usedSyn>>

(* The same up to the put of a synthetic order, guarded before the await.   *)
PublishThenPut(p, cur) ==
  LET prev == loc[p].prev
      due  == FirstTime(NewEvents(cur, prev))
      auto == {"auto"} \X (AutoInvited(cur) \ prev.auto)
  IN \E o \in SynOrder \ usedSyn :
       /\ st' = Complete(cur)
       /\ published' = published \cup due
       /\ Announce(due \cup auto)
       /\ usedSyn' = usedSyn \cup {o}
       /\ synIds' = synIds \cup {o}
       /\ synNeg' = TRUE
       /\ Set(p, "put", [loc[p] EXCEPT !.cur = Complete(cur), !.order = o])
       /\ UNCHANGED pubStatus

(* All calls that precede the projection have returned. *)
Publish(p, cur) ==
  /\ IF NeedsSynthetic(cur) THEN PublishThenPut(p, cur) ELSE PublishAll(p, cur)
  /\ UNCHANGED <<db, hist, watched, faults, restarts, landing>>

(* Faulty variant: the synthetic orders stay in the list that is shown. *)
SplitShowsAll(p) ==
  LET synthetic == loc[p].cur.orders \cap synIds
  IN /\ pc[p] = "split"
     /\ IF synthetic \notin {{}, loc[p].cur.orders}
        THEN /\ Set(p, "delete", [loc[p] EXCEPT !.doomed = synthetic])
             /\ UNCHANGED <<db, hist, proc, seen, meter>>
        ELSE Publish(p, loc[p].cur)

(* Faulty variant: synthetic orders are looked for when a real one arrives. *)
SplitOnArrival(p) ==
  LET cur == loc[p].cur
      real == cur.orders \ synIds
      synthetic == cur.orders \cap synIds
  IN /\ pc[p] = "split"
     /\ IF synthetic # {} /\ real \ loc[p].prev.orders # {}
        THEN /\ Set(p, "delete", [loc[p] EXCEPT !.cur.orders = real, !.doomed = synthetic])
             /\ UNCHANGED <<db, hist, proc, seen, meter>>
        ELSE Publish(p, cur)

(* Real and synthetic orders at once: delete the synthetic ones first and
   show only the real ones.                                                *)
Split(p) ==
  LET cur == loc[p].cur
      real == cur.orders \ synIds
      synthetic == cur.orders \cap synIds
  IN /\ pc[p] = "split"
     /\ IF real # {} /\ synthetic # {}
        THEN /\ Set(p, "delete", [loc[p] EXCEPT !.cur.orders = real, !.doomed = synthetic])
             /\ UNCHANGED <<db, hist, proc, seen, meter>>
        ELSE Publish(p, cur)

(* One delete_item at a time; the id is forgotten only once it returned. *)
Delete(p) ==
  /\ pc[p] = "delete"
  /\ \E o \in loc[p].doomed :
       /\ orders' = orders \ {o}
       /\ Set(p, "deleted", [loc[p] EXCEPT !.order = o])
  /\ UNCHANGED <<neg, invites, feedback, bids, awards, cleared,
                 hist, proc, seen, meter>>

(* Faulty variant: the id is forgotten although the delete failed. *)
DeleteFaultForgets(p) ==
  /\ pc[p] = "delete"
  /\ faults < MaxFaults /\ faults' = faults + 1
  /\ \E o \in loc[p].doomed :
       /\ synIds' = synIds \ {o}
       /\ Set(p, "delete", [loc[p] EXCEPT !.doomed = @ \ {o}])
  /\ UNCHANGED <<db, hist, st, published, pubStatus, synNeg, watched, seen,
                 restarts, usedSyn, landing>>

(* delete_item fails, or overruns its 5 s and may still happen: passed over. *)
DeleteFault(p) ==
  /\ pc[p] = "delete"
  /\ faults < MaxFaults /\ faults' = faults + 1
  /\ \E o \in loc[p].doomed :
       /\ landing' \in {landing, landing \cup {<<"delete", o>>}}
       /\ Set(p, "delete", [loc[p] EXCEPT !.doomed = @ \ {o}])
  /\ UNCHANGED <<db, hist, proc, seen, restarts, usedSyn>>

Deleted(p) ==
  /\ pc[p] = "deleted"
  /\ synIds' = synIds \ {loc[p].order}
  /\ Set(p, "delete", [loc[p] EXCEPT !.doomed = @ \ {loc[p].order}, !.order = NoOrder])
  /\ UNCHANGED <<db, hist, st, published, pubStatus, synNeg, watched, seen, meter>>

DeletesDone(p) ==
  /\ pc[p] = "delete" /\ loc[p].doomed = {}
  /\ Publish(p, loc[p].cur)

Put(p) ==
  /\ pc[p] = "put"
  /\ orders' = orders \cup {loc[p].order}
  /\ Set(p, "finish", loc[p])
  /\ UNCHANGED <<neg, invites, feedback, bids, awards, cleared,
                 hist, proc, seen, meter>>

(* put_item fails, or overruns its 5 s and may still happen: only logged.   *)
PutFault(p) ==
  /\ pc[p] = "put"
  /\ PutMayFail /\ faults < MaxFaults /\ faults' = faults + 1
  /\ landing' \in {landing, landing \cup {<<"put", loc[p].order>>}}
  /\ Set(p, "finish", loc[p])
  /\ UNCHANGED <<db, hist, proc, seen, restarts, usedSyn>>

(* The rest of the poll after the put: it still has no orders to announce,
   announces the status and saves its own state again.                     *)
Finish(p) ==
  LET cur == loc[p].cur
      due == FirstTime(NewOrders(cur, loc[p].prev))
  IN /\ pc[p] = "finish"
     /\ st' = cur
     /\ published' = published \cup due
     /\ pubStatus' = IF cur.status = Absent THEN pubStatus ELSE cur.status
     /\ Announce(due \cup StatusEvent(cur))
     /\ Set(p, "idle", NoLocals)
     /\ UNCHANGED <<db, hist, synIds, synNeg, watched, meter>>

(* A call whose caller stopped waiting reaches DynamoDB after all. *)
Land(call) ==
  /\ call \in landing
  /\ landing' = landing \ {call}
  /\ orders' = IF call[1] = "put" THEN orders \cup {call[2]} ELSE orders \ {call[2]}
  /\ UNCHANGED <<neg, invites, feedback, bids, awards, cleared, hist, proc,
                 seen, faults, restarts, usedSyn, pc, loc>>

(* The harness process restarts: all of its memory is module state.  A call
   on its way may still arrive.                                            *)
Restart ==
  /\ restarts < MaxRestarts /\ restarts' = restarts + 1
  /\ st' = Untracked /\ published' = {} /\ pubStatus' = Absent
  /\ synIds' = {} /\ synNeg' = FALSE /\ watched' = FALSE
  /\ sent' = {} /\ resent' = {}
  /\ pc' = [p \in Poller |-> "idle"] /\ loc' = [p \in Poller |-> NoLocals]
  /\ landing' = landing \cup {<<"put", loc[p].order>> : p \in {q \in Poller : pc[q] = "put"}}
  /\ UNCHANGED <<db, hist, faults, usedSyn>>

Orchestrator ==
  \/ \E s \in Status : OrchStatus(s)
  \/ \E q \in Quadrant : OrchClassify(q)
  \/ \E c \in Comm : OrchInvite(c)
  \/ \E f \in Feedback : OrchFeedback(f)
  \/ \E s \in Supplier, v \in Price \cup {Unpriced} : OrchBid(s, v)
  \/ \E a \in Award : OrchAward(a)
  \/ \E o \in RealOrder : OrchOrder(o)

(* The steps of a poll under way that succeed. *)
Proceed(p) ==
  \/ ReadBids(p) \/ ReadInvitations(p) \/ ReadFeedback(p) \/ Resume(p)
  \/ ReadAwards(p) \/ ReadOrders(p) \/ Split(p)
  \/ Delete(p) \/ Deleted(p) \/ DeletesDone(p) \/ Put(p) \/ Finish(p)

Fault(p) == FetchFault(p) \/ ReadFault(p) \/ DeleteFault(p) \/ PutFault(p)

Next ==
  \/ Orchestrator \/ ResetStep \/ Restart \/ Subscribe
  \/ \E p \in Poller : ReadNegotiation(p) \/ Proceed(p) \/ Fault(p)
  \/ \E call \in landing : Land(call)

Spec == Init /\ [][Next]_vars

(* poll_loop never stops, and a coroutine that waits for a DynamoDB call
   resumes: wait_for bounds the wait.  Nothing obliges a handler to be
   called, the orchestrator to act or an abandoned call to arrive.         *)
FairSpec ==
  /\ Spec
  /\ WF_vars(ReadNegotiation(Loop))
  /\ \A p \in Poller : WF_vars(Proceed(p))

(***************************************************************************)
(* Properties                                                              *)
(***************************************************************************)

(* README "Idempotent SSE events": of the kinds that have a guard set no event
   is announced twice, however the polls of the event loop overlap and
   however old what they read is.                                          *)
AnnouncedOnce == resent \cap GuardedEvent = {}

(* What a client is shown as a snapshot has been announced on the stream: an
   older projection written over a newer one, or one poll taking over from
   another, loses no event.                                                *)
AnnouncedIn(proj) ==
  /\ {"rfq"} \X proj.invites \subseteq sent
  /\ {"feedback"} \X proj.feedback \subseteq sent
  /\ proj.quadrant # Absent => <<"class", Absent>> \in sent
  /\ \A s \in Supplier : proj.bids[s] \in Price => <<"offer", s>> \in sent
  /\ {"award"} \X proj.awards \subseteq sent
  /\ {"po"} \X proj.orders \subseteq sent

SnapshotAnnounced == AnnouncedIn(st)

(* _synthetic_neg_ids, set before the await: one process never puts two
   synthetic orders for a negotiation, whatever it fails to read.          *)
OneSynthetic ==
  restarts = 0 => \A o1, o2 \in orders \cap SynOrder : o1 = o2

(* A put that is under way, or abandoned and may still arrive. *)
Putting(p, o) == pc[p] = "put" /\ loc[p].order = o
PutPending(o) == <<"put", o>> \in landing \/ \E p \in Poller : Putting(p, o)

Spent == usedSyn \ {o \in SynOrder : PutPending(o)}

Table == INSTANCE SyntheticOrder
  WITH rows <- orders, spent <- Spent, forgotten <- restarts > 0

(* Whatever polls overlap, fail, time out and land late, the others see what
   SyntheticOrder says: one synthetic order at most until a restart, deleted
   only while a real one is in the table.                                  *)
KeepsToOneOrder == Table!Spec

(* Until a restart the process can tell every synthetic row in the table from
   a real one: an id is forgotten only when its row is gone for good.       *)
SyntheticKnown == restarts = 0 => orders \cap SynOrder \subseteq synIds

(* The projection never mixes synthetic and real orders (README: "The PO
   section always shows the canonical order").                             *)
CanonicalOrder ==
  restarts = 0 => (st.orders \cap RealOrder = {} \/ st.orders \cap SynOrder = {})

(* bids are read before communications: a negotiation that invites its
   suppliers is never taken for one that prices bids without them.         *)
InvitationsNotGuessed ==
  ~Bypass /\ cleared = 0 => sent \cap ({"auto"} \X Supplier) = {}

(* The rfq_sent of a derived invitation, like every other event, is announced
   once (README, "Idempotent SSE events").                                 *)
DerivedRfqOnce == resent \cap ({"auto"} \X Supplier) = {}

(* A status the negotiation entered once is announced once: the stream never
   goes back to an older status.                                           *)
StatusOnce == \A s \in Status : <<"status", s>> \in resent => s \in reentered

(* Once tables and calls are quiet the projection is what the tables say,
   and the last status announced is the row's.                             *)
Current ==
  /\ st.status = neg.status /\ st.quadrant = neg.quadrant
  /\ st.invites = invites /\ st.feedback = feedback /\ st.bids = bids
  /\ st.awards = VisibleAwards /\ st.orders = orders
  /\ neg.status # Absent => pubStatus = neg.status

Converges == <>[](st.tracked => Current)

(* README: a synthetic order gives way to the real one when that arrives. *)
SyntheticGivesWay ==
  (st.tracked /\ orders \cap RealOrder # {})
     ~> (orders \cap SynOrder = {} \/ ~st.tracked)

(* An approved, awarded negotiation gets an order row, if only a synthetic
   one ("so the demo UI shows the PO step").                               *)
ApprovedGetsOrder ==
  (st.tracked /\ neg.status = Approved /\ VisibleAwards # {})
     ~> (orders # {} \/ neg.status # Approved \/ ~st.tracked)

=============================================================================

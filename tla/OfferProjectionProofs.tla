------------------------ MODULE OfferProjectionProofs ------------------------
(***************************************************************************)
(* Safety of OfferProjection for any number of pollers, suppliers,         *)
(* communications, awards, orders and failures.                            *)
(***************************************************************************)
EXTENDS OfferProjection, TLAPS

(***************************************************************************)
(* Types.                                                                  *)
(***************************************************************************)

(* A poller that puts or has deleted an order holds its id. *)
OrderInHand == \A p \in Poller : pc[p] \in {"put", "deleted"} => loc[p].order \in SynOrder

LEMMA UntrackedType == Untracked \in Projection /\ NoLocals \in Locals
BY ConstantAssumption
DEF Untracked, NoLocals, Projection, Locals, AnyStatus, BidValue, NoBids

LEMMA InitTypeOK == Init => TypeOK
<1>1. NoBids \in [Supplier -> BidValue]
  BY DEF NoBids, BidValue
<1>2. SUFFICES ASSUME Init PROVE TypeOK
  OBVIOUS
<1>3. st \in Projection /\ loc \in [Poller -> Locals] /\ pc \in [Poller -> Point]
  BY <1>2, UntrackedType DEF Init, Point
<1>4. neg \in [status: AnyStatus, quadrant: Quadrant \cup {Absent}]
  BY <1>2 DEF Init, AnyStatus
<1>5. bids \in [Supplier -> BidValue]
  BY <1>1, <1>2 DEF Init
<1>6. pubStatus \in AnyStatus /\ cleared \in 0..5
  BY <1>2 DEF Init, AnyStatus
<1>7. QED
  BY <1>2, <1>3, <1>4, <1>5, <1>6 DEF Init, TypeOK

(* Set keeps the control state well typed. *)
LEMMA SetType ==
  ASSUME TypeOK, NEW p \in Poller, NEW point \in Point, NEW locals \in Locals,
         Set(p, point, locals)
  PROVE  pc' \in [Poller -> Point] /\ loc' \in [Poller -> Locals]
BY DEF TypeOK, Set

LEMMA CompleteType ==
  ASSUME NEW cur \in Projection
  PROVE  /\ Complete(cur) \in Projection
         /\ Complete(cur).tracked
         /\ Complete(cur).status = cur.status
         /\ Complete(cur).quadrant = cur.quadrant
         /\ Complete(cur).invites = cur.invites
         /\ Complete(cur).feedback = cur.feedback
         /\ Complete(cur).bids = cur.bids
         /\ Complete(cur).awards = cur.awards
         /\ Complete(cur).orders = cur.orders
BY DEF Complete, AutoInvited, Projection

LEMMA EventTypes ==
  ASSUME NEW cur \in Projection, NEW prev \in Projection
  PROVE  /\ NewEvents(cur, prev) \subseteq GuardedEvent
         /\ NewOrders(cur, prev) \subseteq GuardedEvent
         /\ StatusEvent(cur) \subseteq {"status"} \X Status
         /\ {"auto"} \X (AutoInvited(cur) \ prev.auto) \subseteq {"auto"} \X Supplier
         /\ GuardedEvent \cap (({"status"} \X Status) \cup ({"auto"} \X Supplier)) = {}
<1>1. NewOrders(cur, prev) \subseteq GuardedEvent
  BY DEF NewOrders, GuardedEvent, Projection
<1>2. NewEvents(cur, prev) \subseteq GuardedEvent
  BY DEF NewEvents, GuardedEvent, Projection, Reclassified, ChangedBids
<1>3. StatusEvent(cur) \subseteq {"status"} \X Status
  BY DEF StatusEvent, Projection, AnyStatus
<1>4. {"auto"} \X (AutoInvited(cur) \ prev.auto) \subseteq {"auto"} \X Supplier
  BY DEF AutoInvited
<1>5. GuardedEvent \cap (({"status"} \X Status) \cup ({"auto"} \X Supplier)) = {}
  BY DEF GuardedEvent
<1>6. QED
  BY <1>1, <1>2, <1>3, <1>4, <1>5

(***************************************************************************)
(* The two ways a poll publishes.                                          *)
(***************************************************************************)
LEMMA PublishType ==
  ASSUME TypeOK, NEW p \in Poller, NEW cur \in Projection, Publish(p, cur)
  PROVE  TypeOK'
<1> DEFINE prev == loc[p].prev
           auto == {"auto"} \X (AutoInvited(cur) \ prev.auto)
<1>1. loc[p] \in Locals /\ prev \in Projection
  BY DEF TypeOK, Locals
<1>2. Complete(cur) \in Projection
  BY CompleteType
<1>3. /\ NewEvents(cur, prev) \subseteq GuardedEvent
      /\ NewOrders(cur, prev) \subseteq GuardedEvent
      /\ StatusEvent(cur) \subseteq Event
      /\ auto \subseteq Event
      /\ GuardedEvent \subseteq Event
  BY <1>1, EventTypes DEF Event
<1>4. cur.status \in AnyStatus
  BY DEF Projection
<1>5. CASE ~NeedsSynthetic(cur)
  <2>1. PublishAll(p, cur)
    BY <1>5 DEF Publish
  <2>2. published' \subseteq GuardedEvent /\ sent' \subseteq Event /\ resent' \subseteq sent'
    BY <1>3, <2>1 DEF PublishAll, Announce, FirstTime, TypeOK
  <2>3. st' \in Projection /\ pubStatus' \in AnyStatus
    BY <1>2, <1>4, <2>1 DEF PublishAll, TypeOK
  <2>4. pc' \in [Poller -> Point] /\ loc' \in [Poller -> Locals]
    BY <2>1, UntrackedType, SetType DEF PublishAll, Point
  <2>5. QED
    BY <2>1, <2>2, <2>3, <2>4 DEF Publish, PublishAll, TypeOK, db, hist
<1>6. CASE NeedsSynthetic(cur)
  <2>1. PublishThenPut(p, cur)
    BY <1>6 DEF Publish
  <2>2. published' \subseteq GuardedEvent /\ sent' \subseteq Event /\ resent' \subseteq sent'
    BY <1>3, <2>1 DEF PublishThenPut, Announce, FirstTime, TypeOK
  <2>3. st' \in Projection /\ pubStatus' \in AnyStatus
    BY <1>2, <2>1 DEF PublishThenPut, TypeOK
  <2>4. PICK o \in SynOrder \ usedSyn :
          /\ usedSyn' = usedSyn \cup {o}
          /\ synIds' = synIds \cup {o}
          /\ synNeg' = TRUE
          /\ Set(p, "put", [loc[p] EXCEPT !.cur = Complete(cur), !.order = o])
    BY <2>1 DEF PublishThenPut
  <2>5. [loc[p] EXCEPT !.cur = Complete(cur), !.order = o] \in Locals
    BY <1>1, <1>2 DEF Locals
  <2>6. pc' \in [Poller -> Point] /\ loc' \in [Poller -> Locals]
    BY <2>4, <2>5, SetType DEF Point
  <2>7. QED
    BY <1>6, <2>2, <2>3, <2>4, <2>6 DEF Publish, TypeOK, db, hist
<1>7. QED
  BY <1>5, <1>6

(***************************************************************************)
(* Steps that only move a poller on leave everything but pc and loc alone. *)
(***************************************************************************)
LEMMA ReadType ==
  ASSUME TypeOK, NEW p \in Poller, NEW point \in Point, NEW locals \in Locals,
         Set(p, point, locals), UNCHANGED <<db, hist, proc, seen>>,
         faults' \in Nat, restarts' \in Nat, usedSyn' = usedSyn,
         landing' \subseteq {"put", "delete"} \X SynOrder
  PROVE  TypeOK'
<1>1. pc' \in [Poller -> Point] /\ loc' \in [Poller -> Locals]
  BY SetType
<1>2. QED
  BY <1>1 DEF TypeOK, db, hist, proc, seen

LEMMA OrchestratorType == TypeOK /\ (Orchestrator \/ ResetStep) => TypeOK'
<1> SUFFICES ASSUME TypeOK, Orchestrator \/ ResetStep PROVE TypeOK'
  OBVIOUS
<1> USE DEF TypeOK, proc, seen, meter, hist
<1>1. CASE \E s \in Status : OrchStatus(s)
  BY <1>1 DEF OrchStatus, AnyStatus
<1>2. CASE \E q \in Quadrant : OrchClassify(q)
  BY <1>2 DEF OrchClassify
<1>3. CASE \E c \in Comm : OrchInvite(c)
  BY <1>3 DEF OrchInvite
<1>4. CASE \E f \in Feedback : OrchFeedback(f)
  BY <1>4 DEF OrchFeedback
<1>5. CASE \E s \in Supplier, v \in Price \cup {Unpriced} : OrchBid(s, v)
  BY <1>5 DEF OrchBid, BidValue
<1>6. CASE \E a \in Award : OrchAward(a)
  BY <1>6 DEF OrchAward
<1>7. CASE \E o \in RealOrder : OrchOrder(o)
  BY <1>7 DEF OrchOrder, Order
<1>8. CASE ResetStep
  <2>1. NoBids \in [Supplier -> BidValue]
    BY DEF NoBids, BidValue
  <2>2. [status |-> Absent, quadrant |-> Absent] \in
           [status: AnyStatus, quadrant: Quadrant \cup {Absent}]
    BY DEF AnyStatus
  <2>3. cleared' \in 0..5
    BY <1>8 DEF ResetStep
  <2>4. QED
    BY <1>8, <2>1, <2>2, <2>3 DEF ResetStep
<1>9. QED
  BY <1>1, <1>2, <1>3, <1>4, <1>5, <1>6, <1>7, <1>8 DEF Orchestrator

LEMMA LocalsOf ==
  ASSUME TypeOK, NEW p \in Poller
  PROVE  /\ loc[p] \in Locals /\ loc[p].cur \in Projection /\ loc[p].prev \in Projection
         /\ loc[p].doomed \subseteq SynOrder
         /\ loc[p].order \in SynOrder \cup {NoOrder}
BY DEF TypeOK, Locals

LEMMA FetchType ==
  ASSUME TypeOK, NEW p \in Poller,
         \/ ReadNegotiation(p) \/ ReadBids(p) \/ ReadInvitations(p) \/ ReadFeedback(p)
         \/ Resume(p) \/ ReadAwards(p) \/ ReadOrders(p) \/ FetchFault(p) \/ ReadFault(p)
  PROVE  TypeOK'
<1> USE LocalsOf, UntrackedType
<1>m. /\ faults \in Nat /\ restarts \in Nat
      /\ landing \subseteq {"put", "delete"} \X SynOrder
  BY DEF TypeOK
<1>1. CASE ReadNegotiation(p)
  <2>1. [NoLocals EXCEPT !.cur.status = neg.status, !.cur.quadrant = neg.quadrant] \in Locals
    BY DEF TypeOK, Locals, Projection
  <2>2. QED
    BY <1>1, <1>m, <2>1, ReadType DEF ReadNegotiation, Point, meter
<1>2. CASE ReadBids(p)
  <2>1. [loc[p] EXCEPT !.cur.bids = bids] \in Locals
    BY DEF TypeOK, Locals, Projection
  <2>2. QED
    BY <1>2, <1>m, <2>1, ReadType DEF ReadBids, Point, meter
<1>3. CASE ReadInvitations(p)
  <2>1. [loc[p] EXCEPT !.cur.invites = invites] \in Locals
    BY DEF TypeOK, Locals, Projection
  <2>2. QED
    BY <1>3, <1>m, <2>1, ReadType DEF ReadInvitations, Point, meter
<1>4. CASE ReadFeedback(p)
  <2>1. [loc[p] EXCEPT !.cur.feedback = feedback] \in Locals
    BY DEF TypeOK, Locals, Projection
  <2>2. QED
    BY <1>4, <1>m, <2>1, ReadType DEF ReadFeedback, Point, meter
<1>5. CASE Resume(p)
  <2>1. [loc[p] EXCEPT !.prev = st] \in Locals
    BY DEF TypeOK, Locals
  <2>2. QED
    BY <1>5, <1>m, <2>1, ReadType DEF Resume, Point, meter
<1>6. CASE ReadAwards(p)
  <2>1. VisibleAwards \subseteq Award
    BY DEF VisibleAwards, TypeOK
  <2>2. [loc[p] EXCEPT !.cur.awards = VisibleAwards] \in Locals
    BY <2>1 DEF Locals, Projection
  <2>3. QED
    BY <1>6, <1>m, <2>2, ReadType DEF ReadAwards, Point, meter
<1>7. CASE ReadOrders(p)
  <2>1. [loc[p] EXCEPT !.cur.orders = orders] \in Locals
    BY DEF TypeOK, Locals, Projection
  <2>2. QED
    BY <1>7, <1>m, <2>1, ReadType DEF ReadOrders, Point, meter
<1>8. CASE FetchFault(p)
  BY <1>8, <1>m, ReadType DEF FetchFault, Point
<1>9. CASE ReadFault(p)
  BY <1>9, <1>m, ReadType DEF ReadFault, Point
<1>10. QED
  BY <1>1, <1>2, <1>3, <1>4, <1>5, <1>6, <1>7, <1>8, <1>9

LEMMA OrderStepsType ==
  ASSUME TypeOK, OrderInHand, NEW p \in Poller,
         \/ Split(p) \/ Delete(p) \/ DeleteFault(p) \/ Deleted(p) \/ DeletesDone(p)
         \/ Put(p) \/ PutFault(p) \/ Finish(p)
  PROVE  TypeOK'
<1> USE LocalsOf, UntrackedType
<1>m. /\ faults \in Nat /\ restarts \in Nat /\ orders \subseteq Order
      /\ landing \subseteq {"put", "delete"} \X SynOrder
  BY DEF TypeOK
<1>1. CASE Split(p)
  <2> DEFINE real == loc[p].cur.orders \ synIds
             synthetic == loc[p].cur.orders \cap synIds
  <2>1. CASE real # {} /\ synthetic # {}
    <3>1. [loc[p] EXCEPT !.cur.orders = real, !.doomed = synthetic] \in Locals
      BY DEF TypeOK, Locals, Projection
    <3>2. QED
      BY <1>1, <1>m, <2>1, <3>1, ReadType DEF Split, Point, meter
  <2>2. CASE ~(real # {} /\ synthetic # {})
    BY <1>1, <2>2, PublishType DEF Split
  <2>3. QED
    BY <2>1, <2>2
<1>2. CASE Delete(p)
  <2>1. PICK o \in loc[p].doomed :
          /\ orders' = orders \ {o}
          /\ Set(p, "deleted", [loc[p] EXCEPT !.order = o])
    BY <1>2 DEF Delete
  <2>2. [loc[p] EXCEPT !.order = o] \in Locals
    BY DEF Locals
  <2>3. pc' \in [Poller -> Point] /\ loc' \in [Poller -> Locals]
    BY <2>1, <2>2, SetType DEF Point
  <2>4. QED
    BY <1>2, <2>1, <2>3 DEF Delete, TypeOK, hist, proc, seen, meter
<1>3. CASE DeleteFault(p)
  <2>1. PICK o \in loc[p].doomed :
          /\ landing' \in {landing, landing \cup {<<"delete", o>>}}
          /\ Set(p, "delete", [loc[p] EXCEPT !.doomed = @ \ {o}])
    BY <1>3 DEF DeleteFault
  <2>2. [loc[p] EXCEPT !.doomed = @ \ {o}] \in Locals
    BY DEF Locals
  <2>3. landing' \subseteq {"put", "delete"} \X SynOrder
    BY <1>m, <2>1
  <2>4. QED
    BY <1>3, <1>m, <2>1, <2>2, <2>3, ReadType DEF DeleteFault, Point
<1>4. CASE Deleted(p)
  <2>1. [loc[p] EXCEPT !.doomed = @ \ {loc[p].order}, !.order = NoOrder] \in Locals
    BY DEF Locals
  <2>2. pc' \in [Poller -> Point] /\ loc' \in [Poller -> Locals]
    BY <1>4, <2>1, SetType DEF Deleted, Point
  <2>3. QED
    BY <1>4, <2>2 DEF Deleted, TypeOK, db, hist, seen, meter
<1>5. CASE DeletesDone(p)
  BY <1>5, PublishType DEF DeletesDone
<1>6. CASE Put(p)
  <2>1. loc[p].order \in SynOrder
    BY <1>6 DEF Put, OrderInHand
  <2>2. pc' \in [Poller -> Point] /\ loc' \in [Poller -> Locals]
    BY <1>6, SetType DEF Put, Point
  <2>3. QED
    BY <1>6, <2>1, <2>2 DEF Put, TypeOK, hist, proc, seen, meter, Order
<1>7. CASE PutFault(p)
  <2>1. loc[p].order \in SynOrder
    BY <1>7 DEF PutFault, OrderInHand
  <2>2. landing' \subseteq {"put", "delete"} \X SynOrder
    BY <1>7, <1>m, <2>1 DEF PutFault
  <2>3. QED
    BY <1>7, <1>m, <2>2, ReadType DEF PutFault, Point
<1>8. CASE Finish(p)
  <2> DEFINE cur == loc[p].cur
  <2>1. /\ NewOrders(cur, loc[p].prev) \subseteq GuardedEvent
        /\ StatusEvent(cur) \subseteq Event
        /\ GuardedEvent \subseteq Event
    BY EventTypes DEF Event
  <2>2. published' \subseteq GuardedEvent /\ sent' \subseteq Event /\ resent' \subseteq sent'
    BY <1>8, <2>1 DEF Finish, Announce, FirstTime, TypeOK
  <2>3. st' \in Projection /\ pubStatus' \in AnyStatus
    BY <1>8 DEF Finish, TypeOK, Projection
  <2>4. pc' \in [Poller -> Point] /\ loc' \in [Poller -> Locals]
    BY <1>8, SetType DEF Finish, Point
  <2>5. QED
    BY <1>8, <2>2, <2>3, <2>4 DEF Finish, TypeOK, db, hist, meter
<1>9. QED
  BY <1>1, <1>2, <1>3, <1>4, <1>5, <1>6, <1>7, <1>8

LEMMA OrderInHandStep ==
  ASSUME TypeOK, OrderInHand, [Next]_vars
  PROVE  OrderInHand'
<1> USE DEF OrderInHand
<1>1. ASSUME NEW p \in Poller, NEW point, NEW locals, Set(p, point, locals),
             point \in {"put", "deleted"} => locals.order \in SynOrder
      PROVE  OrderInHand'
  BY <1>1 DEF Set, TypeOK
<1>2. CASE Orchestrator \/ ResetStep \/ Subscribe \/ UNCHANGED vars
             \/ \E call \in landing : Land(call)
  <2>1. UNCHANGED <<pc, loc>>
    BY <1>2 DEF Orchestrator, OrchStatus, OrchClassify, OrchInvite, OrchFeedback,
                OrchBid, OrchAward, OrchOrder, ResetStep, Subscribe, vars, Land
  <2>2. QED
    BY <2>1
<1>3. CASE Restart
  BY <1>3 DEF Restart
<1>4. ASSUME NEW p \in Poller, ReadNegotiation(p) \/ Proceed(p) \/ Fault(p)
      PROVE  OrderInHand'
  <2>1. ASSUME NEW cur \in Projection, Publish(p, cur) PROVE OrderInHand'
    <3>1. CASE NeedsSynthetic(cur)
      <4>1. PICK o \in SynOrder \ usedSyn :
              Set(p, "put", [loc[p] EXCEPT !.cur = Complete(cur), !.order = o])
        BY <2>1, <3>1 DEF Publish, PublishThenPut
      <4>2. [loc[p] EXCEPT !.cur = Complete(cur), !.order = o].order = o
        BY LocalsOf DEF Locals
      <4>3. QED
        BY <1>1, <4>1, <4>2
    <3>2. CASE ~NeedsSynthetic(cur)
      BY <1>1, <2>1, <3>2 DEF Publish, PublishAll
    <3>3. QED
      BY <3>1, <3>2
  <2>2. CASE ReadNegotiation(p) \/ ReadBids(p) \/ ReadInvitations(p) \/ ReadFeedback(p)
               \/ ReadAwards(p) \/ ReadOrders(p) \/ Put(p) \/ Finish(p)
               \/ DeleteFault(p) \/ Deleted(p) \/ FetchFault(p) \/ PutFault(p)
    BY <1>1, <2>2
    DEF ReadNegotiation, ReadBids, ReadInvitations, ReadFeedback, ReadAwards, ReadOrders,
        Put, Finish, DeleteFault, Deleted, FetchFault, PutFault
  <2>3. CASE Resume(p)
    BY <1>1, <2>3 DEF Resume
  <2>4. CASE ReadFault(p)
    BY <1>1, <2>4 DEF ReadFault
  <2>5. CASE Delete(p)
    <3>1. PICK o \in loc[p].doomed : Set(p, "deleted", [loc[p] EXCEPT !.order = o])
      BY <2>5 DEF Delete
    <3>2. o \in SynOrder /\ [loc[p] EXCEPT !.order = o].order = o
      BY LocalsOf DEF Locals
    <3>3. QED
      BY <1>1, <3>1, <3>2
  <2>6. CASE Split(p) \/ DeletesDone(p)
    BY <1>1, <2>1, <2>6, LocalsOf DEF Split, DeletesDone
  <2>7. QED
    BY <1>4, <2>2, <2>3, <2>4, <2>5, <2>6 DEF Proceed, Fault
<1>5. QED
  BY <1>2, <1>3, <1>4 DEF Next

LEMMA TypeStep ==
  ASSUME TypeOK, OrderInHand, [Next]_vars
  PROVE  TypeOK'
<1>1. CASE Orchestrator \/ ResetStep
  BY <1>1, OrchestratorType
<1>2. CASE Subscribe
  BY <1>2 DEF Subscribe, TypeOK, db, hist, seen, meter
<1>3. CASE Restart
  <2>1. landing' \subseteq {"put", "delete"} \X SynOrder
    BY <1>3 DEF Restart, TypeOK, OrderInHand
  <2>2. pc' \in [Poller -> Point] /\ loc' \in [Poller -> Locals]
    BY <1>3, UntrackedType DEF Restart, Point
  <2>3. restarts' \in Nat
    BY <1>3 DEF Restart, TypeOK
  <2>4. st' \in Projection /\ pubStatus' \in AnyStatus
    BY <1>3, UntrackedType DEF Restart, AnyStatus
  <2>5. QED
    BY <1>3, <2>1, <2>2, <2>3, <2>4 DEF Restart, TypeOK, db, hist
<1>4. CASE \E p \in Poller : ReadNegotiation(p) \/ Proceed(p) \/ Fault(p)
  BY <1>4, FetchType, OrderStepsType DEF Proceed, Fault
<1>5. CASE \E call \in landing : Land(call)
  BY <1>5 DEF Land, TypeOK, Order, hist, proc, seen
<1>6. CASE UNCHANGED vars
  BY <1>6 DEF vars, TypeOK, db, hist, proc, seen, meter
<1>7. QED
  BY <1>1, <1>2, <1>3, <1>4, <1>5, <1>6 DEF Next

(* Every variable of the projection keeps its type. *)
THEOREM TypeCorrect == Spec => [](TypeOK /\ OrderInHand)
<1>1. Init => TypeOK /\ OrderInHand
  BY InitTypeOK DEF Init, OrderInHand
<1>2. TypeOK /\ OrderInHand /\ [Next]_vars => (TypeOK /\ OrderInHand)'
  BY TypeStep, OrderInHandStep
<1>3. QED
  BY <1>1, <1>2, PTL DEF Spec

(***************************************************************************)
(* Announcements.  The guard sets are exactly what has been announced of   *)
(* the guarded kinds; a projection, saved or remembered by a poller as its  *)
(* starting point, shows nothing that has not been announced.              *)
(***************************************************************************)
GuardInv == /\ AnnouncedOnce
            /\ published = sent \cap GuardedEvent

SnapshotInv ==
  /\ AnnouncedIn(st)
  /\ \A p \in Poller : AnnouncedIn(loc[p].prev)
  /\ \A p \in Poller : pc[p] \in {"put", "finish"} => AnnouncedIn(loc[p].cur)

(* Only these steps announce anything or touch the guard sets. *)
LEMMA QuietSteps ==
  ASSUME TypeOK, [Next]_vars, ~Restart,
         \A p \in Poller : ~Finish(p) /\ \A cur \in Projection : ~Publish(p, cur)
  PROVE  UNCHANGED <<st, published, sent, resent>>
<1>1. CASE Orchestrator \/ ResetStep \/ Subscribe \/ UNCHANGED vars
             \/ \E call \in landing : Land(call)
  BY <1>1 DEF Orchestrator, OrchStatus, OrchClassify, OrchInvite, OrchFeedback, OrchBid,
              OrchAward, OrchOrder, ResetStep, Subscribe, Land, vars, proc, seen
<1>2. ASSUME NEW p \in Poller, ReadNegotiation(p) \/ Proceed(p) \/ Fault(p)
      PROVE  UNCHANGED <<st, published, sent, resent>>
  <2>1. loc[p].cur \in Projection
    BY LocalsOf
  <2>2. CASE Split(p)
    BY <2>1, <2>2 DEF Split, proc, seen
  <2>3. CASE ~Split(p)
    BY <1>2, <2>1, <2>3
    DEF Proceed, Fault, ReadNegotiation, ReadBids, ReadInvitations, ReadFeedback, Resume,
        ReadAwards, ReadOrders, Delete, Deleted, DeletesDone, Put, FetchFault, ReadFault,
        DeleteFault, PutFault, proc, seen
  <2>4. QED
    BY <2>2, <2>3
<1>3. QED
  BY <1>1, <1>2 DEF Next

(* What one poll announces. *)
LEMMA PublishAnnounces ==
  ASSUME TypeOK, NEW p \in Poller, NEW cur \in Projection, Publish(p, cur)
  PROVE  \E due \in SUBSET GuardedEvent, other \in SUBSET (Event \ GuardedEvent) :
           /\ due \cap published = {}
           /\ published' = published \cup due
           /\ Announce(due \cup other)
           /\ NewEvents(cur, loc[p].prev) \subseteq published'
           /\ NewOrders(cur, loc[p].prev) \subseteq published'
           /\ st' = Complete(cur)
<1> DEFINE prev == loc[p].prev
           auto == {"auto"} \X (AutoInvited(cur) \ prev.auto)
<1>1. /\ NewEvents(cur, prev) \subseteq GuardedEvent
      /\ NewOrders(cur, prev) \subseteq GuardedEvent
      /\ StatusEvent(cur) \subseteq Event \ GuardedEvent
      /\ auto \subseteq Event \ GuardedEvent
  BY LocalsOf, EventTypes DEF Event
<1>2. CASE ~NeedsSynthetic(cur)
  <2> DEFINE due == FirstTime(NewEvents(cur, prev) \cup NewOrders(cur, prev))
  <2>1. due \subseteq GuardedEvent /\ due \cap published = {}
    BY <1>1 DEF FirstTime
  <2>2. PublishAll(p, cur)
    BY <1>2 DEF Publish
  <2>3. /\ published' = published \cup due
        /\ Announce(due \cup (auto \cup StatusEvent(cur)))
        /\ st' = Complete(cur)
    <3>1. due \cup auto \cup StatusEvent(cur) = due \cup (auto \cup StatusEvent(cur))
      OBVIOUS
    <3>2. QED
      BY <2>2, <3>1 DEF PublishAll
  <2>4. NewEvents(cur, prev) \subseteq published' /\ NewOrders(cur, prev) \subseteq published'
    BY <2>3 DEF FirstTime
  <2>5. auto \cup StatusEvent(cur) \in SUBSET (Event \ GuardedEvent)
    BY <1>1
  <2>6. QED
    BY <2>1, <2>3, <2>4, <2>5
<1>3. CASE NeedsSynthetic(cur)
  <2> DEFINE due == FirstTime(NewEvents(cur, prev))
  <2>1. due \subseteq GuardedEvent /\ due \cap published = {}
    BY <1>1 DEF FirstTime
  <2>2. PublishThenPut(p, cur)
    BY <1>3 DEF Publish
  <2>3. /\ published' = published \cup due
        /\ Announce(due \cup auto)
        /\ st' = Complete(cur)
    BY <2>2 DEF PublishThenPut
  <2>4. NewEvents(cur, prev) \subseteq published'
    BY <2>3 DEF FirstTime
  <2>5. NewOrders(cur, prev) = {}
    BY <1>3 DEF NeedsSynthetic, NewOrders
  <2>6. QED
    BY <1>1, <2>1, <2>3, <2>4, <2>5
<1>4. QED
  BY <1>2, <1>3

LEMMA FinishAnnounces ==
  ASSUME TypeOK, NEW p \in Poller, Finish(p)
  PROVE  \E due \in SUBSET GuardedEvent, other \in SUBSET (Event \ GuardedEvent) :
           /\ due \cap published = {}
           /\ published' = published \cup due
           /\ Announce(due \cup other)
<1> DEFINE cur == loc[p].cur
           due == FirstTime(NewOrders(cur, loc[p].prev))
<1>1. due \in SUBSET GuardedEvent /\ due \cap published = {}
  BY LocalsOf, EventTypes DEF FirstTime
<1>2. StatusEvent(cur) \in SUBSET (Event \ GuardedEvent)
  BY LocalsOf, EventTypes DEF Event
<1>3. published' = published \cup due /\ Announce(due \cup StatusEvent(cur))
  BY DEF Finish
<1>4. QED
  BY <1>1, <1>2, <1>3

(* Announcing what no guard has seen keeps guards and announcements equal. *)
LEMMA GuardKept ==
  ASSUME GuardInv, NEW due \in SUBSET GuardedEvent,
         NEW other \in SUBSET (Event \ GuardedEvent),
         due \cap published = {}, published' = published \cup due, Announce(due \cup other)
  PROVE  GuardInv'
BY DEF GuardInv, AnnouncedOnce, Announce

LEMMA GuardStep ==
  ASSUME TypeOK, GuardInv, [Next]_vars
  PROVE  GuardInv'
<1>1. CASE Restart
  BY <1>1 DEF Restart, GuardInv, AnnouncedOnce
<1>2. CASE \E p \in Poller : \E cur \in Projection : Publish(p, cur)
  BY <1>2, PublishAnnounces, GuardKept
<1>3. CASE \E p \in Poller : Finish(p)
  BY <1>3, FinishAnnounces, GuardKept
<1>4. CASE UNCHANGED <<st, published, sent, resent>>
  BY <1>4 DEF GuardInv, AnnouncedOnce
<1>5. QED
  BY <1>1, <1>2, <1>3, <1>4, QuietSteps

(* No event of a guarded kind is announced twice, however many polls overlap. *)
THEOREM PublishedOnce == Spec => []AnnouncedOnce
<1>1. Init => GuardInv
  BY DEF Init, GuardInv, AnnouncedOnce
<1>2. TypeOK /\ OrderInHand /\ GuardInv /\ [Next]_vars => GuardInv'
  BY GuardStep
<1>3. GuardInv => AnnouncedOnce
  BY DEF GuardInv
<1>4. QED
  BY <1>1, <1>2, <1>3, TypeCorrect, PTL DEF Spec

(* What is new has been announced now, what is not new was announced before. *)
LEMMA CurAnnounced ==
  ASSUME NEW cur \in Projection, NEW prev \in Projection, AnnouncedIn(prev),
         NewEvents(cur, prev) \subseteq sent', NewOrders(cur, prev) \subseteq sent',
         sent \subseteq sent'
  PROVE  AnnouncedIn(cur)'
<1>1. /\ {"rfq"} \X (cur.invites \ prev.invites) \subseteq sent'
      /\ {"feedback"} \X (cur.feedback \ prev.feedback) \subseteq sent'
      /\ {"offer"} \X ChangedBids(cur, prev) \subseteq sent'
      /\ {"award"} \X (cur.awards \ prev.awards) \subseteq sent'
      /\ {"po"} \X (cur.orders \ prev.orders) \subseteq sent'
      /\ Reclassified(cur, prev) => <<"class", Absent>> \in sent'
  BY DEF NewEvents, NewOrders
<1>2. /\ {"rfq"} \X cur.invites \subseteq sent'
      /\ {"feedback"} \X cur.feedback \subseteq sent'
      /\ {"award"} \X cur.awards \subseteq sent'
      /\ {"po"} \X cur.orders \subseteq sent'
  BY <1>1 DEF AnnouncedIn
<1>3. cur.quadrant # Absent => <<"class", Absent>> \in sent'
  BY <1>1 DEF AnnouncedIn, Reclassified
<1>4. ASSUME NEW s \in Supplier, cur.bids[s] \in Price PROVE <<"offer", s>> \in sent'
  <2>1. CASE cur.bids[s] = prev.bids[s]
    BY <1>4, <2>1 DEF AnnouncedIn
  <2>2. CASE cur.bids[s] # prev.bids[s]
    <3>1. s \in ChangedBids(cur, prev)
      BY <1>4, <2>2 DEF ChangedBids
    <3>2. QED
      BY <1>1, <3>1
  <2>3. QED
    BY <2>1, <2>2
<1>5. QED
  BY <1>2, <1>3, <1>4 DEF AnnouncedIn

LEMMA AnnouncedGrows ==
  ASSUME NEW proj \in Projection, AnnouncedIn(proj), sent \subseteq sent'
  PROVE  AnnouncedIn(proj)'
BY DEF AnnouncedIn

LEMMA NothingToAnnounce ==
  ASSUME ConstantAssumption PROVE AnnouncedIn(Untracked) /\ AnnouncedIn(Untracked)'
BY DEF AnnouncedIn, Untracked, NoBids

(* A step that announces nothing only copies projections around. *)
LEMMA SnapshotQuiet ==
  ASSUME TypeOK, SnapshotInv, [Next]_vars, UNCHANGED <<st, published, sent, resent>>,
         ~Restart, \A p \in Poller : ~Finish(p) /\ \A cur \in Projection : ~Publish(p, cur)
  PROVE  SnapshotInv'
<1> USE ConstantAssumption DEF SnapshotInv
<1>1. \A proj \in Projection : AnnouncedIn(proj) => AnnouncedIn(proj)'
  BY AnnouncedGrows
<1>2. AnnouncedIn(st)'
  BY <1>1 DEF TypeOK, AnnouncedIn
<1>3. ASSUME NEW q \in Poller, NEW point, NEW locals, Set(q, point, locals),
             locals.prev \in {Untracked, st, loc[q].prev},
             point \in {"put", "finish"} => pc[q] \in {"put", "finish"} /\ locals = loc[q]
      PROVE  SnapshotInv'
  <2>1. ASSUME NEW p \in Poller PROVE AnnouncedIn(loc[p].prev)'
    <3>1. loc'[p].prev \in {Untracked, st, loc[p].prev}
      BY <1>3 DEF Set, TypeOK
    <3>2. /\ Untracked \in Projection /\ st \in Projection /\ loc[p].prev \in Projection
          /\ AnnouncedIn(Untracked) /\ AnnouncedIn(st) /\ AnnouncedIn(loc[p].prev)
      BY UntrackedType, LocalsOf, NothingToAnnounce DEF TypeOK
    <3>3. QED
      BY <3>1, <3>2 DEF AnnouncedIn
  <2>2. ASSUME NEW p \in Poller, pc'[p] \in {"put", "finish"}
        PROVE  AnnouncedIn(loc[p].cur)'
    <3>1. loc'[p] = loc[p] /\ pc[p] \in {"put", "finish"}
      BY <1>3, <2>2 DEF Set, TypeOK
    <3>2. QED
      BY <3>1 DEF AnnouncedIn
  <2>3. QED
    BY <1>2, <2>1, <2>2
<1>4. CASE UNCHANGED <<pc, loc>>
  BY <1>2, <1>4 DEF AnnouncedIn
<1>5. CASE Orchestrator \/ ResetStep \/ Subscribe \/ UNCHANGED vars
             \/ \E call \in landing : Land(call)
  <2>1. UNCHANGED <<pc, loc>>
    BY <1>5 DEF Orchestrator, OrchStatus, OrchClassify, OrchInvite, OrchFeedback,
                OrchBid, OrchAward, OrchOrder, ResetStep, Subscribe, vars, Land
  <2>2. QED
    BY <1>4, <2>1
<1>6. ASSUME NEW p \in Poller, ReadNegotiation(p) \/ Proceed(p) \/ Fault(p)
      PROVE  SnapshotInv'
  <2>0. loc[p] \in Locals /\ loc[p].cur \in Projection
    BY LocalsOf
  <2>1. CASE ReadNegotiation(p)
    <3>1. [NoLocals EXCEPT !.cur.status = neg.status, !.cur.quadrant = neg.quadrant].prev
            = Untracked
      BY DEF NoLocals
    <3>2. QED
      BY <1>3, <2>1, <3>1 DEF ReadNegotiation
  <2>2. CASE ReadBids(p) \/ ReadInvitations(p) \/ ReadFeedback(p) \/ ReadAwards(p) \/ ReadOrders(p)
    <3>1. /\ [loc[p] EXCEPT !.cur.bids = bids].prev = loc[p].prev
          /\ [loc[p] EXCEPT !.cur.invites = invites].prev = loc[p].prev
          /\ [loc[p] EXCEPT !.cur.feedback = feedback].prev = loc[p].prev
          /\ [loc[p] EXCEPT !.cur.awards = VisibleAwards].prev = loc[p].prev
          /\ [loc[p] EXCEPT !.cur.orders = orders].prev = loc[p].prev
      BY <2>0 DEF Locals
    <3>2. QED
      BY <1>3, <2>2, <3>1
      DEF ReadBids, ReadInvitations, ReadFeedback, ReadAwards, ReadOrders
  <2>3. CASE FetchFault(p)
    BY <1>3, <2>3 DEF FetchFault, NoLocals
  <2>4. CASE ReadFault(p)
    BY <1>3, <2>4 DEF ReadFault
  <2>5. CASE Resume(p)
    <3>1. [loc[p] EXCEPT !.prev = st].prev = st /\ NoLocals.prev = Untracked
      BY <2>0 DEF Locals, NoLocals
    <3>2. QED
      BY <1>3, <2>5, <3>1 DEF Resume
  <2>6. CASE Split(p)
    <3>1. \A real, synthetic :
            [loc[p] EXCEPT !.cur.orders = real, !.doomed = synthetic].prev = loc[p].prev
      BY <2>0 DEF Locals
    <3>2. QED
      BY <1>3, <1>6, <2>0, <2>6, <3>1 DEF Split
  <2>7. CASE Delete(p) \/ DeleteFault(p) \/ Deleted(p)
    <3>1. /\ \A o : [loc[p] EXCEPT !.order = o].prev = loc[p].prev
          /\ \A o : [loc[p] EXCEPT !.doomed = @ \ {o}].prev = loc[p].prev
          /\ \A o : [loc[p] EXCEPT !.doomed = @ \ {o}, !.order = NoOrder].prev = loc[p].prev
      BY <2>0 DEF Locals
    <3>2. QED
      BY <1>3, <2>7, <3>1 DEF Delete, DeleteFault, Deleted
  <2>8. CASE Put(p) \/ PutFault(p)
    BY <1>3, <2>8 DEF Put, PutFault
  <2>9. QED
    BY <1>6, <2>0, <2>1, <2>2, <2>3, <2>4, <2>5, <2>6, <2>7, <2>8
    DEF Proceed, Fault, DeletesDone
<1>7. QED
  BY <1>5, <1>6 DEF Next

LEMMA SnapshotPublish ==
  ASSUME TypeOK, GuardInv, GuardInv', SnapshotInv,
         NEW p \in Poller, NEW cur \in Projection, Publish(p, cur)
  PROVE  SnapshotInv'
<1>1. PICK due \in SUBSET GuardedEvent, other \in SUBSET (Event \ GuardedEvent) :
        /\ Announce(due \cup other)
        /\ NewEvents(cur, loc[p].prev) \subseteq published'
        /\ NewOrders(cur, loc[p].prev) \subseteq published'
        /\ st' = Complete(cur)
  BY PublishAnnounces
<1>2. sent \subseteq sent' /\ published' \subseteq sent'
  BY <1>1 DEF Announce, GuardInv
<1>3. AnnouncedIn(cur)'
  BY <1>1, <1>2, CurAnnounced, LocalsOf DEF SnapshotInv
<1>4. Complete(cur) \in Projection /\ AnnouncedIn(Complete(cur))'
  BY <1>3, CompleteType DEF AnnouncedIn
<1>5. AnnouncedIn(st)'
  BY <1>1, <1>4 DEF AnnouncedIn
<1>6. /\ \A q \in Poller \ {p} : pc'[q] = pc[q] /\ loc'[q] = loc[q]
      /\ \/ pc'[p] = "idle" /\ loc'[p] = NoLocals
         \/ pc'[p] = "put" /\ loc'[p].prev = loc[p].prev /\ loc'[p].cur = Complete(cur)
  <2>1. CASE PublishAll(p, cur)
    BY <2>1 DEF PublishAll, Set, TypeOK
  <2>2. CASE PublishThenPut(p, cur)
    <3>1. PICK o \in SynOrder :
            Set(p, "put", [loc[p] EXCEPT !.cur = Complete(cur), !.order = o])
      BY <2>2 DEF PublishThenPut
    <3>2. /\ [loc[p] EXCEPT !.cur = Complete(cur), !.order = o].prev = loc[p].prev
          /\ [loc[p] EXCEPT !.cur = Complete(cur), !.order = o].cur = Complete(cur)
      BY LocalsOf DEF Locals
    <3>3. QED
      BY <3>1, <3>2 DEF Set, TypeOK
  <2>3. QED
    BY <2>1, <2>2 DEF Publish
<1>7. ASSUME NEW q \in Poller
      PROVE  /\ AnnouncedIn(loc[q].prev)'
             /\ pc'[q] \in {"put", "finish"} => AnnouncedIn(loc[q].cur)'
  <2>1. /\ loc[q] \in Locals /\ loc[q].prev \in Projection /\ loc[q].cur \in Projection
        /\ AnnouncedIn(loc[q].prev)
        /\ pc[q] \in {"put", "finish"} => AnnouncedIn(loc[q].cur)
    BY LocalsOf DEF SnapshotInv
  <2>2. CASE q # p
    <3>1. pc'[q] = pc[q] /\ loc'[q] = loc[q]
      BY <1>6, <2>2
    <3>2. QED
      BY <1>2, <2>1, <3>1 DEF AnnouncedIn
  <2>3. CASE pc'[q] = "idle" /\ loc'[q] = NoLocals
    BY <2>3, NothingToAnnounce, ConstantAssumption DEF NoLocals, AnnouncedIn
  <2>4. CASE pc'[q] = "put" /\ loc'[q].prev = loc[q].prev /\ loc'[q].cur = Complete(cur)
    <3>1. AnnouncedIn(loc[q].prev)'
      BY <1>2, <2>1, <2>4 DEF AnnouncedIn
    <3>2. AnnouncedIn(loc[q].cur)'
      BY <1>4, <2>4 DEF AnnouncedIn
    <3>3. QED
      BY <3>1, <3>2
  <2>5. QED
    BY <1>6, <2>2, <2>3, <2>4
<1>8. QED
  BY <1>5, <1>7 DEF SnapshotInv

LEMMA SnapshotFinish ==
  ASSUME TypeOK, SnapshotInv, NEW p \in Poller, Finish(p)
  PROVE  SnapshotInv'
<1>1. sent \subseteq sent'
  BY DEF Finish, Announce
<1>2. AnnouncedIn(st)'
  BY <1>1 DEF Finish, SnapshotInv, AnnouncedIn
<1>3. ASSUME NEW q \in Poller
      PROVE  /\ AnnouncedIn(loc[q].prev)'
             /\ pc'[q] \in {"put", "finish"} => AnnouncedIn(loc[q].cur)'
  <2>1. CASE q # p
    <3>1. pc'[q] = pc[q] /\ loc'[q] = loc[q]
      BY <2>1 DEF Finish, Set, TypeOK
    <3>2. QED
      BY <1>1, <3>1 DEF SnapshotInv, AnnouncedIn
  <2>2. CASE q = p
    <3>1. pc'[p] = "idle" /\ loc'[p] = NoLocals
      BY DEF Finish, Set, TypeOK
    <3>2. QED
      BY <2>2, <3>1, NothingToAnnounce, ConstantAssumption DEF NoLocals, AnnouncedIn
  <2>3. QED
    BY <2>1, <2>2
<1>4. QED
  BY <1>2, <1>3 DEF SnapshotInv

LEMMA SnapshotStep ==
  ASSUME TypeOK, GuardInv, GuardInv', SnapshotInv, [Next]_vars
  PROVE  SnapshotInv'
<1>1. CASE Restart
  BY <1>1, NothingToAnnounce, ConstantAssumption
  DEF Restart, SnapshotInv, AnnouncedIn, NoLocals
<1>2. CASE \E p \in Poller : \E cur \in Projection : Publish(p, cur)
  BY <1>2, SnapshotPublish
<1>3. CASE \E p \in Poller : Finish(p)
  BY <1>3, SnapshotFinish
<1>4. CASE /\ ~Restart
           /\ \A p \in Poller : ~Finish(p) /\ \A cur \in Projection : ~Publish(p, cur)
  BY <1>4, QuietSteps, SnapshotQuiet
<1>5. QED
  BY <1>1, <1>2, <1>3, <1>4

(* A snapshot never shows what the stream has not announced. *)
THEOREM SnapshotCovered == Spec => []SnapshotAnnounced
<1>1. Init => GuardInv /\ SnapshotInv
  <2>1. Init => GuardInv
    BY DEF Init, GuardInv, AnnouncedOnce
  <2>2. Init => SnapshotInv
    BY NothingToAnnounce, ConstantAssumption DEF Init, SnapshotInv, NoLocals
  <2>3. QED
    BY <2>1, <2>2
<1>2. TypeOK /\ GuardInv /\ SnapshotInv /\ [Next]_vars => GuardInv' /\ SnapshotInv'
  BY GuardStep, SnapshotStep
<1>3. SnapshotInv => SnapshotAnnounced
  BY DEF SnapshotInv, SnapshotAnnounced
<1>4. QED
  BY <1>1, <1>2, <1>3, TypeCorrect, PTL DEF Spec

(***************************************************************************)
(* Synthetic orders.  Until a restart every synthetic id in sight is one    *)
(* of the uuids drawn, of which there is at most one; and an id that a put  *)
(* may still bring into the table is known, and nobody is deleting it.      *)
(***************************************************************************)
DrawnInv ==
  /\ \A o1, o2 \in usedSyn : o1 = o2
  /\ usedSyn # {} => synNeg
  /\ synIds \subseteq usedSyn
  /\ orders \cap SynOrder \subseteq usedSyn
  /\ \A call \in landing : call[2] \in usedSyn
  /\ \A p \in Poller : /\ loc[p].cur.orders \cap SynOrder \subseteq usedSyn
                       /\ loc[p].doomed \subseteq usedSyn
                       /\ loc[p].order \in usedSyn \cup {NoOrder}

KnownInv ==
  /\ orders \cap SynOrder \subseteq synIds
  /\ \A o \in SynOrder : PutPending(o) =>
       /\ o \in synIds \ orders
       /\ \A p \in Poller : /\ o \notin loc[p].cur.orders /\ o \notin loc[p].doomed
                            /\ pc[p] = "deleted" => loc[p].order # o
  /\ \A p \in Poller, o \in SynOrder : Putting(p, o) =>
       /\ <<"put", o>> \notin landing
       /\ \A q \in Poller : Putting(q, o) => q = p
  /\ \A p \in Poller : pc[p] = "deleted" => loc[p].order \notin orders

(* A poller that draws no uuid and takes up none that was not drawn. *)
LEMMA DrawnLocal ==
  ASSUME TypeOK, DrawnInv, NEW q \in Poller, NEW point, NEW locals \in Locals,
         Set(q, point, locals),
         locals.cur.orders \cap SynOrder \subseteq usedSyn,
         locals.doomed \subseteq usedSyn,
         locals.order \in usedSyn \cup {NoOrder},
         UNCHANGED <<usedSyn, synNeg>>, synIds' \subseteq synIds,
         orders' \cap SynOrder \subseteq usedSyn,
         \A call \in landing' : call[2] \in usedSyn
  PROVE  DrawnInv'
<1>1. ASSUME NEW p \in Poller
      PROVE  loc'[p] = loc[p] \/ loc'[p] = locals
  BY DEF Set, TypeOK
<1>2. \A p \in Poller : /\ loc'[p].cur.orders \cap SynOrder \subseteq usedSyn
                        /\ loc'[p].doomed \subseteq usedSyn
                        /\ loc'[p].order \in usedSyn \cup {NoOrder}
  BY <1>1 DEF DrawnInv
<1>3. QED
  BY <1>2 DEF DrawnInv

LEMMA DrawnPublish ==
  ASSUME TypeOK, DrawnInv, NEW p \in Poller, NEW cur \in Projection, Publish(p, cur)
  PROVE  DrawnInv'
<1> USE ConstantAssumption
<1>1. CASE ~NeedsSynthetic(cur)
  <2>1. PublishAll(p, cur) /\ UNCHANGED <<db, landing>>
    BY <1>1 DEF Publish
  <2>2. /\ Set(p, "idle", NoLocals) /\ UNCHANGED <<synIds, synNeg, usedSyn, orders, landing>>
    BY <2>1 DEF PublishAll, db
  <2>3. NoLocals.cur.orders = {} /\ NoLocals.doomed = {} /\ NoLocals.order = NoOrder
    BY DEF NoLocals, Untracked
  <2>4. QED
    BY <2>2, <2>3, UntrackedType, DrawnLocal DEF DrawnInv
<1>2. CASE NeedsSynthetic(cur)
  <2>1. usedSyn = {} /\ cur.orders = {}
    BY <1>2 DEF NeedsSynthetic, DrawnInv
  <2>2. PICK o \in SynOrder \ usedSyn :
          /\ usedSyn' = usedSyn \cup {o}
          /\ synIds' = synIds \cup {o}
          /\ synNeg' = TRUE
          /\ Set(p, "put", [loc[p] EXCEPT !.cur = Complete(cur), !.order = o])
    BY <1>2 DEF Publish, PublishThenPut
  <2>3. UNCHANGED <<orders, landing>>
    BY <1>2 DEF Publish, db
  <2> DEFINE locals == [loc[p] EXCEPT !.cur = Complete(cur), !.order = o]
  <2>4. locals.cur.orders = {} /\ locals.doomed = loc[p].doomed /\ locals.order = o
    BY <2>1, LocalsOf, CompleteType DEF Locals
  <2>5. \A q \in Poller : loc'[q] = loc[q] \/ (q = p /\ loc'[q] = locals)
    BY <2>2 DEF Set, TypeOK
  <2>6. \A q \in Poller : /\ loc'[q].cur.orders \cap SynOrder \subseteq usedSyn'
                          /\ loc'[q].doomed \subseteq usedSyn'
                          /\ loc'[q].order \in usedSyn' \cup {NoOrder}
    BY <2>2, <2>4, <2>5 DEF DrawnInv
  <2>7. QED
    BY <2>1, <2>2, <2>3, <2>6 DEF DrawnInv
<1>3. QED
  BY <1>1, <1>2

LEMMA DrawnPoll ==
  ASSUME TypeOK, OrderInHand, DrawnInv, NEW p \in Poller,
         ReadNegotiation(p) \/ Proceed(p) \/ Fault(p)
  PROVE  DrawnInv'
<1> USE ConstantAssumption
<1> DEFINE mine == loc[p]
<1>1. /\ mine \in Locals /\ mine.cur \in Projection
      /\ mine.cur.orders \cap SynOrder \subseteq usedSyn
      /\ mine.doomed \subseteq usedSyn /\ mine.order \in usedSyn \cup {NoOrder}
  BY LocalsOf DEF DrawnInv
<1>2. NoLocals \in Locals /\ NoLocals.cur.orders = {} /\ NoLocals.doomed = {}
        /\ NoLocals.order = NoOrder
  BY UntrackedType DEF NoLocals, Untracked
<1>3. /\ orders \cap SynOrder \subseteq usedSyn /\ synIds \subseteq usedSyn
      /\ \A call \in landing : call[2] \in usedSyn
  BY DEF DrawnInv
<1>4. ASSUME NEW point, NEW locals \in Locals, Set(p, point, locals),
             locals.cur.orders \cap SynOrder \subseteq usedSyn,
             locals.doomed \subseteq usedSyn, locals.order \in usedSyn \cup {NoOrder},
             UNCHANGED <<db, proc, usedSyn, landing>>
      PROVE  DrawnInv'
  BY <1>3, <1>4, DrawnLocal DEF db, proc
<1>5. CASE ReadNegotiation(p)
  <2> DEFINE next == [NoLocals EXCEPT !.cur.status = neg.status, !.cur.quadrant = neg.quadrant]
  <2>1. next \in Locals /\ next.cur.orders = {} /\ next.doomed = {} /\ next.order = NoOrder
    BY <1>2 DEF Locals, Projection, TypeOK
  <2>2. QED
    BY <1>4, <1>5, <2>1 DEF ReadNegotiation, meter
<1>6. CASE ReadBids(p)
  <2>1. [mine EXCEPT !.cur.bids = bids] \in Locals
    BY <1>1 DEF Locals, Projection, TypeOK
  <2>2. QED
    BY <1>1, <1>4, <1>6, <2>1 DEF ReadBids, meter, Locals, Projection
<1>7. CASE ReadInvitations(p)
  <2>1. [mine EXCEPT !.cur.invites = invites] \in Locals
    BY <1>1 DEF Locals, Projection, TypeOK
  <2>2. QED
    BY <1>1, <1>4, <1>7, <2>1 DEF ReadInvitations, meter, Locals, Projection
<1>8. CASE ReadFeedback(p)
  <2>1. [mine EXCEPT !.cur.feedback = feedback] \in Locals
    BY <1>1 DEF Locals, Projection, TypeOK
  <2>2. QED
    BY <1>1, <1>4, <1>8, <2>1 DEF ReadFeedback, meter, Locals, Projection
<1>9. CASE ReadAwards(p)
  <2>1. [mine EXCEPT !.cur.awards = VisibleAwards] \in Locals
    BY <1>1 DEF Locals, Projection, TypeOK, VisibleAwards
  <2>2. QED
    BY <1>1, <1>4, <1>9, <2>1 DEF ReadAwards, meter, Locals, Projection
<1>10. CASE ReadOrders(p)
  <2>1. [mine EXCEPT !.cur.orders = orders] \in Locals
    BY <1>1 DEF Locals, Projection, TypeOK
  <2>2. [mine EXCEPT !.cur.orders = orders].cur.orders = orders
    BY <1>1 DEF Locals, Projection
  <2>3. QED
    BY <1>1, <1>3, <1>4, <1>10, <2>1, <2>2 DEF ReadOrders, meter, Locals
<1>11. CASE Resume(p)
  <2>1. [mine EXCEPT !.prev = st] \in Locals
    BY <1>1 DEF Locals, TypeOK
  <2>2. QED
    BY <1>1, <1>2, <1>4, <1>11, <2>1 DEF Resume, meter, Locals
<1>12. CASE FetchFault(p) \/ ReadFault(p)
  BY <1>1, <1>2, <1>4, <1>12 DEF FetchFault, ReadFault
<1>13. CASE Split(p)
  <2> DEFINE real == mine.cur.orders \ synIds
             synthetic == mine.cur.orders \cap synIds
             next == [mine EXCEPT !.cur.orders = real, !.doomed = synthetic]
  <2>1. CASE real # {} /\ synthetic # {}
    <3>1. next \in Locals /\ next.cur.orders = real /\ next.doomed = synthetic
            /\ next.order = mine.order
      BY <1>1 DEF Locals, Projection, TypeOK
    <3>2. QED
      BY <1>1, <1>3, <1>4, <1>13, <2>1, <3>1 DEF Split, meter
  <2>2. CASE ~(real # {} /\ synthetic # {})
    BY <1>1, <1>13, <2>2, DrawnPublish DEF Split
  <2>3. QED
    BY <2>1, <2>2
<1>14. CASE Delete(p)
  <2>1. PICK o \in mine.doomed :
          /\ orders' = orders \ {o}
          /\ Set(p, "deleted", [mine EXCEPT !.order = o])
    BY <1>14 DEF Delete
  <2>2. [mine EXCEPT !.order = o] \in Locals /\ [mine EXCEPT !.order = o].order = o
          /\ [mine EXCEPT !.order = o].cur = mine.cur
          /\ [mine EXCEPT !.order = o].doomed = mine.doomed
    BY <1>1, LocalsOf DEF Locals
  <2>3. UNCHANGED <<proc, usedSyn, landing>>
    BY <1>14 DEF Delete, meter
  <2>4. QED
    BY <1>1, <1>3, <2>1, <2>2, <2>3, DrawnLocal DEF proc
<1>15. CASE DeleteFault(p)
  <2>1. PICK o \in mine.doomed :
          /\ landing' \in {landing, landing \cup {<<"delete", o>>}}
          /\ Set(p, "delete", [mine EXCEPT !.doomed = @ \ {o}])
    BY <1>15 DEF DeleteFault
  <2> DEFINE next == [mine EXCEPT !.doomed = @ \ {o}]
  <2>2. next \in Locals /\ next.order = mine.order /\ next.cur = mine.cur
          /\ next.doomed \subseteq mine.doomed
    BY <1>1 DEF Locals
  <2>3. \A call \in landing' : call[2] \in usedSyn
    BY <1>1, <1>3, <2>1
  <2>4. QED
    BY <1>1, <1>3, <1>15, <2>1, <2>2, <2>3, DrawnLocal DEF DeleteFault, db, proc
<1>16. CASE Deleted(p)
  <2> DEFINE next == [mine EXCEPT !.doomed = @ \ {mine.order}, !.order = NoOrder]
  <2>1. next \in Locals /\ next.order = NoOrder /\ next.cur = mine.cur
          /\ next.doomed \subseteq mine.doomed
    BY <1>1 DEF Locals
  <2>2. QED
    BY <1>1, <1>3, <1>16, <2>1, DrawnLocal DEF Deleted, db, meter
<1>17. CASE DeletesDone(p)
  BY <1>1, <1>17, DrawnPublish DEF DeletesDone
<1>18. CASE Put(p)
  <2>1. mine.order \in usedSyn
    BY <1>1, <1>18 DEF Put, OrderInHand
  <2>2. QED
    BY <1>1, <1>3, <1>18, <2>1, DrawnLocal DEF Put, proc, meter
<1>19. CASE PutFault(p)
  <2>1. mine.order \in usedSyn
    BY <1>1, <1>19 DEF PutFault, OrderInHand
  <2>2. \A call \in landing' : call[2] \in usedSyn
    BY <1>3, <1>19, <2>1 DEF PutFault
  <2>3. QED
    BY <1>1, <1>3, <1>19, <2>2, DrawnLocal DEF PutFault, proc, db
<1>20. CASE Finish(p)
  BY <1>2, <1>3, <1>20, DrawnLocal DEF Finish, db, meter
<1>21. QED
  BY <1>5, <1>6, <1>7, <1>8, <1>9, <1>10, <1>11, <1>12, <1>13, <1>14, <1>15, <1>16,
     <1>17, <1>18, <1>19, <1>20 DEF Proceed, Fault

LEMMA DrawnStep ==
  ASSUME TypeOK, OrderInHand, restarts = 0 => DrawnInv, [Next]_vars
  PROVE  (restarts = 0 => DrawnInv)'
<1>1. CASE Restart
  BY <1>1 DEF Restart, TypeOK
<1>2. CASE Orchestrator \/ ResetStep \/ Subscribe \/ UNCHANGED vars
  <2>1. /\ UNCHANGED <<loc, usedSyn, synNeg, synIds, landing, restarts>>
        /\ orders' \cap SynOrder \subseteq orders
    BY <1>2, ConstantAssumption
    DEF Orchestrator, OrchStatus, OrchClassify, OrchInvite, OrchFeedback, OrchBid,
        OrchAward, OrchOrder, ResetStep, Subscribe, vars, db, proc, meter
  <2>2. QED
    BY <2>1 DEF DrawnInv
<1>3. CASE \E call \in landing : Land(call)
  <2>1. PICK call \in landing :
          /\ landing' \subseteq landing
          /\ orders' \subseteq orders \cup {call[2]}
    BY <1>3 DEF Land
  <2>2. UNCHANGED <<loc, usedSyn, synNeg, synIds, restarts>>
    BY <1>3 DEF Land, proc
  <2>3. QED
    BY <2>1, <2>2 DEF DrawnInv
<1>4. ASSUME NEW p \in Poller, ReadNegotiation(p) \/ Proceed(p) \/ Fault(p)
      PROVE  restarts' = restarts
  <2>1. \A cur : Publish(p, cur) => restarts' = restarts
    BY DEF Publish
  <2>2. QED
    BY <1>4, <2>1
    DEF Proceed, Fault, ReadNegotiation, ReadBids, ReadInvitations, ReadFeedback, Resume,
        ReadAwards, ReadOrders, Split, Delete, Deleted, DeletesDone, Put, Finish,
        FetchFault, ReadFault, DeleteFault, PutFault, meter
<1>5. CASE \E p \in Poller : ReadNegotiation(p) \/ Proceed(p) \/ Fault(p)
  BY <1>4, <1>5, DrawnPoll
<1>6. QED
  BY <1>1, <1>2, <1>3, <1>5 DEF Next

(* One process never puts two synthetic orders for a negotiation. *)
THEOREM SyntheticUnique == Spec => []OneSynthetic
<1>1. Init => (restarts = 0 => DrawnInv)
  BY DEF Init, DrawnInv, NoLocals, Untracked
<1>2. TypeOK /\ OrderInHand /\ (restarts = 0 => DrawnInv) /\ [Next]_vars
        => (restarts = 0 => DrawnInv)'
  BY DrawnStep
<1>3. (restarts = 0 => DrawnInv) => OneSynthetic
  BY DEF DrawnInv, OneSynthetic
<1>4. QED
  BY <1>1, <1>2, <1>3, TypeCorrect, PTL DEF Spec

(* A poller that starts no put, brings no order into the table, and forgets,
   reads or deletes no id that a put may still bring in.                   *)
LEMMA KnownLocal ==
  ASSUME TypeOK, KnownInv, NEW q \in Poller, NEW point, NEW locals \in Locals,
         Set(q, point, locals), point # "put",
         orders' \subseteq orders,
         landing' \subseteq landing \cup ({"delete"} \X SynOrder),
         synIds' \subseteq synIds,
         \A o \in synIds \ synIds' : o \notin orders' /\ ~PutPending(o),
         \A o \in SynOrder :
            PutPending(o) => o \notin locals.cur.orders /\ o \notin locals.doomed,
         point = "deleted" => locals.order \notin orders' /\ ~PutPending(locals.order)
  PROVE  KnownInv'
<1>1. \A p \in Poller : \/ p # q /\ pc'[p] = pc[p] /\ loc'[p] = loc[p]
                        \/ p = q /\ pc'[p] = point /\ loc'[p] = locals
  BY DEF Set, TypeOK
<1>2. \A p \in Poller, o \in SynOrder : Putting(p, o)' => Putting(p, o)
  BY <1>1 DEF Putting
<1>3. \A o : <<"put", o>> \in landing' => <<"put", o>> \in landing
  OBVIOUS
<1>4. \A o \in SynOrder : PutPending(o)' => PutPending(o)
  BY <1>2, <1>3 DEF PutPending
<1>5. (orders \cap SynOrder \subseteq synIds)'
  BY DEF KnownInv
<1>6. ASSUME NEW o \in SynOrder, PutPending(o)'
      PROVE  /\ o \in synIds' \ orders'
             /\ \A p \in Poller : /\ o \notin loc'[p].cur.orders /\ o \notin loc'[p].doomed
                                  /\ pc'[p] = "deleted" => loc'[p].order # o
  <2>1. PutPending(o)
    BY <1>4, <1>6
  <2>2. o \in synIds' \ orders'
    BY <2>1 DEF KnownInv
  <2>3. QED
    BY <1>1, <2>1, <2>2 DEF KnownInv
<1>7. ASSUME NEW p \in Poller, NEW o \in SynOrder, Putting(p, o)'
      PROVE  /\ <<"put", o>> \notin landing'
             /\ \A r \in Poller : Putting(r, o)' => r = p
  BY <1>2, <1>3, <1>7 DEF KnownInv
<1>8. \A p \in Poller : pc'[p] = "deleted" => loc'[p].order \notin orders'
  BY <1>1 DEF KnownInv
<1>9. QED
  BY <1>5, <1>6, <1>7, <1>8 DEF KnownInv

(* The put under way, and the only one, ends: in the table or on its way. *)
LEMMA KnownPut ==
  ASSUME TypeOK, OrderInHand, KnownInv, NEW p \in Poller, Put(p) \/ PutFault(p)
  PROVE  KnownInv'
<1> DEFINE id == loc[p].order
<1>1. pc[p] = "put" /\ id \in SynOrder /\ Putting(p, id) /\ PutPending(id)
  BY DEF Put, PutFault, OrderInHand, Putting, PutPending
<1>2. \A q \in Poller : /\ loc'[q] = loc[q]
                        /\ q # p => pc'[q] = pc[q]
                        /\ q = p => pc'[q] = "finish"
  BY DEF Put, PutFault, Set, TypeOK
<1>3. \A q \in Poller, o \in SynOrder : Putting(q, o)' <=> q # p /\ Putting(q, o)
  BY <1>2 DEF Putting
<1>4. id \in synIds /\ id \notin orders /\ <<"put", id>> \notin landing
        /\ \A q \in Poller : /\ id \notin loc[q].cur.orders /\ id \notin loc[q].doomed
                             /\ pc[q] = "deleted" => loc[q].order # id
                             /\ Putting(q, id) => q = p
  BY <1>1 DEF KnownInv
<1>5. UNCHANGED synIds
  BY DEF Put, PutFault, proc
<1>6. CASE Put(p)
  <2>1. orders' = orders \cup {id} /\ UNCHANGED landing
    BY <1>6 DEF Put, meter
  <2>2. \A o \in SynOrder : PutPending(o)' => PutPending(o) /\ o # id
    BY <1>3, <1>4, <2>1 DEF PutPending
  <2>3. QED
    BY <1>2, <1>3, <1>4, <1>5, <2>1, <2>2 DEF KnownInv
<1>7. CASE PutFault(p)
  <2>1. UNCHANGED orders /\ landing \subseteq landing'
          /\ landing' \subseteq landing \cup {<<"put", id>>}
    BY <1>7 DEF PutFault, db
  <2>2. \A o \in SynOrder : PutPending(o)' => PutPending(o)
    BY <1>1, <1>3, <2>1 DEF PutPending
  <2>3. \A q \in Poller, o \in SynOrder : Putting(q, o)' => <<"put", o>> \notin landing'
    <3>1. SUFFICES ASSUME NEW q \in Poller, NEW o \in SynOrder, Putting(q, o)'
                   PROVE  <<"put", o>> \notin landing'
      OBVIOUS
    <3>2. q # p /\ Putting(q, o) /\ <<"put", o>> \notin landing
      BY <1>3, <3>1 DEF KnownInv
    <3>3. o # id
      BY <1>4, <3>2
    <3>4. QED
      BY <2>1, <3>2, <3>3
  <2>4. QED
    BY <1>2, <1>3, <1>5, <2>1, <2>2, <2>3 DEF KnownInv
<1>8. QED
  BY <1>6, <1>7

LEMMA KnownPublish ==
  ASSUME TypeOK, OrderInHand, DrawnInv, KnownInv,
         NEW p \in Poller, NEW cur \in Projection, Publish(p, cur)
  PROVE  KnownInv'
<1> USE ConstantAssumption
<1>1. CASE ~NeedsSynthetic(cur)
  <2>1. /\ Set(p, "idle", NoLocals) /\ UNCHANGED <<synIds, orders, landing>>
    BY <1>1 DEF Publish, PublishAll, db
  <2>2. NoLocals.cur.orders = {} /\ NoLocals.doomed = {}
    BY DEF NoLocals, Untracked
  <2>3. QED
    BY <2>1, <2>2, UntrackedType, KnownLocal
<1>2. CASE NeedsSynthetic(cur)
  <2>1. usedSyn = {} /\ cur.orders = {}
    BY <1>2 DEF NeedsSynthetic, DrawnInv
  <2>2. PICK o \in SynOrder :
          /\ synIds' = synIds \cup {o}
          /\ Set(p, "put", [loc[p] EXCEPT !.cur = Complete(cur), !.order = o])
    BY <1>2 DEF Publish, PublishThenPut
  <2>3. UNCHANGED <<orders, landing>>
    BY <1>2 DEF Publish, db
  <2>4. landing = {} /\ orders \cap SynOrder = {}
          /\ \A q \in Poller : /\ loc[q].cur.orders \cap SynOrder = {}
                               /\ loc[q].doomed = {}
                               /\ pc[q] \notin {"put", "deleted"}
    BY <2>1 DEF DrawnInv, OrderInHand
  <2> DEFINE locals == [loc[p] EXCEPT !.cur = Complete(cur), !.order = o]
  <2>5. locals.cur.orders = {} /\ locals.doomed = loc[p].doomed /\ locals.order = o
    BY <2>1, LocalsOf, CompleteType DEF Locals
  <2>6. \A q \in Poller : \/ q # p /\ pc'[q] = pc[q] /\ loc'[q] = loc[q]
                          \/ q = p /\ pc'[q] = "put" /\ loc'[q] = locals
    BY <2>2 DEF Set, TypeOK
  <2>7. \A q \in Poller, i \in SynOrder : Putting(q, i)' => q = p /\ i = o
    BY <2>4, <2>5, <2>6 DEF Putting
  <2>8. \A i \in SynOrder : PutPending(i)' => i = o
    BY <2>3, <2>4, <2>7 DEF PutPending
  <2>9. \A q \in Poller : /\ loc'[q].cur.orders \cap SynOrder = {}
                          /\ loc'[q].doomed = {}
                          /\ pc'[q] # "deleted"
    BY <2>4, <2>5, <2>6
  <2>10. QED
    BY <2>2, <2>3, <2>4, <2>7, <2>8, <2>9 DEF KnownInv
<1>3. QED
  BY <1>1, <1>2

LEMMA KnownPoll ==
  ASSUME TypeOK, OrderInHand, DrawnInv, KnownInv, NEW p \in Poller,
         ReadNegotiation(p) \/ Proceed(p) \/ Fault(p)
  PROVE  KnownInv'
<1> USE ConstantAssumption
<1> DEFINE mine == loc[p]
<1>1. mine \in Locals /\ mine.cur \in Projection
  BY LocalsOf
<1>2. NoLocals \in Locals /\ NoLocals.cur.orders = {} /\ NoLocals.doomed = {}
  BY UntrackedType DEF NoLocals, Untracked
<1>3. \A o \in SynOrder : PutPending(o) =>
        o \notin orders /\ o \notin mine.cur.orders /\ o \notin mine.doomed
  BY DEF KnownInv
<1>4. ASSUME NEW point, NEW locals \in Locals, Set(p, point, locals),
             point \notin {"put", "deleted"},
             locals.cur.orders \subseteq orders \cup mine.cur.orders,
             locals.doomed \subseteq mine.cur.orders \cup mine.doomed,
             UNCHANGED <<orders, synIds, landing>>
      PROVE  KnownInv'
  BY <1>3, <1>4, KnownLocal
<1>5. CASE ReadNegotiation(p)
  <2> DEFINE next == [NoLocals EXCEPT !.cur.status = neg.status, !.cur.quadrant = neg.quadrant]
  <2>1. next \in Locals /\ next.cur.orders = {} /\ next.doomed = {}
    BY <1>2 DEF Locals, Projection, TypeOK
  <2>2. UNCHANGED <<orders, synIds, landing>> /\ Set(p, "bids", next)
    BY <1>5 DEF ReadNegotiation, meter, db, proc
  <2> HIDE DEF next
  <2>3. QED
    BY <1>4, <2>1, <2>2
<1>6. CASE ReadBids(p)
  <2> DEFINE next == [mine EXCEPT !.cur.bids = bids]
  <2>1. next \in Locals /\ next.cur.orders = mine.cur.orders /\ next.doomed = mine.doomed
    BY <1>1 DEF Locals, Projection, TypeOK
  <2>2. UNCHANGED <<orders, synIds, landing>> /\ Set(p, "comms", next)
    BY <1>6 DEF ReadBids, meter, db, proc
  <2> HIDE DEF next
  <2>3. QED
    BY <1>4, <2>1, <2>2
<1>7. CASE ReadInvitations(p)
  <2> DEFINE next == [mine EXCEPT !.cur.invites = invites]
  <2>1. next \in Locals /\ next.cur.orders = mine.cur.orders /\ next.doomed = mine.doomed
    BY <1>1 DEF Locals, Projection, TypeOK
  <2>2. UNCHANGED <<orders, synIds, landing>> /\ Set(p, "feedback", next)
    BY <1>7 DEF ReadInvitations, meter, db, proc
  <2> HIDE DEF next
  <2>3. QED
    BY <1>4, <2>1, <2>2
<1>8. CASE ReadFeedback(p)
  <2> DEFINE next == [mine EXCEPT !.cur.feedback = feedback]
  <2>1. next \in Locals /\ next.cur.orders = mine.cur.orders /\ next.doomed = mine.doomed
    BY <1>1 DEF Locals, Projection, TypeOK
  <2>2. UNCHANGED <<orders, synIds, landing>> /\ Set(p, "resume", next)
    BY <1>8 DEF ReadFeedback, meter, db, proc
  <2> HIDE DEF next
  <2>3. QED
    BY <1>4, <2>1, <2>2
<1>9. CASE ReadAwards(p)
  <2>1. [mine EXCEPT !.cur.awards = VisibleAwards] \in Locals
    BY <1>1 DEF Locals, Projection, TypeOK, VisibleAwards
  <2>2. QED
    BY <1>1, <1>4, <1>9, <2>1 DEF ReadAwards, meter, db, proc, Locals, Projection
<1>10. CASE ReadOrders(p)
  <2>1. [mine EXCEPT !.cur.orders = orders] \in Locals
    BY <1>1 DEF Locals, Projection, TypeOK
  <2>2. [mine EXCEPT !.cur.orders = orders].cur.orders = orders
    BY <1>1 DEF Locals, Projection
  <2>3. QED
    BY <1>1, <1>4, <1>10, <2>1, <2>2 DEF ReadOrders, meter, db, proc, Locals
<1>11. CASE Resume(p)
  <2>1. [mine EXCEPT !.prev = st] \in Locals
    BY <1>1 DEF Locals, TypeOK
  <2>2. QED
    BY <1>1, <1>2, <1>4, <1>11, <2>1 DEF Resume, meter, db, proc, Locals
<1>12. CASE FetchFault(p) \/ ReadFault(p)
  BY <1>1, <1>2, <1>4, <1>12 DEF FetchFault, ReadFault, db, proc
<1>13. CASE Split(p)
  <2> DEFINE real == mine.cur.orders \ synIds
             synthetic == mine.cur.orders \cap synIds
             next == [mine EXCEPT !.cur.orders = real, !.doomed = synthetic]
  <2>1. CASE real # {} /\ synthetic # {}
    <3>1. next \in Locals /\ next.cur.orders = real /\ next.doomed = synthetic
      BY <1>1 DEF Locals, Projection, TypeOK
    <3>2. UNCHANGED <<orders, synIds, landing>> /\ Set(p, "delete", next)
      BY <1>13, <2>1 DEF Split, meter, db, proc
    <3> HIDE DEF next
    <3>3. QED
      BY <1>4, <3>1, <3>2
  <2>2. CASE ~(real # {} /\ synthetic # {})
    BY <1>1, <1>13, <2>2, KnownPublish DEF Split
  <2>3. QED
    BY <2>1, <2>2
<1>14. CASE Delete(p)
  <2>1. PICK o \in mine.doomed :
          /\ orders' = orders \ {o}
          /\ Set(p, "deleted", [mine EXCEPT !.order = o])
    BY <1>14 DEF Delete
  <2> DEFINE next == [mine EXCEPT !.order = o]
  <2>0. Set(p, "deleted", next)
    BY <2>1
  <2>2. o \in SynOrder /\ next \in Locals /\ next.order = o
          /\ next.cur = mine.cur /\ next.doomed = mine.doomed
    BY <1>1, LocalsOf DEF Locals
  <2>3. UNCHANGED <<synIds, landing>>
    BY <1>14 DEF Delete, proc, meter
  <2>4. ~PutPending(o)
    BY <1>3, <2>2
  <2> HIDE DEF next
  <2>5. QED
    BY <1>1, <1>3, <2>0, <2>1, <2>2, <2>3, <2>4, KnownLocal
<1>15. CASE DeleteFault(p)
  <2>1. PICK o \in mine.doomed :
          /\ landing' \in {landing, landing \cup {<<"delete", o>>}}
          /\ Set(p, "delete", [mine EXCEPT !.doomed = @ \ {o}])
    BY <1>15 DEF DeleteFault
  <2> DEFINE next == [mine EXCEPT !.doomed = @ \ {o}]
  <2>2. o \in SynOrder /\ next \in Locals /\ next.cur = mine.cur
          /\ next.doomed \subseteq mine.doomed
    BY <1>1, LocalsOf DEF Locals
  <2>3. landing' \subseteq landing \cup ({"delete"} \X SynOrder)
    BY <2>1, <2>2
  <2>4. UNCHANGED <<orders, synIds>>
    BY <1>15 DEF DeleteFault, db, proc
  <2>5. QED
    BY <1>1, <1>3, <2>1, <2>2, <2>3, <2>4, KnownLocal
<1>16. CASE Deleted(p)
  <2> DEFINE next == [mine EXCEPT !.doomed = @ \ {mine.order}, !.order = NoOrder]
  <2>1. next \in Locals /\ next.cur = mine.cur /\ next.doomed \subseteq mine.doomed
    BY <1>1 DEF Locals
  <2>2. /\ mine.order \in SynOrder /\ mine.order \notin orders /\ ~PutPending(mine.order)
    BY <1>16 DEF Deleted, OrderInHand, KnownInv
  <2>3. synIds' = synIds \ {mine.order} /\ UNCHANGED <<orders, landing>>
          /\ Set(p, "delete", next)
    BY <1>16 DEF Deleted, db, meter
  <2>4. QED
    BY <1>1, <1>3, <2>1, <2>2, <2>3, KnownLocal
<1>17. CASE DeletesDone(p)
  BY <1>1, <1>17, KnownPublish DEF DeletesDone
<1>18. CASE Put(p) \/ PutFault(p)
  BY <1>18, KnownPut
<1>19. CASE Finish(p)
  BY <1>2, <1>4, <1>19 DEF Finish, db, meter
<1>20. QED
  BY <1>5, <1>6, <1>7, <1>8, <1>9, <1>10, <1>11, <1>12, <1>13, <1>14, <1>15, <1>16,
     <1>17, <1>18, <1>19 DEF Proceed, Fault

LEMMA KnownLand ==
  ASSUME TypeOK, KnownInv, NEW call \in landing, Land(call)
  PROVE  KnownInv'
<1>1. UNCHANGED <<pc, loc, synIds>> /\ landing' = landing \ {call}
  BY DEF Land, proc
<1>2. \A p \in Poller, o \in SynOrder : Putting(p, o)' <=> Putting(p, o)
  BY <1>1 DEF Putting
<1>3. \A o \in SynOrder : PutPending(o)' => PutPending(o)
  BY <1>1, <1>2 DEF PutPending
<1>4. PICK i \in SynOrder : call \in {<<"put", i>>, <<"delete", i>>}
  BY DEF TypeOK
<1>5. CASE call = <<"put", i>>
  <2>1. orders' = orders \cup {i}
    BY <1>5 DEF Land
  <2>2. PutPending(i) /\ \A p \in Poller : ~Putting(p, i)
    BY <1>5 DEF PutPending, KnownInv
  <2>3. ~PutPending(i)'
    BY <1>1, <1>2, <1>5, <2>2 DEF PutPending
  <2>4. QED
    BY <1>1, <1>2, <1>3, <2>1, <2>2, <2>3 DEF KnownInv
<1>6. CASE call = <<"delete", i>>
  <2>1. orders' \subseteq orders
    BY <1>6 DEF Land
  <2>2. QED
    BY <1>1, <1>2, <1>3, <2>1 DEF KnownInv
<1>7. QED
  BY <1>4, <1>5, <1>6

LEMMA KnownStep ==
  ASSUME TypeOK, OrderInHand, restarts = 0 => DrawnInv /\ KnownInv, [Next]_vars
  PROVE  (restarts = 0 => KnownInv)'
<1>1. CASE Restart
  BY <1>1 DEF Restart, TypeOK
<1>2. CASE Orchestrator \/ ResetStep \/ Subscribe \/ UNCHANGED vars
  <2>1. /\ UNCHANGED <<pc, loc, synIds, landing, restarts>>
        /\ orders' \subseteq orders \cup RealOrder
    BY <1>2
    DEF Orchestrator, OrchStatus, OrchClassify, OrchInvite, OrchFeedback, OrchBid,
        OrchAward, OrchOrder, ResetStep, Subscribe, vars, db, proc, meter
  <2>2. \A o \in SynOrder : o \in orders' => o \in orders
    BY <2>1, ConstantAssumption
  <2>3. \A p \in Poller, o \in SynOrder : Putting(p, o)' <=> Putting(p, o)
    BY <2>1 DEF Putting
  <2>4. \A o \in SynOrder : PutPending(o)' <=> PutPending(o)
    BY <2>1, <2>3 DEF PutPending
  <2>5. \A p \in Poller : pc[p] = "deleted" => loc[p].order \in SynOrder
    BY DEF OrderInHand
  <2>6. QED
    BY <2>1, <2>2, <2>3, <2>4, <2>5 DEF KnownInv
<1>3. CASE \E call \in landing : Land(call)
  <2>1. UNCHANGED restarts
    BY <1>3 DEF Land
  <2>2. QED
    BY <1>3, <2>1, KnownLand
<1>4. CASE \E p \in Poller : ReadNegotiation(p) \/ Proceed(p) \/ Fault(p)
  <2>1. \A p, cur : Publish(p, cur) => restarts' = restarts
    BY DEF Publish
  <2>2. restarts' = restarts
    BY <1>4, <2>1
    DEF Proceed, Fault, ReadNegotiation, ReadBids, ReadInvitations, ReadFeedback, Resume,
        ReadAwards, ReadOrders, Split, Delete, Deleted, DeletesDone, Put, Finish,
        FetchFault, ReadFault, DeleteFault, PutFault, meter
  <2>3. QED
    BY <1>4, <2>2, KnownPoll
<1>5. QED
  BY <1>1, <1>2, <1>3, <1>4 DEF Next

(* Until a restart no synthetic row in the table passes for a real one. *)
THEOREM SyntheticRecognised == Spec => []SyntheticKnown
<1>1. Init => (restarts = 0 => DrawnInv /\ KnownInv)
  BY DEF Init, DrawnInv, KnownInv, PutPending, Putting, NoLocals, Untracked
<1>2. TypeOK /\ OrderInHand /\ (restarts = 0 => DrawnInv /\ KnownInv) /\ [Next]_vars
        => (restarts = 0 => DrawnInv /\ KnownInv)'
  BY DrawnStep, KnownStep
<1>3. (restarts = 0 => DrawnInv /\ KnownInv) => SyntheticKnown
  BY DEF KnownInv, SyntheticKnown
<1>4. QED
  BY <1>1, <1>2, <1>3, TypeCorrect, PTL DEF Spec


(***************************************************************************)
(* Invitations are not guessed.  A strategy that runs its agents invites    *)
(* before anyone bids, and a poll that has read bids reads communications    *)
(* later: whoever holds bids, the tables or a poll's locals, holds or will    *)
(* read an invitation, until a reset has emptied communications.                                *)
(***************************************************************************)
Guessed == sent \cap ({"auto"} \X Supplier)

(* What a poll has read when it is at a point. *)
Backed(point, cur) ==
  cur.bids # NoBids => IF point = "comms" THEN invites # {} ELSE cur.invites # {}

GuessInv ==
  cleared < 5 =>
    /\ bids # NoBids => invites # {}
    /\ \A p \in Poller : Backed(pc[p], loc[p].cur)
    /\ Guessed = {}

(* A poll that moves on with locals that are backed. *)
LEMMA GuessSet ==
  ASSUME TypeOK, GuessInv, NEW p \in Poller, NEW point, NEW locals,
         Set(p, point, locals), UNCHANGED <<bids, invites, cleared>>,
         cleared < 5 => Backed(point, locals.cur) /\ Guessed' = {}
  PROVE  GuessInv'
<1> SUFFICES ASSUME cleared' < 5
             PROVE  /\ bids' # NoBids => invites' # {}
                    /\ \A q \in Poller : Backed(pc[q], loc[q].cur)'
                    /\ Guessed' = {}
  BY DEF GuessInv
<1>1. cleared < 5 /\ Guessed' = {} /\ Backed(point, locals.cur)
  OBVIOUS
<1>2. ASSUME NEW q \in Poller PROVE Backed(pc[q], loc[q].cur)'
  <2>1. CASE q = p
    <3>1. pc'[q] = point /\ loc'[q] = locals
      BY <2>1 DEF Set, TypeOK
    <3> QED
      BY <1>1, <3>1 DEF Backed
  <2>2. CASE q # p
    <3>1. pc'[q] = pc[q] /\ loc'[q] = loc[q]
      BY <2>2 DEF Set, TypeOK
    <3> QED
      BY <1>1, <3>1 DEF Backed, GuessInv
  <2> QED
    BY <2>1, <2>2
<1> QED
  BY <1>1, <1>2 DEF GuessInv

LEMMA NothingBacked == \A point : point # "comms" => Backed(point, Untracked)
  BY DEF Backed, Untracked

(* With invitations, or without bids, none is derived. *)
LEMMA NoneDerived ==
  ASSUME NEW cur \in Projection, cur.bids # NoBids => cur.invites # {}
  PROVE  AutoInvited(cur) = {}
  BY DEF AutoInvited, NoBids, Projection

(* What a poll announces besides is of another kind. *)
LEMMA OtherKinds ==
  ASSUME NEW cur \in Projection, NEW prev \in Projection
  PROVE  (NewEvents(cur, prev) \cup NewOrders(cur, prev) \cup StatusEvent(cur))
           \cap ({"auto"} \X Supplier) = {}
<1>1. \A e \in NewEvents(cur, prev) \cup NewOrders(cur, prev) \cup StatusEvent(cur) :
        e[1] # "auto"
  BY DEF NewEvents, NewOrders, StatusEvent
<1>2. \A e \in {"auto"} \X Supplier : e[1] = "auto"
  OBVIOUS
<1> QED
  BY <1>1, <1>2

LEMMA GuessPublish ==
  ASSUME TypeOK, GuessInv, NEW p \in Poller, NEW cur \in Projection, Publish(p, cur),
         cleared < 5 => (cur.bids # NoBids => cur.invites # {})
  PROVE  GuessInv'
<1> DEFINE prev == loc[p].prev
<1>1. loc[p] \in Locals /\ prev \in Projection
  BY LocalsOf
<1>2. UNCHANGED <<bids, invites, cleared>>
  BY DEF Publish, db
<1>3. (NewEvents(cur, prev) \cup NewOrders(cur, prev) \cup StatusEvent(cur))
        \cap ({"auto"} \X Supplier) = {}
  BY <1>1, OtherKinds
<1>4. cleared < 5 => AutoInvited(cur) = {}
  BY NoneDerived
<1>5. cleared < 5 => Guessed = {}
  BY DEF GuessInv
<1>6. CASE PublishAll(p, cur)
  <2>1. cleared < 5 => Guessed' = {}
    BY <1>3, <1>4, <1>5, <1>6 DEF PublishAll, Announce, FirstTime, Guessed
  <2>2. Set(p, "idle", NoLocals) /\ NoLocals.cur = Untracked
    BY <1>6 DEF PublishAll, NoLocals
  <2> QED
    BY <1>2, <2>1, <2>2, GuessSet, NothingBacked
<1>7. CASE PublishThenPut(p, cur)
  <2>1. cleared < 5 => Guessed' = {}
    BY <1>3, <1>4, <1>5, <1>7 DEF PublishThenPut, Announce, FirstTime, Guessed
  <2>2. PICK o \in SynOrder :
          Set(p, "put", [loc[p] EXCEPT !.cur = Complete(cur), !.order = o])
    BY <1>7 DEF PublishThenPut
  <2>3. [loc[p] EXCEPT !.cur = Complete(cur), !.order = o].cur = Complete(cur)
    BY <1>1 DEF Locals
  <2>4. cleared < 5 => Backed("put", Complete(cur))
    BY CompleteType DEF Backed
  <2> QED
    BY <1>2, <2>1, <2>2, <2>3, <2>4, GuessSet
<1> QED
  BY <1>6, <1>7 DEF Publish

LEMMA GuessTables ==
  ASSUME TypeOK, GuessInv, ~Bypass,
         Orchestrator \/ ResetStep \/ Restart \/ Subscribe \/ UNCHANGED vars
           \/ \E call \in landing : Land(call)
  PROVE  GuessInv'
<1>1. CASE ResetStep
  <2>1. /\ UNCHANGED <<pc, loc, sent>> /\ bids' \in {bids, NoBids}
        /\ cleared' < 5 => cleared < 5 /\ invites' = invites
    BY <1>1 DEF ResetStep, TypeOK, seen
  <2>2. ASSUME cleared' < 5, NEW p \in Poller PROVE Backed(pc[p], loc[p].cur)'
    BY <2>1, <2>2 DEF Backed, GuessInv
  <2> QED
    BY <2>1, <2>2 DEF GuessInv, Guessed
<1>2. CASE Restart
  <2>1. /\ \A p \in Poller : pc'[p] = "idle" /\ loc'[p] = NoLocals
        /\ sent' = {} /\ UNCHANGED <<bids, invites, cleared>>
    BY <1>2 DEF Restart, db
  <2>2. \A p \in Poller : Backed(pc[p], loc[p].cur)'
    BY <2>1 DEF Backed, NoLocals, Untracked
  <2> QED
    BY <2>1, <2>2 DEF GuessInv, Guessed
<1>3. CASE Orchestrator \/ Subscribe \/ UNCHANGED vars \/ \E call \in landing : Land(call)
  <2>1. UNCHANGED <<pc, loc, sent, cleared>> /\ invites \subseteq invites'
    BY <1>3 DEF Orchestrator, OrchStatus, OrchClassify, OrchInvite, OrchFeedback, OrchBid,
       OrchAward, OrchOrder, Subscribe, Land, vars, seen, db
  <2>2. bids' = bids \/ invites # {}
    BY <1>3 DEF Orchestrator, OrchStatus, OrchClassify, OrchInvite, OrchFeedback, OrchBid,
       OrchAward, OrchOrder, Subscribe, Land, vars, db
  <2>3. \A p \in Poller : Backed(pc[p], loc[p].cur) => Backed(pc[p], loc[p].cur)'
    BY <2>1 DEF Backed
  <2> QED
    BY <2>1, <2>2, <2>3 DEF GuessInv, Guessed
<1> QED
  BY <1>1, <1>2, <1>3

LEMMA GuessPoll ==
  ASSUME TypeOK, GuessInv, NEW p \in Poller,
         ReadNegotiation(p) \/ Proceed(p) \/ Fault(p)
  PROVE  GuessInv'
<1>0. /\ loc[p] \in Locals /\ loc[p].cur \in Projection /\ loc[p].prev \in Projection
      /\ NoLocals.cur = Untracked
  BY LocalsOf DEF NoLocals
<1>1. cleared < 5 => Backed(pc[p], loc[p].cur) /\ Guessed = {}
  BY DEF GuessInv
<1>2. CASE ReadNegotiation(p)
  <2>1. UNCHANGED <<bids, invites, cleared, sent>>
    BY <1>2 DEF ReadNegotiation, db, seen
  <2>2. Backed("bids", [NoLocals EXCEPT !.cur.status = neg.status,
                                        !.cur.quadrant = neg.quadrant].cur)
    BY DEF Backed, NoLocals, Untracked
  <2>3. Set(p, "bids", [NoLocals EXCEPT !.cur.status = neg.status,
                                        !.cur.quadrant = neg.quadrant])
    BY <1>2 DEF ReadNegotiation
  <2> QED
    BY <1>1, <2>1, <2>2, <2>3, GuessSet DEF Guessed
<1>3. CASE ReadBids(p)
  <2>1. UNCHANGED <<bids, invites, cleared, sent>>
    BY <1>3 DEF ReadBids, db, seen
  <2>2. [loc[p] EXCEPT !.cur.bids = bids].cur.bids = bids
    BY <1>0 DEF Locals, Projection
  <2>3. cleared < 5 => Backed("comms", [loc[p] EXCEPT !.cur.bids = bids].cur)
    BY <2>2 DEF Backed, GuessInv
  <2>4. Set(p, "comms", [loc[p] EXCEPT !.cur.bids = bids])
    BY <1>3 DEF ReadBids
  <2> QED
    BY <1>1, <2>1, <2>3, <2>4, GuessSet DEF Guessed
<1>4. CASE ReadInvitations(p)
  <2>1. UNCHANGED <<bids, invites, cleared, sent>> /\ pc[p] = "comms"
    BY <1>4 DEF ReadInvitations, db, seen
  <2>2. /\ [loc[p] EXCEPT !.cur.invites = invites].cur.bids = loc[p].cur.bids
        /\ [loc[p] EXCEPT !.cur.invites = invites].cur.invites = invites
    BY <1>0 DEF Locals, Projection
  <2>3. cleared < 5 => Backed("feedback", [loc[p] EXCEPT !.cur.invites = invites].cur)
    BY <1>1, <2>1, <2>2 DEF Backed
  <2>4. Set(p, "feedback", [loc[p] EXCEPT !.cur.invites = invites])
    BY <1>4 DEF ReadInvitations
  <2> QED
    BY <1>1, <2>1, <2>3, <2>4, GuessSet DEF Guessed
<1>5. ASSUME pc[p] # "comms", NEW point, NEW locals, Set(p, point, locals),
             UNCHANGED <<bids, invites, cleared, sent>>, point # "comms",
             \/ locals.cur = Untracked
             \/ /\ locals.cur.bids = loc[p].cur.bids
                /\ locals.cur.invites = loc[p].cur.invites
      PROVE  GuessInv'
  <2>1. cleared < 5 => Backed(point, locals.cur)
    BY <1>1, <1>5, NothingBacked DEF Backed
  <2> QED
    BY <1>1, <1>5, <2>1, GuessSet DEF Guessed
<1>6. CASE ReadFeedback(p) \/ ReadAwards(p) \/ ReadOrders(p) \/ Resume(p)
  <2>1. /\ [loc[p] EXCEPT !.cur.feedback = feedback].cur.bids = loc[p].cur.bids
        /\ [loc[p] EXCEPT !.cur.feedback = feedback].cur.invites = loc[p].cur.invites
        /\ [loc[p] EXCEPT !.cur.awards = VisibleAwards].cur.bids = loc[p].cur.bids
        /\ [loc[p] EXCEPT !.cur.awards = VisibleAwards].cur.invites = loc[p].cur.invites
        /\ [loc[p] EXCEPT !.cur.orders = orders].cur.bids = loc[p].cur.bids
        /\ [loc[p] EXCEPT !.cur.orders = orders].cur.invites = loc[p].cur.invites
        /\ [loc[p] EXCEPT !.prev = st].cur = loc[p].cur
    BY <1>0 DEF Locals, Projection
  <2>2. pc[p] # "comms" /\ UNCHANGED <<bids, invites, cleared, sent>>
    BY <1>6 DEF ReadFeedback, ReadAwards, ReadOrders, Resume, db, seen
  <2>3. CASE ReadFeedback(p)
    BY <1>5, <2>1, <2>2, <2>3 DEF ReadFeedback
  <2>4. CASE ReadAwards(p)
    BY <1>5, <2>1, <2>2, <2>4 DEF ReadAwards
  <2>5. CASE ReadOrders(p)
    BY <1>5, <2>1, <2>2, <2>5 DEF ReadOrders
  <2>6. CASE Resume(p)
    BY <1>0, <1>5, <2>1, <2>2, <2>6 DEF Resume
  <2> QED
    BY <1>6, <2>3, <2>4, <2>5, <2>6
<1>7. CASE FetchFault(p)
  <2>1. UNCHANGED <<bids, invites, cleared, sent>> /\ Set(p, "idle", NoLocals)
    BY <1>7 DEF FetchFault, db, seen
  <2> QED
    BY <1>0, <1>1, <2>1, NothingBacked, GuessSet DEF Guessed
<1>8. CASE ReadFault(p) \/ PutFault(p) \/ Put(p)
  <2>1. /\ pc[p] # "comms" /\ UNCHANGED <<bids, invites, cleared, sent>>
        /\ \E point \in {"orders", "split", "finish"} : Set(p, point, loc[p])
    BY <1>8 DEF ReadFault, PutFault, Put, db, seen
  <2> QED
    BY <1>5, <2>1
<1>9. CASE Delete(p) \/ DeleteFault(p) \/ Deleted(p)
  <2>1. /\ \A o : [loc[p] EXCEPT !.order = o].cur = loc[p].cur
        /\ \A o : [loc[p] EXCEPT !.doomed = @ \ {o}].cur = loc[p].cur
        /\ \A o : [loc[p] EXCEPT !.doomed = @ \ {o}, !.order = NoOrder].cur = loc[p].cur
    BY <1>0 DEF Locals
  <2>2. /\ pc[p] # "comms" /\ UNCHANGED <<bids, invites, cleared, sent>>
    BY <1>9 DEF Delete, DeleteFault, Deleted, db, seen
  <2>3. \E point \in {"delete", "deleted"} : \E locals :
          Set(p, point, locals) /\ locals.cur = loc[p].cur
    BY <1>9, <2>1 DEF Delete, DeleteFault, Deleted
  <2> QED
    BY <1>5, <2>2, <2>3
<1>10. CASE Split(p)
  <2>1. pc[p] = "split"
    BY <1>10 DEF Split
  <2>2. CASE Publish(p, loc[p].cur)
    BY <1>0, <1>1, <2>1, <2>2, GuessPublish DEF Backed
  <2>3. CASE ~Publish(p, loc[p].cur)
    <3>1. PICK real, synthetic :
            /\ Set(p, "delete", [loc[p] EXCEPT !.cur.orders = real, !.doomed = synthetic])
            /\ UNCHANGED <<bids, invites, cleared, sent>>
      BY <1>10, <2>3 DEF Split, db, seen
    <3>2. /\ [loc[p] EXCEPT !.cur.orders = real, !.doomed = synthetic].cur.bids = loc[p].cur.bids
          /\ [loc[p] EXCEPT !.cur.orders = real, !.doomed = synthetic].cur.invites
               = loc[p].cur.invites
      BY <1>0 DEF Locals, Projection
    <3> QED
      BY <1>5, <2>1, <3>1, <3>2
  <2> QED
    BY <2>2, <2>3
<1>11. CASE DeletesDone(p)
  BY <1>0, <1>1, <1>11, GuessPublish DEF DeletesDone, Backed
<1>12. CASE Finish(p)
  <2>1. UNCHANGED <<bids, invites, cleared>> /\ Set(p, "idle", NoLocals)
    BY <1>12 DEF Finish, db
  <2>2. (NewEvents(loc[p].cur, loc[p].prev) \cup NewOrders(loc[p].cur, loc[p].prev)
          \cup StatusEvent(loc[p].cur)) \cap ({"auto"} \X Supplier) = {}
    BY <1>0, OtherKinds
  <2>3. cleared < 5 => Guessed' = {}
    BY <1>1, <1>12, <2>2 DEF Finish, Announce, FirstTime, Guessed
  <2> QED
    BY <1>0, <2>1, <2>3, NothingBacked, GuessSet
<1> QED
  BY <1>2, <1>3, <1>4, <1>6, <1>7, <1>8, <1>9, <1>10, <1>11, <1>12 DEF Proceed, Fault

LEMMA GuessStep ==
  ASSUME TypeOK, ~Bypass => GuessInv, [Next]_vars
  PROVE  (~Bypass => GuessInv)'
<1> SUFFICES ASSUME ~Bypass PROVE GuessInv'
  OBVIOUS
<1> QED
  BY GuessTables, GuessPoll DEF Next

(* Bids are read before communications: while no reset has begun, a negotiation *)
(* whose strategy invites suppliers is never shown invitations guessed from its *)
(* bids, however many polls overlap, fail or are cut short by a restart.       *)
THEOREM NoGuess == Spec => []InvitationsNotGuessed
<1>1. Init => (~Bypass => GuessInv)
  BY DEF Init, GuessInv, Guessed, Backed, NoLocals, Untracked
<1>2. TypeOK /\ OrderInHand /\ (~Bypass => GuessInv) /\ [Next]_vars => (~Bypass => GuessInv)'
  BY GuessStep
<1>3. TypeOK /\ (~Bypass => GuessInv) => InvitationsNotGuessed
  BY DEF TypeOK, GuessInv, Guessed, InvitationsNotGuessed
<1> QED
  BY <1>1, <1>2, <1>3, TypeCorrect, PTL DEF Spec

(***************************************************************************)
(* poll_loop alone: what the guards of poll_once do not give, and the order  *)
(* of a single caller's polls does.                                        *)
(***************************************************************************)
OnePoller == \E p \in Poller : Poller = {p}

Flow == {<<"bids", "comms">>, <<"comms", "feedback">>, <<"feedback", "resume">>,
         <<"resume", "awards">>, <<"resume", "split">>, <<"awards", "orders">>,
         <<"orders", "split">>, <<"split", "delete">>, <<"delete", "deleted">>,
         <<"delete", "delete">>, <<"deleted", "delete">>, <<"put", "finish">>}

(* A step of a poll that announces nothing: it gives up, or goes on with
   what it has read besides.                                               *)
Carries(p) ==
  /\ <<pc[p], pc'[p]>> \in Flow
  /\ loc'[p].cur.status = loc[p].cur.status
  /\ loc'[p].cur.bids = IF pc[p] = "bids" THEN bids ELSE loc[p].cur.bids
  /\ loc'[p].cur.invites = IF pc[p] = "comms" THEN invites ELSE loc[p].cur.invites
  /\ \/ loc'[p].cur.orders = loc[p].cur.orders /\ pc[p] # "split"
     \/ loc'[p].cur.orders = orders /\ pc[p] = "orders"
     \/ loc'[p].cur.orders = loc[p].cur.orders \ synIds /\ pc[p] = "split"
  /\ loc'[p].prev = IF pc[p] = "resume" THEN st ELSE loc[p].prev
  /\ pc[p] = "split" => loc[p].cur.orders \ synIds # {}
  /\ loc'[p].doomed \subseteq
       IF pc[p] = "split" THEN loc[p].cur.orders \cap synIds ELSE loc[p].doomed
  /\ pc[p] \in {"put", "finish"} => loc'[p] = loc[p]
  /\ pc[p] # "deleted" => synIds' = synIds

Quiet == UNCHANGED <<neg, bids, invites, cleared, entered, reentered, st, pubStatus,
                     sent, resent, restarts>>

GivesUp(p) == pc'[p] = "idle" /\ loc'[p] = NoLocals

QuietStep(p) ==
  \/ ReadBids(p) \/ ReadInvitations(p) \/ ReadFeedback(p) \/ Resume(p)
  \/ ReadAwards(p) \/ ReadOrders(p) \/ (Split(p) /\ ~Publish(p, loc[p].cur))
  \/ Delete(p) \/ Deleted(p) \/ Put(p) \/ Fault(p)

LEMMA Steps ==
  ASSUME NEW p \in Poller, ReadNegotiation(p) \/ Proceed(p) \/ Fault(p)
  PROVE  \/ ReadNegotiation(p) \/ QuietStep(p) \/ Finish(p)
         \/ pc[p] = "split" /\ Split(p) /\ Publish(p, loc[p].cur)
         \/ pc[p] = "delete" /\ Publish(p, loc[p].cur)
  BY DEF Proceed, QuietStep, DeletesDone, Split

LEMMA QuietEffect ==
  ASSUME TypeOK, NEW p \in Poller, QuietStep(p)
  PROVE  Quiet /\ pc[p] # "idle" /\ (GivesUp(p) \/ Carries(p))
<1>0. /\ loc[p] \in Locals /\ loc[p].cur \in Projection /\ loc[p].prev \in Projection
      /\ \A point, l : Set(p, point, l) => pc'[p] = point /\ loc'[p] = l
  BY LocalsOf DEF Set, TypeOK
<1> USE DEF Quiet, db, hist, proc, seen, meter
<1>1. CASE ReadBids(p)
  <2> DEFINE l == [loc[p] EXCEPT !.cur.bids = bids]
  <2>1. Set(p, "comms", l) /\ pc[p] = "bids" /\ Quiet /\ synIds' = synIds
    BY <1>1 DEF ReadBids
  <2>2. /\ l.cur.status = loc[p].cur.status /\ l.cur.invites = loc[p].cur.invites
        /\ l.cur.orders = loc[p].cur.orders /\ l.cur.bids = bids
        /\ l.prev = loc[p].prev /\ l.doomed = loc[p].doomed
    BY <1>0 DEF Locals, Projection
  <2> HIDE DEF l
  <2>3. loc'[p] = l /\ pc'[p] = "comms"
    BY <1>0, <2>1
  <2> QED
    BY <2>1, <2>2, <2>3 DEF Carries, Flow
<1>2. CASE ReadInvitations(p)
  <2> DEFINE l == [loc[p] EXCEPT !.cur.invites = invites]
  <2>1. Set(p, "feedback", l) /\ pc[p] = "comms" /\ Quiet /\ synIds' = synIds
    BY <1>2 DEF ReadInvitations
  <2>2. /\ l.cur.status = loc[p].cur.status /\ l.cur.bids = loc[p].cur.bids
        /\ l.cur.orders = loc[p].cur.orders /\ l.cur.invites = invites
        /\ l.prev = loc[p].prev /\ l.doomed = loc[p].doomed
    BY <1>0 DEF Locals, Projection
  <2> HIDE DEF l
  <2>3. loc'[p] = l /\ pc'[p] = "feedback"
    BY <1>0, <2>1
  <2> QED
    BY <2>1, <2>2, <2>3 DEF Carries, Flow
<1>3. CASE ReadFeedback(p)
  <2> DEFINE l == [loc[p] EXCEPT !.cur.feedback = feedback]
  <2>1. Set(p, "resume", l) /\ pc[p] = "feedback" /\ Quiet /\ synIds' = synIds
    BY <1>3 DEF ReadFeedback
  <2>2. /\ l.cur.status = loc[p].cur.status /\ l.cur.bids = loc[p].cur.bids
        /\ l.cur.invites = loc[p].cur.invites /\ l.cur.orders = loc[p].cur.orders
        /\ l.prev = loc[p].prev /\ l.doomed = loc[p].doomed
    BY <1>0 DEF Locals, Projection
  <2> HIDE DEF l
  <2>3. loc'[p] = l /\ pc'[p] = "resume"
    BY <1>0, <2>1
  <2> QED
    BY <2>1, <2>2, <2>3 DEF Carries, Flow
<1>4. CASE Resume(p)
  <2>1. /\ pc[p] = "resume" /\ Quiet /\ synIds' = synIds
        /\ \/ Set(p, "idle", NoLocals)
           \/ \E point \in {"awards", "split"} : Set(p, point, [loc[p] EXCEPT !.prev = st])
    BY <1>4 DEF Resume
  <2>2. CASE Set(p, "idle", NoLocals)
    BY <1>0, <2>1, <2>2 DEF GivesUp
  <2>3. ASSUME NEW point \in {"awards", "split"}, Set(p, point, [loc[p] EXCEPT !.prev = st])
        PROVE Carries(p)
    <3>1. /\ [loc[p] EXCEPT !.prev = st].cur = loc[p].cur /\ [loc[p] EXCEPT !.prev = st].prev = st
          /\ [loc[p] EXCEPT !.prev = st].doomed = loc[p].doomed
      BY <1>0 DEF Locals
    <3>2. /\ loc'[p].cur = loc[p].cur /\ loc'[p].prev = st /\ pc'[p] = point
          /\ loc'[p].doomed = loc[p].doomed
      BY <1>0, <2>3, <3>1
    <3> QED
      BY <2>1, <2>3, <3>2 DEF Carries, Flow
  <2> QED
    BY <2>1, <2>2, <2>3
<1>5. CASE ReadAwards(p)
  <2> DEFINE l == [loc[p] EXCEPT !.cur.awards = VisibleAwards]
  <2>1. Set(p, "orders", l) /\ pc[p] = "awards" /\ Quiet /\ synIds' = synIds
    BY <1>5 DEF ReadAwards
  <2>2. /\ l.cur.status = loc[p].cur.status /\ l.cur.bids = loc[p].cur.bids
        /\ l.cur.invites = loc[p].cur.invites /\ l.cur.orders = loc[p].cur.orders
        /\ l.prev = loc[p].prev /\ l.doomed = loc[p].doomed
    BY <1>0 DEF Locals, Projection
  <2> HIDE DEF l
  <2>3. loc'[p] = l /\ pc'[p] = "orders"
    BY <1>0, <2>1
  <2> QED
    BY <2>1, <2>2, <2>3 DEF Carries, Flow
<1>6. CASE ReadOrders(p)
  <2> DEFINE l == [loc[p] EXCEPT !.cur.orders = orders]
  <2>1. Set(p, "split", l) /\ pc[p] = "orders" /\ Quiet /\ synIds' = synIds
    BY <1>6 DEF ReadOrders
  <2>2. /\ l.cur.status = loc[p].cur.status /\ l.cur.bids = loc[p].cur.bids
        /\ l.cur.invites = loc[p].cur.invites /\ l.cur.orders = orders
        /\ l.prev = loc[p].prev /\ l.doomed = loc[p].doomed
    BY <1>0 DEF Locals, Projection
  <2> HIDE DEF l
  <2>3. loc'[p] = l /\ pc'[p] = "split"
    BY <1>0, <2>1
  <2> QED
    BY <2>1, <2>2, <2>3 DEF Carries, Flow
<1>7. CASE Split(p) /\ ~Publish(p, loc[p].cur)
  <2> DEFINE doomed == loc[p].cur.orders \cap synIds
             l == [loc[p] EXCEPT !.cur.orders = loc[p].cur.orders \ synIds, !.doomed = doomed]
  <2>1. Set(p, "delete", l)
    BY <1>7 DEF Split
  <2>2. pc[p] = "split" /\ Quiet /\ synIds' = synIds /\ loc[p].cur.orders \ synIds # {}
    BY <1>7 DEF Split
  <2>3. /\ l.cur.status = loc[p].cur.status /\ l.cur.bids = loc[p].cur.bids
        /\ l.cur.invites = loc[p].cur.invites /\ l.cur.orders = loc[p].cur.orders \ synIds
        /\ l.prev = loc[p].prev /\ l.doomed = doomed
    BY <1>0 DEF Locals, Projection
  <2>4. Set(p, "delete", l)
    BY <2>1
  <2> HIDE DEF l
  <2>5. loc'[p] = l /\ pc'[p] = "delete"
    BY <1>0, <2>4
  <2> QED
    BY <2>2, <2>3, <2>5 DEF Carries, Flow
<1>8. CASE Delete(p) \/ DeleteFault(p) \/ Deleted(p)
  <2>1. /\ \A o : [loc[p] EXCEPT !.order = o].cur = loc[p].cur
        /\ \A o : [loc[p] EXCEPT !.order = o].doomed = loc[p].doomed
        /\ \A o : [loc[p] EXCEPT !.doomed = @ \ {o}].doomed \subseteq loc[p].doomed
        /\ \A o : [loc[p] EXCEPT !.doomed = @ \ {o}, !.order = NoOrder].doomed
                     \subseteq loc[p].doomed
        /\ \A o : [loc[p] EXCEPT !.order = o].prev = loc[p].prev
        /\ \A o : [loc[p] EXCEPT !.doomed = @ \ {o}].cur = loc[p].cur
        /\ \A o : [loc[p] EXCEPT !.doomed = @ \ {o}].prev = loc[p].prev
        /\ \A o : [loc[p] EXCEPT !.doomed = @ \ {o}, !.order = NoOrder].cur = loc[p].cur
        /\ \A o : [loc[p] EXCEPT !.doomed = @ \ {o}, !.order = NoOrder].prev = loc[p].prev
    BY <1>0 DEF Locals
  <2>2. /\ Quiet /\ (pc[p] # "deleted" => synIds' = synIds)
        /\ \E point \in {"delete", "deleted"} : \E l :
             /\ Set(p, point, l) /\ <<pc[p], point>> \in Flow
             /\ l.cur = loc[p].cur /\ l.prev = loc[p].prev /\ l.doomed \subseteq loc[p].doomed
        /\ pc[p] \in {"delete", "deleted"}
    BY <1>8, <2>1 DEF Delete, DeleteFault, Deleted, Flow
  <2> QED
    BY <1>0, <2>2 DEF Carries
<1>9. CASE Put(p) \/ PutFault(p)
  <2>1. Set(p, "finish", loc[p]) /\ pc[p] = "put" /\ Quiet /\ synIds' = synIds
    BY <1>9 DEF Put, PutFault
  <2> QED
    BY <1>0, <2>1 DEF Carries, Flow
<1>10. CASE FetchFault(p)
  <2>1. Set(p, "idle", NoLocals) /\ pc[p] # "idle" /\ Quiet
    BY <1>10 DEF FetchFault
  <2> QED
    BY <1>0, <2>1 DEF GivesUp
<1>11. CASE ReadFault(p)
  <2>1. /\ \E point \in {"orders", "split"} : Set(p, point, loc[p]) /\ <<pc[p], point>> \in Flow
        /\ pc[p] \in {"awards", "orders"} /\ Quiet /\ synIds' = synIds
    BY <1>11 DEF ReadFault, Flow
  <2> QED
    BY <1>0, <2>1 DEF Carries
<1> QED
  BY <1>1, <1>2, <1>3, <1>4, <1>5, <1>6, <1>7, <1>8, <1>9, <1>10, <1>11
  DEF QuietStep, Fault

(* What a poll announces of derived invitations and of statuses. *)
Autos(E) == {s \in Supplier : <<"auto", s>> \in E}
Announced(E) == {s \in Status : <<"status", s>> \in E}

PublishesAll(p) ==
  /\ GivesUp(p)
  /\ pubStatus' = IF loc[p].cur.status = Absent THEN pubStatus ELSE loc[p].cur.status
  /\ Announced(sent') = Announced(sent) \cup ({loc[p].cur.status} \ {Absent, pubStatus})
  /\ Announced(resent') = Announced(resent)
       \cup (Announced(sent) \cap ({loc[p].cur.status} \ {Absent, pubStatus}))

PublishesBeforePut(p) ==
  /\ pc'[p] = "put" /\ loc'[p].cur = st' /\ pubStatus' = pubStatus
  /\ Announced(sent') = Announced(sent) /\ Announced(resent') = Announced(resent)

LEMMA PublishEffect ==
  ASSUME TypeOK, NEW p \in Poller, Publish(p, loc[p].cur)
  PROVE  /\ UNCHANGED <<neg, bids, invites, cleared, entered, reentered, restarts>>
         /\ st' = Complete(loc[p].cur)
         /\ PublishesAll(p) \/ PublishesBeforePut(p)
         /\ Autos(sent') = Autos(sent) \cup (AutoInvited(loc[p].cur) \ loc[p].prev.auto)
         /\ Autos(resent') = Autos(resent)
              \cup (Autos(sent) \cap (AutoInvited(loc[p].cur) \ loc[p].prev.auto))
<1> DEFINE cur == loc[p].cur
           prev == loc[p].prev
           news == AutoInvited(cur) \ prev.auto
<1>0. /\ loc[p] \in Locals /\ cur \in Projection /\ prev \in Projection
      /\ \A point, l : Set(p, point, l) => pc'[p] = point /\ loc'[p] = l
  BY LocalsOf DEF Set, TypeOK
<1>1. UNCHANGED <<neg, bids, invites, cleared, entered, reentered, restarts>>
  BY DEF Publish, db, hist
<1>2. /\ \A e \in NewEvents(cur, prev) \cup NewOrders(cur, prev) : e[1] \notin {"auto", "status"}
      /\ \A e \in {"auto"} \X news : e[1] = "auto" /\ e[2] \in news
      /\ \A s \in Supplier : s \in news => <<"auto", s>> \in {"auto"} \X news
  BY DEF NewEvents, NewOrders
<1>3. news \subseteq Supplier /\ cur.status \in Status \cup {Absent} /\ Absent \notin Status
  BY <1>0, ConstantAssumption DEF AutoInvited, Projection, AnyStatus
<1>4. \A e : e \in StatusEvent(cur) <=>
              e = <<"status", cur.status>> /\ cur.status \notin {Absent, pubStatus}
  BY DEF StatusEvent
<1>5. CASE PublishAll(p, cur)
  <2> DEFINE due == FirstTime(NewEvents(cur, prev) \cup NewOrders(cur, prev))
             all == due \cup ({"auto"} \X news) \cup StatusEvent(cur)
  <2>1. /\ st' = Complete(cur) /\ Set(p, "idle", NoLocals)
        /\ pubStatus' = IF cur.status = Absent THEN pubStatus ELSE cur.status
        /\ sent' = sent \cup all /\ resent' = resent \cup (all \cap sent)
    BY <1>5 DEF PublishAll, Announce
  <2>2. \A e \in due : e[1] \notin {"auto", "status"}
    BY <1>2 DEF FirstTime
  <2> HIDE DEF due, cur, news
  <2>3. Autos(all) = news
    <3>1. ASSUME NEW s PROVE <<"auto", s>> \in all <=> s \in news
      <4>1. <<"auto", s>> \in {"auto"} \X news <=> s \in news
        OBVIOUS
      <4>2. <<"auto", s>> \notin due /\ <<"auto", s>> \notin StatusEvent(cur)
        BY <1>4, <2>2
      <4> QED
        BY <4>1, <4>2
    <3> QED
      BY <1>3, <3>1 DEF Autos
  <2>4. Announced(all) = {cur.status} \ {Absent, pubStatus}
    <3>1. \A s : <<"status", s>> \in all <=> s = cur.status /\ s \notin {Absent, pubStatus}
      BY <1>2, <1>4, <2>2
    <3> QED
      BY <1>3, <3>1 DEF Announced
  <2> HIDE DEF all
  <2>5. /\ Autos(sent') = Autos(sent) \cup Autos(all)
        /\ Autos(resent') = Autos(resent) \cup (Autos(sent) \cap Autos(all))
        /\ Announced(sent') = Announced(sent) \cup Announced(all)
        /\ Announced(resent') = Announced(resent) \cup (Announced(sent) \cap Announced(all))
    BY <2>1 DEF Autos, Announced
  <2> QED
    BY <1>0, <1>1, <2>1, <2>3, <2>4, <2>5 DEF PublishesAll, GivesUp, cur, news
<1>6. CASE PublishThenPut(p, cur)
  <2> DEFINE due == FirstTime(NewEvents(cur, prev))
             all == due \cup ({"auto"} \X news)
  <2>1. /\ st' = Complete(cur) /\ pubStatus' = pubStatus
        /\ sent' = sent \cup all /\ resent' = resent \cup (all \cap sent)
    BY <1>6 DEF PublishThenPut, Announce
  <2>2. PICK o : Set(p, "put", [loc[p] EXCEPT !.cur = Complete(cur), !.order = o])
    BY <1>6 DEF PublishThenPut
  <2>3. [loc[p] EXCEPT !.cur = Complete(cur), !.order = o].cur = Complete(cur)
    BY <1>0 DEF Locals
  <2>4. pc'[p] = "put" /\ loc'[p].cur = st'
    BY <1>0, <2>1, <2>2, <2>3
  <2>5. due \subseteq NewEvents(cur, prev)
    BY DEF FirstTime
  <2>6. Autos(all) = news
    BY <1>2, <1>3, <2>5 DEF Autos
  <2>7. Announced(all) = {}
    BY <1>2, <2>5 DEF Announced
  <2> HIDE DEF all
  <2>8. /\ Autos(sent') = Autos(sent) \cup Autos(all)
        /\ Autos(resent') = Autos(resent) \cup (Autos(sent) \cap Autos(all))
        /\ Announced(sent') = Announced(sent) \cup Announced(all)
        /\ Announced(resent') = Announced(resent) \cup (Announced(sent) \cap Announced(all))
    BY <2>1 DEF Autos, Announced
  <2> QED
    BY <1>1, <2>1, <2>4, <2>6, <2>7, <2>8 DEF PublishesBeforePut
<1> QED
  BY <1>5, <1>6 DEF Publish

LEMMA FinishEffect ==
  ASSUME TypeOK, NEW p \in Poller, Finish(p)
  PROVE  /\ UNCHANGED <<neg, bids, invites, cleared, entered, reentered, restarts>>
         /\ st' = loc[p].cur /\ PublishesAll(p) /\ pc[p] = "finish"
         /\ Autos(sent') = Autos(sent) /\ Autos(resent') = Autos(resent)
<1> DEFINE cur == loc[p].cur
           due == FirstTime(NewOrders(cur, loc[p].prev))
           all == due \cup StatusEvent(cur)
<1>0. /\ loc[p] \in Locals /\ cur \in Projection
      /\ \A point, l : Set(p, point, l) => pc'[p] = point /\ loc'[p] = l
  BY LocalsOf DEF Set, TypeOK
<1>1. /\ UNCHANGED <<neg, bids, invites, cleared, entered, reentered, restarts>>
      /\ pc[p] = "finish" /\ st' = cur /\ Set(p, "idle", NoLocals)
      /\ pubStatus' = IF cur.status = Absent THEN pubStatus ELSE cur.status
      /\ sent' = sent \cup all /\ resent' = resent \cup (all \cap sent)
  BY DEF Finish, Announce, db, hist, meter
<1>2. \A e \in due : e[1] = "po"
  BY DEF FirstTime, NewOrders
<1>3. cur.status \in Status \cup {Absent} /\ Absent \notin Status
  BY <1>0, ConstantAssumption DEF Projection, AnyStatus
<1>4. \A e : e \in StatusEvent(cur) <=>
              e = <<"status", cur.status>> /\ cur.status \notin {Absent, pubStatus}
  BY DEF StatusEvent
<1>5. Autos(all) = {}
  BY <1>2, <1>4 DEF Autos
<1>6. Announced(all) = {cur.status} \ {Absent, pubStatus}
  BY <1>2, <1>3, <1>4 DEF Announced
<1> HIDE DEF all
<1>7. /\ Autos(sent') = Autos(sent) \cup Autos(all)
      /\ Autos(resent') = Autos(resent) \cup (Autos(sent) \cap Autos(all))
      /\ Announced(sent') = Announced(sent) \cup Announced(all)
      /\ Announced(resent') = Announced(resent) \cup (Announced(sent) \cap Announced(all))
  BY <1>1 DEF Autos, Announced
<1> QED
  BY <1>0, <1>1, <1>5, <1>6, <1>7 DEF PublishesAll, GivesUp

Publishing(p) ==
  Publish(p, loc[p].cur) /\ (pc[p] = "delete" \/ (pc[p] = "split" /\ Split(p)))

Elsewhere ==
  \/ Orchestrator \/ ResetStep \/ Subscribe \/ UNCHANGED vars
  \/ \E call \in landing : Land(call)

LEMMA OneStep ==
  ASSUME NEW p \in Poller, Poller = {p}, [Next]_vars
  PROVE  \/ Elsewhere \/ Restart \/ ReadNegotiation(p) \/ QuietStep(p)
         \/ Finish(p) \/ Publishing(p)
  BY Steps DEF Next, Elsewhere, Publishing

LEMMA ElsewhereEffect ==
  ASSUME TypeOK, Elsewhere
  PROVE  /\ UNCHANGED <<pc, loc, st, pubStatus, synIds, sent, resent, restarts>>
         /\ \/ UNCHANGED <<entered, reentered>> /\ neg'.status \in {neg.status, Absent}
            \/ entered' = entered \cup {neg'.status}
                 /\ reentered' = reentered \cup (entered \cap {neg'.status})
         /\ Bypass => invites' \subseteq invites
         /\ \/ cleared = 0 /\ cleared' = 0
               /\ \A s \in Supplier : bids[s] # NoBid => bids'[s] # NoBid
            \/ UNCHANGED <<cleared, bids, invites>>
            \/ cleared < 5 /\ cleared' = cleared + 1 /\ (cleared = 1 => bids' = NoBids)
                 /\ (cleared # 1 => bids' = bids) /\ (cleared = 4 => invites' = {})
<1> USE DEF seen, db, hist, proc, meter, vars
<1>1. CASE \E s \in Status : OrchStatus(s)
  <2>1. PICK s \in Status : OrchStatus(s)
    BY <1>1
  <2>2. neg'.status = s
    BY <2>1 DEF OrchStatus, TypeOK
  <2> QED
    BY <2>1, <2>2 DEF OrchStatus
<1>2. CASE \E q \in Quadrant : OrchClassify(q)
  <2>1. neg'.status = neg.status
    BY <1>2 DEF OrchClassify, TypeOK
  <2> QED
    BY <1>2, <2>1 DEF OrchClassify
<1>3. CASE \/ \E c \in Comm : OrchInvite(c)
           \/ \E f \in Feedback : OrchFeedback(f)
           \/ \E a \in Award : OrchAward(a)
           \/ \E o \in RealOrder : OrchOrder(o)
  BY <1>3 DEF OrchInvite, OrchFeedback, OrchAward, OrchOrder, Running
<1>4. CASE \E s \in Supplier, v \in Price \cup {Unpriced} : OrchBid(s, v)
  <2>1. PICK s \in Supplier, v \in Price \cup {Unpriced} : OrchBid(s, v)
    BY <1>4
  <2>2. v # NoBid
    BY ConstantAssumption
  <2>3. \A q \in Supplier : bids[q] # NoBid => bids'[q] # NoBid
    BY <2>1, <2>2 DEF OrchBid, TypeOK
  <2> QED
    BY <2>1, <2>3 DEF OrchBid, Running
<1>5. CASE ResetStep
  <2>1. neg'.status \in {neg.status, Absent} /\ (Bypass => invites' \subseteq invites)
    BY <1>5 DEF ResetStep
  <2>2. /\ UNCHANGED <<pc, loc, st, pubStatus, synIds, sent, resent, restarts, entered, reentered>>
        /\ cleared < 5 /\ cleared' = cleared + 1 /\ (cleared = 1 => bids' = NoBids)
        /\ (cleared # 1 => bids' = bids) /\ (cleared = 4 => invites' = {})
    BY <1>5 DEF ResetStep
  <2> QED
    BY <2>1, <2>2
<1>6. CASE Subscribe \/ UNCHANGED vars \/ \E call \in landing : Land(call)
  BY <1>6 DEF Subscribe, Land
<1> QED
  BY <1>1, <1>2, <1>3, <1>4, <1>5, <1>6 DEF Elsewhere, Orchestrator

LEMMA ReadEffect ==
  ASSUME TypeOK, NEW p \in Poller, ReadNegotiation(p)
  PROVE  /\ Quiet /\ synIds' = synIds /\ pc[p] = "idle" /\ pc'[p] = "bids"
         /\ loc'[p].cur.status = neg.status /\ loc'[p].cur.bids = NoBids
         /\ loc'[p].cur.invites = {} /\ loc'[p].cur.orders = {}
<1> DEFINE l == [NoLocals EXCEPT !.cur.status = neg.status, !.cur.quadrant = neg.quadrant]
<1>1. /\ Set(p, "bids", l) /\ pc[p] = "idle" /\ Quiet /\ synIds' = synIds
  BY DEF ReadNegotiation, Quiet, db, hist, proc, seen, meter
<1>2. l.cur.status = neg.status /\ l.cur.bids = NoBids /\ l.cur.invites = {} /\ l.cur.orders = {}
  BY DEF NoLocals, Untracked
<1> HIDE DEF l
<1>3. pc'[p] = "bids" /\ loc'[p] = l
  BY <1>1 DEF Set, TypeOK
<1> QED
  BY <1>1, <1>2, <1>3

LEMMA RestartEffect ==
  ASSUME NEW p \in Poller, Restart
  PROVE  /\ UNCHANGED <<neg, bids, invites, cleared, entered, reentered>>
         /\ st' = Untracked /\ GivesUp(p) /\ restarts' = restarts + 1
         /\ sent' = {} /\ resent' = {}
  BY DEF Restart, GivesUp, db, hist

(* The projection a lone poll compares with, or has saved, is still there. *)
Kept(p) ==
  /\ pc[p] \in {"awards", "orders", "split", "delete", "deleted"} => loc[p].prev = st
  /\ pc[p] \in {"put", "finish"} => loc[p].cur = st

LEMMA KeptStep ==
  ASSUME TypeOK, NEW p \in Poller, Poller = {p}, Kept(p), [Next]_vars
  PROVE  Kept(p)'
<1>1. CASE Elsewhere
  BY <1>1, ElsewhereEffect DEF Kept
<1>2. CASE Restart
  BY <1>2, RestartEffect DEF Kept, GivesUp
<1>3. CASE ReadNegotiation(p)
  BY <1>3, ReadEffect DEF Kept
<1>4. CASE QuietStep(p)
  <2>1. st' = st /\ (GivesUp(p) \/ Carries(p))
    BY <1>4, QuietEffect DEF Quiet
  <2> QED
    BY <2>1 DEF GivesUp, Carries, Kept, Flow
<1>5. CASE Finish(p)
  BY <1>5, FinishEffect DEF Kept, PublishesAll, GivesUp
<1>6. CASE Publishing(p)
  <2>1. PublishesAll(p) \/ PublishesBeforePut(p)
    BY <1>6, PublishEffect DEF Publishing
  <2> QED
    BY <2>1 DEF Kept, PublishesAll, PublishesBeforePut, GivesUp
<1> QED
  BY <1>1, <1>2, <1>3, <1>4, <1>5, <1>6, OneStep

(* A status once announced, and never left and entered again, is the last one
   announced for as long as the row, or the poll under way, has it.          *)
Latest(p, s) ==
  /\ neg.status = s => pubStatus = s /\ (pc[p] # "idle" => loc[p].cur.status = s)
  /\ pc[p] # "idle" /\ loc[p].cur.status = s => pubStatus = s

StatusInv(p) ==
  /\ neg.status \in entered \cup {Absent}
  /\ pc[p] # "idle" => loc[p].cur.status \in entered \cup {Absent}
  /\ Announced(sent) \subseteq entered
  /\ \A s \in Announced(sent) \ reentered : Latest(p, s)
  /\ Announced(resent) \subseteq reentered

LEMMA StatusStep ==
  ASSUME TypeOK, NEW p \in Poller, Poller = {p}, StatusInv(p), [Next]_vars
  PROVE  StatusInv(p)'
<1>0. Absent \notin Status /\ Announced(sent) \subseteq Status /\ loc[p].cur \in Projection
  BY ConstantAssumption, LocalsOf DEF Announced
<1> DEFINE tells == /\ pubStatus' = IF loc[p].cur.status = Absent THEN pubStatus ELSE loc[p].cur.status
                    /\ Announced(sent') = Announced(sent) \cup ({loc[p].cur.status} \ {Absent, pubStatus})
                    /\ Announced(resent') = Announced(resent)
                         \cup (Announced(sent) \cap ({loc[p].cur.status} \ {Absent, pubStatus}))
<1>1. CASE Elsewhere
  <2>1. /\ UNCHANGED <<pc, loc, pubStatus, sent, resent>>
        /\ \/ UNCHANGED <<entered, reentered>> /\ neg'.status \in {neg.status, Absent}
           \/ entered' = entered \cup {neg'.status}
                /\ reentered' = reentered \cup (entered \cap {neg'.status})
    BY <1>1, ElsewhereEffect
  <2>2. ASSUME NEW s \in Announced(sent) \ reentered' PROVE Latest(p, s)'
    <3>1. s \in entered /\ s \notin reentered /\ s # Absent /\ Latest(p, s)
      BY <1>0, <2>1 DEF StatusInv
    <3>2. neg'.status # s \/ neg'.status = neg.status
      BY <2>1, <3>1
    <3> QED
      BY <2>1, <3>1, <3>2 DEF Latest
  <2>3. Announced(sent') = Announced(sent) /\ Announced(resent') = Announced(resent)
    BY <2>1
  <2> QED
    BY <2>1, <2>2, <2>3 DEF StatusInv
<1>2. CASE Restart
  <2>1. Announced({}) = {}
    BY DEF Announced
  <2> QED
    BY <1>2, <2>1, RestartEffect DEF StatusInv, GivesUp
<1>3. CASE ReadNegotiation(p)
  <2>1. /\ Quiet /\ pc[p] = "idle" /\ pc'[p] = "bids" /\ loc'[p].cur.status = neg.status
    BY <1>3, ReadEffect
  <2> QED
    BY <2>1 DEF Quiet, StatusInv, Latest
<1>4. CASE QuietStep(p)
  <2>1. /\ Quiet /\ pc[p] # "idle"
        /\ pc'[p] = "idle" \/ loc'[p].cur.status = loc[p].cur.status
    BY <1>4, QuietEffect DEF GivesUp, Carries
  <2> QED
    BY <2>1 DEF Quiet, StatusInv, Latest
<1>5. ASSUME pc[p] # "idle", UNCHANGED <<neg, entered, reentered>>,
             PublishesAll(p) \/ (PublishesBeforePut(p) /\ st'.status = loc[p].cur.status)
      PROVE  StatusInv(p)'
  <2>1. CASE PublishesAll(p)
    <3>1. pc'[p] = "idle" /\ tells
      BY <2>1 DEF PublishesAll, GivesUp
    <3>2. loc[p].cur.status \in entered \cup {Absent}
      BY <1>5 DEF StatusInv
    <3>3. ASSUME NEW s \in Announced(sent') \ reentered, neg.status = s PROVE pubStatus' = s
      <4>1. CASE s \in Announced(sent)
        <5>1. loc[p].cur.status = s /\ s # Absent
          BY <1>0, <1>5, <3>3, <4>1 DEF StatusInv, Latest
        <5> QED
          BY <3>1, <5>1
      <4>2. CASE s = loc[p].cur.status /\ s # Absent
        BY <3>1, <4>2
      <4> QED
        BY <3>1, <3>3, <4>1, <4>2
    <3>4. Announced(resent') \subseteq reentered
      <4>1. ASSUME NEW s \in Announced(sent), s = loc[p].cur.status, s # pubStatus
            PROVE  s \in reentered
        BY <1>5, <4>1 DEF StatusInv, Latest
      <4> QED
        BY <3>1, <4>1 DEF StatusInv
    <3>5. \A s \in Announced(sent') \ reentered' : Latest(p, s)'
      BY <1>5, <3>1, <3>3 DEF Latest
    <3>6. Announced(sent') \subseteq entered
      BY <3>1, <3>2 DEF StatusInv
    <3> QED
      BY <1>5, <3>1, <3>4, <3>5, <3>6 DEF StatusInv
  <2>2. CASE PublishesBeforePut(p) /\ st'.status = loc[p].cur.status
    <3>1. /\ pc'[p] = "put" /\ loc'[p].cur.status = loc[p].cur.status /\ pubStatus' = pubStatus
          /\ Announced(sent') = Announced(sent) /\ Announced(resent') = Announced(resent)
      BY <2>2 DEF PublishesBeforePut
    <3> QED
      BY <1>5, <3>1 DEF StatusInv, Latest
  <2> QED
    BY <1>5, <2>1, <2>2
<1>6. CASE Finish(p)
  BY <1>5, <1>6, FinishEffect
<1>7. CASE Publishing(p)
  <2>1. Complete(loc[p].cur).status = loc[p].cur.status
    BY <1>0, CompleteType
  <2> QED
    BY <1>5, <1>7, <2>1, PublishEffect DEF Publishing
<1> QED
  BY <1>1, <1>2, <1>3, <1>4, <1>6, <1>7, OneStep

(* A derived invitation, once announced, is remembered for as long as it could
   be derived again: only a reset takes a supplier's bid away.               *)
Compared == {"comms", "feedback", "resume", "awards", "orders", "split", "delete", "deleted"}

Remembered(p, s) ==
  /\ bids[s] # NoBid \/ cleared >= 2
  /\ s \in st.auto \/ (cleared >= 2 /\ (pc[p] \in Compared => loc[p].cur.bids[s] = NoBid))
  /\ pc[p] \in Compared /\ loc[p].cur.bids[s] = NoBid => cleared >= 2
  /\ Bypass \/ (cleared = 5 /\ (pc[p] \in Compared \ {"comms"} => loc[p].cur.invites = {}))

AutoInv(p) ==
  /\ cleared >= 2 => bids = NoBids
  /\ cleared = 5 => invites = {}
  /\ Bypass => invites = {} /\ loc[p].cur.invites = {}
  /\ pc[p] \in Compared =>
       \A s \in Supplier : loc[p].cur.bids[s] # NoBid => bids[s] # NoBid \/ cleared >= 2
  /\ \A s \in Autos(sent) : Remembered(p, s)
  /\ Autos(resent) = {}

LEMMA AutoPublish ==
  ASSUME TypeOK, ~Bypass => GuessInv, NEW p \in Poller, Kept(p), AutoInv(p), Publishing(p)
  PROVE  AutoInv(p)'
<1> DEFINE cur == loc[p].cur
           news == AutoInvited(cur) \ loc[p].prev.auto
<1>0. /\ cur \in Projection /\ Complete(cur).auto = AutoInvited(cur)
      /\ Complete(cur).invites = cur.invites
  BY LocalsOf DEF Complete, Projection
<1>1. /\ UNCHANGED <<bids, invites, cleared>> /\ st' = Complete(cur)
      /\ Autos(sent') = Autos(sent) \cup news
      /\ Autos(resent') = Autos(resent) \cup (Autos(sent) \cap news)
      /\ pc[p] \in {"split", "delete"}
      /\ loc[p].prev = st
  BY PublishEffect DEF Publishing, Kept
<1>2. /\ pc'[p] \notin Compared
      /\ Bypass => loc'[p].cur.invites = {}
  <2>1. PublishesAll(p) \/ PublishesBeforePut(p)
    BY PublishEffect DEF Publishing
  <2>2. Bypass => Complete(cur).invites = {}
    BY <1>0 DEF AutoInv
  <2>3. NoLocals.cur.invites = {}
    BY DEF NoLocals, Untracked
  <2> QED
    BY <1>1, <2>1, <2>2, <2>3 DEF PublishesAll, PublishesBeforePut, GivesUp, Compared
<1>3. /\ AutoInvited(cur) \subseteq Supplier
      /\ \A s \in AutoInvited(cur) : cur.invites = {} /\ cur.bids[s] # NoBid
      /\ \A s \in Supplier : cur.invites = {} /\ cur.bids[s] # NoBid => s \in AutoInvited(cur)
  BY DEF AutoInvited
<1>4. pc[p] \in Compared \ {"comms"}
  BY <1>1 DEF Compared
<1>5. ASSUME NEW s \in Autos(sent)
      PROVE  s \notin news /\ (s \in AutoInvited(cur) \/ cleared >= 2)
  <2>1. Remembered(p, s) /\ s \in Supplier
    BY DEF AutoInv, Autos
  <2>2. CASE s \in st.auto
    <3>1. cur.invites = {}
      BY <1>4, <2>1 DEF Remembered, AutoInv
    <3>2. cur.bids[s] # NoBid \/ cleared >= 2
      BY <1>4, <2>1 DEF Remembered
    <3> QED
      BY <1>1, <1>3, <2>1, <2>2, <3>1, <3>2
  <2>3. CASE s \notin st.auto
    BY <1>3, <1>4, <2>1, <2>3 DEF Remembered
  <2> QED
    BY <2>2, <2>3
<1>6. ASSUME NEW s \in news
      PROVE  (bids[s] # NoBid \/ cleared >= 2) /\ (Bypass \/ cleared = 5)
  <2>1. bids[s] # NoBid \/ cleared >= 2
    BY <1>3, <1>4 DEF AutoInv
  <2>2. ~Bypass /\ cleared < 5 => (cur.bids # NoBids => cur.invites # {})
    BY <1>1 DEF GuessInv, Backed
  <2>3. ~Bypass /\ cleared < 5 => AutoInvited(cur) = {}
    BY <1>0, <2>2, NoneDerived
  <2>4. cleared \in 0..5
    BY DEF TypeOK
  <2> QED
    BY <2>1, <2>3, <2>4
<1> HIDE DEF news
<1>7. ASSUME NEW s \in Autos(sent') PROVE Remembered(p, s)'
  <2>1. CASE s \in Autos(sent)
    <3>1. Remembered(p, s)
      BY <2>1 DEF AutoInv
    <3> QED
      BY <1>0, <1>1, <1>2, <1>5, <2>1, <3>1 DEF Remembered
  <2>2. CASE s \in news
    <3>1. s \in AutoInvited(cur)
      BY <2>2 DEF news
    <3> QED
      BY <1>0, <1>1, <1>2, <1>6, <2>2, <3>1 DEF Remembered
  <2> QED
    BY <1>1, <1>7, <2>1, <2>2 DEF news
<1>8. Autos(resent') = {}
  <2>1. Autos(resent) = {} /\ Autos(sent) \cap news = {}
    BY <1>5 DEF AutoInv
  <2> QED
    BY <1>1, <2>1 DEF news
<1> QED
  BY <1>1, <1>2, <1>7, <1>8 DEF AutoInv

LEMMA AutoElsewhere ==
  ASSUME TypeOK, NEW p \in Poller, AutoInv(p), Elsewhere
  PROVE  AutoInv(p)'
<1>0. cleared \in 0..5 /\ \A s \in Supplier : NoBids[s] = NoBid
  BY DEF TypeOK, NoBids
<1>1. UNCHANGED <<pc, loc, st, sent, resent>> /\ (Bypass => invites' \subseteq invites)
  BY ElsewhereEffect
<1>2. ASSUME \/ cleared' >= 2 /\ bids' = NoBids
             \/ cleared' < 2 /\ cleared < 2 /\ \A s \in Supplier : bids[s] # NoBid => bids'[s] # NoBid,
             cleared' = 5 => invites' = {}, cleared' \in 0..5,
             cleared >= 2 => cleared' >= 2, cleared = 5 => cleared' = 5
      PROVE  AutoInv(p)'
  <2>1. \A s \in Supplier : bids[s] # NoBid \/ cleared >= 2 => bids'[s] # NoBid \/ cleared' >= 2
    BY <1>0, <1>2
  <2>2. ASSUME NEW s \in Autos(sent) PROVE Remembered(p, s)'
    <3>1. Remembered(p, s) /\ s \in Supplier
      BY DEF AutoInv, Autos
    <3> QED
      BY <1>1, <1>2, <2>1, <3>1 DEF Remembered
  <2>3. cleared' >= 2 => bids' = NoBids
    BY <1>2
  <2> QED
    BY <1>1, <1>2, <2>1, <2>2, <2>3 DEF AutoInv
<1>3. CASE cleared = 0 /\ cleared' = 0 /\ \A s \in Supplier : bids[s] # NoBid => bids'[s] # NoBid
  BY <1>2, <1>3
<1>4. CASE UNCHANGED <<cleared, bids, invites>>
  <2>1. (cleared >= 2 /\ bids = NoBids) \/ cleared < 2
    BY <1>0 DEF AutoInv
  <2> QED
    BY <1>0, <1>2, <1>4, <2>1 DEF AutoInv
<1>5. CASE /\ cleared < 5 /\ cleared' = cleared + 1 /\ (cleared = 1 => bids' = NoBids)
           /\ (cleared # 1 => bids' = bids) /\ (cleared = 4 => invites' = {})
  <2>1. CASE cleared = 0
    BY <1>2, <1>5, <2>1
  <2>2. CASE cleared = 1
    BY <1>2, <1>5, <2>2
  <2>3. CASE cleared \in {2, 3}
    BY <1>2, <1>5, <2>3 DEF AutoInv
  <2>4. CASE cleared = 4
    BY <1>2, <1>5, <2>4 DEF AutoInv
  <2> QED
    BY <1>0, <1>5, <2>1, <2>2, <2>3, <2>4
<1> QED
  BY <1>3, <1>4, <1>5, ElsewhereEffect

LEMMA AutoStep ==
  ASSUME TypeOK, ~Bypass => GuessInv, NEW p \in Poller, Poller = {p}, Kept(p), AutoInv(p),
         [Next]_vars
  PROVE  AutoInv(p)'
<1>0. \A s \in Supplier : NoBids[s] = NoBid
  BY DEF NoBids
<1>1. CASE Elsewhere
  BY <1>1, AutoElsewhere
<1>2. CASE Restart
  <2>1. Autos({}) = {} /\ NoLocals.cur.invites = {} /\ "idle" \notin Compared
    BY DEF Autos, NoLocals, Untracked, Compared
  <2> QED
    BY <1>2, <2>1, RestartEffect DEF AutoInv, GivesUp
<1>3. CASE ReadNegotiation(p)
  <2>1. /\ Quiet /\ pc'[p] \notin Compared /\ loc'[p].cur.invites = {}
        /\ pc[p] \notin Compared
    BY <1>3, ReadEffect DEF Compared
  <2>2. \A s \in Autos(sent) : Remembered(p, s)'
    BY <2>1 DEF Quiet, AutoInv, Remembered
  <2> QED
    BY <2>1, <2>2 DEF Quiet, AutoInv
<1>4. CASE QuietStep(p)
  <2>1. Quiet /\ (GivesUp(p) \/ Carries(p))
    BY <1>4, QuietEffect
  <2>2. CASE GivesUp(p)
    <3>1. pc'[p] \notin Compared /\ loc'[p].cur.invites = {}
      BY <2>2 DEF GivesUp, Compared, NoLocals, Untracked
    <3>2. \A s \in Autos(sent) : Remembered(p, s)'
      BY <2>1, <3>1 DEF Quiet, AutoInv, Remembered
    <3> QED
      BY <2>1, <3>1, <3>2 DEF Quiet, AutoInv
  <2>3. CASE pc[p] = "bids" /\ Carries(p)
    <3>1. /\ pc'[p] = "comms" /\ loc'[p].cur.bids = bids
          /\ loc'[p].cur.invites = loc[p].cur.invites
      BY <2>3 DEF Carries, Flow
    <3>2. ASSUME NEW s \in Autos(sent) PROVE Remembered(p, s)'
      <4>1. Remembered(p, s) /\ s \in Supplier
        BY DEF AutoInv, Autos
      <4> QED
        BY <1>0, <2>1, <3>1, <4>1 DEF Quiet, AutoInv, Remembered
    <3> QED
      BY <2>1, <3>1, <3>2 DEF Quiet, AutoInv
  <2>4. CASE pc[p] = "comms" /\ Carries(p)
    <3>1. /\ pc'[p] = "feedback" /\ loc'[p].cur.bids = loc[p].cur.bids
          /\ loc'[p].cur.invites = invites /\ "comms" \in Compared
      BY <2>4 DEF Carries, Flow, Compared
    <3>2. \A s \in Autos(sent) : Remembered(p, s)'
      BY <2>1, <2>4, <3>1 DEF Quiet, AutoInv, Remembered
    <3> QED
      BY <2>1, <2>4, <3>1, <3>2 DEF Quiet, AutoInv
  <2>5. CASE pc[p] \notin {"bids", "comms"} /\ Carries(p)
    <3>1. /\ loc'[p].cur.bids = loc[p].cur.bids /\ loc'[p].cur.invites = loc[p].cur.invites
          /\ pc'[p] \in Compared => pc[p] \in Compared \ {"comms"}
      BY <2>5 DEF Carries, Flow, Compared
    <3>2. \A s \in Autos(sent) : Remembered(p, s)'
      BY <2>1, <3>1 DEF Quiet, AutoInv, Remembered
    <3> QED
      BY <2>1, <3>1, <3>2 DEF Quiet, AutoInv
  <2> QED
    BY <2>1, <2>2, <2>3, <2>4, <2>5
<1>5. CASE Finish(p)
  <2>1. /\ UNCHANGED <<bids, invites, cleared>> /\ st' = st
        /\ Autos(sent') = Autos(sent) /\ Autos(resent') = Autos(resent)
        /\ pc'[p] = "idle" /\ loc'[p] = NoLocals
    BY <1>5, FinishEffect DEF Kept, PublishesAll, GivesUp
  <2>2. "idle" \notin Compared /\ NoLocals.cur.invites = {}
    BY DEF Compared, NoLocals, Untracked
  <2>3. \A s \in Autos(sent) : Remembered(p, s)'
    BY <2>1, <2>2 DEF AutoInv, Remembered
  <2> QED
    BY <2>1, <2>2, <2>3 DEF AutoInv
<1>6. CASE Publishing(p)
  BY <1>6, AutoPublish
<1> QED
  BY <1>1, <1>2, <1>3, <1>4, <1>5, <1>6, OneStep

(* What a lone poll has read of the orders, and what it shows of them. *)
Sorted(set) == set \cap RealOrder = {} \/ set \cap SynOrder = {}

OrderInv(p) ==
  /\ pc[p] \in {"bids", "comms", "feedback", "resume", "awards", "orders"}
       => loc[p].cur.orders = {}
  /\ restarts = 0 =>
       /\ pc[p] = "split" => loc[p].cur.orders \cap SynOrder \subseteq synIds
       /\ pc[p] \in {"delete", "deleted"} => loc[p].cur.orders \cap SynOrder = {}
       /\ Sorted(st.orders)

LEMMA OrderStep ==
  ASSUME TypeOK, SyntheticKnown, NEW p \in Poller, Poller = {p}, Kept(p), OrderInv(p), [Next]_vars
  PROVE  OrderInv(p)'
<1>0. /\ loc[p].cur \in Projection /\ restarts \in Nat /\ synIds \subseteq SynOrder
      /\ loc[p].cur.orders \subseteq Order
  BY LocalsOf DEF TypeOK, Projection
<1>1. CASE Elsewhere
  BY <1>1, ElsewhereEffect DEF OrderInv
<1>2. CASE Restart
  BY <1>0, <1>2, RestartEffect DEF OrderInv, GivesUp
<1>3. CASE ReadNegotiation(p)
  BY <1>3, ReadEffect DEF OrderInv, Quiet
<1>4. CASE QuietStep(p)
  <2>1. UNCHANGED <<st, restarts>> /\ (GivesUp(p) \/ Carries(p))
    BY <1>4, QuietEffect DEF Quiet
  <2>2. CASE GivesUp(p)
    BY <2>1, <2>2 DEF GivesUp, OrderInv
  <2>3. CASE Carries(p) /\ pc[p] = "split"
    BY <2>1, <2>3 DEF Carries, Flow, OrderInv
  <2>4. CASE Carries(p) /\ pc[p] = "orders"
    BY <2>1, <2>4 DEF Carries, Flow, OrderInv, SyntheticKnown
  <2>5. CASE Carries(p) /\ pc[p] \notin {"split", "orders"}
    <3>1. loc'[p].cur.orders = loc[p].cur.orders
      BY <2>5 DEF Carries
    <3> QED
      BY <2>1, <2>5, <3>1 DEF Carries, Flow, OrderInv
  <2> QED
    BY <2>1, <2>2, <2>3, <2>4, <2>5
<1>5. CASE Finish(p)
  <2>1. st' = st /\ pc'[p] = "idle" /\ restarts' = restarts
    BY <1>5, FinishEffect DEF Kept, PublishesAll, GivesUp
  <2> QED
    BY <2>1 DEF OrderInv
<1>6. CASE Publishing(p)
  <2>1. st' = Complete(loc[p].cur) /\ restarts' = restarts /\ pc'[p] \in {"idle", "put"}
    BY <1>6, PublishEffect DEF Publishing, PublishesAll, PublishesBeforePut, GivesUp
  <2>2. st'.orders = loc[p].cur.orders
    BY <1>0, <2>1, CompleteType
  <2>3. CASE pc[p] = "delete"
    BY <2>1, <2>2, <2>3 DEF OrderInv, Sorted
  <2>4. CASE pc[p] = "split" /\ Split(p)
    <3>1. pc'[p] # "delete"
      BY <2>1
    <3>2. loc[p].cur.orders \ synIds = {} \/ loc[p].cur.orders \cap synIds = {}
      BY <2>4, <3>1 DEF Split, Set, TypeOK
    <3>3. restarts = 0 => Sorted(loc[p].cur.orders)
      BY <1>0, <2>4, <3>2, ConstantAssumption DEF OrderInv, Sorted
    <3> QED
      BY <2>1, <2>2, <3>3 DEF OrderInv
  <2> QED
    BY <1>6, <2>3, <2>4 DEF Publishing
<1> QED
  BY <1>1, <1>2, <1>3, <1>4, <1>5, <1>6, OneStep

LEMMA OneInit ==
  ASSUME NEW p \in Poller, Init
  PROVE  Kept(p) /\ StatusInv(p) /\ AutoInv(p) /\ OrderInv(p) /\ (~Bypass => GuessInv)
<1>1. pc[p] = "idle" /\ loc[p] = NoLocals /\ Announced({}) = {} /\ Autos({}) = {}
  BY DEF Init, Announced, Autos
<1>2. Kept(p) /\ StatusInv(p)
  BY <1>1 DEF Init, Kept, StatusInv
<1>3. AutoInv(p)
  BY <1>1 DEF Init, AutoInv, Compared, NoLocals, Untracked
<1>4. OrderInv(p)
  BY <1>1 DEF Init, OrderInv, Sorted, Untracked
<1>5. GuessInv
  BY DEF Init, GuessInv, Guessed, Backed, NoLocals, Untracked
<1> QED
  BY <1>2, <1>3, <1>4, <1>5

(* poll_loop alone never announces a status again that the row did not enter  *)
(* again: the stream does not go back to an older status.                    *)
THEOREM NoOldStatus == OnePoller => (Spec => []StatusOnce)
<1> SUFFICES ASSUME OnePoller PROVE Spec => []StatusOnce
  OBVIOUS
<1>1. PICK p \in Poller : Poller = {p}
  BY DEF OnePoller
<1>2. TypeOK /\ OrderInHand /\ StatusInv(p) /\ [Next]_vars => StatusInv(p)'
  BY <1>1, StatusStep
<1>3. Init => StatusInv(p)
  BY OneInit
<1>4. StatusInv(p) => StatusOnce
  BY DEF StatusInv, StatusOnce, Announced
<1> QED
  BY <1>2, <1>3, <1>4, TypeCorrect, PTL DEF Spec

(* poll_loop alone: before a restart it never shows real and synthetic orders *)
(* together.                                                               *)
THEOREM OrdersSorted == OnePoller => (Spec => []CanonicalOrder)
<1> SUFFICES ASSUME OnePoller PROVE Spec => []CanonicalOrder
  OBVIOUS
<1>1. PICK p \in Poller : Poller = {p}
  BY DEF OnePoller
<1>2. TypeOK /\ OrderInHand /\ SyntheticKnown /\ Kept(p) /\ OrderInv(p) /\ [Next]_vars
        => Kept(p)' /\ OrderInv(p)'
  BY <1>1, KeptStep, OrderStep
<1>3. Init => Kept(p) /\ OrderInv(p)
  BY OneInit
<1>4. OrderInv(p) => CanonicalOrder
  BY DEF OrderInv, CanonicalOrder, Sorted
<1> QED
  BY <1>2, <1>3, <1>4, TypeCorrect, SyntheticRecognised, PTL DEF Spec

(* poll_loop alone announces an invitation derived from a bid once, although *)
(* no guard set keeps it from announcing it again.                          *)
THEOREM DerivedOnce == OnePoller => (Spec => []DerivedRfqOnce)
<1> SUFFICES ASSUME OnePoller PROVE Spec => []DerivedRfqOnce
  OBVIOUS
<1>1. PICK p \in Poller : Poller = {p}
  BY DEF OnePoller
<1>2. TypeOK /\ OrderInHand /\ (~Bypass => GuessInv) /\ Kept(p) /\ AutoInv(p) /\ [Next]_vars
        => (~Bypass => GuessInv)' /\ Kept(p)' /\ AutoInv(p)'
  BY <1>1, GuessStep, KeptStep, AutoStep
<1>3. Init => (~Bypass => GuessInv) /\ Kept(p) /\ AutoInv(p)
  BY OneInit
<1>4. AutoInv(p) => DerivedRfqOnce
  <2> SUFFICES ASSUME Autos(resent) = {} PROVE DerivedRfqOnce
    BY DEF AutoInv
  <2> QED
    BY DEF Autos, DerivedRfqOnce
<1> QED
  BY <1>2, <1>3, <1>4, TypeCorrect, PTL DEF Spec

(***************************************************************************)
(* The table of orders as the others see it: SyntheticOrder.               *)
(***************************************************************************)
OthersStay(p) == \A q \in Poller \ {p} : pc'[q] = pc[q] /\ loc'[q] = loc[q]

(* Neither draws a uuid nor ends a put; of its deletes one may be made, or
   left on its way.                                                        *)
Bystander(p) ==
  /\ pc[p] # "put" /\ pc'[p] # "put" /\ UNCHANGED usedSyn
  /\ \/ UNCHANGED <<orders, landing>>
     \/ \E o \in loc[p].doomed :
          /\ pc[p] = "delete"
          /\ \/ orders' = orders \ {o} /\ landing' = landing
             \/ orders' = orders /\ landing' = landing \cup {<<"delete", o>>}

Draws(p) ==
  /\ pc[p] # "put" /\ pc'[p] = "put" /\ ~synNeg /\ UNCHANGED <<orders, landing>>
  /\ \E o \in SynOrder \ usedSyn :
       /\ usedSyn' = usedSyn \cup {o} /\ loc'[p].order = o
       /\ loc'[p].doomed = loc[p].doomed

(* What a step of a poll does to the table, the uuids and the calls under way. *)
LEMMA PollEffect ==
  ASSUME TypeOK, NEW p \in Poller, ReadNegotiation(p) \/ Proceed(p) \/ Fault(p)
  PROVE  /\ OthersStay(p) /\ UNCHANGED restarts
         /\ Bystander(p) \/ Draws(p) \/ Put(p) \/ PutFault(p)
<1>0. \A point, l : Set(p, point, l) => OthersStay(p) /\ pc'[p] = point /\ loc'[p] = l
  BY DEF Set, TypeOK, OthersStay
<1>1. CASE ReadNegotiation(p) \/ ReadBids(p) \/ ReadInvitations(p) \/ ReadFeedback(p)
             \/ Resume(p) \/ ReadAwards(p) \/ ReadOrders(p) \/ FetchFault(p)
             \/ ReadFault(p) \/ Deleted(p) \/ Finish(p)
  <2>1. /\ pc[p] # "put" /\ UNCHANGED <<usedSyn, orders, landing, restarts>>
        /\ \E point, l : Set(p, point, l) /\ point # "put"
    BY <1>1
    DEF ReadNegotiation, ReadBids, ReadInvitations, ReadFeedback, Resume, ReadAwards,
        ReadOrders, FetchFault, ReadFault, Deleted, Finish, db, meter
  <2> QED
    BY <1>0, <2>1 DEF Bystander
<1>2. CASE Delete(p)
  <2>1. pc[p] = "delete" /\ UNCHANGED <<usedSyn, restarts, landing>>
    BY <1>2 DEF Delete, meter
  <2>2. PICK o \in loc[p].doomed :
          orders' = orders \ {o} /\ Set(p, "deleted", [loc[p] EXCEPT !.order = o])
    BY <1>2 DEF Delete
  <2>3. OthersStay(p) /\ pc'[p] = "deleted"
    BY <1>0, <2>2
  <2> QED
    BY <2>1, <2>2, <2>3 DEF Bystander
<1>7. CASE DeleteFault(p)
  <2>1. pc[p] = "delete" /\ UNCHANGED <<usedSyn, restarts, orders>>
    BY <1>7 DEF DeleteFault, db
  <2>2. PICK o \in loc[p].doomed :
          /\ landing' \in {landing, landing \cup {<<"delete", o>>}}
          /\ Set(p, "delete", [loc[p] EXCEPT !.doomed = @ \ {o}])
    BY <1>7 DEF DeleteFault
  <2>3. OthersStay(p) /\ pc'[p] = "delete"
    BY <1>0, <2>2
  <2> QED
    BY <2>1, <2>2, <2>3 DEF Bystander
<1>3. CASE Put(p) \/ PutFault(p)
  <2>1. Set(p, "finish", loc[p]) /\ UNCHANGED restarts
    BY <1>3 DEF Put, PutFault, meter
  <2> QED
    BY <1>0, <1>3, <2>1
<1>4. ASSUME NEW cur \in Projection, Publish(p, cur), pc[p] # "put"
      PROVE  /\ OthersStay(p) /\ UNCHANGED restarts
             /\ Bystander(p) \/ Draws(p)
  <2>1. UNCHANGED <<orders, landing, restarts>>
    BY <1>4 DEF Publish, db
  <2>2. CASE NeedsSynthetic(cur)
    <3>1. ~synNeg /\ PublishThenPut(p, cur)
      BY <1>4, <2>2 DEF Publish, NeedsSynthetic
    <3>2. PICK o \in SynOrder \ usedSyn :
            /\ usedSyn' = usedSyn \cup {o}
            /\ Set(p, "put", [loc[p] EXCEPT !.cur = Complete(cur), !.order = o])
      BY <3>1, Zenon DEF PublishThenPut
    <3>3. /\ [loc[p] EXCEPT !.cur = Complete(cur), !.order = o].order = o
          /\ [loc[p] EXCEPT !.cur = Complete(cur), !.order = o].doomed = loc[p].doomed
      BY LocalsOf DEF Locals
    <3>4. OthersStay(p) /\ pc'[p] = "put" /\ loc'[p].order = o /\ loc'[p].doomed = loc[p].doomed
      BY <1>0, <3>2, <3>3
    <3> QED
      BY <1>4, <2>1, <3>1, <3>2, <3>4 DEF Draws
  <2>3. CASE ~NeedsSynthetic(cur)
    <3>1. Set(p, "idle", NoLocals) /\ UNCHANGED usedSyn
      BY <1>4, <2>3 DEF Publish, PublishAll
    <3> QED
      BY <1>0, <1>4, <2>1, <3>1 DEF Bystander
  <2> QED
    BY <2>2, <2>3
<1>5. CASE Split(p)
  <2>1. CASE Publish(p, loc[p].cur)
    BY <1>4, <1>5, <2>1, LocalsOf DEF Split
  <2>2. CASE ~Publish(p, loc[p].cur)
    <3>1. /\ pc[p] = "split" /\ UNCHANGED <<usedSyn, orders, landing, restarts>>
          /\ \E l : Set(p, "delete", l)
      BY <1>5, <2>2 DEF Split, db, meter
    <3> QED
      BY <1>0, <3>1 DEF Bystander
  <2> QED
    BY <2>1, <2>2
<1>6. CASE DeletesDone(p)
  BY <1>4, <1>6, LocalsOf DEF DeletesDone
<1> QED
  BY <1>1, <1>2, <1>3, <1>5, <1>6, <1>7 DEF Proceed, Fault

(* What a put that is pending stands for: an id that was drawn, and that nobody
   else will put.                                                          *)
PutInv ==
  /\ \A o \in SynOrder : PutPending(o) => o \in usedSyn
  /\ \A p \in Poller, o \in SynOrder : Putting(p, o) =>
       /\ <<"put", o>> \notin landing
       /\ \A q \in Poller : Putting(q, o) => q = p

(* How a step of a poll changes which puts are pending. *)
LEMMA PendingOf ==
  ASSUME TypeOK, OrderInHand, PutInv, NEW p \in Poller,
         ReadNegotiation(p) \/ Proceed(p) \/ Fault(p)
  PROVE  /\ Bystander(p) =>
              /\ \A q \in Poller, o \in SynOrder : Putting(q, o)' <=> Putting(q, o)
              /\ \A o \in SynOrder : PutPending(o)' <=> PutPending(o)
         /\ Draws(p) => \A o \in SynOrder : PutPending(o)' <=> PutPending(o) \/ o = loc'[p].order
         /\ Put(p) => \A o \in SynOrder : PutPending(o)' <=> PutPending(o) /\ o # loc[p].order
         /\ PutFault(p) =>
              \/ /\ landing' = landing
                 /\ \A o \in SynOrder : PutPending(o)' <=> PutPending(o) /\ o # loc[p].order
              \/ /\ landing' = landing \cup {<<"put", loc[p].order>>}
                 /\ \A o \in SynOrder : PutPending(o)' <=> PutPending(o)
<1>0. OthersStay(p)
  BY PollEffect
<1>1. \A o : \A q \in Poller \ {p} : Putting(q, o)' <=> Putting(q, o)
  BY <1>0 DEF OthersStay, Putting
<1>2. ASSUME Bystander(p)
      PROVE  /\ \A q \in Poller, o \in SynOrder : Putting(q, o)' <=> Putting(q, o)
             /\ \A o \in SynOrder : PutPending(o)' <=> PutPending(o)
  <2>1. \A o : <<"put", o>> \in landing' <=> <<"put", o>> \in landing
    BY <1>2 DEF Bystander
  <2>2. \A o : ~Putting(p, o)' /\ ~Putting(p, o)
    BY <1>2 DEF Bystander, Putting
  <2> QED
    BY <1>1, <2>1, <2>2 DEF PutPending
<1>3. ASSUME Draws(p), NEW o \in SynOrder
      PROVE  PutPending(o)' <=> PutPending(o) \/ o = loc'[p].order
  <2>1. UNCHANGED landing /\ ~Putting(p, o) /\ (Putting(p, o)' <=> o = loc'[p].order)
    BY <1>3 DEF Draws, Putting
  <2> QED
    BY <1>1, <2>1 DEF PutPending
<1>4. ASSUME Put(p) \/ PutFault(p)
      PROVE  /\ pc[p] = "put" /\ loc[p].order \in SynOrder /\ pc'[p] = "finish"
             /\ \A o : ~Putting(p, o)'
             /\ \A o : Putting(p, o) <=> o = loc[p].order
             /\ <<"put", loc[p].order>> \notin landing
             /\ \A q \in Poller : Putting(q, loc[p].order) => q = p
             /\ PutPending(loc[p].order)
  <2>1. pc[p] = "put" /\ loc[p].order \in SynOrder /\ pc'[p] = "finish"
    BY <1>4 DEF Put, PutFault, Set, OrderInHand, TypeOK
  <2>2. Putting(p, loc[p].order)
    BY <2>1 DEF Putting
  <2>3. (\A o : ~Putting(p, o)') /\ (\A o : Putting(p, o) <=> o = loc[p].order)
    BY <2>1 DEF Putting
  <2> QED
    BY <2>1, <2>2, <2>3 DEF PutInv, PutPending
<1>5. ASSUME Put(p), NEW o \in SynOrder
      PROVE  PutPending(o)' <=> PutPending(o) /\ o # loc[p].order
  <2>1. UNCHANGED landing
    BY <1>5 DEF Put, meter
  <2> QED
    BY <1>1, <1>4, <1>5, <2>1 DEF PutPending
<1>6. ASSUME PutFault(p)
      PROVE  \/ /\ landing' = landing
                /\ \A o \in SynOrder : PutPending(o)' <=> PutPending(o) /\ o # loc[p].order
             \/ /\ landing' = landing \cup {<<"put", loc[p].order>>}
                /\ \A o \in SynOrder : PutPending(o)' <=> PutPending(o)
  <2>1. CASE landing' = landing
    BY <1>1, <1>4, <1>6, <2>1 DEF PutPending
  <2>2. CASE landing' = landing \cup {<<"put", loc[p].order>>}
    <3>1. \A o : <<"put", o>> \in landing' <=> <<"put", o>> \in landing \/ o = loc[p].order
      BY <2>2
    <3> QED
      BY <1>1, <1>4, <1>6, <2>2, <3>1 DEF PutPending
  <2> QED
    BY <1>6, <2>1, <2>2 DEF PutFault
<1> QED
  BY <1>2, <1>3, <1>5, <1>6

LEMMA PutStep ==
  ASSUME TypeOK, OrderInHand, PutInv, [Next]_vars
  PROVE  PutInv'
<1>1. CASE Restart
  <2>1. /\ usedSyn' = usedSyn /\ \A p \in Poller : \A o : ~Putting(p, o)'
        /\ landing' = landing \cup {<<"put", loc[p].order>> : p \in {q \in Poller : pc[q] = "put"}}
    BY <1>1 DEF Restart, Putting
  <2>2. ASSUME NEW o \in SynOrder, PutPending(o)' PROVE PutPending(o)
    <3>1. <<"put", o>> \in landing'
      BY <2>1, <2>2 DEF PutPending
    <3> QED
      BY <2>1, <3>1 DEF PutPending, Putting
  <2> QED
    BY <2>1, <2>2 DEF PutInv
<1>2. CASE Orchestrator \/ ResetStep \/ Subscribe \/ UNCHANGED vars
  <2>1. UNCHANGED <<pc, loc, landing, usedSyn>>
    BY <1>2
    DEF Orchestrator, OrchStatus, OrchClassify, OrchInvite, OrchFeedback, OrchBid,
        OrchAward, OrchOrder, ResetStep, Subscribe, vars, meter
  <2> QED
    BY <2>1 DEF PutInv, PutPending, Putting
<1>3. ASSUME NEW call \in landing, Land(call) PROVE PutInv'
  <2>1. UNCHANGED <<pc, loc, usedSyn>> /\ landing' \subseteq landing
    BY <1>3 DEF Land
  <2> QED
    BY <2>1 DEF PutInv, PutPending, Putting
<1>4. ASSUME NEW p \in Poller, ReadNegotiation(p) \/ Proceed(p) \/ Fault(p)
      PROVE  PutInv'
  <2>0. OthersStay(p)
    BY <1>4, PollEffect
  <2>1. CASE Bystander(p)
    <3>1. /\ \A q \in Poller, o \in SynOrder : Putting(q, o)' <=> Putting(q, o)
          /\ \A o \in SynOrder : PutPending(o)' <=> PutPending(o)
      BY <1>4, <2>1, PendingOf
    <3>2. usedSyn' = usedSyn /\ \A o : <<"put", o>> \in landing' => <<"put", o>> \in landing
      BY <2>1 DEF Bystander
    <3> QED
      BY <3>1, <3>2 DEF PutInv
  <2>2. CASE Draws(p)
    <3>1. \A o \in SynOrder : PutPending(o)' <=> PutPending(o) \/ o = loc'[p].order
      BY <1>4, <2>2, PendingOf
    <3>2. /\ usedSyn' = usedSyn \cup {loc'[p].order} /\ loc'[p].order \notin usedSyn
          /\ landing' = landing
      BY <2>2 DEF Draws
    <3>3. \A o \in SynOrder : PutPending(o)' => o \in usedSyn'
      BY <3>1, <3>2 DEF PutInv
    <3>4. \A q \in Poller, o \in SynOrder : q # p => (Putting(q, o)' <=> Putting(q, o))
      BY <2>0 DEF OthersStay, Putting
    <3>5. \A o \in SynOrder : Putting(p, o)' => o = loc'[p].order
      BY DEF Putting
    <3>6. \A q \in Poller, o \in SynOrder : Putting(q, o) => o \in usedSyn
      BY DEF PutInv, PutPending
    <3>7. \A o \in SynOrder : <<"put", o>> \in landing' => o \in usedSyn /\ <<"put", o>> \in landing
      BY <3>2 DEF PutInv, PutPending
    <3>8. ASSUME NEW q \in Poller, NEW o \in SynOrder, Putting(q, o)'
          PROVE  /\ <<"put", o>> \notin landing'
                 /\ \A r \in Poller : Putting(r, o)' => r = q
      <4>1. CASE q = p
        BY <3>2, <3>4, <3>5, <3>6, <3>7, <3>8, <4>1
      <4>2. CASE q # p
        BY <3>2, <3>4, <3>5, <3>6, <3>7, <3>8, <4>2 DEF PutInv
      <4> QED
        BY <4>1, <4>2
    <3> QED
      BY <3>3, <3>8 DEF PutInv
  <2>3. CASE Put(p) \/ PutFault(p)
    <3>1. \A o \in SynOrder : PutPending(o)' => PutPending(o)
      BY <1>4, <2>3, PendingOf
    <3>2. /\ usedSyn' = usedSyn /\ pc'[p] = "finish"
          /\ \A o : <<"put", o>> \in landing' => <<"put", o>> \in landing \/ o = loc[p].order
      BY <2>3 DEF Put, PutFault, meter, Set, TypeOK
    <3>3. pc[p] = "put" /\ loc[p].order \in SynOrder
      BY <2>3 DEF Put, PutFault, OrderInHand
    <3>4. \A q \in Poller, o \in SynOrder : Putting(q, o)' => q # p /\ Putting(q, o)
      BY <2>0, <3>2 DEF OthersStay, Putting
    <3>5. Putting(p, loc[p].order)
      BY <3>3 DEF Putting
    <3>6. \A q \in Poller : Putting(q, loc[p].order) => q = p
      BY <3>3, <3>5 DEF PutInv
    <3>7. ASSUME NEW q \in Poller, NEW o \in SynOrder, Putting(q, o)'
          PROVE  /\ <<"put", o>> \notin landing'
                 /\ \A r \in Poller : Putting(r, o)' => r = q
      BY <3>2, <3>4, <3>6, <3>7 DEF PutInv
    <3> QED
      BY <3>1, <3>2, <3>7 DEF PutInv
  <2> QED
    BY <1>4, <2>1, <2>2, <2>3, PollEffect
<1> QED
  BY <1>1, <1>2, <1>3, <1>4 DEF Next

(* What a poll is deleting, or will: it has read a real order beside it. *)
DoomedBy(p, o) ==
  \/ pc[p] \in {"delete", "deleted"} /\ o \in loc[p].doomed
  \/ pc[p] = "split" /\ o \in loc[p].cur.orders /\ loc[p].cur.orders \cap RealOrder # {}

Doom(o) == <<"delete", o>> \in landing \/ \E p \in Poller : DoomedBy(p, o)

Early == {"bids", "comms", "feedback", "resume", "awards", "orders"}

HeldInv ==
  /\ \A o \in SynOrder \cap orders : Doom(o) => orders \cap RealOrder # {}
  /\ \A o \in SynOrder : PutPending(o) => <<"delete", o>> \notin landing
  /\ \A p \in Poller : pc[p] \in Early => loc[p].cur.orders = {}

(* A step of a poll dooms no order that was not, unless it has just read it
   beside a real one.                                                      *)
LEMMA DoomStep ==
  ASSUME TypeOK, DrawnInv, HeldInv, NEW p \in Poller,
         ReadNegotiation(p) \/ Proceed(p) \/ Fault(p)
  PROVE  /\ pc'[p] \in Early => loc'[p].cur.orders = {}
         /\ \A o \in SynOrder : DoomedBy(p, o)' =>
              \/ DoomedBy(p, o)
              \/ pc[p] = "orders" /\ orders \cap RealOrder # {}
<1>0. /\ pc[p] \in Early => loc[p].cur.orders = {}
      /\ loc[p].cur.orders \subseteq Order /\ loc[p].doomed \subseteq SynOrder
      /\ loc[p].cur.orders \cap SynOrder \subseteq usedSyn /\ synIds \subseteq usedSyn
      /\ \A o1, o2 \in usedSyn : o1 = o2
  BY LocalsOf DEF HeldInv, DrawnInv, Projection
<1>1. CASE ReadNegotiation(p)
  BY <1>1, ReadEffect DEF DoomedBy, Early
<1>2. CASE Finish(p) \/ Publishing(p)
  <2>1. pc'[p] \in {"idle", "put"}
    BY <1>2, FinishEffect, PublishEffect
    DEF Publishing, PublishesAll, PublishesBeforePut, GivesUp
  <2> QED
    BY <2>1 DEF DoomedBy, Early
<1>3. CASE QuietStep(p)
  <2>0. GivesUp(p) \/ Carries(p)
    BY <1>3, QuietEffect
  <2>1. CASE GivesUp(p)
    BY <2>1 DEF GivesUp, DoomedBy, Early
  <2>2. CASE Carries(p) /\ pc[p] \in Early \ {"orders"}
    <3>1. loc'[p].cur.orders = {} /\ pc'[p] \notin {"delete", "deleted"}
      BY <1>0, <2>2 DEF Carries, Flow, Early
    <3> QED
      BY <3>1 DEF DoomedBy
  <2>3. CASE Carries(p) /\ pc[p] = "orders"
    <3>1. pc'[p] = "split" /\ loc'[p].cur.orders \in {{}, orders}
      BY <1>0, <2>3 DEF Carries, Flow, Early
    <3> QED
      BY <2>3, <3>1 DEF DoomedBy, Early
  <2>4. CASE Carries(p) /\ pc[p] = "split"
    <3>1. /\ pc'[p] = "delete" /\ loc[p].cur.orders \ synIds # {}
          /\ loc'[p].doomed \subseteq loc[p].cur.orders \cap synIds
      BY <2>4 DEF Carries, Flow
    <3>2. ASSUME NEW o \in SynOrder, DoomedBy(p, o)' PROVE DoomedBy(p, o)
      <4>1. o \in loc[p].cur.orders /\ o \in synIds
        BY <3>1, <3>2 DEF DoomedBy
      <4>2. PICK r \in loc[p].cur.orders : r \notin synIds
        BY <3>1
      <4>3. r \in RealOrder
        BY <1>0, <4>1, <4>2 DEF Order
      <4> QED
        BY <2>4, <4>1, <4>2, <4>3 DEF DoomedBy
    <3> QED
      BY <3>1, <3>2 DEF Early
  <2>5. CASE Carries(p) /\ pc[p] \in {"delete", "deleted"}
    <3>1. pc'[p] \in {"delete", "deleted"} /\ loc'[p].doomed \subseteq loc[p].doomed
      BY <2>5 DEF Carries, Flow
    <3> QED
      BY <2>5, <3>1 DEF DoomedBy, Early
  <2>6. CASE Carries(p) /\ pc[p] = "put"
    <3>1. pc'[p] = "finish"
      BY <2>6 DEF Carries, Flow
    <3> QED
      BY <3>1 DEF DoomedBy, Early
  <2>7. Carries(p) => pc[p] \in Early \cup {"split", "delete", "deleted", "put"}
    BY DEF Carries, Flow, Early
  <2> QED
    BY <2>0, <2>1, <2>2, <2>3, <2>4, <2>5, <2>6, <2>7
<1> QED
  BY <1>1, <1>2, <1>3, Steps DEF Publishing, DeletesDone

LEMMA HeldPoll ==
  ASSUME TypeOK, OrderInHand, DrawnInv, KnownInv, PutInv, HeldInv, NEW p \in Poller,
         ReadNegotiation(p) \/ Proceed(p) \/ Fault(p)
  PROVE  HeldInv'
<1>0. /\ OthersStay(p) /\ SynOrder \cap RealOrder = {} /\ NoOrder \notin SynOrder
      /\ loc[p].doomed \subseteq SynOrder
  BY PollEffect, LocalsOf, ConstantAssumption
<1>1. /\ pc'[p] \in Early => loc'[p].cur.orders = {}
      /\ \A o \in SynOrder : DoomedBy(p, o)' =>
           \/ DoomedBy(p, o)
           \/ pc[p] = "orders" /\ orders \cap RealOrder # {}
  BY DoomStep
<1>2. \A q \in Poller : pc'[q] \in Early => loc'[q].cur.orders = {}
  BY <1>0, <1>1 DEF OthersStay, HeldInv
<1>3. \A q \in Poller \ {p} : \A o : DoomedBy(q, o)' <=> DoomedBy(q, o)
  BY <1>0 DEF OthersStay, DoomedBy
<1>4. CASE Bystander(p)
  <2>1. \A o \in SynOrder : PutPending(o)' <=> PutPending(o)
    BY <1>4, PendingOf
  <2>2. /\ orders' \subseteq orders /\ orders' \cap RealOrder = orders \cap RealOrder
        /\ \A o : <<"delete", o>> \in landing' =>
             <<"delete", o>> \in landing \/ (pc[p] = "delete" /\ o \in loc[p].doomed)
    BY <1>0, <1>4 DEF Bystander
  <2>3. \A o : pc[p] = "delete" /\ o \in loc[p].doomed => DoomedBy(p, o)
    BY DEF DoomedBy
  <2>4. ASSUME NEW o \in SynOrder \cap orders', Doom(o)'
        PROVE  orders' \cap RealOrder # {}
    <3>1. Doom(o) \/ orders \cap RealOrder # {}
      BY <1>1, <1>3, <2>2, <2>3, <2>4 DEF Doom
    <3> QED
      BY <2>2, <3>1 DEF HeldInv
  <2>5. ASSUME NEW o \in SynOrder, PutPending(o)' PROVE <<"delete", o>> \notin landing'
    <3>1. PutPending(o)
      BY <2>1, <2>5
    <3>2. <<"delete", o>> \notin landing /\ o \notin loc[p].doomed
      BY <3>1 DEF HeldInv, KnownInv
    <3> QED
      BY <2>2, <3>2
  <2> QED
    BY <1>2, <2>4, <2>5 DEF HeldInv
<1>5. CASE Draws(p)
  <2>1. usedSyn = {} /\ UNCHANGED <<orders, landing>>
    BY <1>5 DEF Draws, DrawnInv
  <2>2. orders \cap SynOrder = {} /\ landing = {}
    BY <2>1 DEF DrawnInv
  <2> QED
    BY <1>2, <2>1, <2>2 DEF HeldInv
<1>6. CASE Put(p) \/ PutFault(p)
  <2> DEFINE id == loc[p].order
  <2>1. id \in SynOrder /\ pc[p] = "put" /\ PutPending(id)
    BY <1>6 DEF Put, PutFault, OrderInHand, PutPending, Putting
  <2>2. \A o : DoomedBy(p, o)' => FALSE
    <3>1. pc'[p] = "finish"
      BY <1>6 DEF Put, PutFault, Set, TypeOK
    <3> QED
      BY <3>1 DEF DoomedBy
  <2>3. /\ orders' \in {orders, orders \cup {id}}
        /\ \A o : <<"delete", o>> \in landing' <=> <<"delete", o>> \in landing
    BY <1>6 DEF Put, PutFault, meter, db
  <2>4. \A o \in SynOrder : PutPending(o)' => PutPending(o)
    BY <1>6, PendingOf
  <2>5. \A o : Doom(o)' => Doom(o)
    BY <1>3, <2>2, <2>3 DEF Doom
  <2>6. ~Doom(id)
    <3>1. \A q \in Poller : id \notin loc[q].cur.orders /\ id \notin loc[q].doomed
      BY <2>1 DEF KnownInv
    <3>2. <<"delete", id>> \notin landing
      BY <2>1 DEF HeldInv
    <3> QED
      BY <3>1, <3>2 DEF Doom, DoomedBy
  <2>7. ASSUME NEW o \in SynOrder \cap orders', Doom(o)'
        PROVE  orders' \cap RealOrder # {}
    BY <2>3, <2>5, <2>6, <2>7 DEF HeldInv
  <2> QED
    BY <1>2, <2>3, <2>4, <2>7 DEF HeldInv
<1> QED
  BY <1>4, <1>5, <1>6, PollEffect

LEMMA HeldStep ==
  ASSUME TypeOK, OrderInHand, PutInv, restarts = 0 => DrawnInv /\ KnownInv /\ HeldInv,
         [Next]_vars
  PROVE  (restarts = 0 => HeldInv)'
<1>1. CASE Restart
  BY <1>1 DEF Restart, TypeOK
<1>2. CASE Orchestrator \/ ResetStep \/ Subscribe \/ UNCHANGED vars
  <2>1. UNCHANGED <<pc, loc, landing, restarts>>
    BY <1>2
    DEF Orchestrator, OrchStatus, OrchClassify, OrchInvite, OrchFeedback, OrchBid,
        OrchAward, OrchOrder, ResetStep, Subscribe, vars, meter
  <2>2. orders' = {} \/ \E new \in SUBSET RealOrder : orders' = orders \cup new
    <3>1. orders' = orders \/ orders' = {} \/ \E o \in RealOrder : orders' = orders \cup {o}
      BY <1>2
      DEF Orchestrator, OrchStatus, OrchClassify, OrchInvite, OrchFeedback, OrchBid,
          OrchAward, OrchOrder, ResetStep, Subscribe, vars, db
    <3>2. orders = orders \cup {}
      OBVIOUS
    <3> QED
      BY <3>1, <3>2
  <2>3. /\ \A o : Doom(o)' <=> Doom(o)
        /\ \A o : PutPending(o)' <=> PutPending(o)
    BY <2>1 DEF Doom, DoomedBy, PutPending, Putting
  <2> QED
    BY <2>1, <2>2, <2>3, ConstantAssumption DEF HeldInv
<1>3. ASSUME NEW call \in landing, Land(call) PROVE (restarts = 0 => HeldInv)'
  <2>1. /\ UNCHANGED <<pc, loc, restarts>> /\ landing' = landing \ {call}
        /\ orders' = IF call[1] = "put" THEN orders \cup {call[2]} ELSE orders \ {call[2]}
    BY <1>3 DEF Land
  <2>2. PICK i \in SynOrder : call \in {<<"put", i>>, <<"delete", i>>}
    BY DEF TypeOK
  <2>3. /\ \A o : Doom(o)' => Doom(o)
        /\ \A o : PutPending(o)' => PutPending(o)
    BY <2>1 DEF Doom, DoomedBy, PutPending, Putting
  <2>4. CASE call = <<"put", i>> /\ restarts = 0
    <3>1. PutPending(i) /\ orders' = orders \cup {i}
      BY <2>1, <2>4 DEF PutPending
    <3>2. ~Doom(i)
      BY <2>4, <3>1 DEF HeldInv, KnownInv, Doom, DoomedBy
    <3> QED
      BY <2>1, <2>3, <2>4, <3>1, <3>2 DEF HeldInv
  <2>5. CASE call = <<"delete", i>> /\ restarts = 0
    <3>1. orders' = orders \ {i} /\ i \notin RealOrder
      BY <2>1, <2>5, ConstantAssumption
    <3> QED
      BY <2>1, <2>3, <2>5, <3>1 DEF HeldInv
  <2> QED
    BY <2>1, <2>2, <2>4, <2>5
<1>4. CASE \E p \in Poller : ReadNegotiation(p) \/ Proceed(p) \/ Fault(p)
  BY <1>4, HeldPoll, PollEffect
<1> QED
  BY <1>1, <1>2, <1>3, <1>4 DEF Next

(* A pending put that ends spends its uuid. *)
LEMMA SpendOne ==
  ASSUME TypeOK, PutInv, restarts = 0 => DrawnInv, NEW id \in SynOrder, PutPending(id),
         usedSyn' = usedSyn,
         \A o \in SynOrder : PutPending(o)' <=> PutPending(o) /\ o # id
  PROVE  Table!Spend(id)
<1>1. id \in usedSyn /\ id \notin Spent
  BY DEF PutInv, Spent
<1>2. Spent' = Spent \cup {id}
  BY <1>1 DEF Spent, TypeOK
<1>3. Spent = {} \/ restarts > 0
  <2>1. CASE restarts = 0
    BY <1>1, <2>1 DEF DrawnInv, Spent
  <2>2. CASE restarts # 0
    BY <2>2 DEF TypeOK
  <2> QED
    BY <2>1, <2>2
<1> QED
  BY <1>1, <1>2, <1>3 DEF Table!Spend

(* A doomed order may be dropped. *)
LEMMA DropDoomed ==
  ASSUME TypeOK, restarts = 0 => HeldInv, NEW o \in SynOrder, Doom(o),
         orders' = orders \ {o}, UNCHANGED <<Spent, restarts>>
  PROVE  Table!Drop(o) \/ UNCHANGED Table!vars
<1>1. CASE o \notin orders
  <2>1. orders' = orders
    BY <1>1
  <2> QED
    BY <2>1 DEF Table!vars
<1>2. CASE o \in orders
  <2>1. orders \cap RealOrder # {} \/ restarts > 0
    <3>1. CASE restarts = 0
      BY <1>2, <3>1 DEF HeldInv
    <3>2. CASE restarts # 0
      BY <3>2 DEF TypeOK
    <3> QED
      BY <3>1, <3>2
  <2> QED
    BY <1>2, <2>1 DEF Table!Drop
<1> QED
  BY <1>1, <1>2

LEMMA TablePoll ==
  ASSUME TypeOK, OrderInHand, PutInv, restarts = 0 => DrawnInv /\ HeldInv, NEW p \in Poller,
         ReadNegotiation(p) \/ Proceed(p) \/ Fault(p)
  PROVE  Table!Next \/ UNCHANGED Table!vars
<1>0. UNCHANGED restarts
  BY PollEffect
<1>1. CASE Bystander(p)
  <2>1. Spent' = Spent
    BY <1>1, PendingOf DEF Spent, Bystander
  <2>2. CASE orders' = orders
    BY <1>0, <2>1, <2>2 DEF Table!vars
  <2>3. CASE orders' # orders
    <3>1. PICK o \in loc[p].doomed : pc[p] = "delete" /\ orders' = orders \ {o}
      BY <1>1, <2>3 DEF Bystander
    <3>2. o \in SynOrder /\ Doom(o)
      BY <3>1, LocalsOf DEF Doom, DoomedBy
    <3> QED
      BY <1>0, <2>1, <3>1, <3>2, DropDoomed DEF Table!Next
  <2> QED
    BY <2>2, <2>3
<1>2. CASE Draws(p)
  <2>1. PICK o \in SynOrder \ usedSyn : usedSyn' = usedSyn \cup {o} /\ loc'[p].order = o
    BY <1>2 DEF Draws
  <2>2. \A i \in SynOrder : PutPending(i)' <=> PutPending(i) \/ i = o
    BY <1>2, <2>1, PendingOf
  <2>3. Spent' = Spent
    BY <2>1, <2>2 DEF Spent
  <2> QED
    BY <1>0, <1>2, <2>3 DEF Draws, Table!vars
<1>3. CASE Put(p) \/ PutFault(p)
  <2> DEFINE id == loc[p].order
  <2>1. id \in SynOrder /\ PutPending(id)
    BY <1>3 DEF Put, PutFault, OrderInHand, PutPending, Putting
  <2>2. usedSyn' = usedSyn
    BY <1>3 DEF Put, PutFault, meter
  <2>3. CASE Put(p)
    <3>1. \A o \in SynOrder : PutPending(o)' <=> PutPending(o) /\ o # id
      BY <2>3, PendingOf
    <3>2. Table!Spend(id)
      BY <2>1, <2>2, <3>1, SpendOne
    <3> QED
      BY <1>0, <2>1, <2>3, <3>2 DEF Put, Table!Put, Table!Next
  <2>4. CASE PutFault(p)
    <3>1. orders' = orders
      BY <2>4 DEF PutFault, db
    <3>2. CASE \A o \in SynOrder : PutPending(o)' <=> PutPending(o) /\ o # id
      <4>1. Table!Spend(id)
        BY <2>1, <2>2, <3>2, SpendOne
      <4> QED
        BY <1>0, <2>1, <3>1, <4>1 DEF Table!GiveUp, Table!Next
    <3>3. CASE \A o \in SynOrder : PutPending(o)' <=> PutPending(o)
      BY <1>0, <2>2, <3>1, <3>3 DEF Spent, Table!vars
    <3> QED
      BY <2>4, <3>2, <3>3, PendingOf
  <2> QED
    BY <1>3, <2>3, <2>4
<1> QED
  BY <1>1, <1>2, <1>3, PollEffect

LEMMA TableLand ==
  ASSUME TypeOK, PutInv, restarts = 0 => DrawnInv /\ HeldInv, NEW call \in landing, Land(call)
  PROVE  Table!Next \/ UNCHANGED Table!vars
<1>1. /\ UNCHANGED <<pc, loc, restarts, usedSyn>> /\ landing' = landing \ {call}
      /\ orders' = IF call[1] = "put" THEN orders \cup {call[2]} ELSE orders \ {call[2]}
  BY DEF Land
<1>2. PICK i \in SynOrder : call \in {<<"put", i>>, <<"delete", i>>}
  BY DEF TypeOK
<1>3. \A q \in Poller : \A o : Putting(q, o)' <=> Putting(q, o)
  BY <1>1 DEF Putting
<1>4. CASE call = <<"put", i>>
  <2>1. PutPending(i) /\ \A q \in Poller : ~Putting(q, i)
    BY <1>4 DEF PutPending, PutInv
  <2>2. \A o \in SynOrder : PutPending(o)' <=> PutPending(o) /\ o # i
    BY <1>1, <1>3, <1>4, <2>1 DEF PutPending
  <2>3. Table!Spend(i)
    BY <1>1, <2>1, <2>2, SpendOne
  <2> QED
    BY <1>1, <1>4, <2>3 DEF Table!Put, Table!Next
<1>5. CASE call = <<"delete", i>>
  <2>1. orders' = orders \ {i} /\ Doom(i)
    BY <1>1, <1>5 DEF Doom
  <2>2. \A o \in SynOrder : PutPending(o)' <=> PutPending(o)
    BY <1>1, <1>3, <1>5 DEF PutPending
  <2>3. Spent' = Spent
    BY <1>1, <2>2 DEF Spent
  <2> QED
    BY <1>1, <2>1, <2>3, DropDoomed DEF Table!Next
<1> QED
  BY <1>2, <1>4, <1>5

LEMMA TableStep ==
  ASSUME TypeOK, OrderInHand, PutInv, restarts = 0 => DrawnInv /\ HeldInv, [Next]_vars
  PROVE  [Table!Next]_(Table!vars)
<1>1. CASE Restart
  <2>1. /\ usedSyn' = usedSyn /\ orders' = orders /\ restarts' = restarts + 1
        /\ \A p \in Poller : \A o : ~Putting(p, o)'
        /\ landing' = landing \cup {<<"put", loc[p].order>> : p \in {q \in Poller : pc[q] = "put"}}
    BY <1>1 DEF Restart, Putting, db
  <2>2. ASSUME NEW o \in SynOrder PROVE PutPending(o)' <=> PutPending(o)
    BY <2>1 DEF PutPending, Putting
  <2>3. Spent' = Spent
    BY <2>1, <2>2 DEF Spent
  <2>4. (restarts > 0)'
    BY <2>1 DEF TypeOK
  <2> QED
    BY <2>1, <2>3, <2>4 DEF Table!Forget, Table!Next
<1>2. CASE Orchestrator \/ ResetStep \/ Subscribe \/ UNCHANGED vars
  <2>1. /\ UNCHANGED <<pc, loc, landing, usedSyn, restarts>>
        /\ \/ orders' \in {orders, {}}
           \/ \E o \in RealOrder : o \notin orders /\ orders' = orders \cup {o}
    BY <1>2
    DEF Orchestrator, OrchStatus, OrchClassify, OrchInvite, OrchFeedback, OrchBid,
        OrchAward, OrchOrder, ResetStep, Subscribe, vars, meter, db
  <2>2. Spent' = Spent
    BY <2>1 DEF Spent, PutPending, Putting
  <2> QED
    BY <2>1, <2>2 DEF Table!Deliver, Table!Empty, Table!Next, Table!vars
<1> QED
  BY <1>1, <1>2, TablePoll, TableLand DEF Next

(* Whatever polls overlap, fail, time out and land late, and whenever the
   harness restarts, the observer writes and deletes its own order as
   SyntheticOrder says.                                                    *)
THEOREM OneOrderKept == Spec => KeepsToOneOrder
<1> DEFINE Kind == restarts = 0 => DrawnInv /\ KnownInv /\ HeldInv
<1>1. Init => PutInv /\ Kind
  <2>1. Init => PutInv /\ DrawnInv /\ KnownInv
    BY DEF Init, PutInv, DrawnInv, KnownInv, PutPending, Putting, NoLocals, Untracked
  <2>2. Init => HeldInv
    BY DEF Init, HeldInv, Early, PutPending, Putting
  <2> QED
    BY <2>1, <2>2
<1>2. TypeOK /\ OrderInHand /\ PutInv /\ Kind /\ [Next]_vars => PutInv' /\ Kind'
  BY PutStep, DrawnStep, KnownStep, HeldStep
<1>3. TypeOK /\ OrderInHand /\ PutInv /\ Kind /\ [Next]_vars => [Table!Next]_(Table!vars)
  BY TableStep
<1>4. Init => Table!Init
  BY DEF Init, Table!Init, Spent
<1> HIDE DEF Kind
<1> QED
  BY <1>1, <1>2, <1>3, <1>4, TypeCorrect, PTL DEF Spec, KeepsToOneOrder, Table!Spec

(* SyntheticOrder promises one synthetic order at most until a restart: what
   SyntheticUnique says of the detailed specification holds of every program
   that keeps to the abstract one.                                         *)
THEOREM OneIsPromised == KeepsToOneOrder => []OneSynthetic
<1> DEFINE Single ==
      restarts > 0 \/ ((\A o1, o2 \in Spent : o1 = o2) /\ orders \cap SynOrder \subseteq Spent)
<1>1. Table!Init => Single
  BY DEF Table!Init
<1>2. Single /\ [Table!Next]_(Table!vars) => Single'
  <2> SUFFICES ASSUME Single, [Table!Next]_(Table!vars) PROVE Single'
    OBVIOUS
  <2>1. CASE UNCHANGED Table!vars
    BY <2>1 DEF Table!vars
  <2>2. CASE \E o \in RealOrder : Table!Deliver(o)
    BY <2>2, ConstantAssumption DEF Table!Deliver
  <2>3. CASE \E o \in SynOrder : Table!Put(o) \/ Table!GiveUp(o)
    BY <2>3 DEF Table!Put, Table!GiveUp, Table!Spend
  <2>4. CASE \E o \in SynOrder : Table!Drop(o)
    BY <2>4 DEF Table!Drop
  <2>5. CASE Table!Empty \/ Table!Forget
    BY <2>5 DEF Table!Empty, Table!Forget
  <2> QED
    BY <2>1, <2>2, <2>3, <2>4, <2>5 DEF Table!Next
<1>3. Single => OneSynthetic
  BY DEF OneSynthetic
<1> QED
  BY <1>1, <1>2, <1>3, PTL DEF KeepsToOneOrder, Table!Spec
=============================================================================

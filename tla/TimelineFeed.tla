---------------------------- MODULE TimelineFeed ----------------------------
(***************************************************************************)
(* How the Timeline component comes to show a negotiation: the GET and SSE  *)
(* endpoints of observer.py, the projection they share with poll_loop, and  *)
(* the browser's EventSource, its refetch after every update, and its 5 s   *)
(* polling fallback.                                                       *)
(*                                                                         *)
(* What the tables hold is a set of facts that grows: the row, statuses it  *)
(* reaches, bids and invitations, awards and orders.  A poll reads the      *)
(* facts of First in one thread call and those of Late in further ones that *)
(* may fail without failing the poll; a fact is announced once.  Left out,  *)
(* as OfferProjection has them: the order of the reads of a thread call,    *)
(* which orders are synthetic, and the status a stale poll publishes again. *)
(* A read that succeeds is taken to return all that is there.              *)
(***************************************************************************)
EXTENDS Naturals, Sequences

CONSTANTS
  Row,         \* the negotiation row with its first status
  Status,      \* the row and the statuses that follow: announced last
  First,       \* Status, bids, invitations and feedback: the first thread call
  Late,        \* awards and orders
  Loop,        \* poll_loop's poll
  Stream,      \* the poll of the EventSource's connection
  Fetch,       \* bound: GET requests of the browser in flight at a time
  None,        \* no projection
  NotFound,    \* the body of a 404: {"detail": ...}
  MaxFaults    \* bound: reads that fail, responses and connections lost, restarts

ASSUME FactAssumption ==
  /\ Row \in Status /\ Status \subseteq First /\ First \cap Late = {}

ASSUME PollerAssumption == Loop # Stream /\ Loop \notin Fetch /\ Stream \notin Fetch

ASSUME BoundAssumption == Fetch # {} /\ MaxFaults \in Nat

VARIABLES
  tables,       \* what the tables hold
  \* the harness
  saved,        \* _state: what the projection holds, or None
  announced,    \* the guard sets: what has been published
  queue,        \* the stream's subscriber queue, and what it has sent that is under way
  poll,         \* each caller of poll_once: where it is, what it has read
  scope,        \* the facts the stream's own poll has looked for and not failed to read
  \* the browser
  shown,        \* the state Timeline renders
  told,         \* what this connection has spoken of
  faults

vars == <<tables, saved, announced, queue, poll, scope, shown, told, faults>>

Fact == First \cup Late
Poller == Fetch \cup {Loop, Stream}
Idle == [at |-> "free", got |-> {}]
Asked == [at |-> "asked", got |-> {}]     \* of the loop: a cycle will poll
Message == {"snapshot", "update", "waiting"} \X SUBSET Fact

TypeOK ==
  /\ tables \subseteq Fact /\ saved \in (SUBSET Fact) \cup {None}
  /\ announced \subseteq Fact /\ queue \in Seq(Message) /\ scope \subseteq Fact
  /\ poll \in [Poller -> [at : {"free", "asked", "read", "late", "put", "answered"},
                          got : (SUBSET Fact) \cup {NotFound}]]
  /\ shown \in (SUBSET Fact) \cup {None, NotFound} /\ told \subseteq Fact
  /\ faults \in 0..MaxFaults

(* The mount effect has just asked for the snapshot and opened the stream. *)
Init ==
  /\ tables = {} /\ saved = None /\ announced = {} /\ queue = <<>> /\ scope = {}
  /\ \E f \in Fetch : poll = [p \in Poller |-> IF p = f THEN Asked ELSE Idle]
  /\ shown = None /\ told = {} /\ faults = 0

Fails == faults < MaxFaults /\ faults' = faults + 1

Streaming == poll[Stream].at = "answered"

(* Faulty variant: subscribe after the snapshot has been sent. *)
SubscribedLate == Streaming

Subscribed == poll[Stream].at # "free"

Change ==
  /\ \E x \in Fact \ tables : (Row \in tables \/ x = Row) /\ tables' = tables \cup {x}
  /\ UNCHANGED <<saved, announced, queue, poll, scope, shown, told, faults>>

(***************************************************************************)
(* poll_once.  poll_loop's cycle polls what is in _state or has ever been   *)
(* subscribed to: unsubscribe leaves the key in _subscribers.              *)
(***************************************************************************)
Starts(p) == poll[p].at = "asked" \/ (p = Loop /\ poll[p].at = "free" /\ saved # None)

ReadFirst(p) ==
  /\ Starts(p)
  /\ poll' = [poll EXCEPT ![p] = [at |-> "read", got |-> tables \cap First]]
  /\ scope' = IF p = Stream THEN Fact ELSE scope
  /\ UNCHANGED <<tables, saved, announced, queue, shown, told, faults>>

(* Awards and orders are asked for by the row's requisition; a call that
   fails counts as having found none.                                      *)
ReadLate(p) ==
  /\ poll[p].at = "read" /\ Row \in poll[p].got
  /\ \E lost \in SUBSET (tables \cap Late) :
       /\ poll' = [poll EXCEPT ![p] = [at |-> "late", got |-> poll[p].got \cup ((tables \cap Late) \ lost)]]
       /\ IF lost = {} THEN UNCHANGED <<scope, faults>>
          ELSE Fails /\ scope' = IF p = Stream THEN First ELSE scope
  /\ UNCHANGED <<tables, saved, announced, queue, shown, told>>

(* What the guard sets let through is queued for a subscriber. *)
Updates(facts) ==
  IF facts \subseteq announced \/ ~Subscribed THEN queue
  ELSE Append(queue, <<"update", facts \ announced>>)

(* The callers: the loop goes round, a GET answers, the stream sends its
   first message ahead of what is queued.                                  *)
Return(p, answer, message, events) ==
  /\ poll' = [poll EXCEPT ![p] =
       IF p = Loop THEN Asked
       ELSE [at |-> "answered", got |-> IF p = Stream THEN {} ELSE answer]]
  /\ queue' = IF p = Stream THEN <<message>> \o events ELSE events

Finished(p) ==
  LET got == poll[p].got IN
    /\ saved' = got /\ announced' = announced \cup got
    /\ Return(p, got, <<"snapshot", got>>, Updates(got))

(* The reads are in: what is read is saved and announced, the status last,
   and when an award has no order yet after the synthetic order's put.     *)
Reads(p) ==
  \/ poll[p].at = "late"
  \/ poll[p].at = "read" /\ Row \notin poll[p].got /\ saved # None

Save(p) ==
  /\ Reads(p) /\ Finished(p)
  /\ UNCHANGED <<tables, scope, shown, told, faults>>

SaveAndPut(p) ==
  /\ Reads(p) /\ poll[p].got \cap Late # {}
  /\ saved' = poll[p].got
  /\ announced' = announced \cup (poll[p].got \ Status) /\ queue' = Updates(poll[p].got \ Status)
  /\ poll' = [poll EXCEPT ![p].at = "put"]
  /\ UNCHANGED <<tables, scope, shown, told, faults>>

Finish(p) ==
  /\ poll[p].at = "put" /\ Finished(p)
  /\ UNCHANGED <<tables, scope, shown, told, faults>>

(* poll_once returns None: a GET falls back on get_state, or answers 404. *)
ReturnNone(p) == Return(p, IF saved = None THEN NotFound ELSE saved, <<"waiting", {}>>, queue)

NoRow(p) ==
  /\ poll[p].at = "read" /\ Row \notin poll[p].got /\ saved = None
  /\ ReturnNone(p)
  /\ UNCHANGED <<tables, saved, announced, scope, shown, told, faults>>

PollFails(p) ==
  /\ Starts(p) /\ Fails
  /\ ReturnNone(p)
  /\ UNCHANGED <<tables, saved, announced, scope, shown, told>>

(***************************************************************************)
(* GET /demo/negotiations/{id}/stream                                      *)
(***************************************************************************)
Subscribe ==
  /\ ~Subscribed
  /\ poll' = [poll EXCEPT ![Stream] = Asked, ![Loop] = IF @ = Idle THEN Asked ELSE @]
  /\ UNCHANGED <<tables, saved, announced, queue, scope, shown, told, faults>>

(* The connection breaks; what was queued or under way is lost, and the
   EventSource connects again.                                             *)
Disconnect ==
  /\ queue' = <<>> /\ scope' = {} /\ told' = {}
  /\ UNCHANGED <<tables, shown>>

Drop ==
  /\ Subscribed /\ Fails /\ Disconnect
  /\ poll' = [poll EXCEPT ![Stream] = Idle]
  /\ UNCHANGED <<saved, announced>>

Restart ==
  /\ Fails
  /\ saved' = None /\ announced' = {} /\ Disconnect
  /\ poll' = [p \in Poller |->
       IF p \in Fetch /\ poll[p].at = "answered" THEN poll[p] ELSE Idle]

(***************************************************************************)
(* The browser                                                             *)
(***************************************************************************)
Ask(f) == poll[f].at = "free" /\ poll' = [poll EXCEPT ![f] = Asked]

(* Faulty variant: the interval is only there until something is shown. *)
PollAtFirst(f) ==
  /\ Ask(f) /\ shown = None
  /\ UNCHANGED <<tables, saved, announced, queue, scope, shown, told, faults>>

(* The 5 s interval. *)
Poll(f) ==
  /\ Ask(f)
  /\ UNCHANGED <<tables, saved, announced, queue, scope, shown, told, faults>>

(* .then(setState): responses are applied in the order they arrive, and a
   404's body is a state like any other.                                   *)
Apply(f) ==
  /\ poll[f].at = "answered"
  /\ shown' = poll[f].got /\ poll' = [poll EXCEPT ![f] = Idle]
  /\ UNCHANGED <<tables, saved, announced, queue, scope, told, faults>>

Lose(f) ==
  /\ poll[f].at = "answered" /\ Fails /\ poll' = [poll EXCEPT ![f] = Idle]
  /\ UNCHANGED <<tables, saved, announced, queue, scope, shown, told>>

(* A snapshot is shown, an update asks for the state again. *)
Receive ==
  /\ Streaming /\ queue # <<>>
  /\ LET kind == Head(queue)[1]
         facts == Head(queue)[2] IN
       /\ told' = told \cup facts
       /\ shown' = IF kind = "snapshot" THEN facts ELSE shown
       /\ IF kind = "update" THEN \E f \in Fetch : Ask(f) ELSE UNCHANGED poll
  /\ queue' = Tail(queue)
  /\ UNCHANGED <<tables, saved, announced, scope, faults>>

PollStep(p) == ReadFirst(p) \/ ReadLate(p) \/ Save(p) \/ SaveAndPut(p) \/ Finish(p) \/ NoRow(p)

Next ==
  \/ Change \/ Subscribe \/ Drop \/ Restart \/ Receive
  \/ \E p \in Poller : PollStep(p) \/ PollFails(p)
  \/ \E f \in Fetch : Poll(f) \/ Apply(f) \/ Lose(f)

Spec == Init /\ [][Next]_vars

(* The interval keeps firing, requests are served and answers arrive; the
   stream and poll_loop are assumed nothing of.                            *)
Fairness == \A f \in Fetch : WF_vars(PollStep(f)) /\ WF_vars(Apply(f)) /\ WF_vars(Poll(f))

FairSpec == Spec /\ Fairness
-----------------------------------------------------------------------------
(***************************************************************************)
(* Properties                                                              *)
(***************************************************************************)
(* Timeline.tsx:149-150 "so the UI stays in sync even if SSE events are
   missed": when the tables change no more, the component ends up showing
   them, unless there is no row yet, although reads of awards fail unnoticed,
   polls fail, responses and connections are lost, the harness restarts, and
   the stream may stall for ever.                                          *)
InSync == <>[](Row \in tables => shown = tables)

(* stream_negotiation subscribes before it polls: when a connection has no
   message left to bring, nothing announced is missing from what it has said.
   What its own poll failed to read it does not answer for: an award announced
   before the subscription is then missing, and the guard sets let it through
   no second time.                                                         *)
StreamCovers == Streaming /\ queue = <<>> => announced \cap scope \subseteq told
=============================================================================

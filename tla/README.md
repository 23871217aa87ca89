# Verification of the buyer-team demo

TLA+ models of the programs in this repository: the **demo harness**
(`demo-harness-project`), which watches negotiations run by the buyer-team
orchestrator and streams them to a browser, and the **test-tenant app**
(`test_tenant_app`), which creates requisitions, decides paused ones, and whose
clients the harness uses. The orchestrator itself (the Step Functions workflow with
its nodes, agents and Lambdas) and DynamoDB are not in the repository: they appear
as environment actions that say no more than the code expects of them.

Prefixes: `H` = `demo-harness-project/backend/src/demo_harness`,
`T` = `test_tenant_app/backend/src/test_tenant_app`,
`F` = `demo-harness-project/frontend/src`.

## 1. Inventory

| part | state | operations | talks to | what is hard | what makes it correct |
| --- | --- | --- | --- | --- | --- |
| offer projection, `H/offer_projection.py` | `_state`, `_published_*`, `_synthetic_*`, `_subscribers` | `poll_once`, `poll_loop`, `subscribe`, `_publish` | DynamoDB tables, observer | overlapping polls, stale reads, calls that time out and land later, restarts | an event once, nothing shown unannounced, one synthetic order, convergence |
| observer: projection and stream, `H/observer.py` | a queue for each connection | `get_negotiation`, `stream_negotiation` | offer projection, Timeline | subscribing against polling, reads that fail unnoticed, dropped connections | a stream that misses nothing its own poll could read |
| Timeline, `F/components/Timeline.tsx` | the projection it shows | snapshot, EventSource, refetch, 5 s poll | observer | late answers, lost events, restarts of the harness | it ends up showing what the tables hold |
| HITL approval: `F/components/ApprovalControls.tsx`, `H/observer.py`, `T/clients/graph_client.py`, live decisions of `T/clients/master_data_client.py` | none but the rows | approve, reject, cycle back, cancel | the Lambda of Node 6 | lost responses repeated by boto3, failed invocations, decisions from two places | what the approver is told is true, no COMPLETED without an order, a cancellation that is let through does not leave the execution paused |
| Step Functions graph, `H/observer.py`, `F/components/SfnGraph.tsx` | the graph shown | `get_sfn_graph`, 5 s poll | Step Functions | status and pages read while the execution runs, answers that overtake each other | one moment's graph, no false alarm, the final graph in the end |
| other reads of the observer (trace, logs, audit trail, metrics, bids, node graph) | none | one request each | DynamoDB, CloudWatch, Step Functions | nothing but partial answers | each formats what one request read |
| supplier inbox, `H/observer.py`, `F/components/SupplierInbox.tsx` | the expanded row | RFQs of a supplier, their detail | DynamoDB | three tables read one after the other while they are written, late answers for a row no longer expanded | the three tell one story, in the order it happened |
| health, `H/health.py`, `F/components/BuyerTeamStatus.tsx` | caches of identity and state machine ARN | `/demo/health`, 15 s poll | AWS | caches filled by racing threads, a miss cached for good | a state machine once found is not forgotten |
| reset, `H/reset_demo.py` | none between runs | `reset` | DynamoDB | stops between two deletes, refused deletes, executions writing meanwhile | others lose nothing, a repeated run cleans up |
| seed, `H/seed.py` | none | `seed` | DynamoDB | a run that stops half way | every put is repeatable |
| PR generator and form, list of the harness | the form, the list | generate, create, expand | tenant app | late answers in the list | the expanded row shows its own data |
| requisitions of the tenant app in stub mode, `T/api/requisitions.py`, `T/clients/master_data_client.py` | `_stub_requisitions`, `_stub_orders` | create, list, get, approve, reject, cycle back, cancel | the pool's threads, the clock | check-then-act without locks, live dictionaries handed out, state that only moves when asked | a completed requisition has its order, re-runs are bounded, a decision nothing overlaps is final |
| requisitions of the tenant app in live mode, `T/clients/master_data_client.py`, `T/api/negotiations.py` | rows | list, get, cancel, negotiations, bids, awards | DynamoDB | an answer put together from tables read one after the other, rows left half written | what is shown has happened, nothing a complete read could see is missed, a list is served |
| orders inbox of the tenant app, `T/api/orders.py`, `T/clients/dynamo_client.py` | rows of `test-tenant-orders` | list, get, acknowledge, reject, report | DynamoDB, the harness's synthetic orders | deciding a row deleted meanwhile, rows the models refuse | a decision answered with success is one, of an order that is there |
| negotiation report, `T/negotiation_report.py` | none | sections, quotes, summary of one order | requisition, catalogue, order | categories that alternate, items in no category, quadrants unknown | the sections add up to the order |
| skills, catalogue, datasets, costs, JWT, models, PDF layout, wiring, display components, scripts | caches of constants | reads and formatting | – | – | – |

How they interact: the tenant app starts a workflow and writes the requisition; the
orchestrator writes negotiations, communications, bids, awards and orders; the
harness's `poll_loop` and handlers read those tables through the tenant app's
clients into one projection for each negotiation, publish the differences to the
queues of the SSE handlers, and put a *synthetic* order where the orchestrator has
not delivered one; the browser shows the projection and sends decisions back
through `graph_client` to the Lambda that holds the paused execution's token.
`reset_demo.py` empties the tables under all of them.

`PROJECT.json` lists every part with its status, and the hazards line by line.

## 2. Modules

| module | models | extends or instantiates | proofs |
| --- | --- | --- | --- |
| `OfferProjection` | polls of one negotiation | implements `SyntheticOrder` | `OfferProjectionProofs` |
| `SyntheticOrder` | what the harness promises other readers of the orders table about its own order | – | – |
| `Requisitions` | handlers of one requisition in stub mode | implements `RequisitionLifecycle` | `RequisitionsProofs` |
| `RequisitionLifecycle` | what the requisitions API promises | – | – |
| `TenantLive` | handlers in live mode, table by table, composed with orchestrator, harness and reset | `NegotiationReport` | `TenantLiveProofs` |
| `NegotiationReport` | the report's figures, as operators | – | `NegotiationReportProofs` |
| `ResetDemo` | the reset script | – | `ResetDemoProofs` |
| `TimelineFeed` | GET, SSE and the component, over an abstraction of `poll_once` | – | `TimelineFeedProofs` |
| `ApprovalGate` | decisions in live mode | – | `ApprovalGateProofs` |
| `SfnGraph` | the execution's graph and the lookup of its state machine | – | `SfnGraphProofs` |
| `MC*` | symmetry and the values a `.cfg` cannot write down (`Requisitions` needs neither) | the module of that name | – |

Definitions under a comment that begins with *Faulty variant* belong to no specification:
each is a plausible mistake in the definition it precedes and shows, put in its
place, that a property can fail.

### Reads of DynamoDB

No read that is modelled asks for `ConsistentRead`, and none but `skill_client.py` (line
143) and the paginators of `reset_demo.py` follows `LastEvaluatedKey`. A negotiation is found by
way of `requisition_index` (`T/clients/dynamo_client.py` 219–227), a global index that
follows its table eventually. The models take this into account in one place and
assume it away elsewhere:

- `TenantLive` lets the reads of bids, awards and communications return any part of
  what is there (a page of a query, or of a filtered scan of everybody's rows), and lets
  the index miss the negotiation when bids and awards are looked for. `cut` records that
  an answer was put together from such a read; what is then promised is less.
- Everywhere else **a read is taken to be current and complete.** On that assumption
  rest `TrackerTrue` and `TrackerOrdered` (an index that lags behind by one write makes
  the tracker show what reading in the wrong order would), `InvitationsNotGuessed`
  (`_query_bids` and `_query_communications` are one page each; an invitation on a second
  page is taken for none) and, with it, what `OfferProjection` says of convergence, and
  `InSync` as far as reads that succeed are concerned.

### OfferProjection — one negotiation as the harness sees it

`OfferProjection.tla` models `poll_once` for one negotiation, statement by
statement between its awaits, run by several *pollers*: the background
`poll_loop` (`Loop`) and any number of `GET` and SSE handlers. They are
coroutines of one event loop, so a poller gives way only where it waits for a
DynamoDB call made in a worker thread; one action stands for the code between two
such points.

| model | code (`H/offer_projection.py`) |
| --- | --- |
| `neg`, `invites`, `feedback`, `bids`, `awards`, `orders` | the tables' rows of this negotiation (external) |
| `st`, `published`, `pubStatus`, `synIds`, `synNeg`, `watched` | `_state[id]`, the `_published_*` sets, `_published_statuses[id]`, `_synthetic_order_ids`, `_synthetic_neg_ids`, the key in `_subscribers` |
| `pc[p]`, `loc[p]` | where poller `p` waits, and its locals (`cur` what it read, `prev` what it compares with, the orders it deletes or puts) |
| `landing` | calls whose `wait_for` expired but whose thread may still reach DynamoDB |
| `sent`, `resent` | what `_publish` has pushed since boot: at all, and twice |
| `ReadNegotiation`, `ReadBids`, `ReadInvitations`, `ReadFeedback` | the four reads of `_fetch_dynamo_data`, one after the other in a worker thread |
| `FetchFault`, `ReadFault`, `DeleteFault`, `PutFault`, `Land` | an exception or a 5 s timeout at each call, each with the effect its `except` has; a call given up may still land |
| `Resume`, `ReadAwards`, `ReadOrders`, `Split`, `Delete`, `Deleted`, `Publish`, `Put`, `Finish` | lines 174–558, cut at the awaits |
| `Restart` | a new process: all of the above memory is module state |
| `ResetStep` | `reset_demo.py` emptying the tables meanwhile |

Abstractions: a bid row is named by its supplier and carries a fingerprint
(`amount`, `evaluation_rank`); (quadrant, strategy) is one value; ids, names,
timestamps and payloads are model values; a requisition has one negotiation,
as the README of the harness says. `_published_classifications` is keyed by
negotiation, hence the single event `<<"class", Absent>>`. `po_payload["total_value"]` on
line 504 raises a `KeyError` that the `except` of line 506 catches: the put has
happened by then, so it changes what is logged and nothing else.

*What the environment may do.* The orchestrator writes a row before anything
else, invites before it prices bids unless the strategy bypasses the agents
(`Bypass`), awards only what was bid for and delivers orders only for an approved,
awarded negotiation. Those are the assumptions the comments of the code state
(lines 295–297, 444–447).

*Properties.* `AnnouncedOnce` (the guarded event kinds), `SnapshotAnnounced` (a
snapshot shows nothing the stream has not announced), `InvitationsNotGuessed`
(the order of the reads), `KeepsToOneOrder` and `SyntheticKnown` (the marks set before
the await, the id forgotten after the delete), `Converges`, `SyntheticGivesWay`,
`ApprovedGetsOrder`. `DerivedRfqOnce`, `StatusOnce` and `CanonicalOrder` hold for
`poll_loop` alone (and are proved under that premise) and fail as soon as polls
overlap; see section 5. That every
event a negotiation owes is announced in the end follows from `Converges` and
`SnapshotAnnounced` together.

*What is promised.* `KeepsToOneOrder` says that the model implements
`SyntheticOrder.tla`, which knows nothing of polls: a table, the uuids used up, and
whether the harness has been restarted. Until then the harness writes one order of
its own at most and deletes it only beside a real one. The mapping: `rows` is `orders`;
`spent` is `Spent`, the uuids drawn whose put is no longer pending (a poll about to
put, `Putting`, or a call given up that may still land, `PutPending`); `forgotten` is
`restarts > 0`. So an order is written when its row appears, which may be long after the
poll that drew it has timed out. `OneSynthetic` (at most one uuid in the tables) is
what a reader of the table gets from it.

*Bounds.* Two pollers are enough to overlap; more of them only repeat what one
does to the other, and the proofs cover any number. One id of each kind, two where
the kind can be confused with itself (uuids), two statuses and up to three changes,
one failing call, one restart. The uuids are symmetric.
The counters `moves`, `faults` and `restarts` are bounded by `MaxMoves`,
`MaxFaults` and `MaxRestarts`.

*Fairness.* `poll_loop` never returns and `wait_for` bounds every wait, so the
loop's next poll (`WF(ReadNegotiation(Loop))`) and each step of a poll under way
(`WF(Proceed(p))`) happen. Nothing obliges a handler to be called, the orchestrator
to act, or an abandoned call to land.

### Requisitions and RequisitionLifecycle — one requisition of the tenant app

`RequisitionLifecycle.tla` is the contract: stages in order, a decision only of a
paused requisition, one order, one re-run, and nothing but a cancellation touches
a decided one. `Requisitions.tla` is the code in `SKILL_MODE=stub`. The handlers are
plain `def` functions that FastAPI runs in a pool of threads, there is no lock, and
`get_pr` and `list_prs` hand out the dictionary itself; an action is the code between
two accesses to the row that another thread can tell apart.

| model | code |
| --- | --- |
| `stored`, `status`, `age`, `cycles`, `context`, `orders` | the row of `_stub_requisitions`, its age in the four bands of `_advance_stub_state`, `_cycle_back_count`, `approval_context`, its rows in `_stub_orders` |
| `pc[w]`, `op[w]`, `sampled[w]`, `answer[w]` | where thread `w` is, in which request, the age it computed, what its last list said |
| `Begin`, `Advance`, `Explain` | `get_pr` and `list_prs` with `_advance_stub_state` |
| `Decide`, `Refused`, `Serialise` | the routes' checks and answers |
| `Approve`, `Append`; `Cancel`; `CycleBack`, `Rerun`, `Rewind`, `Pop` | `approve_pr`; `reject_pr`, `cancel_pr`; `cycle_back_pr` |

With one thread (`req_one_at_a_time`) the handlers implement the contract under the
mapping `state <- status`, `pos <- orders`, an order counting from the moment the
status changes; that at most one order is issued, one re-run made, and a cancelled
requisition stays so is part of that contract. With two threads (`req_concurrent`) they
do not: section 5. What survives any interleaving is

- `CompletedHasOrder`: COMPLETED, and an order issued or about to be;
- `RerunsBounded`: `_cycle_back_count` is looked at in one step and raised in another, so
  "once" becomes once for each thread of the pool, and no more than that, whatever stale
  status lets further decisions begin;
- `DecisionsSettle`: a stale `_advance_stub_state` can undo a decision it overlaps and no
  other. A requisition found cancelled, or completed, at a moment when no request about
  it is being served (`Quiet`) stays so for ever (a completed one may still be cancelled),
  whatever overlaps later.

`PausedExplained` and `InboxExact` are stated for one thread: a removal of the context
after a re-pause, and a row that changes before it is serialised, break them with two, as
the code allows.

*Fairness.* Time passes, a request begun is served, and somebody keeps asking
(`SF(Begin(w, "get"))`: the tracker's polling is what moves a stub requisition);
`ReachesApprover` needs all three. *Bounds.* None on the state: `reruns` is bounded by
the code itself; one and two threads, and the proofs cover any number.

### ResetDemo — clearing the tables

`reset` as its calls: capture the tenant's negotiations, then for each of nine tables
list the keys and delete them chunk by chunk. A row is a model value with a table, an
owner and, for a communication, the negotiation it is keyed by. `Write` is an
execution still running; `Crash` ends a run between two calls; a batch may come back
partly unprocessed, which the code neither notices nor repeats.

`OthersKept` holds whatever happens. `LeavesOnlyOrphans` says what a completed run
leaves: communications whose negotiation had gone before it began. `SafeToRerun` is
the promise of the script's first lines under the conditions it needs, which the
observation variable `disturbed` collects: no crash, no refused delete, no write
during a run or for a negotiation already deleted. `CountTrue` is the count that is
printed. *Bounds.* Three negotiations, four communications, a cache row; a chunk of
two, so that a table has a full and a partial batch; one crash and one refused delete.

### TimelineFeed — how a change reaches the screen

The tables hold a growing set of facts: the row, the statuses it reaches, bids and
invitations (`First`, one call in a thread), awards and orders (`Late`, further calls).
A poll reads the first and then the others, any of which may fail: lines 190–191 and
200–201 of `offer_projection.py` count that as none found, and the poll succeeds with
what it has (`ReadLate`). What it read it saves, replacing what an earlier poll saved, and
announces what the guard sets have not let through before, the status last and, where a
synthetic order is put, only after that await (`Save`, `SaveAndPut`, `Finish`). The other
statements of a poll are `OfferProjection`'s; so is the status that a stale poll announces
again, which is left out here. The module adds what surrounds it: the GET handler,
the SSE handler that subscribes, polls, sends its snapshot and then its queue, the
browser's requests (the mount effect, the refetch after every message, the interval),
answers applied in the order they arrive, messages lost with their connection, and
a restart of the harness.

`StreamCovers`: when a connection has no message left to bring, everything announced has
been in its snapshot or in an update, as far as its own poll did not fail to read it
(`scope`, an observation: all facts, or those of `First` if a late read failed, none if
the poll failed). The condition is the code's: an award announced before the
subscription is in no update, and a snapshot whose poll failed to read it lacks it
(section 5). `InSync`: once the tables are quiet the component shows them, although
awards are not read, polls fail, answers are lost, the harness restarts and the stream
stalls for ever: the interval alone is enough. *Fairness.* The interval fires, the polls
of its requests take their steps, and answers are applied. Nothing is asked of the
stream or of `poll_loop`. *Bounds.* Two requests in flight; a row and an award; `MaxFaults`,
one fault of any kind (a read or a poll that fails, an answer or a connection lost, a
restart). A browser may have more than two requests under way; a third adds one more
answer that can arrive late. `StreamCovers` is proved for any number of each.

### ApprovalGate — deciding a paused negotiation

The execution, its gate and the rows Node 6 and Node 7 write are external; what is
assumed of them is what `graph_client.py` and `master_data_client.py` say of them.
A request goes from the panel (`AskPanel`) or the tenant app (`AskTenant`, `AskCancel`)
to the Lambda (`Invoke`), whose response may be lost, so that boto3 invokes it again
(`LoseResponse`), may be a denial (`Denied`: the claims gate sees the panel's approver and
the system approver of a cancellation with the same empty claims), or may be an error (`InvokeFails`, with or without
the decision having been taken); `AnswerPanel`, `Recheck`, `AnswerTenant`,
`AnswerCancel` and `SetCancelled` are what the handlers make of the result, and `Screen`
what `handleDecision` tells the approver.

`Recheck` is the poll after `no_pending_approval`: if it reads the row, the row decides
between `ALREADY_RESOLVED` and the error; if it fails, `poll_once` returns `None` and the
error is handed on. `SuccessTaken`, `CompletedOrdered` and `CancelReleases` say that what
people are told is true. They carry the conditions the code does not lift: the panel is only
used once a snapshot was `PENDING_APPROVAL` (Timeline shows it no earlier);
`SuccessTaken` and `CancelReleases` speak of runs without failed invocations, and the
latter of a cancellation made in the pause that the claims gate did not turn away
(`refused`, an observation). Section 5 says what happens otherwise.
*Bounds.* Two requests of any kind, two lost responses, one failed invocation.

### SfnGraph — the graph of an execution

An execution appends `in` and `out` events to its history while `_sfn_execution_graph`
reads first its status, then its history page by page. `OneMoment`: an answer about
an execution that was not sent back is the graph of one moment of the request.
`NoFalseAlarm`: no chip is red of an execution that has not failed there. `Settles`:
the panel ends with the final graph, although answers overtake each other. *Fairness.*
The execution ends or waits at its own discretion; the interval and the requests go on.
Before anything else a request looks the state machine's ARN up, which `health.py`
keeps for good, `None` included, and shares with the health checks. Those are plain
functions of the thread pool (`Checker`); `get_sfn_graph` is a coroutine that never
awaits, so it holds the event loop while it waits for AWS and two of them never look
anything up at the same time (`HasLoop`). The two globals are set by one action: no
call lies between them. `NoneIsEarned`: the answer that there is no state machine is
only kept if somebody looked before there was one.
*Bounds.* Three states, where the workflow has eight, two events to a page, two
requests, one health check, one cycle back, one failed request: histories of up to
five pages.

### TenantLive and NegotiationReport — live mode, table by table

In `SKILL_MODE=live` the tenant app keeps nothing: every answer is put together from
tables that are read one after the other while others write them. `TenantLive.tla`
composes the handlers with all that writes: the orchestrator (`Ingest`, `Negotiate`,
`Follow`, `Invite`, `Bid`, `Award`, `Notify`, `Deliver`), the harness (`PutSynthetic`,
`DropSynthetic`, of which `OfferProjection` has the detail), `reset_demo` (`ResetStep`, the six
of its tables that are read here) and the writes of any number of other requests
(`OtherRequest`). The supplier inbox of the harness reads the same tables and is one
more handler.

| model | code |
| --- | --- |
| `req`, `neg`, `bids`, `award`, `po` | the requisition's row, its negotiation's status, its bids and award, the two rows of `test-tenant-orders` (the delivered and the synthetic one) |
| `invited`, `told` | the suppliers with an invitation, or a notice, in `communications` |
| `ask[h]` | a request: what it is, the call it is about to make, what it has read; `asked`, what was there when it was made, is an observation |
| `ReadRequisition`, `ReadNegotiations`, `ReadContext` | `get_pr` and `list_prs` with `_negotiation_for` and `_approval_context` |
| `ReadNegotiations`, `ReadBids`, `ReadAwards` | `get_negotiations`, `get_bids`, `get_awards` |
| `ReadCommunications`, `ReadSupplierBids`, `ReadNegotiation` | `get_supplier_rfqs` of the observer |
| `SetStatus` | `_set_status` of `cancel_pr`, after `ApprovalGate` |
| `ReadOrders`, `ReadOrder`, `UpdateOrder` | `list_orders`, `get_order`, `acknowledge_order` and `reject_order` |
| `ReadCatalogue` | `_build_negotiations`, whose figures are operators of `NegotiationReport.tla` |
| `Completed`, `Contract`, `Parses` | `_synthesize_graph_nodes`; `_normalize_negotiation`; what the pydantic models take |

`update_item` creates the row it does not find: a `"partial"` row has a key, what was
set and nothing else. The code copes with such a row in one place and not in another,
which is what `ListsServed` and `DecisionStands` are about.

*Properties.* `TrackerTrue`: what the tracker shows as done has happened, and what had
happened when the page asked is shown. `TrackerOrdered`: no node is done before those
that lead to it. `ReadsBetween`: bids and awards, found by way of one or two other
tables, are the requisition's own; if neither a page nor the index left a row out (`cut`),
none that was there is missed. `RfqsCausal`: the supplier's inbox tells a story in the
order it happened: an award implies a decided negotiation, a bid or an invitation one
that exists; if no page left a row out, an award also implies the bid. `ListsServed`: the lists are served
whatever rows others leave behind. `DecisionStands`: a decision answered with success
is one, of a delivered order, and stands. `ReportServed`: the report of a delivered order
is there. `ReportReconciles`: its sections add up. Two conditions come back in them:
answers of a request during which the reset ran are only spoken of where the code
promises something about them (`Running`, `cleared < 5`), and the synthetic order,
which the models refuse (section 5), is excepted.

*Abstractions.* The orchestrator stops at the reset, so that rows written into
emptied tables are left to `ResetDemo`. Money is an integer number of 1/200 of a
unit, in which the markups and the halved counter-offer are exact; rounding to the
printed decimals is left out, as are timestamps, names and layout. The lines of a
requisition do not change; the catalogue is any of a set, read at the moment.

*Bounds.* Two suppliers, a bid and an award of a stranger, one request of any kind
followed (others only matter through their writes, and the proofs cover any number),
three lines of two items, catalogues that put the items into one category, two or
none, with quadrants known and unknown.

## 3. Runs

Each run answers one question; `PROJECT.json` names the properties and, for each, the
mistake in the code that breaks it.

| run | instance | shows |
| --- | --- | --- |
| `offer_events` | two overlapping polls; invitations, feedback, bids, classification | guarded events once; snapshots announced; invitations not guessed |
| `offer_orders` | two overlapping polls; award, real and synthetic orders, one faulty call, one restart | `SyntheticOrder` implemented; the order always recognised |
| `offer_solo` | `poll_loop` alone; fault, restart, cycle back, reset | derived invitations and statuses once; canonical order |
| `offer_live` | two overlapping polls, fair, no faults | convergence; the synthetic order gives way; an approved negotiation gets an order |
| `offer_derived_rfq` | two overlapping polls, bids without invitations | a derived invitation is announced twice (section 5) |
| `req_one_at_a_time` | one thread, fair | the contract, a pause explained, the inbox exact, and that an approver is reached |
| `req_concurrent` | two threads | a completed requisition has its order; re-runs are bounded; decisions nothing overlaps are final |
| `live` | one request of any kind among all that writes | what live mode answers is true, in order and served, and complete unless a page or the index cut it short |
| `reset` | eight rows, a crash, a refused delete, executions writing | others kept; orphans only; clean if undisturbed; the count |
| `timeline` | two requests, fair, a fault of any kind | nothing missed on a stream but what its own poll failed to read; the screen in line in the end |
| `gate` | two decisions, lost responses, denials, a failed invocation | success is told of decisions taken; COMPLETED has its order; a cancellation let through releases the gate |
| `sfn` | two requests and a health check, fair, a cycle back, a failed request | one moment, no false alarm, final graph, no state machine forgotten |

Deadlock is checked in every run. Every bounded counter is a `Max...` constant, and only
environment events (changes, faults, restarts, lost messages) are counted. The type
invariants are not properties of the runs: they are theorems (section 4). That an
order is issued once, a requisition re-run once and a cancellation final, one request at
a time, is part of `Implements`.

## 4. Proofs

All theorems hold for any value of the constants (any number of pollers, suppliers,
orders, threads, requests, rows, states, crashes), from the named `ASSUME`s of the
modules and nothing else but, where said, one of two premises. `OneAtATime`: the
requests about a requisition are served one at a time, by a single thread.
`OnePoller`: `poll_loop` is the only caller of `poll_once`. Both are false of the
deployed program in general; the theorems that need them say what the code achieves
when nobody overlaps, and section 5 what happens otherwise. In every module
`TypeCorrect` is the type invariant.

- `OfferProjectionProofs`. `PublishedOnce`, from `GuardInv` (the guard sets are exactly what
  was announced of the guarded kinds). `SnapshotCovered`: `SnapshotAnnounced` is not
  inductive; what a poll under way compares with, and what it is about to save again
  after a put, must themselves have been announced (`SnapshotInv`). `SyntheticUnique`, from
  `DrawnInv`: until a restart at most one id is drawn, and every id in sight, in the
  tables, in memory, in a poll's locals or in a call on its way, is that one.
  `OneOrderKept` is the refinement of `SyntheticOrder`, for any number of faults, restarts and
  resets. Every step maps to a step of the abstract order or to none: a put that
  returns, or lands late, to `Put`; one that fails for good to `GiveUp`; a delete, late or not, to
  `Drop`. It needs `PutInv` (a pending put is of an id that was drawn, and nobody else
  puts it, so that a put that is over stays so) and, until a restart, `HeldInv`: whenever
  a synthetic order in the table is going to be deleted a real one stands beside
  it, although the poll decided so on an older list; an id whose put is pending is in no
  delete on its way; a poll that has not read the orders yet holds none.
  `OneIsPromised` derives `OneSynthetic` from the abstract specification alone.
  `SyntheticRecognised` needs in addition that an id that may still be put is known, not yet
  in the table and nobody's to delete (`KnownInv`). `NoGuess`, from `GuessInv`: a poll that
  has read bids and has yet to read invitations will find some, because bids follow
  invitations in the tables and the reads go the other way. Under `OnePoller`:
  `DerivedOnce`, from `AutoInv` (a supplier announced by derivation is in the saved
  projection for as long as a poll can find its bid); `NoOldStatus`, from `StatusInv` (a
  status announced and not entered again is the last one announced for as long as the row,
  or the poll under way, has it); `OrdersSorted`, from `OrderInv` (until a restart every
  synthetic order a poll reads is known, so that they are all discarded, or all shown).
- `RequisitionsProofs`. `CompletedOrdered` for any number of threads that interleave in any
  way; so are `RerunsAreBounded`, from `RerunInv` (once the count is raised nobody joins the
  threads that still will raise it, so count and threads together do not exceed the pool),
  and `DecisionsAreFinal`, from `Settled` (decided, and every thread at a point where its
  request can only answer or cancel), which every step preserves. Under `OneAtATime`
  `PauseExplained`, `ImplementsLifecycle` and `InboxIsExact`. The invariant (`SeqInv`) says, for each
  point a thread may be at, what the row looks like (`Stage`), how orders and re-runs
  follow from the status (`Row`), and that a paused row is explained (`Explained`); `Said`
  adds that an idle thread's last list agrees with the row.
- `TenantLiveProofs`. `IInv` says what the tables tell of each other (`Story`: an award was
  bid for, notices and orders follow it, only an awarded requisition has orders), where a
  request can be (`Stages`) and that a cancellation on its way found a requisition
  (`Cancelling`). `Grows` is the
  lemma the reads rest on: until the reset what has happened stays true, so that what an
  earlier read found holds at a later one. Each property is then an invariant of one
  request (for `Found` and `Told` with the part that rests on complete reads under `~cut`):
  `Ordered`, `ShownIsTrue`, `Found`, `Told`, `Served`, `Decided`, `Reported`.
  `Reconciled` keeps of every report (`Written`) that it was made of the requisition's lines
  and some catalogue, and gets the rest from `NegotiationReportProofs`. `LinesAssumption`
  says no more than that a total is an integer: no quantity is checked for its sign.
- `NegotiationReportProofs`. `Reconciliation`: for any catalogue and any lines the sections
  divide the lines among them, opening, counter and final price of each come down
  unless its sum is negative, and finals and savings add up to the summary. The sum over
  a finite set is defined by a fold, so its laws (`SumAdd`, `SumPlus`, `SumByClass`) are
  proved first, by induction over the set: `WFMin` of the library takes its predicate as a
  set, and the subsets of a finite set are well-founded under inclusion. `Divided` says
  that `Openings` and `Group` are a partition, `FinalsAddUp` and `SavingsAddUp` sum over it.
- `ResetDemoProofs`. `OthersSafe`, from `KeysMine` (only keys of the tenant, or of the cache,
  are ever listed); `OnlyOrphansLeft`, from `Ahead` (what a run has not deleted yet is in a
  table it has still to visit or among the keys it holds); `UndisturbedResetIsClean`, from
  `Closed` (without disturbance no communication outlives its negotiation when a run
  starts, and nothing is written before it ends); `CountIsTrue`, from `Counting` (the keys
  still to delete are rows, and what was counted is gone).
- `TimelineFeedProofs`. `NothingMissed`, from `Past` (a poll has read no more than
  the tables hold) and `Covered` (every fact announced within `scope` has been told, is
  queued, or has been read by the stream's own poll, whose snapshot will bring it; or that
  poll has still to read it).
- `ApprovalGateProofs`. `CompletedAfterOrder`, an invariant by itself; `SuccessIsTaken`, from `Taken` (unless an invocation failed,
  an answer of success on its way means that the gate took the decision);
  `CancellationReleases`, from the states a cancellation asked in the pause can be in
  (`Requested`, `Rejected`): an execution only cancellations were taken for is not paused
  once a cancellation asked in its pause has been at the gate and was not refused.
- `SfnGraphProofs`. `NoneEarned`, from `Earned` (a lookup that found nothing, kept or on its
  way, was made too early). `NoFalseAlarms`, from `Reads` (what a request has read
  of the status of an execution that has ended is final), `Walk` (a state that was entered
  has been left or is the current one; without a cycle back they come in order) and
  `Alarms` (a red chip, shown or on its way, is of the state in which the execution has
  failed). `AnswersOneMoment` from `Walk` and `Moments` (an answer on its way is the graph
  of some moment since the request began).

Every safety property of the runs is thus proved, except the one of `offer_derived_rfq`, which
fails. Only model-checked: all liveness (`Converges`, `SyntheticGivesWay`, `ApprovedGetsOrder`, `ReachesApprover`, `InSync`,
`Settles`), since `ENABLED` and fairness are beyond the prover. No recursive operator is
used.

## 5. Where the code and what is said of it differ

Shown by a run:

- *Derived invitations are announced twice* (`offer_derived_rfq`). Line 314 of
  `H/offer_projection.py` has no guard set, while the harness's README (168–171) says
  that concurrent poll cycles cannot produce duplicate events.

Met while modelling, and reflected in the model and in the conditions of the properties:

- *Polls.* A synthetic order's id is only in memory (line 63), so after a restart the row
  counts as a real one and stays beside it for ever; the README (162–163) says that it is
  automatically deleted.
- A status can be announced again, an older one after a newer one, by a poll that read
  the row before the change and finishes late (`StatusOnce` needs `poll_loop` alone).
- A poll that holds an older list of orders takes a synthetic order whose id another
  poll has just discarded for a real one, and shows both (`CanonicalOrder`, likewise).
- If the put of the synthetic order fails it is never tried again: the negotiation is
  already marked (`PutMayFail` is `FALSE` where `ApprovedGetsOrder` is checked). A put
  that succeeds is logged as one that failed: line 504 logs a key the row has not got.
- *Stub requisitions.* Two threads that approve the same requisition both pass the status
  check and emit two orders; two cycle-backs both find a count of 0; a poll between lines
  396 and 397 of `master_data_client.py` can pause a requisition again before its context
  is removed; a poll that looked at the status before a cancellation or an approval
  brings the requisition back.
- *Live mode.* Bids, awards and communications are read one page at a time and the next
  page is never asked for; the scan for a supplier's inbox is cut at 1 MB of everybody's
  rows before it is filtered (`H/observer.py` 631–638). Rows that were there all the time
  can be missing from an answer.
- The synthetic order has no `received_at`, which `PurchaseOrder` requires: as
  long as it exists the list of orders answers 500, and a decision about it is recorded
  and answered 500.
- A decision of an order that has been deleted meanwhile creates a row with a key and the
  decision, and answers 500 where a missing order answers 404.
- `GET` of the negotiations answers 500 while one is `APPROVED`, `PENDING_APPROVAL` or
  `REJECTED`: `_normalize_negotiation` (`dynamo_client.py` 153–161) passes such a status
  through, and `NegotiationStatus` has none of them.
- A cancellation that overlaps a reset leaves a requisition of a key and a status. The list
  skips it; reading it alone answers 500.
- The report sums the requisition's lines and its last row the order's total: in live mode
  they differ if the price awarded is not the sum of the lines. It names the catalogue's
  first supplier of a category as awarded, whoever won.
- *Reset.* One that stops between negotiations and communications leaves communications
  no later reset can find; refused deletes are counted as done.
- *Timeline.* Awards and orders announced before a connection subscribed, whose poll
  then fails to read them, never reach that stream: the snapshot lacks them and the guard
  sets let them through no second time. Only a later `GET` shows them.
- Two answers that overtake each other make it go back in time until the next
  poll.
- *Approval.* The panel takes a 500, and a Lambda that raised, for success; a decision sent
  before the pause is answered `ALREADY_RESOLVED`; a cancellation confirmed during the
  negotiation releases nothing, and the execution still pauses later.
- A cancellation that the claims gate denies is answered `CANCELLED` while the execution stays
  paused: `cancel_pr` ignores the result (`T/clients/master_data_client.py` 417–418).
- A decision that was taken, but whose response was lost, is answered `ALREADY_RESOLVED`, or
  an error if the row has not moved yet or the poll fails, though it was the approver's own.
- *Graph.* After a cycle back the states that run again are shown as succeeded. A health
  check that looked before the state machine was deployed makes the process forget it for
  good, even if it writes after one that found it.

## 6. Not modelled

- *What a browser keeps besides the Timeline and the graph*: `SupplierInbox.tsx` and the
  list of requisitions apply a late answer to the row expanded meanwhile. Both are corrected
  by the next click or interval; the mechanism is that of `TimelineFeed`.
- *`approve_negotiation`'s own poll* runs `poll_once` on an event loop of another thread.
  Between its awaits it can then interleave with `poll_loop` at every statement and the
  guard sets no longer suffice. An answer would need a model at the granularity of
  bytecodes; the hazard is listed without a property.
- *The rest of `health.py`*: each check asks AWS once and keeps nothing but the account's
  identity, which does not change.
- *Formatting*: correlation ids, names, timestamps, the communications timeline, costs,
  durations, PDF layout, display components.
- *Stateless reads*: catalogue, datasets, skills, costs, audit trail, metrics, logs,
  traces; token validation; constant seed data; scripts and CI. They keep no state that
  a sequence of events could spoil.
- *Requisitions with several negotiations*, which the README of the harness excludes.

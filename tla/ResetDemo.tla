----------------------------- MODULE ResetDemo -----------------------------
(***************************************************************************)
(* reset_demo.py: deletes the demo tenant's runtime rows, table by table,   *)
(* from nine DynamoDB tables.  A run may end between any two calls (an      *)
(* exception, Ctrl-C) and be started again; the orchestrator may be writing *)
(* at the same time; BatchWriteItem may return UnprocessedItems, which the  *)
(* code does not look at.                                                  *)
(*                                                                         *)
(* A row is a model value: its table, whether it is the demo tenant's, and  *)
(* for a communication the negotiation whose id is its pk.                 *)
(***************************************************************************)
EXTENDS Naturals, FiniteSets

CONSTANTS
  Row,
  TableOf,        \* [Row -> Table]
  Mine,           \* rows of TENANT_ID
  NegOf,          \* the negotiation a row is keyed by, or NoNeg
  NoNeg,
  Chunk,          \* keys per BatchWriteItem: 25
  MaxCrashes,     \* bound: runs that end early
  MaxUnprocessed  \* bound: deletes returned as UnprocessedItems

(* The order of reset(). *)
Order == <<"negotiations", "bids", "awards", "master-purchase-requisitions",
           "requisitions", "orders", "test-tenant-orders", "communications",
           "agent-session-cache">>
Steps == 1..9
Table == {Order[i] : i \in Steps}

ASSUME RowAssumption ==
  /\ IsFiniteSet(Row) /\ Mine \subseteq Row
  /\ TableOf \in [Row -> Table]
  /\ NegOf \in [Row -> Row \cup {NoNeg}] /\ NoNeg \notin Row
  \* a communication belongs to the tenant of its negotiation
  /\ \A r \in Row : NegOf[r] # NoNeg =>
       /\ TableOf[r] = "communications" /\ TableOf[NegOf[r]] = "negotiations"
       /\ (r \in Mine <=> NegOf[r] \in Mine)

ASSUME BoundAssumption ==
  Chunk \in Nat \ {0} /\ {MaxCrashes, MaxUnprocessed} \subseteq Nat

VARIABLES
  rows,      \* what the nine tables hold
  pc, at,    \* where the run is: "idle", "list" or "delete"; which table
  captured,  \* blue_jets_neg_ids
  keys,      \* keys listed and not yet in a batch
  counted,   \* _delete_batch's result for this table so far
  \* observations and bounds
  ever,      \* rows ever written: ids are uuids, never drawn again
  begun,     \* the rows when the run started
  done,      \* the last run completed and nothing was written since it began
  removed,   \* rows this table really lost to the run
  crashes, skipped,
  missed,    \* a delete of the last run was returned unprocessed
  disturbed  \* a run has crashed or missed a delete, or an execution has written
             \* during a run or for a negotiation that a run had already deleted

db   == <<rows, ever>>
run  == <<pc, at, captured, keys, counted>>
seen == <<begun, done, removed, crashes, skipped, missed, disturbed>>
vars == <<db, run, seen>>

In(t) == {r \in Row : TableOf[r] = t}
Negotiations == In("negotiations")

TypeOK ==
  /\ rows \subseteq ever /\ ever \subseteq Row
  /\ pc \in {"idle", "list", "delete"} /\ at \in Steps
  /\ captured \subseteq Negotiations /\ keys \subseteq Row
  /\ counted \in Nat /\ removed \in Nat
  /\ begun \subseteq ever /\ done \in BOOLEAN
  /\ crashes \in Nat /\ skipped \in Nat
  /\ missed \in BOOLEAN /\ disturbed \in BOOLEAN

Init ==
  /\ rows = {} /\ ever = {}
  /\ pc = "idle" /\ at = 1 /\ captured = {} /\ keys = {} /\ counted = 0
  /\ begun = {} /\ done = FALSE /\ removed = 0 /\ crashes = 0 /\ skipped = 0
  /\ missed = FALSE /\ disturbed = FALSE

(* The orchestrator (external): a communication follows its negotiation.  An
   execution that is still running does not notice that the row has gone.  *)
Write(r) ==
  /\ r \notin ever /\ NegOf[r] \in ever \cup {NoNeg}
  /\ rows' = rows \cup {r} /\ ever' = ever \cup {r} /\ done' = FALSE
  /\ disturbed' = (disturbed \/ pc # "idle" \/ NegOf[r] \notin rows \cup {NoNeg})
  /\ UNCHANGED <<run, begun, removed, crashes, skipped, missed>>

(* reset: _get_negotiation_ids comes first. *)
Start ==
  /\ pc = "idle"
  /\ pc' = "list" /\ at' = 1
  /\ captured' = rows \cap Mine \cap Negotiations
  /\ begun' = rows /\ done' = FALSE /\ missed' = FALSE
  /\ UNCHANGED <<db, keys, counted, removed, crashes, skipped, disturbed>>

(* Faulty variant: the negotiations are looked up when they are needed. *)
SelectedLate(t) ==
  CASE t = "agent-session-cache" -> rows \cap In(t)
    [] t = "communications" ->
         {r \in rows \cap In(t) : NegOf[r] \in rows \cap Mine \/ (r \in Mine /\ NegOf[r] = NoNeg)}
    [] OTHER -> rows \cap In(t) \cap Mine

(* Faulty variant: the communications are cleared like the session cache. *)
SelectedAllComms(t) ==
  IF t \in {"agent-session-cache", "communications"} THEN rows \cap In(t)
  ELSE rows \cap In(t) \cap Mine

(* The keys a table's reset lists: _delete_tenant_id_hash and
   _delete_tenant_pk_prefix find the tenant in the key,
   _delete_communications_by_neg_ids the captured negotiations or, in the
   key, the tenant, and _clear_table every row.                            *)
Selected(t) ==
  CASE t = "agent-session-cache" -> rows \cap In(t)
    [] t = "communications" ->
         {r \in rows \cap In(t) : NegOf[r] \in captured \/ (r \in Mine /\ NegOf[r] = NoNeg)}
    [] OTHER -> rows \cap In(t) \cap Mine

List ==
  /\ pc = "list"
  /\ pc' = "delete" /\ keys' = Selected(Order[at])
  /\ counted' = 0 /\ removed' = 0
  /\ UNCHANGED <<db, at, captured, begun, done, crashes, skipped, missed, disturbed>>

(* The next keys of the list, which is in no particular order. *)
Batches == {b \in SUBSET keys : b # {} /\ Cardinality(b) <= Chunk
                                /\ (Cardinality(b) = Chunk \/ b = keys)}

(* Faulty variant: every batch counts as a full one. *)
DeleteBatchFull ==
  /\ pc = "delete"
  /\ \E b \in Batches :
       /\ rows' = rows \ b /\ keys' = keys \ b
       /\ counted' = counted + Chunk
       /\ removed' = removed + Cardinality(b \cap rows)
  /\ UNCHANGED <<ever, pc, at, captured, begun, done, crashes, skipped, missed, disturbed>>

(* One turn of _delete_batch's loop: the whole batch is counted, and what
   comes back unprocessed is forgotten.                                    *)
DeleteBatch ==
  /\ pc = "delete"
  /\ \E b \in Batches : \E lost \in SUBSET b :
       /\ skipped + Cardinality(lost) <= MaxUnprocessed
       /\ skipped' = skipped + Cardinality(lost)
       /\ missed' = (missed \/ lost # {}) /\ disturbed' = (disturbed \/ lost # {})
       /\ rows' = rows \ (b \ lost) /\ keys' = keys \ b
       /\ counted' = counted + Cardinality(b)
       /\ removed' = removed + Cardinality((b \ lost) \cap rows)
  /\ UNCHANGED <<ever, pc, at, captured, begun, done, crashes>>

(* Faulty variant: only the first batch of a table is deleted. *)
NextTableEarly ==
  /\ pc = "delete" /\ (keys = {} \/ counted > 0) /\ at < 9
  /\ pc' = "list" /\ at' = at + 1
  /\ UNCHANGED <<db, captured, keys, counted, seen>>

NextTable ==
  /\ pc = "delete" /\ keys = {} /\ at < 9
  /\ pc' = "list" /\ at' = at + 1
  /\ UNCHANGED <<db, captured, keys, counted, seen>>

Complete ==
  /\ pc = "delete" /\ keys = {} /\ at = 9
  /\ pc' = "idle" /\ done' = TRUE
  /\ UNCHANGED <<db, at, captured, keys, counted, begun, removed, crashes, skipped, missed, disturbed>>

(* An exception or an interrupt between two calls; all the run knows is
   in its memory.                                                          *)
Crash ==
  /\ pc # "idle" /\ crashes < MaxCrashes
  /\ pc' = "idle" /\ captured' = {} /\ keys' = {} /\ crashes' = crashes + 1
  /\ disturbed' = TRUE
  /\ UNCHANGED <<db, at, counted, begun, done, removed, skipped, missed>>

Next ==
  \/ \E r \in Row : Write(r)
  \/ Start \/ List \/ DeleteBatch \/ NextTable \/ Complete \/ Crash

Spec == Init /\ [][Next]_vars
-----------------------------------------------------------------------------
(***************************************************************************)
(* Properties                                                              *)
(***************************************************************************)
(* reset: rows of other tenants survive every run, crashed or not, and
   whatever is written meanwhile - except in the session cache, which
   _clear_table empties for everybody.                                     *)
OthersKept ==
  \A r \in ever \ Mine : TableOf[r] # "agent-session-cache" => r \in rows

(* reset: when a run that DynamoDB refused no delete has completed, no row of
   the tenant it began with is left, however earlier runs ended and whatever
   is written meanwhile, but for communications whose negotiation had gone
   before the run began.                                                   *)
Orphan(r) == NegOf[r] # NoNeg /\ NegOf[r] \notin begun

LeavesOnlyOrphans ==
  done /\ ~missed => \A r \in rows \cap begun \cap Mine : Orphan(r)

(* reset_demo.py:3 "Safe to re-run": a run that completes leaves nothing of
   the tenant behind, however many ran before it, unless one of them crashed
   or missed a delete, or executions were still running.                   *)
SafeToRerun == done /\ ~disturbed => rows \cap Mine = {}

(* _delete_batch: the count it returns is the number of rows deleted, unless
   some come back unprocessed.                                             *)
CountTrue == pc = "delete" /\ ~missed => counted = removed
=============================================================================

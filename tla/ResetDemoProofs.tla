-------------------------- MODULE ResetDemoProofs --------------------------
(***************************************************************************)
(* Proofs about ResetDemo, for any rows and any number of crashes.         *)
(***************************************************************************)
EXTENDS ResetDemo, FiniteSetTheorems, TLAPS

LEMMA StepAdds == \A i \in Steps : i < 9 => i + 1 \in Steps /\ \A j \in Steps : i <= j /\ j # i => i + 1 <= j
  BY DEF Steps

LEMMA BatchFacts ==
  ASSUME TypeOK, NEW b \in Batches
  PROVE  /\ b \subseteq keys /\ b \subseteq Row
         /\ Cardinality(b) \in Nat
         /\ \A s \in SUBSET b : Cardinality(s) \in Nat /\ (Cardinality(s) = 0 => s = {})
         /\ \A s \in SUBSET b : Cardinality((b \ s) \cap rows) \in Nat
<1>1. b \subseteq keys /\ b \subseteq Row
  BY DEF Batches, TypeOK
<1>2. \A s \in SUBSET Row : Cardinality(s) \in Nat /\ (Cardinality(s) = 0 => s = {})
  BY RowAssumption, FS_Subset, FS_CardinalityType, FS_EmptySet
<1> QED
  BY <1>1, <1>2

LEMMA SelectedInRow == \A t : Selected(t) \subseteq rows \cap In(t)
  BY DEF Selected

LEMMA TypeInit == Init => TypeOK
<1> SUFFICES ASSUME Init PROVE TypeOK
  OBVIOUS
<1>1. 1 \in Steps
  BY DEF Steps
<1>2. counted \in Nat /\ removed \in Nat /\ crashes \in Nat /\ skipped \in Nat
  BY DEF Init
<1>3. done \in BOOLEAN /\ missed \in BOOLEAN /\ disturbed \in BOOLEAN
  BY Zenon DEF Init
<1> QED
  BY <1>1, <1>2, <1>3 DEF Init, TypeOK

LEMMA TypeStep == TypeOK /\ [Next]_vars => TypeOK'
<1> SUFFICES ASSUME TypeOK, [Next]_vars PROVE TypeOK'
  OBVIOUS
<1>1. ASSUME NEW r \in Row, Write(r) PROVE TypeOK'
  <2>1. done' \in BOOLEAN /\ disturbed' \in BOOLEAN /\ missed' = missed
    BY <1>1, Zenon DEF Write
  <2>2. rows' \subseteq ever' /\ ever' \subseteq Row /\ begun' \subseteq ever'
    BY <1>1 DEF TypeOK, Write
  <2> QED
    BY <1>1, <2>1, <2>2 DEF TypeOK, Write, run
<1>2. CASE Start
  <2>1. done' \in BOOLEAN /\ missed' \in BOOLEAN
    BY <1>2, Zenon DEF Start
  <2>2. at' \in Steps
    BY <1>2 DEF Start, Steps
  <2>3. /\ UNCHANGED <<rows, ever, keys, counted, removed, crashes, skipped, disturbed>>
        /\ pc' = "list"
        /\ begun' \subseteq ever /\ captured' \subseteq Negotiations
    BY <1>2 DEF Start, db, TypeOK
  <2> QED
    BY <2>1, <2>2, <2>3 DEF TypeOK
<1>3. CASE List
  BY <1>3, SelectedInRow DEF TypeOK, List, db
<1>4. CASE DeleteBatch
  <2>1. PICK b \in Batches : \E lost \in SUBSET b :
          /\ skipped' = skipped + Cardinality(lost)
          /\ rows' = rows \ (b \ lost) /\ keys' = keys \ b
          /\ counted' = counted + Cardinality(b)
          /\ removed' = removed + Cardinality((b \ lost) \cap rows)
    BY <1>4 DEF DeleteBatch
  <2>2. skipped' \in Nat /\ counted' \in Nat /\ removed' \in Nat
    BY <2>1, BatchFacts DEF TypeOK
  <2>3. missed' \in BOOLEAN /\ disturbed' \in BOOLEAN
    BY <1>4, Zenon DEF DeleteBatch
  <2> QED
    BY <1>4, <2>1, <2>2, <2>3 DEF TypeOK, DeleteBatch
<1>5. CASE NextTable
  BY <1>5, StepAdds DEF TypeOK, NextTable, db, seen
<1>6. CASE Complete
  BY <1>6 DEF TypeOK, Complete, db
<1>7. CASE Crash
  BY <1>7 DEF TypeOK, Crash, db
<1>8. CASE UNCHANGED vars
  BY <1>8 DEF TypeOK, vars, db, run, seen
<1> QED
  BY <1>1, <1>2, <1>3, <1>4, <1>5, <1>6, <1>7, <1>8 DEF Next

(* Every variable of the reset keeps its type. *)
THEOREM TypeCorrect == Spec => []TypeOK
  BY TypeInit, TypeStep, PTL DEF Spec

(***************************************************************************)
(* Other tenants: only keys of the tenant, or of the cache, are listed.    *)
(***************************************************************************)
KeysMine ==
  /\ captured \subseteq Mine
  /\ \A r \in keys : r \in Mine \/ TableOf[r] = "agent-session-cache"

LEMMA KeysMineStep == TypeOK /\ KeysMine /\ [Next]_vars => KeysMine'
<1> SUFFICES ASSUME TypeOK, KeysMine, [Next]_vars PROVE KeysMine'
  OBVIOUS
<1>1. CASE Start
  BY <1>1 DEF KeysMine, Start
<1>2. CASE List
  <2>1. \A r \in Selected(Order[at]) : r \in Mine \/ TableOf[r] = "agent-session-cache"
    <3> SUFFICES ASSUME NEW r \in Selected(Order[at])
                 PROVE r \in Mine \/ TableOf[r] = "agent-session-cache"
      OBVIOUS
    <3>1. r \in Row
      BY DEF Selected, In
    <3>2. CASE NegOf[r] \in captured
      <4>1. NegOf[r] # NoNeg /\ NegOf[r] \in Mine
        BY <3>2, RowAssumption DEF KeysMine, TypeOK, Negotiations, In
      <4> QED
        BY <3>1, <4>1, RowAssumption
    <3> QED
      BY <3>1, <3>2 DEF Selected, In
  <2> QED
    BY <1>2, <2>1 DEF KeysMine, List
<1>3. CASE DeleteBatch
  BY <1>3 DEF KeysMine, DeleteBatch
<1>4. CASE Crash
  BY <1>4 DEF KeysMine, Crash
<1>5. ASSUME UNCHANGED <<captured, keys>> PROVE KeysMine'
  BY <1>5 DEF KeysMine
<1> QED
  BY <1>1, <1>2, <1>3, <1>4, <1>5 DEF Next, Write, NextTable, Complete, vars, run

LEMMA OthersKeptStep == TypeOK /\ KeysMine /\ OthersKept /\ [Next]_vars => OthersKept'
<1> SUFFICES ASSUME TypeOK, KeysMine, OthersKept, [Next]_vars PROVE OthersKept'
  OBVIOUS
<1>1. ASSUME NEW r \in Row, Write(r) PROVE OthersKept'
  BY <1>1 DEF OthersKept, Write
<1>2. CASE DeleteBatch
  <2>1. \A r \in ever \ Mine : TableOf[r] # "agent-session-cache" => r \notin keys
    BY DEF KeysMine
  <2>2. \A r \in rows : r \notin keys => r \in rows'
    BY <1>2 DEF DeleteBatch, Batches
  <2> QED
    BY <1>2, <2>1, <2>2 DEF OthersKept, DeleteBatch
<1>3. ASSUME UNCHANGED db PROVE OthersKept'
  BY <1>3 DEF OthersKept, db
<1> QED
  BY <1>1, <1>2, <1>3 DEF Next, Start, List, NextTable, Complete, Crash, vars

(* reset: no row of another tenant is ever deleted outside the session     *)
(* cache, whatever crashes, unprocessed deletes and concurrent writes.     *)
THEOREM OthersSafe == Spec => []OthersKept
<1>1. Init => KeysMine /\ OthersKept
  BY DEF Init, KeysMine, OthersKept
<1> QED
  BY <1>1, TypeInit, TypeStep, KeysMineStep, OthersKeptStep, PTL DEF Spec

(***************************************************************************)
(* The tenant's own rows: what the run has not reached yet is in a table    *)
(* it still has to visit, or among the keys of the table it is at.         *)
(***************************************************************************)
Ahead ==
  /\ pc # "idle" => captured = begun \cap Mine \cap Negotiations
  /\ pc # "idle" /\ ~missed =>
       \A r \in rows \cap begun \cap Mine : \A i \in Steps :
            ~Orphan(r) /\ TableOf[r] = Order[i] =>
              at <= i /\ (pc = "delete" /\ i = at => r \in keys)
  /\ done => pc = "idle"
  /\ LeavesOnlyOrphans

LEMMA InSomeTable == \A r \in Row : \E i \in Steps : TableOf[r] = Order[i]
  BY RowAssumption DEF Table

LEMMA AheadStep ==
  ASSUME TypeOK, Ahead, [Next]_vars
  PROVE  Ahead'
<1>1. ASSUME NEW r \in Row, Write(r) PROVE Ahead'
  <2>1. r \notin begun
    BY <1>1 DEF Write, TypeOK
  <2>2. rows' \cap begun = rows \cap begun /\ UNCHANGED <<begun, pc, at, keys, captured, missed>> /\ done' = FALSE
    BY <1>1, <2>1 DEF Write, run
  <2> QED
    BY <2>2 DEF Ahead, LeavesOnlyOrphans, Orphan
<1>2. CASE Start
  <2>1. \A i \in Steps : 1 <= i
    BY DEF Steps
  <2> QED
    BY <1>2, <2>1 DEF Ahead, Start, db, LeavesOnlyOrphans
<1>3. CASE List
  <2>1. /\ UNCHANGED <<rows, at, captured, begun, done, missed>> /\ pc = "list" /\ pc' = "delete"
        /\ keys' = Selected(Order[at])
    BY <1>3 DEF List, db
  <2>2. ASSUME NEW r \in rows \cap begun \cap Mine, ~Orphan(r), TableOf[r] = Order[at]
        PROVE  r \in Selected(Order[at])
    <3>1. r \in Row /\ r \in rows \cap In(Order[at]) \cap Mine
      BY <2>2 DEF TypeOK, In
    <3>2. NegOf[r] # NoNeg => NegOf[r] \in captured
      <4> SUFFICES ASSUME NegOf[r] # NoNeg PROVE NegOf[r] \in captured
        OBVIOUS
      <4>1. NegOf[r] \in begun
        BY <2>2 DEF Orphan
      <4>2. NegOf[r] \in Mine /\ TableOf[NegOf[r]] = "negotiations"
        BY <3>1, RowAssumption
      <4>3. NegOf[r] \in Row
        BY <4>1 DEF TypeOK
      <4> QED
        BY <2>1, <4>1, <4>2, <4>3 DEF Ahead, Negotiations, In
    <3> QED
      BY <3>1, <3>2 DEF Selected
  <2>3. ~done
    BY <2>1 DEF Ahead
  <2> QED
    BY <2>1, <2>2, <2>3 DEF Ahead, Orphan, LeavesOnlyOrphans
<1>4. CASE DeleteBatch
  <2>1. PICK b \in Batches, lost \in SUBSET Row :
          /\ rows' = rows \ (b \ lost) /\ keys' = keys \ b
          /\ missed' = (missed \/ lost # {})
    BY <1>4, BatchFacts DEF DeleteBatch
  <2>2. ~missed' => ~missed /\ rows' = rows \ b /\ keys' = keys \ b
    BY <2>1
  <2>3. UNCHANGED <<pc, at, captured, begun, done>> /\ pc = "delete"
    BY <1>4 DEF DeleteBatch
  <2>4. ~done
    BY <2>3 DEF Ahead
  <2> QED
    BY <2>2, <2>3, <2>4 DEF Ahead, Orphan, LeavesOnlyOrphans
<1>5. CASE NextTable
  <2>1. /\ UNCHANGED <<rows, captured, keys, begun, done, missed>> /\ pc = "delete" /\ pc' = "list"
        /\ keys = {} /\ at' = at + 1 /\ at < 9 /\ at \in Steps
    BY <1>5 DEF NextTable, db, seen, TypeOK
  <2>2. ~missed => \A r \in rows \cap begun \cap Mine : \A i \in Steps :
          ~Orphan(r) /\ TableOf[r] = Order[i] => at <= i /\ i # at
    BY <2>1 DEF Ahead
  <2>3. ~done
    BY <2>1 DEF Ahead
  <2> QED
    BY <2>1, <2>2, <2>3, StepAdds DEF Ahead, Orphan, LeavesOnlyOrphans
<1>6. CASE Complete
  <2>1. /\ UNCHANGED <<rows, begun, missed>> /\ pc = "delete" /\ pc' = "idle"
        /\ keys = {} /\ at = 9
    BY <1>6 DEF Complete, db
  <2>2. \A i \in Steps : 9 <= i => i = 9
    BY DEF Steps
  <2>3. ASSUME ~missed, NEW r \in rows \cap begun \cap Mine PROVE Orphan(r)
    <3>1. PICK i \in Steps : TableOf[r] = Order[i]
      BY InSomeTable DEF TypeOK
    <3> QED
      BY <2>1, <2>2, <2>3, <3>1 DEF Ahead
  <2> QED
    BY <2>1, <2>3 DEF Ahead, Orphan, LeavesOnlyOrphans
<1>7. CASE Crash
  BY <1>7 DEF Ahead, Crash, db, LeavesOnlyOrphans, Orphan
<1>8. CASE UNCHANGED vars
  BY <1>8 DEF Ahead, vars, db, run, seen, LeavesOnlyOrphans, Orphan
<1> QED
  BY <1>1, <1>2, <1>3, <1>4, <1>5, <1>6, <1>7, <1>8 DEF Next

LEMMA AheadAlways == Spec => [](TypeOK /\ Ahead)
<1>1. Init => Ahead
  BY DEF Init, Ahead, LeavesOnlyOrphans
<1>2. TypeOK /\ Ahead /\ [Next]_vars => TypeOK' /\ Ahead'
  BY TypeStep, AheadStep
<1> QED
  BY <1>1, <1>2, TypeInit, PTL DEF Spec

(* reset: a run that DynamoDB refused no delete and that completes leaves   *)
(* nothing it began with but orphaned communications, whatever crashes,     *)
(* refused deletes and concurrent writes came before it.                    *)
THEOREM OnlyOrphansLeft == Spec => []LeavesOnlyOrphans
<1>1. Ahead => LeavesOnlyOrphans
  BY DEF Ahead
<1> QED
  BY <1>1, AheadAlways, PTL

(***************************************************************************)
(* Undisturbed: no orphan exists when a run starts, and nothing is written *)
(* before it ends.                                                         *)
(***************************************************************************)
Calm ==
  /\ pc = "idle" => \A r \in rows \cap Mine : NegOf[r] \in rows \cup {NoNeg}
  /\ pc # "idle" => /\ rows \subseteq begun
                    /\ \A r \in begun \cap Mine : ~Orphan(r)
                    /\ ~missed

Closed == (~disturbed => Calm) /\ SafeToRerun

LEMMA ClosedStep ==
  ASSUME TypeOK, Ahead, Ahead', Closed, [Next]_vars
  PROVE  Closed'
<1> USE DEF TypeOK
<1>1. ASSUME NEW r \in Row, Write(r) PROVE Closed'
  <2>1. ~done' /\ rows' = rows \cup {r} /\ pc' = pc
    BY <1>1 DEF Write, run
  <2>2. ASSUME ~disturbed' PROVE Calm'
    <3>1. /\ ~disturbed /\ pc = "idle" /\ NegOf[r] \in rows \cup {NoNeg}
      BY <1>1, <2>2 DEF Write
    <3> QED
      BY <2>1, <3>1 DEF Closed, Calm
  <2> QED
    BY <2>1, <2>2 DEF Closed, SafeToRerun
<1>2. CASE Start
  <2>1. /\ pc = "idle" /\ pc' = "list" /\ begun' = rows /\ rows' = rows /\ ~done'
        /\ disturbed' = disturbed /\ missed' = FALSE
    BY <1>2 DEF Start, db
  <2>2. ~disturbed => \A r \in rows \cap Mine : NegOf[r] \in rows \cup {NoNeg}
    BY <2>1 DEF Closed, Calm
  <2> QED
    BY <2>1, <2>2 DEF Closed, Calm, SafeToRerun, Orphan
<1>3. CASE List \/ DeleteBatch \/ NextTable
  <2>1. /\ pc # "idle" /\ pc' # "idle" /\ begun' = begun /\ rows' \subseteq rows /\ done' = done
    BY <1>3 DEF List, DeleteBatch, NextTable, db, seen
  <2>2. ~disturbed' => ~disturbed /\ missed' = missed
    BY <1>3 DEF List, DeleteBatch, NextTable, seen
  <2>3. ~done
    BY <2>1 DEF Ahead
  <2> QED
    BY <2>1, <2>2, <2>3 DEF Closed, Calm, SafeToRerun, Orphan
<1>4. CASE Complete
  <2>1. /\ pc # "idle" /\ pc' = "idle" /\ rows' = rows /\ begun' = begun /\ done'
        /\ disturbed' = disturbed /\ missed' = missed
    BY <1>4 DEF Complete, db
  <2>2. ~missed => \A r \in rows \cap begun \cap Mine : Orphan(r)
    BY <2>1 DEF Ahead, LeavesOnlyOrphans, Orphan
  <2>3. ~disturbed => rows \cap Mine = {}
    BY <2>1, <2>2 DEF Closed, Calm
  <2> QED
    BY <2>1, <2>3 DEF Closed, Calm, SafeToRerun
<1>5. CASE Crash
  BY <1>5 DEF Crash, Closed, SafeToRerun
<1>6. CASE UNCHANGED vars
  BY <1>6 DEF Closed, Calm, vars, db, run, seen, SafeToRerun, Orphan
<1> QED
  BY <1>1, <1>2, <1>3, <1>4, <1>5, <1>6 DEF Next

(* reset: a run that completes leaves no row of the tenant, unless a run has
   crashed or missed a delete, or an execution has written during a run or
   for a negotiation it had deleted.                                       *)
THEOREM UndisturbedResetIsClean == Spec => []SafeToRerun
<1>1. Init => Closed
  BY DEF Init, Closed, Calm, SafeToRerun
<1>2. TypeOK /\ Ahead /\ Ahead' /\ Closed /\ [Next]_vars => Closed'
  BY ClosedStep
<1>3. Closed => SafeToRerun
  BY DEF Closed
<1> QED
  BY <1>1, <1>2, <1>3, AheadAlways, PTL DEF Spec

(***************************************************************************)
(* The count that is printed                                               *)
(***************************************************************************)
(* What is listed is there until this run deletes it. *)
Counting == pc = "delete" => keys \subseteq rows /\ (~missed => counted = removed)

LEMMA CountingStep == TypeOK /\ Counting /\ [Next]_vars => Counting'
<1> SUFFICES ASSUME TypeOK, Counting, [Next]_vars PROVE Counting'
  OBVIOUS
<1>1. ASSUME NEW r \in Row, Write(r) PROVE Counting'
  BY <1>1 DEF Counting, Write, run
<1>2. CASE Start \/ NextTable \/ Complete \/ Crash
  BY <1>2 DEF Counting, Start, NextTable, Complete, Crash
<1>3. CASE List
  BY <1>3, SelectedInRow DEF Counting, List, db
<1>4. CASE DeleteBatch
  <2>1. PICK b \in Batches : \E lost \in SUBSET b :
          /\ missed' = (missed \/ lost # {})
          /\ rows' = rows \ (b \ lost) /\ keys' = keys \ b
          /\ counted' = counted + Cardinality(b)
          /\ removed' = removed + Cardinality((b \ lost) \cap rows)
    BY <1>4 DEF DeleteBatch
  <2>2. PICK lost \in SUBSET b :
          /\ missed' = (missed \/ lost # {})
          /\ rows' = rows \ (b \ lost) /\ keys' = keys \ b
          /\ counted' = counted + Cardinality(b)
          /\ removed' = removed + Cardinality((b \ lost) \cap rows)
    BY <2>1
  <2>3. keys \subseteq rows /\ b \subseteq keys /\ (~missed => counted = removed)
    BY <1>4, BatchFacts DEF Counting, DeleteBatch
  <2>4. ASSUME ~missed' PROVE counted' = removed'
    <3>1. ~missed /\ lost = {}
      BY <2>2, <2>4
    <3>2. (b \ lost) \cap rows = b
      BY <2>3, <3>1
    <3> QED
      BY <2>2, <2>3, <3>1, <3>2
  <2>5. keys' \subseteq rows'
    BY <2>2, <2>3
  <2> QED
    BY <2>4, <2>5 DEF Counting
<1>5. CASE UNCHANGED vars
  BY <1>5 DEF Counting, vars, db, run, seen
<1> QED
  BY <1>1, <1>2, <1>3, <1>4, <1>5 DEF Next

(* The printed count is the number of rows deleted, whoever writes meanwhile,
   unless deletes come back unprocessed.                                   *)
THEOREM CountIsTrue == Spec => []CountTrue
<1>1. Init => Counting
  BY DEF Init, Counting
<1>2. Counting => CountTrue
  BY DEF Counting, CountTrue
<1> QED
  BY <1>1, <1>2, CountingStep, TypeCorrect, PTL DEF Spec
=============================================================================

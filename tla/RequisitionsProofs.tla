------------------------- MODULE RequisitionsProofs -------------------------
(***************************************************************************)
(* Proofs about Requisitions: what holds however many threads serve the    *)
(* requisition, and what one thread at a time adds to it - that the API     *)
(* implements RequisitionLifecycle.                                        *)
(***************************************************************************)
EXTENDS Requisitions, FiniteSetTheorems, TLAPS

(***************************************************************************)
(* Any number of threads                                                   *)
(***************************************************************************)
LEMMA ByAgeStatus == \A a \in Band : ByAge[a] \in Statuses
  BY DEF Band, ByAge, Statuses, Pending

LEMMA TickAge == \A a \in Band : a < 3 => a + 1 \in Band
  BY DEF Band

(* Steps of a thread: where it may go, and what it may answer. *)
LEMMA Moves ==
  ASSUME ThreadsOK, NEW w \in Worker
  PROVE  /\ \A p \in Point : Goto(w, p) => pc' \in [Worker -> Point]
         /\ \A a \in {"none", "listed", "left out"} : Reply(w, a) =>
              /\ pc' \in [Worker -> Point] /\ op' \in [Worker -> Request]
              /\ answer' \in [Worker -> {"none", "listed", "left out"}]
<1>1. \A p \in Point : Goto(w, p) => pc' \in [Worker -> Point]
  BY DEF ThreadsOK, Goto
<1>2. "idle" \in Point /\ "get" \in Request
  BY DEF Point, Request
<1> QED
  BY <1>1, <1>2 DEF Reply, ThreadsOK

LEMMA StatusStep == RowOK /\ ThreadsOK /\ [Next]_vars => RowOK' /\ (reruns \in Nat => reruns' \in Nat)
<1> SUFFICES ASSUME RowOK, ThreadsOK, [Next]_vars
             PROVE RowOK' /\ (reruns \in Nat => reruns' \in Nat)
  OBVIOUS
<1>0. /\ stored \in BOOLEAN /\ status \in Statuses /\ age \in Band
      /\ cycles \in Nat /\ context \in BOOLEAN /\ orders \in Nat
  BY DEF RowOK
<1>1. CASE Create
  <2>1. 0 \in Band /\ "NEW" \in Statuses
    BY DEF Band, Statuses
  <2> QED
    BY <1>0, <1>1, <2>1 DEF Create, RowOK
<1>2. CASE Tick
  BY <1>0, <1>2, TickAge DEF Tick, RowOK
<1>3. ASSUME NEW w \in Worker, UNCHANGED <<row, reruns>> PROVE RowOK' /\ (reruns \in Nat => reruns' \in Nat)
  BY <1>0, <1>3 DEF row, RowOK
<1>4. ASSUME NEW w \in Worker, Continue(w) PROVE RowOK' /\ (reruns \in Nat => reruns' \in Nat)
  <2>1. CASE Advance(w)
    <3>1. sampled[w] \in Band
      BY DEF ThreadsOK
    <3>2. status' \in Statuses
      BY <2>1, <3>1, ByAgeStatus DEF Advance
    <3> QED
      BY <1>0, <2>1, <3>2 DEF Advance, RowOK
  <2>2. CASE Explain(w)
    BY <1>0, <2>2 DEF Explain, RowOK
  <2>3. CASE Decide(w) \/ Serialise(w)
    BY <1>3, <2>3 DEF Decide, Serialise
  <2>4. CASE Approve(w) \/ Cancel(w) \/ CycleBack(w)
    <3>1. {"COMPLETED", "CANCELLED", "REQUIRES_ATTENTION"} \subseteq Statuses
      BY DEF Statuses
    <3> QED
      BY <1>0, <2>4, <3>1 DEF Approve, Cancel, CycleBack, RowOK
  <2>5. CASE Append(w)
    BY <1>0, <2>5 DEF Append, RowOK
  <2>8. CASE Pop(w)
    BY <1>0, <2>8 DEF Pop, RowOK
  <2>6. CASE Rerun(w)
    BY <1>0, <2>6 DEF Rerun, RowOK, Statuses
  <2>7. CASE Rewind(w)
    BY <1>0, <2>7 DEF Rewind, RowOK, Band
  <2> QED
    BY <1>4, <2>1, <2>2, <2>3, <2>4, <2>5, <2>6, <2>7, <2>8 DEF Continue
<1>5. CASE UNCHANGED vars
  BY <1>0, <1>5 DEF vars, row, RowOK
<1> QED
  BY <1>1, <1>2, <1>3, <1>4, <1>5 DEF Next, Missing, Begin

LEMMA ThreadStep == RowOK /\ ThreadsOK /\ [Next]_vars => ThreadsOK'
<1> SUFFICES ASSUME RowOK, ThreadsOK, [Next]_vars PROVE ThreadsOK'
  OBVIOUS
<1>1. CASE Create \/ Tick \/ UNCHANGED vars
  BY <1>1 DEF Create, Tick, vars, ThreadsOK
<1>2. ASSUME NEW w \in Worker, Missing(w) PROVE ThreadsOK'
  BY <1>2, Moves DEF Missing, ThreadsOK
<1>3. ASSUME NEW w \in Worker, NEW r \in Request, Begin(w, r) PROVE ThreadsOK'
  <2>1. age \in Band /\ 0 \in Band /\ {"decide", "advance"} \subseteq Point
    BY DEF RowOK, Band, Point
  <2>2. sampled' \in [Worker -> Band]
    BY <1>3, <2>1 DEF Begin, ThreadsOK
  <2>3. pc' \in [Worker -> Point]
    BY <1>3, <2>1 DEF Begin, Goto, ThreadsOK
  <2> QED
    BY <1>3, <2>2, <2>3 DEF Begin, ThreadsOK
<1>4. ASSUME NEW w \in Worker, Continue(w) PROVE ThreadsOK'
  <2>0. /\ {"context", "decide", "serialise", "append", "pop", "rerun", "rewind"} \subseteq Point
        /\ 0 \in Band
    BY DEF Point, Band
  <2>1. CASE Advance(w)
    <3>1. pc' \in [Worker -> Point]
      BY <2>0, <2>1 DEF Advance, Goto, ThreadsOK
    <3>2. sampled' \in [Worker -> Band]
      BY <2>0, <2>1 DEF Advance, ThreadsOK
    <3> QED
      BY <2>1, <3>1, <3>2 DEF Advance, ThreadsOK
  <2>2. CASE Explain(w) \/ Approve(w) \/ Rerun(w) \/ Rewind(w)
    BY <2>0, <2>2, Moves DEF Explain, Approve, Rerun, Rewind, ThreadsOK
  <2>3. CASE Decide(w)
    <3>1. op[w] \in Request
      BY DEF ThreadsOK
    <3>2. op[w] \notin {"get", "inbox"} => (IF op[w] = "confirm" THEN "cancel" ELSE op[w]) \in Point
      BY <3>1 DEF Request, Point
    <3> QED
      BY <2>0, <2>3, <3>2, Moves DEF Decide, ThreadsOK
  <2>4. CASE Serialise(w) \/ Append(w) \/ Cancel(w) \/ Pop(w)
    BY <2>4, Moves DEF Serialise, Append, Cancel, Pop, ThreadsOK
  <2>5. CASE CycleBack(w)
    BY <2>0, <2>5, Moves DEF CycleBack, ThreadsOK
  <2> QED
    BY <1>4, <2>1, <2>2, <2>3, <2>4, <2>5 DEF Continue
<1> QED
  BY <1>1, <1>2, <1>3, <1>4 DEF Next

LEMMA TypeStep == TypeOK /\ [Next]_vars => TypeOK'
  BY StatusStep, ThreadStep DEF TypeOK

LEMMA TypeInit == Init => TypeOK
<1> SUFFICES ASSUME Init PROVE TypeOK
  OBVIOUS
<1>1. 0 \in Band /\ "NEW" \in Statuses /\ "idle" \in Point /\ "get" \in Request
  BY DEF Statuses, Band, Point, Request
<1>2. RowOK /\ reruns \in Nat
  BY <1>1 DEF Init, RowOK
<1>3. ThreadsOK
  BY <1>1 DEF Init, ThreadsOK
<1> QED
  BY <1>2, <1>3 DEF TypeOK

(* Every variable of the stub store and of its handlers keeps its type. *)
THEOREM TypeCorrect == Spec => []TypeOK
  BY TypeInit, TypeStep, PTL DEF Spec

(* approve_pr never leaves a completed requisition without its purchase    *)
(* order, unless a thread is about to append it, whatever the other        *)
(* threads do in between.                                                  *)
THEOREM CompletedOrdered == Spec => []CompletedHasOrder
<1>1. Init => CompletedHasOrder
  BY DEF Init, CompletedHasOrder
<1>2. TypeOK /\ CompletedHasOrder /\ [Next]_vars => CompletedHasOrder'
  <2> SUFFICES ASSUME TypeOK, CompletedHasOrder, [Next]_vars
               PROVE CompletedHasOrder'
    OBVIOUS
  <2> USE DEF CompletedHasOrder, At
  <2>1. CASE Create
    BY <2>1 DEF Create
  <2>2. CASE Tick
    BY <2>2 DEF Tick
  <2>3. ASSUME NEW w \in Worker, Missing(w) PROVE CompletedHasOrder'
    <3>1. \A v \in Worker : pc[v] = "append" => pc'[v] = "append"
      BY <2>3 DEF TypeOK, ThreadsOK, Missing, Reply, Goto
    <3> QED
      BY <2>3, <3>1 DEF Missing, row
  <2>4. ASSUME NEW w \in Worker, NEW r \in Request, Begin(w, r)
        PROVE CompletedHasOrder'
    <3>1. \A v \in Worker : pc[v] = "append" => pc'[v] = "append"
      BY <2>4 DEF TypeOK, ThreadsOK, Begin, Goto
    <3> QED
      BY <2>4, <3>1 DEF Begin, row
  <2>5. ASSUME NEW w \in Worker, Continue(w) PROVE CompletedHasOrder'
    <3>1. CASE Append(w)
      BY <3>1 DEF Append, TypeOK, RowOK
    <3>2. CASE Approve(w)
      BY <3>2 DEF Approve, Goto, TypeOK, ThreadsOK
    <3>3. CASE ~Append(w) /\ ~Approve(w)
      <4>1. \A v \in Worker : pc[v] = "append" => pc'[v] = "append"
        BY <2>5, <3>3 DEF Continue, TypeOK, ThreadsOK, Reply, Goto, Advance, Explain, Decide,
           Serialise, Cancel, CycleBack, Rerun, Rewind, Pop
      <4>2. orders' = orders
        BY <2>5, <3>3 DEF Continue, Advance, Explain, Decide, Serialise, Cancel,
           CycleBack, Rerun, Rewind, Pop, row
      <4>3. status' = "COMPLETED" => status = "COMPLETED"
        <5>1. Advance(w) => status' # "COMPLETED"
          BY DEF Advance, TypeOK, ThreadsOK, Band, ByAge, Pending
        <5> QED
          BY <2>5, <3>3, <5>1 DEF Continue, Explain, Decide, Serialise, Cancel,
             CycleBack, Rerun, Rewind, Pop, row
      <4> QED
        BY <4>1, <4>2, <4>3
    <3> QED
      BY <3>1, <3>2, <3>3
  <2>6. CASE UNCHANGED vars
    BY <2>6 DEF vars, row
  <2> QED
    BY <2>1, <2>2, <2>3, <2>4, <2>5, <2>6 DEF Next
<1> QED
  BY <1>1, <1>2, TypeCorrect, PTL DEF Spec

(* Threads that have found the count at zero and not yet raised it. *)
ToRerun == {w \in Worker : pc[w] = "rerun"}

(* RerunsBounded, strengthened: once the count is raised nobody joins the
   threads that still will raise it.                                       *)
RerunInv ==
  /\ cycles = reruns
  /\ cycles # 0 => cycles + Cardinality(ToRerun) <= Cardinality(Worker)

LEMMA ToRerunFinite ==
  IsFiniteSet(ToRerun) /\ Cardinality(ToRerun) \in Nat /\ Cardinality(Worker) \in Nat
    /\ Cardinality(ToRerun) <= Cardinality(Worker)
<1>1. ToRerun \subseteq Worker /\ IsFiniteSet(Worker)
  BY WorkerAssumption DEF ToRerun
<1> QED
  BY <1>1, FS_Subset, FS_CardinalityType

(* A step that leaves the counts alone and lets nobody join. *)
LEMMA FewerRerun ==
  ASSUME RerunInv, TypeOK, UNCHANGED <<cycles, reruns>>, cycles # 0 => ToRerun' \subseteq ToRerun
  PROVE  RerunInv'
<1>1. CASE cycles = 0
  BY <1>1 DEF RerunInv
<1>2. CASE cycles # 0
  <2>1. /\ Cardinality(ToRerun') <= Cardinality(ToRerun)
        /\ Cardinality(ToRerun') \in Nat /\ Cardinality(ToRerun) \in Nat
    BY <1>2, ToRerunFinite, FS_Subset, FS_CardinalityType
  <2>2. cycles \in Nat /\ Cardinality(Worker) \in Nat
    BY ToRerunFinite DEF TypeOK, RowOK
  <2>3. cycles' + Cardinality(ToRerun') <= Cardinality(Worker)
    BY <1>2, <2>1, <2>2 DEF RerunInv
  <2> QED
    BY <2>3 DEF RerunInv
<1> QED
  BY <1>1, <1>2

LEMMA RerunStep == TypeOK /\ RerunInv /\ [Next]_vars => RerunInv'
<1> SUFFICES ASSUME TypeOK, RerunInv, [Next]_vars PROVE RerunInv'
  OBVIOUS
<1>1. CASE Create \/ Tick \/ UNCHANGED vars
  BY <1>1, FewerRerun DEF Create, Tick, vars, row, ToRerun
<1>2. ASSUME NEW w \in Worker, Missing(w) PROVE RerunInv'
  <2>1. ToRerun' \subseteq ToRerun
    BY <1>2 DEF Missing, Reply, Goto, ToRerun, TypeOK, ThreadsOK
  <2> QED
    BY <1>2, <2>1, FewerRerun DEF Missing, row
<1>3. ASSUME NEW w \in Worker, NEW r \in Request, Begin(w, r) PROVE RerunInv'
  <2>1. ToRerun' \subseteq ToRerun
    BY <1>3 DEF Begin, Goto, ToRerun, TypeOK, ThreadsOK
  <2> QED
    BY <1>3, <2>1, FewerRerun DEF Begin, row
<1>4. ASSUME NEW w \in Worker, Continue(w) PROVE RerunInv'
  <2>1. CASE Rerun(w)
    <3>1. w \in ToRerun /\ ToRerun' = ToRerun \ {w}
      BY <2>1 DEF Rerun, At, Goto, ToRerun, TypeOK, ThreadsOK
    <3>2. Cardinality(ToRerun') = Cardinality(ToRerun) - 1
      BY <3>1, ToRerunFinite, FS_RemoveElement
    <3>3. cycles' = cycles + 1 /\ reruns' = reruns + 1 /\ cycles \in Nat
      BY <2>1 DEF Rerun, TypeOK, RowOK
    <3>4. cycles + Cardinality(ToRerun) <= Cardinality(Worker)
      BY <3>3, ToRerunFinite DEF RerunInv
    <3>5. cycles' + Cardinality(ToRerun') <= Cardinality(Worker)
      BY <3>2, <3>3, <3>4, ToRerunFinite
    <3> QED
      BY <3>3, <3>5 DEF RerunInv
  <2>2. CASE Decide(w)
    <3>1. op[w] \in Request
      BY DEF TypeOK, ThreadsOK
    <3>2. ToRerun' \subseteq ToRerun
      BY <2>2, <3>1 DEF Decide, Reply, Goto, ToRerun, TypeOK, ThreadsOK, Request
    <3> QED
      BY <2>2, <3>2, FewerRerun DEF Decide, row
  <2>3. CASE CycleBack(w)
    <3>1. cycles \in Nat
      BY DEF TypeOK, RowOK
    <3>2. cycles # 0 => ToRerun' \subseteq ToRerun
      BY <2>3, <3>1 DEF CycleBack, Goto, ToRerun, TypeOK, ThreadsOK
    <3> QED
      BY <2>3, <3>2, FewerRerun DEF CycleBack
  <2>4. CASE \/ Advance(w) \/ Explain(w) \/ Serialise(w) \/ Approve(w) \/ Append(w)
             \/ Cancel(w) \/ Rewind(w) \/ Pop(w)
    <3>1. ToRerun' \subseteq ToRerun
      BY <2>4 DEF Advance, Explain, Serialise, Approve, Append, Cancel, Rewind, Pop,
         Reply, Goto, ToRerun, TypeOK, ThreadsOK
    <3>2. UNCHANGED <<cycles, reruns>>
      BY <2>4 DEF Advance, Explain, Serialise, Approve, Append, Cancel, Rewind, Pop, row
    <3> QED
      BY <3>1, <3>2, FewerRerun
  <2> QED
    BY <1>4, <2>1, <2>2, <2>3, <2>4 DEF Continue
<1> QED
  BY <1>1, <1>2, <1>3, <1>4 DEF Next

(* cycle_back_pr looks at the count and raises it in two steps: however     *)
(* many requests overlap, the strategy is re-run at most once per thread.   *)
THEOREM RerunsAreBounded == Spec => []RerunsBounded
<1>1. Init => RerunInv
  BY DEF Init, RerunInv
<1>2. TypeOK /\ RerunInv => RerunsBounded
  <2> SUFFICES ASSUME TypeOK, RerunInv PROVE RerunsBounded
    OBVIOUS
  <2>1. cycles \in Nat /\ cycles = reruns
    BY DEF TypeOK, RowOK, RerunInv
  <2> QED
    BY <2>1, ToRerunFinite DEF RerunInv, RerunsBounded
<1> QED
  BY <1>1, <1>2, RerunStep, TypeCorrect, PTL DEF Spec

(* A row that is not there has no thread at work on it. *)
Untouched == ~stored => status = "NEW" /\ \A w \in Worker : pc[w] = "idle"

LEMMA UntouchedStep == TypeOK /\ Untouched /\ [Next]_vars => Untouched'
<1> SUFFICES ASSUME TypeOK, Untouched, [Next]_vars, ~stored' PROVE Untouched'
  BY DEF Untouched
<1>1. ~stored /\ status = "NEW" /\ \A w \in Worker : pc[w] = "idle"
  <2>1. stored => stored'
    BY DEF Next, vars, row, Create, Tick, Missing, Begin, Continue, Advance, Explain, Decide,
       Serialise, Approve, Append, Cancel, CycleBack, Rerun, Rewind, Pop
  <2> QED
    BY <2>1 DEF Untouched
<1>2. UNCHANGED vars \/ \E w \in Worker : Missing(w)
  BY <1>1 DEF Next, Create, Tick, Begin, Continue, At, Advance, Explain, Decide,
     Serialise, Approve, Append, Cancel, CycleBack, Rerun, Rewind, Pop
<1> QED
  BY <1>1, <1>2 DEF Untouched, vars, row, Missing, Reply, Goto, TypeOK, ThreadsOK

(* A decision is taken, and no thread is past the checks that would undo it. *)
Settled(S) ==
  /\ stored /\ status \in S
  /\ \A w \in Worker : pc[w] \in {"idle", "decide", "cancel"}

LEMMA SettledStep ==
  ASSUME NEW S, S \subseteq Held, Pending \notin S, "CANCELLED" \in S,
         TypeOK, Settled(S), [Next]_vars
  PROVE  Settled(S)'
<1>0. stored /\ status \in S /\ status \in Held /\ status # Pending
  BY DEF Settled
<1>1. CASE Tick \/ UNCHANGED vars
  BY <1>1 DEF Tick, vars, row, Settled
<1>2. ~Create
  BY <1>0 DEF Create
<1>3. ASSUME NEW w \in Worker, Missing(w) PROVE Settled(S)'
  BY <1>0, <1>3 DEF Missing
<1>4. ASSUME NEW w \in Worker, NEW r \in Request, Begin(w, r) PROVE Settled(S)'
  <2>1. pc' = [pc EXCEPT ![w] = "decide"] /\ UNCHANGED <<stored, status>>
    BY <1>0, <1>4 DEF Begin, Goto, row
  <2> QED
    BY <1>0, <2>1 DEF Settled, TypeOK, ThreadsOK
<1>5. ASSUME NEW w \in Worker, Continue(w) PROVE Settled(S)'
  <2>1. pc[w] \in {"idle", "decide", "cancel"}
    BY DEF Settled
  <2>2. CASE Decide(w)
    <3>1. op[w] \in Request
      BY DEF TypeOK, ThreadsOK
    <3>2. pc' = [pc EXCEPT ![w] = "idle"] \/ pc' = [pc EXCEPT ![w] = "cancel"]
      BY <1>0, <2>2, <3>1 DEF Decide, Refused, Reply, Goto, Request
    <3>3. UNCHANGED <<stored, status>>
      BY <2>2 DEF Decide, row
    <3> QED
      BY <1>0, <3>2, <3>3 DEF Settled, TypeOK, ThreadsOK
  <2>3. CASE Cancel(w)
    <3>1. pc' = [pc EXCEPT ![w] = "idle"] /\ status' = "CANCELLED" /\ stored' = stored
      BY <2>3 DEF Cancel, Reply, Goto
    <3> QED
      BY <1>0, <3>1 DEF Settled, TypeOK, ThreadsOK
  <2>4. Decide(w) \/ Cancel(w)
    BY <1>5, <2>1 DEF Continue, At, Advance, Explain, Serialise, Approve, Append, CycleBack,
       Rerun, Rewind, Pop
  <2> QED
    BY <2>2, <2>3, <2>4
<1> QED
  BY <1>1, <1>2, <1>3, <1>4, <1>5 DEF Next

(* cancel_pr, reject_pr and approve_pr: a decision that no request about    *)
(* the requisition overlaps is final, whatever overlaps later and in        *)
(* however many threads.                                                   *)
THEOREM DecisionsAreFinal == Spec => DecisionsSettle
<1> DEFINE C == {"CANCELLED"}
           D == {"COMPLETED", "CANCELLED"}
<1>1. /\ TypeOK /\ Settled(C) /\ [Next]_vars => Settled(C)'
      /\ TypeOK /\ Settled(D) /\ [Next]_vars => Settled(D)'
  <2>1. C \subseteq Held /\ D \subseteq Held /\ Pending \notin C /\ Pending \notin D
    BY DEF Held, Pending
  <2> QED
    BY <2>1, SettledStep
<1>2. Untouched /\ Quiet /\ status = "CANCELLED" => Settled(C)
  BY DEF Untouched, Quiet, At, Settled
<1>3. Untouched /\ Quiet /\ status = "COMPLETED" => Settled(D)
  BY DEF Untouched, Quiet, At, Settled
<1>4. Settled(C) => status = "CANCELLED"
  BY DEF Settled
<1>5. Settled(D) => status \in {"COMPLETED", "CANCELLED"}
  BY DEF Settled
<1>6. Init => Untouched
  BY DEF Init, Untouched
<1> HIDE DEF C, D
<1> QED
  BY <1>1, <1>2, <1>3, <1>4, <1>5, <1>6, UntouchedStep, TypeCorrect, PTL
     DEF Spec, DecisionsSettle

(***************************************************************************)
(* One request at a time                                                   *)
(***************************************************************************)
OneAtATime == \E w \in Worker : Worker = {w}

(* What is known of the row where the only thread w is. *)
Stage(w) ==
  /\ pc[w] = "advance" =>
       /\ sampled[w] <= age
       /\ \E a \in Band : a <= sampled[w] /\ status = ByAge[a]
       /\ status \notin Held
  /\ pc[w] \in {"context", "serialise", "approve", "reject", "cycle_back", "rerun"}
       => status = Pending
  /\ pc[w] = "rerun" => cycles = 0
  /\ pc[w] = "append" => status = "COMPLETED" /\ orders = 0
  /\ pc[w] = "rewind" => status = "IN_NEGOTIATION"
  /\ pc[w] = "pop" => status \in {"IN_NEGOTIATION", "REQUIRES_ATTENTION"}

(* Nothing happens to a row that is not stored, and the age of one that is
   bounds its status.                                                      *)
Row ==
  /\ ~stored => status = "NEW" /\ orders = 0
  /\ \/ status \in Held
     \/ \E a \in Band : a <= age /\ status = ByAge[a]
  /\ status = Pending => age = 3
  /\ cycles \in {0, 1} /\ reruns = cycles
  /\ orders \in {0, 1}
  /\ orders = 1 => status \in {"COMPLETED", "CANCELLED"}

Explained(w) == status = Pending /\ pc[w] # "context" => context

SeqInv ==
  \A w \in Worker : Stage(w) /\ Row /\ Explained(w) /\ (~stored => pc[w] = "idle")

LEMMA SeqInit == Init => SeqInv
<1> SUFFICES ASSUME Init PROVE SeqInv
  OBVIOUS
<1>1. 0 \in Band /\ ByAge[0] = "NEW"
  BY DEF Band, ByAge
<1>2. Row
  BY <1>1 DEF Init, Row, Pending
<1> QED
  BY <1>2 DEF Init, SeqInv, Stage, Explained, Pending

LEMMA Bands == /\ ByAge[0] = "NEW" /\ ByAge[1] = "ACTIVE" /\ ByAge[2] = "IN_NEGOTIATION"
               /\ ByAge[3] = Pending
               /\ \A a \in Band : a \in {0, 1, 2, 3}
               /\ {0, 1, 2, 3} \subseteq Band
  BY DEF ByAge, Band, Pending

LEMMA SeqStep ==
  ASSUME TypeOK, SeqInv, OneAtATime, [Next]_vars
  PROVE  SeqInv'
<1>1. PICK w \in Worker : Worker = {w}
  BY DEF OneAtATime
<1>2. Stage(w) /\ Row /\ Explained(w) /\ (~stored => pc[w] = "idle")
  BY <1>1 DEF SeqInv
<1>3. SUFFICES /\ Stage(w)' /\ Row' /\ Explained(w)'
               /\ ~stored' => pc'[w] = "idle"
  BY <1>1 DEF SeqInv
<1>4. /\ cycles \in Nat /\ orders \in Nat /\ age \in Band /\ sampled[w] \in Band
      /\ \A p : Goto(w, p) => pc'[w] = p
      /\ \A a : Reply(w, a) => pc'[w] = "idle"
  BY <1>1 DEF TypeOK, RowOK, ThreadsOK, Goto, Reply
<1>5. CASE Create
  BY <1>2, <1>5, Bands DEF Create, Stage, Row, Explained, Pending, Held
<1>6. CASE Tick
  <2>1. \A a \in Band : a <= age => a <= age'
    BY <1>4, <1>6 DEF Tick, Band
  <2>2. Row'
    BY <1>2, <1>4, <1>6, <2>1 DEF Tick, Row
  <2>3. sampled[w] <= age => sampled[w] <= age'
    BY <1>4, <2>1
  <2> QED
    BY <1>2, <1>6, <2>2, <2>3 DEF Tick, Stage, Explained
<1>7. CASE Missing(w)
  BY <1>2, <1>4, <1>7 DEF Missing, row, Stage, Row, Explained, At
<1>8. ASSUME NEW r \in Request, Begin(w, r)
      PROVE  Stage(w)' /\ Row' /\ Explained(w)' /\ (~stored' => pc'[w] = "idle")
  <2>1. stored /\ UNCHANGED <<row, reruns>> /\ pc[w] = "idle"
    BY <1>8 DEF Begin, At
  <2>2. Row' /\ Explained(w)'
    <3>1. pc'[w] = "decide" \/ pc'[w] = "advance"
      BY <1>4, <1>8 DEF Begin
    <3> QED
      BY <1>2, <2>1, <3>1 DEF row, Row, Explained
  <2>3. CASE status \in Held
    <3>1. pc'[w] = "decide"
      BY <1>4, <1>8, <2>3 DEF Begin
    <3> QED
      BY <2>1, <2>2, <3>1 DEF row, Stage
  <2>4. CASE status \notin Held
    <3>1. pc'[w] = "advance" /\ sampled'[w] = age
      BY <1>4, <1>8, <2>4 DEF Begin, TypeOK, ThreadsOK
    <3>2. age <= age
      BY <1>4 DEF Band
    <3>3. \E a \in Band : a <= age /\ status = ByAge[a]
      BY <1>2, <2>4 DEF Row
    <3> QED
      BY <2>1, <2>2, <2>4, <3>1, <3>2, <3>3 DEF row, Stage
  <2> QED
    BY <2>3, <2>4
<1>9. CASE Continue(w)
  <2>0. stored
    BY <1>2, <1>9 DEF Continue, At, Advance, Explain, Decide, Serialise, Approve,
       Append, Cancel, CycleBack, Rerun, Rewind, Pop
  <2>1. CASE Advance(w)
    <3>1. /\ pc[w] = "advance" /\ status' = ByAge[sampled[w]] /\ status \notin Held
          /\ sampled[w] <= age
          /\ UNCHANGED <<stored, age, cycles, context, orders, reruns>>
      BY <1>2, <2>1 DEF Advance, At, Stage
    <3>2. orders = 0
      BY <1>2, <3>1 DEF Row, Held
    <3>3. status' = Pending <=> sampled[w] = 3
      BY <1>4, <3>1, Bands DEF Pending
    <3>4. sampled[w] = 3 => age = 3
      BY <1>4, <3>1, Bands
    <3>5. Row'
      BY <1>2, <1>4, <2>0, <3>1, <3>2, <3>3, <3>4 DEF Row
    <3>6. pc'[w] = IF sampled[w] = 3 THEN "context" ELSE "decide"
      BY <1>4, <2>1 DEF Advance
    <3> QED
      BY <2>0, <3>1, <3>3, <3>5, <3>6 DEF Stage, Explained
  <2>2. CASE Explain(w)
    BY <1>2, <1>4, <2>0, <2>2 DEF Explain, Stage, Row, Explained
  <2>3. CASE Decide(w)
    <3>1. pc[w] = "decide" /\ UNCHANGED <<row, reruns>>
      BY <2>3 DEF Decide, At
    <3>2. \/ pc'[w] = "idle"
          \/ pc'[w] = "serialise" /\ status = Pending
          \/ pc'[w] = "cancel"
          \/ pc'[w] \in {"approve", "reject", "cycle_back"} /\ status = Pending
      <4>1. op[w] \in Request
        BY DEF TypeOK, ThreadsOK
      <4> QED
        BY <1>4, <2>3, <4>1 DEF Decide, Refused, Request
    <3> QED
      BY <1>2, <2>0, <3>1, <3>2 DEF row, Stage, Row, Explained
  <2>4. CASE Serialise(w)
    BY <1>2, <1>4, <2>0, <2>4 DEF Serialise, At, row, Stage, Row, Explained
  <2>5. CASE Approve(w)
    <3>1. status = Pending /\ orders = 0
      BY <1>2, <1>4, <2>5 DEF Approve, At, Stage, Row, Pending
    <3> QED
      BY <1>2, <1>4, <2>0, <2>5, <3>1 DEF Approve, Stage, Row, Explained, Pending, Held
  <2>6. CASE Append(w)
    <3>1. status = "COMPLETED" /\ orders = 0
      BY <1>2, <2>6 DEF Append, At, Stage
    <3> QED
      BY <1>2, <1>4, <2>0, <2>6, <3>1 DEF Append, Stage, Row, Explained, Pending
  <2>7. CASE Cancel(w)
    BY <1>2, <1>4, <2>0, <2>7 DEF Cancel, Stage, Row, Explained, Pending, Held
  <2>8. CASE CycleBack(w)
    <3>1. status = Pending /\ orders = 0 /\ context /\ cycles \in {0, 1}
      BY <1>2, <1>4, <2>8 DEF CycleBack, At, Stage, Row, Pending, Explained
    <3>2. CASE cycles >= 1
      <4>1. /\ status' = "REQUIRES_ATTENTION" /\ pc'[w] = "pop"
            /\ UNCHANGED <<stored, age, cycles, context, orders, reruns>>
        BY <1>4, <2>8, <3>2 DEF CycleBack
      <4> QED
        BY <1>2, <2>0, <3>1, <4>1 DEF Stage, Row, Explained, Pending, Held
    <3>3. CASE cycles = 0
      <4>1. pc'[w] = "rerun" /\ UNCHANGED <<row, reruns>>
        BY <1>4, <2>8, <3>3 DEF CycleBack, row
      <4> QED
        BY <1>2, <2>0, <3>1, <3>3, <4>1 DEF row, Stage, Row, Explained
    <3> QED
      BY <3>1, <3>2, <3>3
  <2>9. CASE Rerun(w)
    <3>1. status = Pending /\ orders = 0 /\ cycles = 0 /\ reruns = 0 /\ age = 3
      BY <1>2, <1>4, <2>9 DEF Rerun, At, Stage, Row, Pending
    <3>2. /\ status' = ByAge[2] /\ 2 \in Band /\ 2 <= age /\ status' = "IN_NEGOTIATION"
          /\ cycles' = 1 /\ reruns' = 1 /\ pc'[w] = "rewind"
          /\ UNCHANGED <<stored, age, context, orders>>
      BY <1>4, <2>9, <3>1, Bands DEF Rerun
    <3>3. \E a \in Band : a <= age' /\ status' = ByAge[a]
      BY <3>2
    <3>4. status' \notin {Pending, "COMPLETED", "CANCELLED"} /\ orders' = 0 /\ stored'
      BY <2>0, <3>1, <3>2 DEF Pending
    <3>5. Row'
      BY <3>2, <3>3, <3>4 DEF Row
    <3> QED
      BY <2>0, <3>2, <3>4, <3>5 DEF Stage, Explained
  <2>10. CASE Rewind(w)
    <3>1. status = "IN_NEGOTIATION" /\ age' = 2 /\ pc'[w] = "pop" /\ 2 \in Band /\ 2 <= 2
          /\ status = ByAge[2] /\ UNCHANGED <<stored, status, cycles, context, orders, reruns>>
      BY <1>2, <1>4, <2>10, Bands DEF Rewind, At, Stage
    <3> QED
      BY <1>2, <2>0, <3>1 DEF Stage, Row, Explained, Pending
  <2>11. CASE Pop(w)
    <3>1. status \in {"IN_NEGOTIATION", "REQUIRES_ATTENTION"}
      BY <1>2, <2>11 DEF Pop, At, Stage
    <3> QED
      BY <1>2, <1>4, <2>0, <2>11, <3>1 DEF Pop, Stage, Row, Explained, Pending
  <2> QED
    BY <1>9, <2>1, <2>2, <2>3, <2>4, <2>5, <2>6, <2>7, <2>8, <2>9, <2>10, <2>11
       DEF Continue
<1>10. CASE UNCHANGED vars
  BY <1>2, <1>10 DEF vars, row, Stage, Row, Explained
<1> QED
  BY <1>1, <1>5, <1>6, <1>7, <1>8, <1>9, <1>10 DEF Next

LEMMA SeqAlways == OneAtATime => (Spec => [](TypeOK /\ SeqInv))
<1> SUFFICES ASSUME OneAtATime PROVE Spec => [](TypeOK /\ SeqInv)
  OBVIOUS
<1>1. TypeOK /\ SeqInv /\ [Next]_vars => TypeOK' /\ SeqInv'
  BY TypeStep, SeqStep
<1> QED
  BY <1>1, TypeInit, SeqInit, PTL DEF Spec

(* _advance_stub_state and cycle_back_pr, one request at a time: a paused  *)
(* requisition carries the reason it is paused for.                        *)
THEOREM PauseExplained == OneAtATime => (Spec => []PausedExplained)
<1> SUFFICES ASSUME OneAtATime PROVE Spec => []PausedExplained
  OBVIOUS
<1>1. SeqInv => PausedExplained
  BY DEF OneAtATime, SeqInv, Explained, PausedExplained, At
<1> QED
  BY <1>1, SeqAlways, PTL

(***************************************************************************)
(* Refinement: every step is a step of RequisitionLifecycle or leaves the   *)
(* mapped variables alone.                                                 *)
(***************************************************************************)
State == IF stored THEN status ELSE "none"
Pos == orders + (IF \E w \in Worker : At(w, "append") THEN 1 ELSE 0)

LEMMA LifecycleInit == Init => Lifecycle!Init
  BY DEF Init, Lifecycle!Init, At

LEMMA StagesOrdered ==
  ASSUME NEW a \in Band, NEW b \in Band, a < b
  PROVE  \E i, j \in 1..4 : i < j /\ ByAge[a] = Lifecycle!Stages[i]
                             /\ ByAge[b] = Lifecycle!Stages[j]
<1>1. \A c \in Band : c + 1 \in 1..4 /\ ByAge[c] = Lifecycle!Stages[c + 1]
  BY Bands DEF Lifecycle!Stages, Pending
<1>2. a + 1 < b + 1
  BY DEF Band
<1> QED
  BY <1>1, <1>2

LEMMA LifecycleStep ==
  ASSUME TypeOK, SeqInv, OneAtATime, [Next]_vars
  PROVE  [Lifecycle!Next]_(Lifecycle!lifecycle)
<1> USE DEF Lifecycle!lifecycle
<1>1. PICK w \in Worker : Worker = {w}
  BY DEF OneAtATime
<1>2. Stage(w) /\ Row /\ Explained(w) /\ (~stored => pc[w] = "idle")
  BY <1>1 DEF SeqInv
<1>3. /\ cycles \in Nat /\ orders \in Nat /\ age \in Band /\ sampled[w] \in Band
      /\ \A p : Goto(w, p) => pc'[w] = p
      /\ \A a : Reply(w, a) => pc'[w] = "idle"
  BY <1>1 DEF TypeOK, RowOK, ThreadsOK, Goto, Reply
<1>4. /\ Pos = orders + (IF pc[w] = "append" THEN 1 ELSE 0)
      /\ Pos' = orders' + (IF pc'[w] = "append" THEN 1 ELSE 0)
  BY <1>1 DEF Pos, At
<1>5. Pending = Lifecycle!Paused /\ Pending = Lifecycle!Stages[4]
  BY DEF Lifecycle!Paused, Lifecycle!Stages, Pending
<1>6. CASE Create
  <2>1. State = "none" /\ State' = "NEW" /\ Pos' = Pos /\ reruns' = reruns
    BY <1>3, <1>4, <1>6 DEF Create, State
  <2> QED
    BY <2>1 DEF State, Pos, Lifecycle!Next, Lifecycle!Create
<1>7. ASSUME UNCHANGED <<row, reruns>>, pc[w] # "append", pc'[w] # "append"
      PROVE  UNCHANGED Lifecycle!lifecycle
  BY <1>4, <1>7 DEF row, State, Pos
<1>8. CASE Tick \/ UNCHANGED vars
  BY <1>4, <1>8 DEF Tick, vars, row, State, Pos
<1>9. CASE Missing(w) \/ \E r \in Request : Begin(w, r)
  <2>1. pc[w] = "idle" /\ pc'[w] \in {"idle", "decide", "advance"}
    BY <1>3, <1>9 DEF Missing, Begin, At
  <2> QED
    BY <1>7, <1>9, <2>1 DEF Missing, Begin
<1>10. CASE Continue(w)
  <2>0. stored
    BY <1>2, <1>10 DEF Continue, At, Advance, Explain, Decide, Serialise, Approve,
       Append, Cancel, CycleBack, Rerun, Rewind, Pop
  <2>1. CASE Advance(w)
    <3>1. /\ pc[w] = "advance" /\ pc'[w] # "append" /\ status \notin Held
          /\ status' = ByAge[sampled[w]] /\ stored' /\ orders' = orders /\ reruns' = reruns
      BY <1>2, <1>3, <2>0, <2>1 DEF Advance, At, Stage
    <3>2. PICK a \in Band : a <= sampled[w] /\ status = ByAge[a]
      BY <1>2, <3>1 DEF Stage
    <3>3. Pos' = Pos /\ State = status /\ State' = status'
      BY <1>4, <2>0, <3>1 DEF State
    <3>4. CASE a = sampled[w]
      BY <3>1, <3>2, <3>3, <3>4 DEF State, Pos
    <3>5. CASE a < sampled[w]
      <4>1. \E i, j \in 1..4 : i < j /\ State = Lifecycle!Stages[i]
                               /\ State' = Lifecycle!Stages[j]
        BY <1>3, <3>1, <3>2, <3>3, <3>5, StagesOrdered
      <4>2. Lifecycle!Progress
        BY <3>1, <3>3, <4>1 DEF State, Pos, Lifecycle!Progress
      <4> QED
        BY <4>2 DEF Lifecycle!Next
    <3> QED
      BY <1>3, <3>2, <3>4, <3>5 DEF Band
  <2>2. CASE Explain(w)
    BY <1>3, <1>4, <2>2 DEF Explain, At, State, Pos
  <2>3. CASE Decide(w)
    <3>1. pc[w] = "decide" /\ UNCHANGED <<row, reruns>>
      BY <2>3 DEF Decide, At
    <3>2. pc'[w] # "append"
      <4>1. op[w] \in Request
        BY DEF TypeOK, ThreadsOK
      <4> QED
        BY <1>3, <2>3, <4>1 DEF Decide, Request
    <3> QED
      BY <1>7, <3>1, <3>2
  <2>4. CASE Serialise(w)
    BY <1>3, <1>7, <2>4 DEF Serialise, At
  <2>5. CASE Approve(w)
    <3>1. /\ State = Pending /\ State' = "COMPLETED" /\ reruns' = reruns
          /\ Pos' = Pos + 1
      BY <1>2, <1>3, <1>4, <2>0, <2>5 DEF Approve, At, Stage, State
    <3> QED
      BY <1>5, <3>1 DEF State, Pos, Lifecycle!Next, Lifecycle!Approve
  <2>6. CASE Append(w)
    <3>1. Pos' = Pos
      BY <1>3, <1>4, <2>6 DEF Append, At
    <3> QED
      BY <2>6, <3>1 DEF Append, State, Pos
  <2>7. CASE Cancel(w)
    <3>1. /\ State # "none" /\ State' = "CANCELLED" /\ reruns' = reruns /\ Pos' = Pos
      BY <1>3, <1>4, <2>0, <2>7, <1>1 DEF Cancel, At, State, TypeOK, RowOK, Statuses, Pending
    <3> QED
      BY <3>1 DEF State, Pos, Lifecycle!Next, Lifecycle!Cancel
  <2>8. CASE CycleBack(w)
    <3>1. CASE cycles >= 1
      <4>1. /\ State = Pending /\ State' = "REQUIRES_ATTENTION" /\ reruns = 1
            /\ reruns' = reruns /\ Pos' = Pos
        BY <1>2, <1>3, <1>4, <2>0, <2>8, <3>1 DEF CycleBack, At, Stage, Row, State
      <4> QED
        BY <1>5, <4>1 DEF State, Pos, Lifecycle!Next, Lifecycle!HandOff
    <3>2. CASE cycles = 0
      BY <1>3, <1>7, <2>8, <3>2 DEF CycleBack, At, row
    <3> QED
      BY <1>3, <3>1, <3>2
  <2>9. CASE Rerun(w)
    <3>1. /\ State = Pending /\ State' = "IN_NEGOTIATION" /\ reruns = 0 /\ reruns' = 1
          /\ Pos' = Pos
      BY <1>2, <1>3, <1>4, <2>0, <2>9 DEF Rerun, At, Stage, Row, State
    <3> QED
      BY <1>5, <3>1 DEF State, Pos, Lifecycle!Next, Lifecycle!Rerun
  <2>10. CASE Rewind(w) \/ Pop(w)
    BY <1>3, <1>4, <2>10 DEF Rewind, Pop, At, State, Pos
  <2> QED
    BY <1>10, <2>1, <2>2, <2>3, <2>4, <2>5, <2>6, <2>7, <2>8, <2>9, <2>10 DEF Continue
<1> QED
  BY <1>1, <1>6, <1>8, <1>9, <1>10 DEF Next

(* One request at a time, the stub requisitions API implements             *)
(* RequisitionLifecycle.                                                   *)
THEOREM ImplementsLifecycle == OneAtATime => (Spec => Implements)
<1> SUFFICES ASSUME OneAtATime PROVE Spec => Implements
  OBVIOUS
<1>1. TypeOK /\ SeqInv /\ [Next]_vars => [Lifecycle!Next]_(Lifecycle!lifecycle)
  BY LifecycleStep
<1> QED
  BY <1>1, LifecycleInit, SeqAlways, PTL DEF Spec, Implements, Lifecycle!Spec

(* What a thread that stands idle last said of the inbox. *)
Said(w) ==
  At(w, "idle") /\ answer[w] # "none" => (answer[w] = "listed" <=> status = Pending)

(* A step of the only thread, and what it does to the status and the answer. *)
LEMMA SaidStep ==
  ASSUME TypeOK, SeqInv, NEW w \in Worker, Worker = {w}, Said(w), [Next]_vars
  PROVE  Said(w)'
<1>1. Stage(w) /\ Row
  BY DEF SeqInv
<1>2. /\ \A p : Goto(w, p) => pc'[w] = p
      /\ \A a : Reply(w, a) => pc'[w] = "idle" /\ answer'[w] = a
  BY DEF TypeOK, ThreadsOK, Goto, Reply
<1>3. CASE Create
  BY <1>1, <1>3 DEF Create, Row, Said, At
<1>4. CASE Tick \/ UNCHANGED vars
  BY <1>4 DEF Tick, vars, row, Said, At
<1>5. CASE Missing(w)
  BY <1>2, <1>5 DEF Missing, Said
<1>6. ASSUME NEW r \in Request, Begin(w, r) PROVE Said(w)'
  <2>1. pc'[w] \in {"decide", "advance"}
    BY <1>2, <1>6 DEF Begin
  <2> QED
    BY <2>1 DEF Said, At
<1>7. CASE Continue(w)
  <2>1. CASE Advance(w) \/ Explain(w) \/ Approve(w) \/ Rerun(w) \/ Rewind(w) \/ CycleBack(w)
    <3>1. pc'[w] \in {"context", "decide", "append", "rewind", "pop", "rerun"}
      BY <1>2, <2>1 DEF Advance, Explain, Approve, Rerun, Rewind, CycleBack
    <3> QED
      BY <3>1 DEF Said, At
  <2>2. CASE Decide(w)
    <3>1. op[w] \in Request /\ status' = status
      BY <2>2 DEF TypeOK, ThreadsOK, Decide, row
    <3>2. \/ pc'[w] = "idle" /\ answer'[w] = "none"
          \/ pc'[w] = "idle" /\ answer'[w] = "left out" /\ status # Pending
          \/ pc'[w] # "idle"
      BY <1>2, <2>2, <3>1 DEF Decide, Request
    <3> QED
      BY <3>1, <3>2 DEF Said, At
  <2>3. CASE Serialise(w)
    <3>1. status = Pending /\ status' = status /\ answer'[w] = "listed"
      BY <1>1, <1>2, <2>3 DEF Serialise, At, Stage, row
    <3> QED
      BY <3>1 DEF Said
  <2>4. CASE Append(w) \/ Cancel(w) \/ Pop(w)
    BY <1>2, <2>4 DEF Append, Cancel, Pop, Said
  <2> QED
    BY <1>7, <2>1, <2>2, <2>3, <2>4 DEF Continue
<1> QED
  BY <1>3, <1>4, <1>5, <1>6, <1>7 DEF Next

(* list_requisitions: one request at a time, the inbox it answers lists the *)
(* row exactly if it is paused, until the next request about it.           *)
THEOREM InboxIsExact == OneAtATime => (Spec => []InboxExact)
<1> SUFFICES ASSUME OneAtATime PROVE Spec => []InboxExact
  OBVIOUS
<1>1. PICK w \in Worker : Worker = {w}
  BY DEF OneAtATime
<1>2. Init => Said(w)
  BY DEF Init, Said, At
<1>3. TypeOK /\ SeqInv /\ Said(w) /\ [Next]_vars => Said(w)'
  BY <1>1, SaidStep
<1>4. Said(w) => InboxExact
  BY <1>1 DEF Said, InboxExact
<1> QED
  BY <1>2, <1>3, <1>4, TypeCorrect, SeqAlways, PTL DEF Spec
=============================================================================

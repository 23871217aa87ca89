---------------------------- MODULE SfnGraphProofs ----------------------------
(***************************************************************************)
(* Proofs about SfnGraph: its type invariant and its safety properties, for *)
(* any number of states, requests and health checks, any size of a page and *)
(* any bounds on cycle backs and failures.                                  *)
(***************************************************************************)
EXTENDS SfnGraph, SequenceTheorems, TLAPS

(***************************************************************************)
(* Types                                                                   *)
(***************************************************************************)
Status == {"RUNNING", "SUCCEEDED", "FAILED"}
FetchPoint == {"free", "asked", "paging", "answered"}
Request == [at : FetchPoint, status : Status, read : Nat, since : Nat, graph : Graph \cup {NoGraph}]

LEMMA Constants == /\ Last \in Nat \ {0} /\ From \in 1..Last /\ Back \in 1..Last
                   /\ From \in State /\ Back \in State
                   /\ PageSize \in Nat \ {0} /\ MaxCycles \in Nat /\ MaxFaults \in Nat
<1>1. Last \in Nat \ {0} /\ From \in 1..Last /\ Back \in 1..From /\ PageSize \in Nat \ {0}
  BY GraphAssumption
<1>2. MaxCycles \in Nat /\ MaxFaults \in Nat
  BY GraphAssumption
<1> QED
  BY <1>1, <1>2 DEF State

LEMMA SetType ==
  ASSUME TypeOK, NEW f \in Fetch, NEW at \in FetchPoint, NEW st \in Status,
         NEW read \in Nat, NEW since \in Nat, NEW graph \in Graph \cup {NoGraph},
         Set(f, at, st, read, since, graph)
  PROVE  fetch' \in [Fetch -> Request]
<1>1. [at |-> at, status |-> st, read |-> read, since |-> since, graph |-> graph] \in Request
  BY DEF Request
<1>2. fetch \in [Fetch -> Request]
  BY DEF TypeOK, Request, FetchPoint, Status
<1> QED
  BY <1>1, <1>2 DEF Set

LEMMA ColoursType ==
  ASSUME NEW h, NEW st \in Status
  PROVE  [execution |-> st, states |-> Colours(h, st)] \in Graph
BY DEF Graph, Colours, Colour, Status

LEMMA FreeType == Free \in Request
BY DEF Free, Request, FetchPoint, Status

LEMMA FetchType == ASSUME TypeOK, NEW f \in Fetch PROVE fetch[f] \in Request
BY DEF TypeOK, Request, FetchPoint, Status

(* What happens to the history, whatever the execution does. *)
LEMMA Appends ==
  ASSUME TypeOK, NEW k \in {"in", "out"}, NEW i \in State, history' = Append(history, <<k, i>>)
  PROVE  /\ history' \in Seq(Event) /\ Len(history') = Len(history) + 1 /\ Len(history) \in Nat
         /\ \A n \in 1..Len(history) : history'[n] = history[n]
         /\ history'[Len(history')] = <<k, i>> /\ history' # <<>>
<1>1. history \in Seq(Event) /\ <<k, i>> \in Event
  BY DEF TypeOK, Event
<1> QED
  BY <1>1, AppendProperties

LEMMA TypeStep == TypeOK /\ [Next]_vars => TypeOK'
<1> SUFFICES ASSUME TypeOK, [Next]_vars PROVE TypeOK'
  OBVIOUS
<1>f. fetch \in [Fetch -> Request]
  BY DEF TypeOK, Request, FetchPoint, Status
<1>1. ASSUME Deploy PROVE TypeOK'
  BY <1>1 DEF Deploy, TypeOK, lookup
<1>2. ASSUME Enter PROVE TypeOK'
  <2>1. UNCHANGED <<status, deployed, lookup, fetch, shown, faults>>
    BY <1>2 DEF Enter
  <2>2. history' \in Seq(Event)
    <3>1. CASE \E i \in State : history' = Append(history, <<"in", i>>)
      BY <3>1, Appends
    <3>2. CASE history' = Append(history, <<"in", Back>>)
      <4>1. Back \in State
        BY Constants
      <4> QED
        BY <3>2, <4>1, Appends
    <3> QED
      BY <1>2, <3>1, <3>2 DEF Enter
  <2>3. cycles' \in 0..MaxCycles
    <3>1. cycles \in 0..MaxCycles /\ MaxCycles \in Nat
      BY Constants DEF TypeOK
    <3>2. cycles' = cycles \/ (cycles < MaxCycles /\ cycles' = cycles + 1)
      BY <1>2 DEF Enter
    <3> QED
      BY <3>1, <3>2
  <2> QED
    BY <2>1, <2>2, <2>3 DEF TypeOK, lookup
<1>3. ASSUME Exit PROVE TypeOK'
  <2>1. history' \in Seq(Event)
    BY <1>3, Appends DEF Exit
  <2> QED
    BY <1>3, <2>1 DEF Exit, TypeOK, lookup
<1>4. ASSUME Finish PROVE TypeOK'
  BY <1>4 DEF Finish, TypeOK, lookup
<1>5. ASSUME NEW c \in Caller, ListMachines(c) PROVE TypeOK'
  BY <1>5 DEF ListMachines, TypeOK, execution
<1>6. ASSUME NEW c \in Caller, KeepArn(c) PROVE TypeOK'
  BY <1>6 DEF KeepArn, TypeOK, execution
<1>7. ASSUME NEW f \in Fetch, fetch' \in [Fetch -> Request], UNCHANGED <<execution, lookup, shown, faults>>
      PROVE TypeOK'
  BY <1>7 DEF TypeOK, execution, lookup, Request, FetchPoint, Status
<1>8. ASSUME NEW f \in Fetch, Unavailable(f) PROVE TypeOK'
  <2>1. fetch' \in [Fetch -> Request]
    BY <1>f, <1>8, FreeType DEF Unavailable
  <2> QED
    BY <1>7, <1>8, <2>1 DEF Unavailable
<1>9. ASSUME NEW f \in Fetch, Describe(f) PROVE TypeOK'
  <2>1. fetch' \in [Fetch -> Request]
    <3>1. status \in Status /\ Len(history) \in Nat
      BY LenProperties DEF TypeOK, Status
    <3> QED
      BY <1>9, <3>1, SetType DEF Describe, FetchPoint
  <2> QED
    BY <1>7, <1>9, <2>1 DEF Describe
<1>10. ASSUME NEW f \in Fetch, Page(f) PROVE TypeOK'
  <2>1. fetch' \in [Fetch -> Request]
    <3>1. fetch[f].status \in Status /\ fetch[f].since \in Nat /\ fetch[f].read + PageSize \in Nat
      BY FetchType, Constants DEF Request
    <3>2. [execution |-> fetch[f].status, states |-> Colours(history, fetch[f].status)] \in Graph
      BY <3>1, ColoursType
    <3> QED
      BY <1>10, <3>1, <3>2, SetType DEF Page, FetchPoint
  <2> QED
    BY <1>7, <1>10, <2>1 DEF Page
<1>11. ASSUME NEW f \in Fetch, Ask(f) PROVE TypeOK'
  <2>1. fetch' \in [Fetch -> Request]
    BY <1>11, SetType DEF Ask, FetchPoint, Status
  <2> QED
    BY <1>7, <1>11, <2>1 DEF Ask
<1>12. ASSUME NEW f \in Fetch, Apply(f) PROVE TypeOK'
  <2>1. fetch' \in [Fetch -> Request] /\ shown' \in Graph \cup {NoGraph}
    BY <1>f, <1>12, FreeType, FetchType DEF Apply, Request
  <2> QED
    BY <1>12, <2>1 DEF Apply, TypeOK, execution, lookup, Request, FetchPoint, Status
<1>13. ASSUME NEW f \in Fetch, Fail(f) PROVE TypeOK'
  <2>1. fetch' \in [Fetch -> Request]
    BY <1>f, <1>13, FreeType DEF Fail
  <2>2. faults' \in 0..MaxFaults
    <3>1. faults \in 0..MaxFaults /\ MaxFaults \in Nat /\ faults < MaxFaults /\ faults' = faults + 1
      BY <1>13, Constants DEF TypeOK, Fail
    <3> QED
      BY <3>1
  <2>3. listed' \in [Caller -> {"nothing", "no machine", "machine"}]
    BY <1>13 DEF Fail, TypeOK, Caller
  <2> QED
    BY <1>13, <2>1, <2>2, <2>3 DEF Fail, TypeOK, execution, Request, FetchPoint, Status
<1>14. ASSUME UNCHANGED vars PROVE TypeOK'
  BY <1>14 DEF vars, execution, lookup, TypeOK
<1> QED
  BY <1>1, <1>2, <1>3, <1>4, <1>5, <1>6, <1>8, <1>9, <1>10, <1>11, <1>12, <1>13, <1>14 DEF Next

(* TypeOK holds throughout. *)
THEOREM TypeCorrect == Spec => []TypeOK
<1>1. Init => TypeOK
  <2> SUFFICES ASSUME Init PROVE TypeOK
    OBVIOUS
  <2>1. history \in Seq(Event) /\ cycles \in 0..MaxCycles /\ faults \in 0..MaxFaults
    BY Constants, EmptySeq DEF Init
  <2>2. fetch \in [Fetch -> Request]
    BY FreeType DEF Init
  <2> QED
    BY <2>1, <2>2 DEF Init, TypeOK, Request, FetchPoint, Status
<1> QED
  BY <1>1, TypeStep, PTL DEF Spec

(***************************************************************************)
(* The state machine's ARN                                                 *)
(***************************************************************************)
Earned ==
  /\ \A c \in Caller : listed[c] = "no machine" => blind
  /\ NoneIsEarned

(* None is cached only of a lookup that came before the state machine. *)
THEOREM NoneEarned == Spec => []NoneIsEarned
<1>1. Init => Earned
  BY DEF Init, Earned, NoneIsEarned
<1>2. TypeOK /\ Earned /\ [Next]_vars => Earned'
  <2> SUFFICES ASSUME TypeOK, Earned, [Next]_vars PROVE Earned'
    OBVIOUS
  <2> USE DEF Earned, NoneIsEarned
  <2>1. ASSUME UNCHANGED lookup PROVE Earned'
    BY <2>1 DEF lookup
  <2>2. ASSUME NEW c \in Caller, ListMachines(c) PROVE Earned'
    BY <2>2 DEF ListMachines, TypeOK
  <2>3. ASSUME NEW c \in Caller, KeepArn(c) PROVE Earned'
    BY <2>3 DEF KeepArn, TypeOK
  <2>4. ASSUME NEW f \in Fetch, Fail(f) PROVE Earned'
    BY <2>4 DEF Fail, TypeOK
  <2>5. \/ UNCHANGED lookup
        \/ \E c \in Caller : ListMachines(c) \/ KeepArn(c)
        \/ \E f \in Fetch : Fail(f)
    BY DEF Next, vars, Deploy, Enter, Exit, Finish, Unavailable, Describe, Page, Ask, Apply
  <2> QED
    BY <2>1, <2>2, <2>3, <2>4, <2>5
<1>3. Earned => NoneIsEarned
  BY DEF Earned
<1> QED
  BY <1>1, <1>2, <1>3, TypeCorrect, PTL DEF Spec

(***************************************************************************)
(* The history of an execution                                             *)
(***************************************************************************)
(* A state that was entered has been left, or is the one the execution is in;
   an execution that has not been sent back meets the states in order, and so
   has never left the one it is in; and one that succeeded is in no state.  *)
Walk ==
  /\ \A i \in State : Happened(history, <<"in", i>>) => Happened(history, <<"out", i>>) \/ At(i)
  /\ cycles = 0 => \A k \in 1..Len(history) : history[k][2] <= history[Len(history)][2]
  /\ cycles = 0 => \A i \in State : At(i) => ~Happened(history, <<"out", i>>)
  /\ status = "SUCCEEDED" => \A i \in State : ~At(i)

(* What has happened after an event more. *)
LEMMA HappenedAppend ==
  ASSUME TypeOK, NEW k \in {"in", "out"}, NEW i \in State, history' = Append(history, <<k, i>>)
  PROVE  /\ \A e \in Event : Happened(history, e)' <=> Happened(history, e) \/ e = <<k, i>>
         /\ \A j \in State : At(j)' <=> k = "in" /\ j = i
<1>1. /\ history' \in Seq(Event) /\ Len(history') = Len(history) + 1 /\ Len(history) \in Nat
      /\ \A n \in 1..Len(history) : history'[n] = history[n]
      /\ history'[Len(history')] = <<k, i>> /\ history' # <<>>
  BY Appends
<1>2. DOMAIN history = 1..Len(history) /\ DOMAIN history' = 1..(Len(history) + 1)
  BY <1>1, LenProperties DEF TypeOK
<1>3. ASSUME NEW e \in Event PROVE Happened(history, e)' <=> Happened(history, e) \/ e = <<k, i>>
  <2>1. ASSUME Happened(history, e)' PROVE Happened(history, e) \/ e = <<k, i>>
    <3>1. PICK n \in 1..(Len(history) + 1) : history'[n] = e
      BY <1>2, <2>1 DEF Happened
    <3>2. n \in 1..Len(history) \/ n = Len(history')
      BY <1>1
    <3> QED
      BY <1>1, <1>2, <3>1, <3>2 DEF Happened
  <2>2. ASSUME Happened(history, e) PROVE Happened(history, e)'
    <3>1. PICK n \in 1..Len(history) : history[n] = e
      BY <1>2, <2>2 DEF Happened
    <3>2. n \in 1..(Len(history) + 1)
      BY <1>1
    <3> QED
      BY <1>1, <1>2, <3>1, <3>2 DEF Happened
  <2>3. ASSUME e = <<k, i>> PROVE Happened(history, e)'
    <3>1. Len(history') \in 1..(Len(history) + 1)
      BY <1>1
    <3> QED
      BY <1>1, <1>2, <2>3, <3>1 DEF Happened
  <2> QED
    BY <2>1, <2>2, <2>3
<1>4. \A j \in State : At(j)' <=> k = "in" /\ j = i
  BY <1>1 DEF At
<1> QED
  BY <1>3, <1>4

(* Before a state is entered, the execution is in none. *)
LEMMA Between ==
  ASSUME TypeOK, NEW n \in Nat, After(n), NEW j \in State
  PROVE  ~At(j) /\ (n = 0 => history = <<>>) /\ (n # 0 => history # <<>> /\ history[Len(history)] = <<"out", n>>)
BY DEF After, At

LEMMA WalkEnters ==
  ASSUME TypeOK, Walk, NEW n \in Nat, After(n), NEW i \in State, history' = Append(history, <<"in", i>>),
         cycles' = 0 => cycles = 0 /\ n = i - 1, status = "RUNNING", status' = status
  PROVE  Walk'
<1>0. i \in Nat /\ \A j \in State : j \in Nat
  BY Constants DEF State
<1>1. /\ history' \in Seq(Event) /\ Len(history') = Len(history) + 1 /\ Len(history) \in Nat
      /\ \A m \in 1..Len(history) : history'[m] = history[m]
      /\ history'[Len(history')] = <<"in", i>> /\ history' # <<>>
  BY Appends
<1>2. \A j \in State : <<"in", j>> \in Event /\ <<"out", j>> \in Event
  BY DEF Event
<1>3. \A j \in State : ~At(j)
  BY Between
<1>4. \A j \in State : /\ Happened(history, <<"in", j>>)' <=> Happened(history, <<"in", j>>) \/ j = i
                       /\ Happened(history, <<"out", j>>)' <=> Happened(history, <<"out", j>>)
                       /\ At(j)' <=> j = i
  <2> TAKE j \in State
  <2>1. /\ Happened(history, <<"in", j>>)' <=> Happened(history, <<"in", j>>) \/ <<"in", j>> = <<"in", i>>
        /\ Happened(history, <<"out", j>>)' <=> Happened(history, <<"out", j>>) \/ <<"out", j>> = <<"in", i>>
        /\ At(j)' <=> "in" = "in" /\ j = i
    BY <1>2, HappenedAppend
  <2>2. (<<"in", j>> = <<"in", i>> <=> j = i) /\ <<"out", j>> # <<"in", i>>
    OBVIOUS
  <2> QED
    BY <2>1, <2>2
<1>5. (\A j \in State : Happened(history, <<"in", j>>) => Happened(history, <<"out", j>>) \/ At(j))'
  BY <1>3, <1>4 DEF Walk
<1>6. ASSUME cycles' = 0, NEW m \in 1..Len(history) PROVE history[m][2] \in Nat /\ history[m][2] <= i - 1
  <2>1. cycles = 0 /\ n = i - 1
    BY <1>6
  <2>2. history[m][2] <= history[Len(history)][2]
    BY <1>6, <2>1 DEF Walk
  <2>3. history # <<>>
    BY <1>6
  <2>4. history[Len(history)][2] = n
    <3>1. n # 0
      BY <2>3 DEF After
    <3>2. history[Len(history)] = <<"out", n>>
      BY <3>1 DEF After
    <3> QED
      BY <3>2
  <2>5. history[m] \in Event
    <3>1. history \in Seq(Event)
      BY DEF TypeOK
    <3> QED
      BY <1>6, <3>1, LenProperties
  <2>6. history[m][2] \in Nat
    BY <1>0, <2>5 DEF Event
  <2> QED
    BY <2>1, <2>2, <2>4, <2>6
<1>7. ASSUME cycles' = 0, NEW m \in 1..Len(history') PROVE history'[m][2] <= history'[Len(history')][2]
  <2>1. history'[Len(history')][2] = i
    BY <1>1
  <2>2. m \in 1..Len(history) \/ m = Len(history')
    BY <1>1
  <2>3. CASE m \in 1..Len(history)
    BY <1>0, <1>1, <1>6, <1>7, <2>1, <2>3
  <2> QED
    BY <1>0, <2>1, <2>2, <2>3
<1>8. ASSUME cycles' = 0, NEW j \in State, At(j)' PROVE ~Happened(history, <<"out", j>>)'
  <2>1. j = i
    BY <1>4, <1>8
  <2> SUFFICES ASSUME Happened(history, <<"out", i>>) PROVE FALSE
    BY <1>4, <2>1
  <2>2. PICK m \in 1..Len(history) : history[m] = <<"out", i>>
    BY LenProperties DEF Happened, TypeOK
  <2>3. history[m][2] = i
    BY <2>2
  <2> QED
    BY <1>0, <1>6, <1>8, <2>3
<1> QED
  BY <1>5, <1>7, <1>8 DEF Walk

LEMMA WalkExits ==
  ASSUME TypeOK, Walk, NEW i \in State, At(i), history' = Append(history, <<"out", i>>),
         cycles' = cycles, status = "RUNNING", status' = status
  PROVE  Walk'
<1>0. i \in Nat /\ \A j \in State : j \in Nat
  BY Constants DEF State
<1>1. /\ history' \in Seq(Event) /\ Len(history') = Len(history) + 1 /\ Len(history) \in Nat
      /\ \A m \in 1..Len(history) : history'[m] = history[m]
      /\ history'[Len(history')] = <<"out", i>> /\ history' # <<>>
  BY Appends
<1>2. \A j \in State : <<"in", j>> \in Event /\ <<"out", j>> \in Event
  BY DEF Event
<1>3. \A j \in State : At(j) => j = i
  BY DEF At
<1>4. \A j \in State : /\ Happened(history, <<"in", j>>)' <=> Happened(history, <<"in", j>>)
                       /\ Happened(history, <<"out", j>>)' <=> Happened(history, <<"out", j>>) \/ j = i
                       /\ ~At(j)'
  <2> TAKE j \in State
  <2>1. /\ Happened(history, <<"in", j>>)' <=> Happened(history, <<"in", j>>) \/ <<"in", j>> = <<"out", i>>
        /\ Happened(history, <<"out", j>>)' <=> Happened(history, <<"out", j>>) \/ <<"out", j>> = <<"out", i>>
        /\ At(j)' <=> "out" = "in" /\ j = i
    BY <1>2, HappenedAppend
  <2>2. (<<"out", j>> = <<"out", i>> <=> j = i) /\ <<"in", j>> # <<"out", i>>
    OBVIOUS
  <2> QED
    BY <2>1, <2>2
<1>5. (\A j \in State : Happened(history, <<"in", j>>) => Happened(history, <<"out", j>>) \/ At(j))'
  BY <1>3, <1>4 DEF Walk
<1>6. ASSUME cycles' = 0, NEW m \in 1..Len(history') PROVE history'[m][2] <= history'[Len(history')][2]
  <2>1. history'[Len(history')][2] = i
    BY <1>1
  <2>2. m \in 1..Len(history) \/ m = Len(history')
    BY <1>1
  <2>3. CASE m \in 1..Len(history)
    <3>1. history[m][2] <= history[Len(history)][2]
      BY <1>6, <2>3 DEF Walk
    <3>2. history[Len(history)][2] = i
      BY DEF At
    <3> QED
      BY <1>1, <2>1, <2>3, <3>1, <3>2
  <2> QED
    BY <1>0, <2>1, <2>2, <2>3
<1> QED
  BY <1>4, <1>5, <1>6 DEF Walk

LEMMA WalkStep == TypeOK /\ Walk /\ [Next]_vars => Walk'
<1> SUFFICES ASSUME TypeOK, Walk, [Next]_vars PROVE Walk'
  OBVIOUS
<1>1. ASSUME UNCHANGED <<history, status, cycles>> PROVE Walk'
  BY <1>1 DEF Walk, Happened, At
<1>2. ASSUME Enter PROVE Walk'
  <2>1. status = "RUNNING" /\ status' = status
    BY <1>2 DEF Enter
  <2>2. ASSUME NEW i \in State, After(i - 1), history' = Append(history, <<"in", i>>), UNCHANGED cycles
        PROVE Walk'
    <3>1. i - 1 \in Nat
      BY Constants DEF State
    <3> QED
      BY <2>1, <2>2, <3>1, WalkEnters
  <2>3. ASSUME After(From), cycles' = cycles + 1, history' = Append(history, <<"in", Back>>) PROVE Walk'
    <3>1. From \in Nat /\ Back \in State
      BY Constants
    <3>2. cycles \in Nat
      <4>1. cycles \in 0..MaxCycles
        BY DEF TypeOK
      <4> QED
        BY <4>1, Constants
    <3>3. cycles' # 0
      BY <2>3, <3>2
    <3> QED
      BY <2>1, <2>3, <3>1, <3>3, WalkEnters
  <2> QED
    BY <1>2, <2>2, <2>3 DEF Enter
<1>3. ASSUME Exit PROVE Walk'
  BY <1>3, WalkExits DEF Exit
<1>4. ASSUME Finish PROVE Walk'
  <2>1. status' = "SUCCEEDED" => \A i \in State : ~At(i)
    BY <1>4 DEF Finish, After, At
  <2> QED
    BY <1>4, <2>1 DEF Finish, Walk, Happened, At
<1>5. \/ UNCHANGED <<history, status, cycles>>
      \/ Enter \/ Exit \/ Finish
  BY DEF Next, vars, execution, Deploy, ListMachines, KeepArn, Unavailable, Describe, Page, Ask, Apply, Fail
<1> QED
  BY <1>1, <1>2, <1>3, <1>4, <1>5

(* An execution that has ended stays as it is, and any other only adds to
   its history.                                                            *)
LEMMA Frozen == status # "RUNNING" /\ [Next]_vars => UNCHANGED <<history, status>>
BY DEF Next, vars, execution, Deploy, Enter, Exit, Finish, ListMachines, KeepArn, Unavailable, Describe,
       Page, Ask, Apply, Fail

LEMMA UptoAll == TypeOK => Upto(Len(history)) = history /\ Len(history) \in Nat
<1> SUFFICES ASSUME TypeOK PROVE Upto(Len(history)) = history /\ Len(history) \in Nat
  OBVIOUS
<1>1. history \in Seq(Event)
  BY DEF TypeOK
<1>2. Len(history) \in Nat /\ \A n \in 1..Len(history) : history[n] \in Event
  BY <1>1, LenProperties
<1>3. /\ Upto(Len(history)) \in Seq(Event) /\ Len(Upto(Len(history))) = Len(history)
      /\ \A n \in 1..Len(history) : Upto(Len(history))[n] = history[n]
  BY <1>2, SubSeqProperties DEF Upto
<1> QED
  BY <1>1, <1>2, <1>3, SeqEqual

LEMMA UptoAppend ==
  ASSUME TypeOK, NEW k \in {"in", "out"}, NEW i \in State, history' = Append(history, <<k, i>>),
         NEW n \in 0..Len(history)
  PROVE  Upto(n)' = Upto(n)
<1>1. /\ history' \in Seq(Event) /\ Len(history') = Len(history) + 1 /\ Len(history) \in Nat
      /\ \A m \in 1..Len(history) : history'[m] = history[m]
  BY Appends
<1>2. /\ \A m \in 1..Len(history) : history[m] \in Event
      /\ \A m \in 1..Len(history') : history'[m] \in Event
  <2>1. history \in Seq(Event)
    BY DEF TypeOK
  <2>2. history \in [1..Len(history) -> Event]
    BY <2>1, LenProperties
  <2>3. history' \in [1..Len(history') -> Event]
    BY <1>1, LenProperties
  <2> QED
    BY <2>2, <2>3
<1>3. n \in Nat /\ \A m \in 1..n : m \in 1..Len(history) /\ m \in 1..Len(history')
  BY <1>1
<1>4. \A m \in 1..n : history[m] \in Event /\ history'[m] \in Event
  BY <1>2, <1>3
<1>5. /\ Upto(n) \in Seq(Event) /\ Len(Upto(n)) = n
      /\ \A m \in 1..n : Upto(n)[m] = history[m]
  BY <1>3, <1>4, SubSeqProperties DEF Upto
<1>6. /\ Upto(n)' \in Seq(Event) /\ Len(Upto(n)') = n
      /\ \A m \in 1..n : (Upto(n)')[m] = history'[m]
  BY <1>3, <1>4, SubSeqProperties DEF Upto
<1> QED
  BY <1>1, <1>3, <1>5, <1>6, SeqEqual

LEMMA Grows ==
  ASSUME TypeOK, [Next]_vars
  PROVE  /\ Len(history) \in Nat /\ Len(history') \in Nat /\ Len(history) <= Len(history')
         /\ \A n \in 0..Len(history) : Upto(n)' = Upto(n)
<1>1. CASE history' = history
  BY <1>1, UptoAll DEF Upto
<1>2. ASSUME NEW k \in {"in", "out"}, NEW i \in State, history' = Append(history, <<k, i>>)
      PROVE /\ Len(history) \in Nat /\ Len(history') \in Nat /\ Len(history) <= Len(history')
            /\ \A n \in 0..Len(history) : Upto(n)' = Upto(n)
  BY <1>2, Appends, UptoAppend
<1>3. Back \in State
  BY Constants
<1>4. \/ history' = history
      \/ \E k \in {"in", "out"}, i \in State : history' = Append(history, <<k, i>>)
  <2>1. \/ Enter \/ Exit \/ history' = history
    BY DEF Next, vars, execution, Deploy, Finish, ListMachines, KeepArn, Unavailable, Describe, Page, Ask, Apply, Fail
  <2>2. ASSUME Enter PROVE \E k \in {"in", "out"}, i \in State : history' = Append(history, <<k, i>>)
    BY <1>3, <2>2 DEF Enter
  <2>3. ASSUME Exit PROVE \E k \in {"in", "out"}, i \in State : history' = Append(history, <<k, i>>)
    BY <2>3 DEF Exit
  <2> QED
    BY <2>1, <2>2, <2>3
<1> QED
  BY <1>1, <1>2, <1>4

(***************************************************************************)
(* What requests read and what the panel shows                             *)
(***************************************************************************)
Answer(f) == [execution |-> fetch[f].status, states |-> Colours(history, fetch[f].status)]

LEMMA FetchCases ==
  ASSUME TypeOK, [Next]_vars, NEW f \in Fetch
  PROVE  \/ fetch'[f] = fetch[f]
         \/ fetch'[f].at \in {"free", "asked"}
         \/ /\ UNCHANGED execution
            /\ fetch'[f].at = "paging" /\ fetch'[f].since = Len(history) /\ fetch'[f].status = status
         \/ /\ UNCHANGED execution /\ fetch[f].at = "paging"
            /\ fetch'[f].status = fetch[f].status /\ fetch'[f].since = fetch[f].since
            /\ \/ fetch'[f].at = "paging"
               \/ fetch'[f].at = "answered" /\ fetch'[f].graph = Answer(f)
<1>f. fetch \in [Fetch -> Request]
  BY DEF TypeOK, Request, FetchPoint, Status
<1>1. CASE fetch' = fetch
  BY <1>1
<1>2. ASSUME NEW g \in Fetch, Unavailable(g) \/ Ask(g) \/ Apply(g) \/ Fail(g)
      PROVE fetch'[f] = fetch[f] \/ fetch'[f].at \in {"free", "asked"}
  BY <1>f, <1>2 DEF Unavailable, Ask, Apply, Fail, Set, Free
<1>3. ASSUME NEW g \in Fetch, Describe(g)
      PROVE \/ fetch'[f] = fetch[f]
            \/ /\ UNCHANGED execution
               /\ fetch'[f].at = "paging" /\ fetch'[f].since = Len(history) /\ fetch'[f].status = status
  BY <1>f, <1>3 DEF Describe, Set
<1>4. ASSUME NEW g \in Fetch, Page(g)
      PROVE \/ fetch'[f] = fetch[f]
            \/ /\ UNCHANGED execution /\ fetch[f].at = "paging"
               /\ fetch'[f].status = fetch[f].status /\ fetch'[f].since = fetch[f].since
               /\ \/ fetch'[f].at = "paging"
                  \/ fetch'[f].at = "answered" /\ fetch'[f].graph = Answer(f)
  BY <1>f, <1>4 DEF Page, Set, Answer
<1>5. \/ fetch' = fetch
      \/ \E g \in Fetch : \/ Unavailable(g) \/ Ask(g) \/ Apply(g) \/ Fail(g)
                          \/ Describe(g) \/ Page(g)
  BY DEF Next, vars, Deploy, Enter, Exit, Finish, ListMachines, KeepArn
<1> QED
  BY <1>1, <1>2, <1>3, <1>4, <1>5

(* A request begins within the history, and what it has read of the status of
   an execution that has ended is final.                                   *)
Reads ==
  \A f \in Fetch : fetch[f].at \in {"paging", "answered"} =>
    /\ fetch[f].since <= Len(history)
    /\ fetch[f].status # "RUNNING" => fetch[f].status = status

LEMMA ReadsStep == TypeOK /\ Reads /\ [Next]_vars => Reads'
<1> SUFFICES ASSUME TypeOK, Reads, [Next]_vars, NEW f \in Fetch, fetch'[f].at \in {"paging", "answered"}
             PROVE  /\ fetch'[f].since <= Len(history')
                    /\ fetch'[f].status # "RUNNING" => fetch'[f].status = status'
  BY DEF Reads
<1>1. Len(history) \in Nat /\ Len(history') \in Nat /\ Len(history) <= Len(history')
  BY Grows
<1>2. ASSUME fetch[f].at \in {"paging", "answered"},
             fetch'[f].status = fetch[f].status, fetch'[f].since = fetch[f].since
      PROVE  /\ fetch'[f].since <= Len(history')
             /\ fetch'[f].status # "RUNNING" => fetch'[f].status = status'
  <2>1. fetch[f].since \in Nat
    BY FetchType DEF Request
  <2>2. fetch[f].since <= Len(history) /\ (fetch[f].status # "RUNNING" => fetch[f].status = status)
    BY <1>2 DEF Reads
  <2>3. status # "RUNNING" => status' = status
    BY Frozen
  <2> QED
    BY <1>1, <1>2, <2>1, <2>2, <2>3
<1>3. ASSUME UNCHANGED execution, fetch'[f].since = Len(history), fetch'[f].status = status
      PROVE  /\ fetch'[f].since <= Len(history')
             /\ fetch'[f].status # "RUNNING" => fetch'[f].status = status'
  BY <1>1, <1>3 DEF execution
<1> QED
  BY <1>2, <1>3, FetchCases

(* A graph with a red chip is one of an execution that has failed there. *)
Sound(graph) == \A i \in State : graph.states[i] = "failed" => status = "FAILED" /\ At(i)
Alarms ==
  /\ \A f \in Fetch : fetch[f].at = "answered" => Sound(fetch[f].graph)
  /\ shown # NoGraph => Sound(shown)

LEMMA SoundAnswer ==
  ASSUME TypeOK, Walk, Reads, NEW f \in Fetch, fetch[f].at = "paging"
  PROVE  Sound(Answer(f))
<1> SUFFICES ASSUME NEW i \in State, Colours(history, fetch[f].status)[i] = "failed"
             PROVE  status = "FAILED" /\ At(i)
  BY DEF Sound, Answer
<1>1. /\ Happened(history, <<"in", i>>) /\ ~Happened(history, <<"out", i>>)
      /\ fetch[f].status # "RUNNING"
  BY DEF Colours
<1>2. At(i)
  BY <1>1 DEF Walk
<1>3. status = fetch[f].status
  BY <1>1 DEF Reads
<1>4. status # "SUCCEEDED"
  BY <1>2 DEF Walk
<1> QED
  BY <1>1, <1>2, <1>3, <1>4 DEF TypeOK

LEMMA SoundStays ==
  ASSUME TypeOK, [Next]_vars, NEW graph, Sound(graph)
  PROVE  \A i \in State : graph.states[i] = "failed" => status' = "FAILED" /\ At(i)'
<1> SUFFICES ASSUME NEW i \in State, graph.states[i] = "failed" PROVE status' = "FAILED" /\ At(i)'
  OBVIOUS
<1>1. status = "FAILED" /\ At(i)
  BY DEF Sound
<1>2. UNCHANGED <<history, status>>
  BY <1>1, Frozen
<1> QED
  BY <1>1, <1>2 DEF At

LEMMA AlarmsStep == TypeOK /\ Walk /\ Reads /\ Alarms /\ [Next]_vars => Alarms'
<1> SUFFICES ASSUME TypeOK, Walk, Reads, Alarms, [Next]_vars PROVE Alarms'
  OBVIOUS
<1>1. ASSUME NEW f \in Fetch, fetch'[f].at = "answered" PROVE Sound(fetch[f].graph)'
  <2>1. CASE fetch'[f] = fetch[f]
    <3>1. Sound(fetch[f].graph)
      BY <1>1, <2>1 DEF Alarms
    <3> QED
      BY <2>1, <3>1, SoundStays DEF Sound
  <2>2. CASE fetch[f].at = "paging" /\ fetch'[f].graph = Answer(f)
    <3>1. Sound(Answer(f))
      BY <2>2, SoundAnswer
    <3> QED
      BY <2>2, <3>1, SoundStays DEF Sound
  <2> QED
    BY <1>1, <2>1, <2>2, FetchCases
<1>2. ASSUME shown' # NoGraph PROVE Sound(shown)'
  <2>1. CASE shown' = shown
    <3>1. Sound(shown)
      BY <1>2, <2>1 DEF Alarms
    <3> QED
      BY <2>1, <3>1, SoundStays DEF Sound
  <2>2. ASSUME NEW f \in Fetch, Apply(f) PROVE Sound(shown)'
    <3>1. Sound(fetch[f].graph) /\ shown' = fetch[f].graph
      BY <2>2 DEF Alarms, Apply
    <3> QED
      BY <3>1, SoundStays DEF Sound
  <2>3. shown' = shown \/ \E f \in Fetch : Apply(f)
    BY DEF Next, vars, Deploy, Enter, Exit, Finish, ListMachines, KeepArn, Unavailable, Describe, Page, Ask, Fail
  <2> QED
    BY <2>1, <2>2, <2>3
<1> QED
  BY <1>1, <1>2 DEF Alarms

LEMMA InitWalk == Init => Walk /\ Reads /\ Alarms
<1> SUFFICES ASSUME Init PROVE Walk /\ Reads /\ Alarms
  OBVIOUS
<1>1. history = <<>> /\ DOMAIN history = {} /\ Len(history) = 0
  BY DEF Init
<1>2. Walk
  BY <1>1 DEF Init, Walk, Happened, At
<1>3. Reads /\ Alarms
  BY DEF Init, Reads, Alarms, Free
<1> QED
  BY <1>2, <1>3

(* A chip of the panel is red only if the execution has ended in its state. *)
THEOREM NoFalseAlarms == Spec => []NoFalseAlarm
<1>1. Alarms => NoFalseAlarm
  BY DEF Alarms, Sound, NoFalseAlarm
<1> QED
  BY <1>1, InitWalk, WalkStep, ReadsStep, AlarmsStep, TypeCorrect, PTL DEF Spec

(***************************************************************************)
(* An answer is the graph of one moment of the request                     *)
(***************************************************************************)
Moment(f, k) ==
  \/ fetch[f].graph = Truth(Upto(k), "RUNNING")
  \/ status # "RUNNING" /\ k = Len(history) /\ fetch[f].graph = Truth(history, status)

Moments ==
  cycles = 0 => \A f \in Fetch : fetch[f].at = "answered" =>
    \E k \in fetch[f].since..Len(history) : Moment(f, k)

(* Whatever the status, the colours are those of the history read. *)
LEMMA TrueColours ==
  ASSUME Walk, cycles = 0, NEW st
  PROVE  [execution |-> st, states |-> Colours(history, st)] = Truth(history, st)
<1>1. ASSUME NEW i \in State, Happened(history, <<"in", i>>)
      PROVE  Happened(history, <<"out", i>>) <=> history[Len(history)] # <<"in", i>>
  <2>1. history # <<>>
    BY <1>1 DEF Happened
  <2> QED
    BY <1>1, <2>1 DEF Walk, At
<1>2. Colours(history, st) = Truth(history, st).states
  BY <1>1 DEF Colours, Truth
<1> QED
  BY <1>2 DEF Truth

LEMMA MomentsStep == TypeOK /\ Walk /\ Reads /\ Moments /\ [Next]_vars => Moments'
<1> SUFFICES ASSUME TypeOK, Walk, Reads, Moments, [Next]_vars, cycles' = 0,
                    NEW f \in Fetch, fetch'[f].at = "answered"
             PROVE  \E k \in fetch'[f].since..Len(history') : Moment(f, k)'
  BY DEF Moments
<1>1. cycles = 0
  <2>1. cycles \in Nat
    <3>1. cycles \in 0..MaxCycles
      BY DEF TypeOK
    <3> QED
      BY <3>1, Constants
  <2>2. cycles' = cycles \/ cycles' = cycles + 1
    BY DEF Next, vars, execution, Deploy, Enter, Exit, Finish, ListMachines, KeepArn, Unavailable,
           Describe, Page, Ask, Apply, Fail
  <2> QED
    BY <2>1, <2>2
<1>2. /\ Len(history) \in Nat /\ Len(history') \in Nat /\ Len(history) <= Len(history')
      /\ \A n \in 0..Len(history) : Upto(n)' = Upto(n)
  BY Grows
<1>3. fetch[f].since \in Nat
  BY FetchType DEF Request
<1>4. CASE fetch'[f] = fetch[f]
  <2>1. PICK k \in fetch[f].since..Len(history) : Moment(f, k)
    BY <1>1, <1>4 DEF Moments
  <2>2. k \in 0..Len(history) /\ k \in fetch'[f].since..Len(history')
    BY <1>2, <1>3, <1>4
  <2>3. CASE fetch[f].graph = Truth(Upto(k), "RUNNING")
    <3>1. Upto(k)' = Upto(k)
      BY <1>2, <2>2
    <3>2. Truth(Upto(k), "RUNNING")' = Truth(Upto(k), "RUNNING")
      BY <3>1 DEF Truth, Happened
    <3>3. Moment(f, k)'
      BY <1>4, <2>3, <3>2 DEF Moment
    <3> QED
      BY <2>2, <3>3
  <2>4. CASE status # "RUNNING" /\ k = Len(history) /\ fetch[f].graph = Truth(history, status)
    <3>1. UNCHANGED <<history, status>>
      BY <2>4, Frozen
    <3>2. Moment(f, k)'
      BY <1>4, <2>4, <3>1 DEF Moment, Truth, Happened
    <3> QED
      BY <2>2, <3>2
  <2> QED
    BY <2>1, <2>3, <2>4 DEF Moment
<1>5. CASE /\ UNCHANGED execution /\ fetch[f].at = "paging"
           /\ fetch'[f].since = fetch[f].since /\ fetch'[f].graph = Answer(f)
  <2>1. Answer(f) = Truth(history, fetch[f].status)
    BY <1>1, TrueColours DEF Answer
  <2>2. /\ fetch[f].since <= Len(history)
        /\ fetch[f].status # "RUNNING" => fetch[f].status = status
    BY <1>5 DEF Reads
  <2>3. Len(history) \in fetch'[f].since..Len(history')
    BY <1>2, <1>3, <1>5, <2>2
  <2>4. CASE fetch[f].status = "RUNNING"
    <3>1. Upto(Len(history)) = history /\ Upto(Len(history))' = history
      BY <1>2, UptoAll, <1>5 DEF execution, Upto
    <3>2. Truth(Upto(Len(history)), "RUNNING")' = Truth(history, "RUNNING")
      BY <1>5, <3>1 DEF Truth, Happened, execution
    <3>3. Moment(f, Len(history))'
      BY <1>5, <2>1, <2>4, <3>2 DEF Moment, execution
    <3> QED
      BY <1>5, <2>3, <3>3 DEF execution
  <2>5. CASE fetch[f].status # "RUNNING"
    <3>1. Moment(f, Len(history))'
      BY <1>5, <2>1, <2>2, <2>5 DEF Moment, Truth, Happened, execution
    <3> QED
      BY <1>5, <2>3, <3>1 DEF execution
  <2> QED
    BY <2>4, <2>5
<1> QED
  BY <1>4, <1>5, FetchCases

(* The answer to a request for an execution that has never been sent back is
   its graph at some moment between the beginning of the request and now.  *)
THEOREM AnswersOneMoment == Spec => []OneMoment
<1>1. Init => Moments
  BY DEF Init, Moments, Free
<1>2. Moments => OneMoment
  BY DEF Moments, Moment, OneMoment
<1> QED
  BY <1>1, <1>2, InitWalk, WalkStep, ReadsStep, MomentsStep, TypeCorrect, PTL DEF Spec
===============================================================================

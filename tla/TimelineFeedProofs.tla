-------------------------- MODULE TimelineFeedProofs --------------------------
(***************************************************************************)
(* Proofs about TimelineFeed: its type invariant, and that a subscriber     *)
(* misses nothing its snapshot has looked for, for any sets of facts, any   *)
(* number of requests and any number of faults.                            *)
(***************************************************************************)
EXTENDS TimelineFeed, SequenceTheorems, TLAPS

(***************************************************************************)
(* Types                                                                   *)
(***************************************************************************)
Body == (SUBSET Fact) \cup {NotFound}
Request == [at : {"free", "asked", "read", "late", "put", "answered"}, got : Body]
Reading == {"read", "late", "put"}

(* A poll has read, and announced, no more than the tables hold. *)
Past ==
  /\ announced \subseteq tables /\ (tables # {} => Row \in tables)
  /\ \A p \in Poller : poll[p].at \in Reading => poll[p].got \subseteq tables

IInv == TypeOK /\ Past

(* The step of a caller p leaves the other callers where they are, and p with
   nothing read that the tables do not hold.                               *)
Moves(p) ==
  /\ poll' \in [Poller -> Request]
  /\ \A r \in Poller : r # p => poll'[r] = poll[r]
  /\ poll'[p].at \in Reading => poll'[p].got \subseteq tables

LEMMA Pollers == Loop \in Poller /\ Stream \in Poller /\ Fetch \subseteq Poller /\ Loop # Stream /\ Stream \notin Fetch
BY PollerAssumption DEF Poller

LEMMA Types ==
  ASSUME IInv
  PROVE  /\ poll \in [Poller -> Request] /\ queue \in Seq(Message)
         /\ tables \in SUBSET Fact /\ announced \in SUBSET Fact
         /\ {} \in Body /\ Idle \in Request /\ Asked \in Request
         /\ \A p \in Poller : poll[p].at \in Reading => poll[p].got \in SUBSET Fact
BY DEF IInv, TypeOK, Past, Request, Body, Idle, Asked

LEMMA FailsType == ASSUME TypeOK, Fails PROVE faults' \in 0..MaxFaults
BY BoundAssumption DEF TypeOK, Fails

LEMMA MoveType ==
  ASSUME IInv, NEW p \in Poller, NEW r \in Request, poll' = [poll EXCEPT ![p] = r],
         r.at \in Reading => r.got \subseteq tables
  PROVE  Moves(p) /\ poll'[p] = r
BY Types DEF Moves

(* Moving one caller, with what it read and announced, keeps what was read. *)
LEMMA MovePast ==
  ASSUME IInv, NEW p \in Poller, Moves(p), tables' = tables, announced' \subseteq tables
  PROVE  Past'
BY DEF IInv, Past, Moves

(***************************************************************************)
(* Messages                                                                *)
(***************************************************************************)
In(q, x) == \E k \in 1..Len(q) : x \in q[k][2]
Queued(x) == In(queue, x)

LEMMA AppendHolds ==
  ASSUME NEW q \in Seq(Message), NEW m \in Message
  PROVE  /\ Append(q, m) \in Seq(Message)
         /\ \A x : In(q, x) \/ x \in m[2] => In(Append(q, m), x)
<1> DEFINE r == Append(q, m)
<1>1. /\ r \in Seq(Message) /\ Len(r) = Len(q) + 1 /\ Len(q) \in Nat /\ r[Len(q) + 1] = m
      /\ \A k \in 1..Len(q) : r[k] = q[k]
  BY AppendProperties, LenProperties
<1>2. ASSUME NEW x, In(q, x) PROVE In(r, x)
  <2>1. PICK k \in 1..Len(q) : x \in q[k][2]
    BY <1>2 DEF In
  <2>2. k \in 1..Len(r) /\ r[k] = q[k]
    BY <1>1
  <2> QED
    BY <2>1, <2>2 DEF In
<1>3. ASSUME NEW x, x \in m[2] PROVE In(r, x)
  <2>1. Len(q) + 1 \in 1..Len(r)
    BY <1>1
  <2> QED
    BY <1>1, <1>3, <2>1 DEF In
<1> QED
  BY <1>1, <1>2, <1>3

LEMMA FrontHolds ==
  ASSUME NEW q \in Seq(Message), NEW m \in Message
  PROVE  /\ <<m>> \o q \in Seq(Message)
         /\ \A x : In(q, x) \/ x \in m[2] => In(<<m>> \o q, x)
<1> DEFINE r == <<m>> \o q
<1>1. /\ r \in Seq(Message) /\ Len(r) = Len(q) + 1 /\ Len(q) \in Nat /\ r[1] = m
      /\ \A k \in 1..Len(q) : r[k + 1] = q[k]
  <2>1. <<m>> \in Seq(Message) /\ Len(<<m>>) = 1 /\ <<m>>[1] = m /\ Len(q) \in Nat
    BY LenProperties
  <2>2. r \in Seq(Message) /\ Len(r) = 1 + Len(q)
    BY <2>1, ConcatProperties
  <2>3. \A k \in 1..Len(r) : r[k] = IF k <= 1 THEN <<m>>[k] ELSE q[k - 1]
    BY <2>1, ConcatProperties
  <2>4. ASSUME NEW k \in 1..Len(q) PROVE r[k + 1] = q[k]
    <3>1. k + 1 \in 1..Len(r) /\ ~(k + 1 <= 1) /\ (k + 1) - 1 = k
      BY <2>1, <2>2
    <3> QED
      BY <2>3, <3>1
  <2>5. 1 \in 1..Len(r)
    BY <2>1, <2>2
  <2> QED
    BY <2>1, <2>2, <2>3, <2>4, <2>5
<1>2. ASSUME NEW x, In(q, x) PROVE In(r, x)
  <2>1. PICK k \in 1..Len(q) : x \in q[k][2]
    BY <1>2 DEF In
  <2>2. k + 1 \in 1..Len(r) /\ r[k + 1] = q[k]
    BY <1>1
  <2> QED
    BY <2>1, <2>2 DEF In
<1>3. ASSUME NEW x, x \in m[2] PROVE In(r, x)
  <2>1. 1 \in 1..Len(r)
    BY <1>1
  <2> QED
    BY <1>1, <1>3, <2>1 DEF In
<1> QED
  BY <1>1, <1>2, <1>3

LEMMA TailHolds ==
  ASSUME NEW q \in Seq(Message), q # <<>>
  PROVE  /\ Tail(q) \in Seq(Message) /\ Head(q) \in Message
         /\ \A x : In(q, x) => x \in Head(q)[2] \/ In(Tail(q), x)
<1>1. /\ Tail(q) \in Seq(Message) /\ Head(q) \in Message /\ Head(q) = q[1]
      /\ Len(Tail(q)) = Len(q) - 1 /\ Len(q) \in Nat
      /\ \A k \in 1..Len(Tail(q)) : Tail(q)[k] = q[k + 1]
  BY HeadTailProperties, LenProperties
<1>2. ASSUME NEW x, In(q, x), x \notin Head(q)[2] PROVE In(Tail(q), x)
  <2>1. PICK k \in 1..Len(q) : x \in q[k][2]
    BY <1>2 DEF In
  <2>2. k # 1
    BY <1>1, <1>2, <2>1
  <2>3. k - 1 \in 1..Len(Tail(q)) /\ (k - 1) + 1 = k
    BY <1>1, <2>2
  <2> QED
    BY <1>1, <2>1, <2>3 DEF In
<1> QED
  BY <1>1, <1>2

(* What is announced is queued for a subscriber, behind what was queued. *)
LEMMA UpdatesHold ==
  ASSUME IInv, NEW facts \in SUBSET Fact
  PROVE  /\ Updates(facts) \in Seq(Message)
         /\ \A x : Queued(x) => In(Updates(facts), x)
         /\ Subscribed => \A x \in facts : x \in announced \/ In(Updates(facts), x)
<1> DEFINE m == <<"update", facts \ announced>>
<1>1. queue \in Seq(Message) /\ m \in Message /\ m[2] = facts \ announced
  BY Types DEF Message
<1>2. CASE facts \subseteq announced \/ ~Subscribed
  BY <1>1, <1>2 DEF Updates, Queued
<1>3. CASE ~(facts \subseteq announced \/ ~Subscribed)
  <2>1. Updates(facts) = Append(queue, m)
    BY <1>3 DEF Updates
  <2> HIDE DEF m
  <2> QED
    BY <1>1, <2>1, AppendHolds DEF Queued
<1> QED
  BY <1>2, <1>3

LEMMA ReturnType ==
  ASSUME IInv, NEW p \in Poller, NEW answer \in Body, NEW message \in Message, NEW events \in Seq(Message),
         Return(p, answer, message, events)
  PROVE  /\ Moves(p) /\ poll'[p].at \in {"asked", "answered"} /\ queue' \in Seq(Message)
         /\ p = Stream => poll'[p].at = "answered"
<1> DEFINE r == IF p = Loop THEN Asked
                ELSE [at |-> "answered", got |-> IF p = Stream THEN {} ELSE answer]
<1>1. r \in Request /\ r.at \in {"asked", "answered"} /\ (p = Stream => r.at = "answered")
  BY Types, Pollers DEF Request, Asked
<1>2. r.at \notin Reading
  BY <1>1 DEF Reading
<1>3. poll' = [poll EXCEPT ![p] = r]
  BY DEF Return
<1> HIDE DEF r
<1>4. Moves(p) /\ poll'[p] = r
  BY <1>1, <1>2, <1>3, MoveType
<1> QED
  BY <1>1, <1>4, FrontHolds DEF Return

LEMMA FinishedType ==
  ASSUME IInv, NEW p \in Poller, poll[p].at \in Reading, Finished(p), tables' = tables
  PROVE  /\ Moves(p) /\ poll'[p].at \in {"asked", "answered"} /\ Past'
         /\ saved' \in SUBSET Fact /\ announced' \in SUBSET Fact /\ queue' \in Seq(Message)
         /\ p = Stream => poll'[p].at = "answered"
<1> DEFINE got == poll[p].got
<1>1. got \in SUBSET Fact /\ got \subseteq tables /\ announced \subseteq tables
  BY Types DEF IInv, Past
<1>2. /\ saved' = got /\ announced' = announced \cup got
      /\ Return(p, got, <<"snapshot", got>>, Updates(got))
  BY DEF Finished
<1> HIDE DEF got
<1>3. got \in Body /\ <<"snapshot", got>> \in Message /\ Updates(got) \in Seq(Message)
  BY <1>1, UpdatesHold DEF Body, Message
<1>4. /\ Moves(p) /\ poll'[p].at \in {"asked", "answered"} /\ queue' \in Seq(Message)
      /\ p = Stream => poll'[p].at = "answered"
  BY <1>2, <1>3, ReturnType
<1>5. announced' \subseteq tables
  BY <1>1, <1>2
<1> QED
  BY <1>1, <1>2, <1>4, <1>5, MovePast, Types

LEMMA NoneType ==
  ASSUME IInv, NEW p \in Poller, ReturnNone(p), UNCHANGED <<tables, announced>>
  PROVE  /\ Moves(p) /\ poll'[p].at \in {"asked", "answered"} /\ Past' /\ queue' \in Seq(Message)
         /\ p = Stream => poll'[p].at = "answered" /\ \A x : Queued(x) => Queued(x)'
<1> DEFINE answer == IF saved = None THEN NotFound ELSE saved
           message == <<"waiting", {}>>
<1>1. answer \in Body /\ message \in Message /\ queue \in Seq(Message) /\ announced \subseteq tables
  BY Types DEF IInv, TypeOK, Past, Body, Message
<1>2. Return(p, answer, message, queue)
  BY DEF ReturnNone
<1> HIDE DEF answer, message
<1>3. /\ Moves(p) /\ poll'[p].at \in {"asked", "answered"} /\ queue' \in Seq(Message)
      /\ p = Stream => poll'[p].at = "answered"
  BY <1>1, <1>2, ReturnType
<1>4. Past'
  BY <1>1, <1>3, MovePast
<1>5. p = Stream => \A x : Queued(x) => In(queue', x)
  BY <1>1, <1>2, FrontHolds DEF Return, Queued
<1> QED
  BY <1>3, <1>4, <1>5 DEF Queued

LEMMA InitInv == Init => IInv
<1> SUFFICES ASSUME Init PROVE IInv
  OBVIOUS
<1>1. PICK f \in Fetch : poll = [p \in Poller |-> IF p = f THEN Asked ELSE Idle]
  BY DEF Init
<1>2. Asked \in Request /\ Idle \in Request /\ Asked.at \notin Reading /\ Idle.at \notin Reading
  BY DEF Asked, Idle, Request, Body, Reading
<1>3. poll \in [Poller -> Request] /\ \A p \in Poller : poll[p].at \notin Reading
  BY <1>1, <1>2
<1>4. TypeOK
  BY <1>3, BoundAssumption DEF Init, TypeOK, Request, Body, Message
<1>5. Past
  BY <1>3 DEF Init, Past
<1> QED
  BY <1>4, <1>5 DEF IInv

(* The steps of a poll, of the stream and of the browser. *)
LEMMA ReadsInv == ASSUME IInv, NEW p \in Poller, ReadFirst(p) \/ ReadLate(p) PROVE IInv'
<1> USE DEF IInv
<1>1. CASE ReadFirst(p)
  <2> DEFINE r == [at |-> "read", got |-> tables \cap First]
  <2>1. r \in Request /\ r.got \subseteq tables /\ poll' = [poll EXCEPT ![p] = r]
    BY <1>1, Types DEF ReadFirst, Request, Body, Fact
  <2> HIDE DEF r
  <2>2. Moves(p)
    BY <2>1, MoveType
  <2>3. Past'
    BY <1>1, <2>2, MovePast DEF ReadFirst, Past
  <2>4. scope' \subseteq Fact
    BY <1>1 DEF ReadFirst, TypeOK
  <2> QED
    BY <1>1, <2>2, <2>3, <2>4 DEF ReadFirst, TypeOK, Moves, Request, Body
<1>2. CASE ReadLate(p)
  <2>1. PICK lost \in SUBSET (tables \cap Late) :
          /\ poll' = [poll EXCEPT ![p] = [at |-> "late", got |-> poll[p].got \cup ((tables \cap Late) \ lost)]]
          /\ IF lost = {} THEN UNCHANGED <<scope, faults>>
             ELSE Fails /\ scope' = IF p = Stream THEN First ELSE scope
    BY <1>2 DEF ReadLate
  <2> DEFINE r == [at |-> "late", got |-> poll[p].got \cup ((tables \cap Late) \ lost)]
  <2>2. poll[p].got \subseteq tables
    BY <1>2 DEF ReadLate, Past, Reading
  <2>3. r \in Request /\ r.got \subseteq tables
    BY <2>2, Types DEF Request, Body
  <2>4. Moves(p)
    <3> HIDE DEF r
    <3>1. poll' = [poll EXCEPT ![p] = r]
      BY <2>1 DEF r
    <3> QED
      BY <2>3, <3>1, MoveType
  <2>5. Past'
    BY <1>2, <2>4, MovePast DEF ReadLate, Past
  <2>6. scope' \subseteq Fact /\ faults' \in 0..MaxFaults
    BY <2>1, FailsType DEF TypeOK, Fact
  <2> QED
    BY <1>2, <2>4, <2>5, <2>6 DEF ReadLate, TypeOK, Moves, Request, Body
<1> QED
  BY <1>1, <1>2

LEMMA SavesInv == ASSUME IInv, NEW p \in Poller, Save(p) \/ SaveAndPut(p) \/ Finish(p) PROVE IInv'
<1> USE DEF IInv
<1>1. CASE Save(p) \/ Finish(p)
  <2>1. poll[p].at \in Reading /\ Finished(p) /\ UNCHANGED <<tables, scope, shown, told, faults>>
    BY <1>1 DEF Save, Finish, Reads, Reading
  <2>2. Moves(p) /\ Past' /\ saved' \in SUBSET Fact /\ announced' \in SUBSET Fact /\ queue' \in Seq(Message)
    BY <2>1, FinishedType
  <2> QED
    BY <2>1, <2>2 DEF TypeOK, Moves, Request, Body
<1>2. CASE SaveAndPut(p)
  <2> DEFINE got == poll[p].got
             r == [at |-> "put", got |-> got]
  <2>1. got \in SUBSET Fact /\ got \subseteq tables
    BY <1>2, Types DEF SaveAndPut, Reads, Reading, Past
  <2>2. poll' = [poll EXCEPT ![p] = r]
    <3>1. poll[p] \in Request /\ poll \in [Poller -> Request]
      BY Types
    <3>2. [poll[p] EXCEPT !.at = "put"] = r
      BY <3>1 DEF Request
    <3>3. poll' = [poll EXCEPT ![p] = [poll[p] EXCEPT !.at = "put"]]
      BY <1>2, <3>1 DEF SaveAndPut
    <3> QED
      BY <3>2, <3>3
  <2>3. r \in Request /\ r.got \subseteq tables
    BY <2>1 DEF Request, Body
  <2>4. Moves(p)
    <3> HIDE DEF r
    <3> QED
      BY <2>2, <2>3, MoveType
  <2>5. queue' \in Seq(Message)
    <3>1. queue' = Updates(got \ Status) /\ got \ Status \in SUBSET Fact
      BY <1>2, <2>1 DEF SaveAndPut
    <3> HIDE DEF got
    <3> QED
      BY <3>1, UpdatesHold
  <2>6. announced' \subseteq tables /\ announced' \in SUBSET Fact /\ saved' \in SUBSET Fact
    BY <1>2, <2>1, Types DEF SaveAndPut, Past
  <2>7. Past'
    BY <1>2, <2>4, <2>6, MovePast DEF SaveAndPut
  <2> QED
    BY <1>2, <2>4, <2>5, <2>6, <2>7 DEF SaveAndPut, TypeOK, Moves, Request, Body
<1> QED
  BY <1>1, <1>2

LEMMA NoneInv == ASSUME IInv, NEW p \in Poller, NoRow(p) \/ PollFails(p) PROVE IInv'
<1>1. ReturnNone(p) /\ UNCHANGED <<tables, saved, announced, scope, shown, told>>
  BY DEF NoRow, PollFails
<1>2. Moves(p) /\ Past' /\ queue' \in Seq(Message)
  BY <1>1, NoneType
<1>3. faults' \in 0..MaxFaults
  BY FailsType DEF NoRow, PollFails, IInv, TypeOK
<1> QED
  BY <1>1, <1>2, <1>3 DEF IInv, TypeOK, Moves, Request, Body

LEMMA StreamInv == ASSUME IInv, Subscribe \/ Drop \/ Restart PROVE IInv'
<1> USE DEF IInv
<1>0. Idle \in Request /\ Asked \in Request /\ Idle.at \notin Reading /\ Asked.at \notin Reading /\ <<>> \in Seq(Message)
  BY Types, EmptySeq DEF Idle, Asked, Reading
<1>1. ASSUME poll' \in [Poller -> Request],
             \A p \in Poller : poll'[p] = poll[p] \/ poll'[p] \in {Idle, Asked},
             announced' \subseteq announced, tables' = tables
      PROVE  Past'
  BY <1>0, <1>1 DEF Past
<1>2. CASE Subscribe
  <2>1. poll' = [poll EXCEPT ![Stream] = Asked, ![Loop] = IF @ = Idle THEN Asked ELSE @]
    BY <1>2 DEF Subscribe
  <2>2. poll' \in [Poller -> Request] /\ \A p \in Poller : poll'[p] = poll[p] \/ poll'[p] \in {Idle, Asked}
    BY <1>0, <2>1, Types, Pollers
  <2> QED
    BY <1>1, <1>2, <2>2 DEF Subscribe, TypeOK, Request, Body
<1>3. CASE Drop
  <2>1. poll' = [poll EXCEPT ![Stream] = Idle]
    BY <1>3 DEF Drop
  <2>2. poll' \in [Poller -> Request] /\ \A p \in Poller : poll'[p] = poll[p] \/ poll'[p] \in {Idle, Asked}
    BY <1>0, <2>1, Types, Pollers
  <2> QED
    BY <1>0, <1>1, <1>3, <2>2, FailsType DEF Drop, Disconnect, TypeOK, Request, Body
<1>4. CASE Restart
  <2>1. poll' = [p \in Poller |-> IF p \in Fetch /\ poll[p].at = "answered" THEN poll[p] ELSE Idle]
    BY <1>4 DEF Restart
  <2>2. poll' \in [Poller -> Request] /\ \A p \in Poller : poll'[p] = poll[p] \/ poll'[p] \in {Idle, Asked}
    BY <1>0, <2>1, Types
  <2> QED
    BY <1>0, <1>1, <1>4, <2>2, FailsType DEF Restart, Disconnect, TypeOK, Request, Body
<1> QED
  BY <1>2, <1>3, <1>4

LEMMA AskType == ASSUME IInv, NEW f \in Fetch, Ask(f) PROVE Moves(f)
<1>1. f \in Poller /\ Asked \in Request /\ Asked.at \notin Reading /\ poll' = [poll EXCEPT ![f] = Asked]
  BY Types, Pollers DEF Ask, Asked, Reading
<1> QED
  BY <1>1, MoveType

LEMMA BrowserInv ==
  ASSUME IInv, Receive \/ \E f \in Fetch : Poll(f) \/ Apply(f) \/ Lose(f)
  PROVE  IInv'
<1> USE DEF IInv
<1>0. announced \subseteq tables /\ Fetch \subseteq Poller
  BY Pollers DEF Past
<1>1. ASSUME NEW f \in Fetch, Poll(f) PROVE IInv'
  <2>1. Moves(f)
    BY <1>1, AskType DEF Poll
  <2>2. Past'
    BY <1>0, <1>1, <2>1, MovePast DEF Poll
  <2> QED
    BY <1>1, <2>1, <2>2 DEF Poll, TypeOK, Moves, Request, Body
<1>2. ASSUME NEW f \in Fetch, Apply(f) \/ Lose(f) PROVE IInv'
  <2>1. Idle \in Request /\ Idle.at \notin Reading /\ poll' = [poll EXCEPT ![f] = Idle]
    BY <1>2, Types DEF Apply, Lose, Idle, Reading
  <2>2. Moves(f)
    BY <1>0, <2>1, MoveType
  <2>3. Past'
    BY <1>0, <1>2, <2>2, MovePast DEF Apply, Lose
  <2>4. shown' \in Body \cup {None} /\ faults' \in 0..MaxFaults
    <3>1. poll[f].got \in Body
      BY <1>0, Types DEF Request
    <3> QED
      BY <1>2, <3>1, FailsType DEF Apply, Lose, TypeOK, Body
  <2> QED
    BY <1>2, <2>2, <2>3, <2>4 DEF Apply, Lose, TypeOK, Moves, Request, Body
<1>3. CASE Receive
  <2>1. queue \in Seq(Message) /\ queue # <<>>
    BY <1>3, Types DEF Receive
  <2>2. Head(queue) \in Message /\ Tail(queue) \in Seq(Message)
    BY <2>1, TailHolds
  <2>3. Head(queue)[2] \in SUBSET Fact
    BY <2>2 DEF Message
  <2>4. poll' \in [Poller -> Request] /\ Past'
    <3>1. CASE UNCHANGED poll
      BY <1>3, <3>1, Types DEF Receive, Past
    <3>2. ASSUME NEW f \in Fetch, Ask(f) PROVE poll' \in [Poller -> Request] /\ Past'
      <4>1. Moves(f)
        BY <3>2, AskType
      <4> QED
        BY <1>0, <1>3, <4>1, MovePast DEF Receive, Moves
    <3> QED
      BY <1>3, <3>1, <3>2 DEF Receive
  <2>5. told' \subseteq Fact /\ shown' \in (SUBSET Fact) \cup {None, NotFound}
    BY <1>3, <2>3 DEF Receive, TypeOK
  <2> QED
    BY <1>3, <2>2, <2>4, <2>5 DEF Receive, TypeOK, Request, Body
<1> QED
  BY <1>1, <1>2, <1>3

LEMMA StepInv == IInv /\ [Next]_vars => IInv'
<1> SUFFICES ASSUME IInv, [Next]_vars PROVE IInv'
  OBVIOUS
<1>1. CASE Change
  <2>1. PICK x \in Fact \ tables : (Row \in tables \/ x = Row) /\ tables' = tables \cup {x}
    BY <1>1 DEF Change
  <2>2. tables' \subseteq Fact /\ tables \subseteq tables' /\ Row \in tables'
    BY <2>1, Types
  <2>3. Past'
    BY <1>1, <2>2 DEF Change, IInv, Past
  <2> QED
    BY <1>1, <2>2, <2>3 DEF Change, IInv, TypeOK
<1>2. CASE UNCHANGED vars
  BY <1>2 DEF vars, IInv, TypeOK, Past
<1>3. ASSUME NEW p \in Poller, PollStep(p) \/ PollFails(p) PROVE IInv'
  BY <1>3, ReadsInv, SavesInv, NoneInv DEF PollStep
<1> QED
  BY <1>1, <1>2, <1>3, StreamInv, BrowserInv DEF Next

(* TypeOK holds throughout. *)
THEOREM TypeCorrect == Spec => []TypeOK
<1>1. IInv => TypeOK
  BY DEF IInv
<1> QED
  BY <1>1, InitInv, StepInv, PTL DEF Spec

(***************************************************************************)
(* A subscriber misses nothing its snapshot has looked for                 *)
(***************************************************************************)
(* Between its subscription and its first message a connection has read or
   queued what was announced, or will look for it yet; afterwards it has
   spoken of it or has it queued.                                          *)
Covered ==
  /\ poll[Stream].at \in {"free", "asked"} => scope = {}
  /\ poll[Stream].at = "read" =>
       /\ Row \notin poll[Stream].got => poll[Stream].got = {}
       /\ \A x \in announced : x \in poll[Stream].got \/ Queued(x) \/ (Row \in poll[Stream].got /\ x \in Late)
  /\ poll[Stream].at \in {"late", "put"} => \A x \in announced \cap scope : x \in poll[Stream].got \/ Queued(x)
  /\ poll[Stream].at = "answered" => \A x \in announced \cap scope : x \in told \/ Queued(x)

(* Announcing keeps it, wherever the stream's own poll stands. *)
LEMMA AnnounceCovers ==
  ASSUME IInv, Covered, NEW facts \in SUBSET Fact,
         announced' = announced \cup facts, queue' = Updates(facts), UNCHANGED <<scope, told>>,
         poll'[Stream].got = poll[Stream].got,
         \/ poll'[Stream].at = poll[Stream].at
         \/ poll'[Stream].at = "put" /\ poll[Stream].at = "late"
  PROVE  Covered'
<1>1. \A x : Queued(x) => Queued(x)'
  BY UpdatesHold DEF Queued
<1>2. poll[Stream].at # "free" => \A x \in announced' : x \in announced \/ Queued(x)'
  BY UpdatesHold DEF Queued, Subscribed
<1> QED
  BY <1>1, <1>2 DEF Covered

LEMMA SaveCovers ==
  ASSUME IInv, Covered, NEW p \in Poller, Save(p) \/ Finish(p)
  PROVE  Covered'
<1> DEFINE got == poll[p].got
           s == <<"snapshot", got>>
<1>1. /\ poll[p].at \in Reading /\ Finished(p) /\ UNCHANGED <<tables, scope, told>>
      /\ poll[p].at = "read" => Row \notin got
  BY DEF Save, Finish, Reads, Reading
<1>2. /\ Moves(p) /\ (p = Stream => poll'[p].at = "answered")
  BY <1>1, FinishedType
<1>3. got \in SUBSET Fact
  BY <1>1, Types
<1>4. announced' = announced \cup got /\ Return(p, got, s, Updates(got))
  BY <1>1 DEF Finished
<1>5. CASE p # Stream
  <2>1. poll'[Stream] = poll[Stream]
    BY <1>2, <1>5, Pollers DEF Moves
  <2>2. queue' = Updates(got)
    BY <1>4, <1>5 DEF Return
  <2> HIDE DEF got
  <2> QED
    BY <1>1, <1>3, <1>4, <2>1, <2>2, AnnounceCovers
<1>6. CASE p = Stream
  <2>1. queue' = <<s>> \o Updates(got) /\ s \in Message /\ s[2] = got
    BY <1>3, <1>4, <1>6 DEF Return, Message
  <2>2. \A x \in announced \cap scope : x \in got \/ Queued(x)
    BY <1>1, <1>6 DEF Covered, Reading
  <2> HIDE DEF got, s
  <2>3. Updates(got) \in Seq(Message) /\ \A x : Queued(x) => In(Updates(got), x)
    BY <1>3, UpdatesHold
  <2>4. \A x : In(Updates(got), x) \/ x \in got => In(queue', x)
    BY <2>1, <2>3, FrontHolds
  <2>5. \A x \in announced' \cap scope : In(queue', x)
    BY <1>4, <2>2, <2>3, <2>4
  <2> QED
    BY <1>1, <1>2, <1>6, <2>5 DEF Covered, Queued
<1> QED
  BY <1>5, <1>6

LEMMA PutCovers == ASSUME IInv, Covered, NEW p \in Poller, SaveAndPut(p) PROVE Covered'
<1> DEFINE facts == poll[p].got \ Status
<1>1. /\ poll[p].got \in SUBSET Fact /\ Reads(p) /\ poll[p].got \cap Late # {}
      /\ announced' = announced \cup facts /\ queue' = Updates(facts) /\ UNCHANGED <<scope, told>>
      /\ poll' = [poll EXCEPT ![p].at = "put"]
  BY Types DEF SaveAndPut, Reads, Reading
<1>2. facts \in SUBSET Fact
  BY <1>1
<1>3. poll'[Stream].got = poll[Stream].got
  BY <1>1, Types, Pollers DEF Request
<1>4. p # Stream => poll'[Stream].at = poll[Stream].at
  BY <1>1, Types, Pollers
<1>5. p = Stream => poll'[Stream].at = "put" /\ poll[Stream].at = "late"
  <2>1. p = Stream => poll'[Stream].at = "put"
    BY <1>1, Types, Pollers DEF Request
  <2>2. p = Stream => poll[Stream].at # "read"
    BY <1>1 DEF Covered, Reads
  <2> QED
    BY <1>1, <2>1, <2>2 DEF Reads
<1> HIDE DEF facts
<1> QED
  BY <1>1, <1>2, <1>3, <1>4, <1>5, AnnounceCovers

LEMMA ReadCovers == ASSUME IInv, Covered, ReadFirst(Stream) PROVE Covered'
<1>1. poll'[Stream] = [at |-> "read", got |-> tables \cap First] /\ UNCHANGED <<tables, announced, queue>>
  BY Types, Pollers DEF ReadFirst
<1>2. announced \subseteq tables /\ announced \subseteq First \cup Late /\ (tables # {} => Row \in tables)
  BY Types DEF IInv, Past, Fact
<1>3. Row \in First
  BY FactAssumption
<1>4. poll'[Stream].at = "read" /\ poll'[Stream].got = tables \cap First
  BY <1>1
<1>5. Row \notin poll'[Stream].got => tables = {}
  BY <1>2, <1>3, <1>4
<1>6. \A x \in announced' : x \in poll'[Stream].got \/ (Row \in poll'[Stream].got /\ x \in Late)
  BY <1>1, <1>2, <1>4, <1>5
<1> QED
  BY <1>4, <1>5, <1>6 DEF Covered

LEMMA LateCovers == ASSUME IInv, Covered, ReadLate(Stream) PROVE Covered'
<1>1. PICK lost \in SUBSET (tables \cap Late) :
        /\ poll' = [poll EXCEPT ![Stream] = [at |-> "late", got |-> poll[Stream].got \cup ((tables \cap Late) \ lost)]]
        /\ IF lost = {} THEN UNCHANGED <<scope, faults>>
           ELSE Fails /\ scope' = IF Stream = Stream THEN First ELSE scope
  BY DEF ReadLate
<1>2. /\ poll'[Stream].at = "late" /\ poll'[Stream].got = poll[Stream].got \cup ((tables \cap Late) \ lost)
      /\ UNCHANGED <<announced, queue>> /\ poll[Stream].at = "read"
  BY <1>1, Types, Pollers DEF ReadLate
<1>3. \A x \in announced : x \in poll[Stream].got \/ Queued(x) \/ x \in Late
  BY <1>2 DEF Covered
<1>4. announced \subseteq tables
  BY DEF IInv, Past
<1>5. lost # {} => scope' \cap Late = {}
  BY <1>1, FactAssumption
<1>6. \A x \in announced \cap scope' : x \in poll'[Stream].got \/ Queued(x)
  <2>1. CASE lost = {}
    BY <1>2, <1>3, <1>4, <2>1
  <2>2. CASE lost # {}
    BY <1>2, <1>3, <1>5, <2>2
  <2> QED
    BY <2>1, <2>2
<1>7. \A x : Queued(x) => In(queue', x)
  BY <1>2 DEF Queued
<1>8. \A x \in announced' \cap scope' : x \in poll'[Stream].got \/ In(queue', x)
  BY <1>2, <1>6, <1>7
<1> QED
  BY <1>2, <1>8 DEF Covered, Queued

LEMMA NoneCovers == ASSUME IInv, Covered, NoRow(Stream) \/ PollFails(Stream) PROVE Covered'
<1>1. ReturnNone(Stream) /\ UNCHANGED <<tables, announced, scope>> /\ Stream \in Poller
  BY Pollers DEF NoRow, PollFails
<1>2. poll'[Stream].at = "answered" /\ \A x : Queued(x) => Queued(x)'
  BY <1>1, NoneType
<1>3. \A x \in announced \cap scope : Queued(x)
  BY Pollers DEF NoRow, PollFails, Starts, Covered
<1>4. \A x \in announced' \cap scope' : Queued(x)'
  BY <1>1, <1>2, <1>3
<1> QED
  BY <1>2, <1>4 DEF Covered

LEMMA ReceiveCovers == ASSUME IInv, Covered, Receive PROVE Covered'
<1>1. /\ queue \in Seq(Message) /\ queue # <<>> /\ poll[Stream].at = "answered" /\ queue' = Tail(queue)
      /\ told' = told \cup Head(queue)[2] /\ UNCHANGED <<announced, scope>>
  BY Types DEF Receive, Streaming
<1>2. poll'[Stream] = poll[Stream]
  BY Types, Pollers DEF Receive, Ask
<1>3. \A x : Queued(x) => x \in told' \/ In(queue', x)
  BY <1>1, TailHolds DEF Queued
<1>4. \A x \in announced' \cap scope' : x \in told' \/ In(queue', x)
  BY <1>1, <1>3 DEF Covered
<1> QED
  BY <1>1, <1>2, <1>4 DEF Covered, Queued

LEMMA CoveredStep == IInv /\ Covered /\ [Next]_vars => Covered'
<1> SUFFICES ASSUME IInv, Covered, [Next]_vars PROVE Covered'
  OBVIOUS
<1>1. CASE poll'[Stream] = poll[Stream] /\ UNCHANGED <<scope, announced, queue, told>>
  BY <1>1 DEF Covered, Queued
<1>2. ASSUME NEW p \in Poller, PollStep(p) \/ PollFails(p) PROVE Covered'
  <2>1. CASE Save(p) \/ Finish(p)
    BY <2>1, SaveCovers
  <2>2. CASE SaveAndPut(p)
    BY <2>2, PutCovers
  <2>3. CASE p = Stream /\ (ReadFirst(p) \/ ReadLate(p) \/ NoRow(p) \/ PollFails(p))
    BY <2>3, ReadCovers, LateCovers, NoneCovers
  <2>4. CASE p # Stream /\ (ReadFirst(p) \/ ReadLate(p) \/ NoRow(p) \/ PollFails(p))
    <3>1. poll'[Stream] = poll[Stream]
      BY <2>4, Types, Pollers DEF ReadFirst, ReadLate, NoRow, PollFails, ReturnNone, Return
    <3>2. UNCHANGED <<scope, announced, queue, told>>
      BY <2>4 DEF ReadFirst, ReadLate, NoRow, PollFails, ReturnNone, Return
    <3> QED
      BY <1>1, <3>1, <3>2
  <2> QED
    BY <1>2, <2>1, <2>2, <2>3, <2>4 DEF PollStep
<1>3. CASE Change \/ UNCHANGED vars
  BY <1>1, <1>3 DEF Change, vars
<1>4. CASE Subscribe
  <2>1. poll'[Stream].at = "asked" /\ UNCHANGED scope /\ poll[Stream].at = "free"
    BY <1>4, Types, Pollers DEF Subscribe, Subscribed, Asked
  <2> QED
    BY <2>1 DEF Covered
<1>5. CASE Drop \/ Restart
  <2>1. poll'[Stream] = Idle /\ scope' = {}
    BY <1>5, Types, Pollers DEF Drop, Restart, Disconnect
  <2> QED
    BY <2>1 DEF Covered, Idle
<1>6. ASSUME NEW f \in Fetch, Poll(f) \/ Apply(f) \/ Lose(f) PROVE Covered'
  <2>1. poll'[Stream] = poll[Stream] /\ UNCHANGED <<scope, announced, queue, told>>
    BY <1>6, Types, Pollers DEF Poll, Ask, Apply, Lose
  <2> QED
    BY <1>1, <2>1
<1> QED
  BY <1>2, <1>3, <1>4, <1>5, <1>6, ReceiveCovers DEF Next

(* When a connection has no message left to bring, nothing announced that its
   snapshot's poll has not failed to read is missing from what it has said. *)
THEOREM NothingMissed == Spec => []StreamCovers
<1>1. Init => Covered
  BY Pollers DEF Init, Covered, Idle
<1>2. IInv /\ Covered => StreamCovers
  <2> SUFFICES ASSUME IInv, Covered, poll[Stream].at = "answered", queue = <<>>
               PROVE  announced \cap scope \subseteq told
    BY DEF StreamCovers, Streaming
  <2>1. \A x : ~Queued(x)
    BY DEF Queued, In
  <2> QED
    BY <2>1 DEF Covered
<1> QED
  BY <1>1, <1>2, InitInv, StepInv, CoveredStep, PTL DEF Spec
===============================================================================

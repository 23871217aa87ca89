------------------------------ MODULE SfnGraph ------------------------------
(***************************************************************************)
(* The Step Functions graph of the timeline: get_sfn_graph and              *)
(* _sfn_execution_graph of observer.py, which read an execution's status     *)
(* and then, page by page, its history, SfnGraph.tsx, which asks every five   *)
(* seconds, and the state machine's ARN that health.py looks up once, for     *)
(* them and for the health checks of the thread pool.                       *)
(*                                                                         *)
(* The execution (external) appends to its history as it is read.  It goes   *)
(* from state to state, may be sent back from one to an earlier one, and may  *)
(* end early in any state.  Choice plumbing that the code ignores is left    *)
(* out, and every status but RUNNING and SUCCEEDED is FAILED.               *)
(***************************************************************************)
EXTENDS Naturals, Sequences

CONSTANTS
  Last,        \* the states are 1..Last
  From, Back,  \* a cycle back leads from state From to state Back
  MaxCycles,   \* bound: cycle backs
  PageSize,    \* events of a page: maxResults
  Fetch,       \* bound: requests of the browser in flight at a time
  Checker,     \* bound: health checks in flight at a time
  MaxFaults    \* bound: requests that fail

ASSUME GraphAssumption ==
  /\ Last \in Nat \ {0} /\ From \in 1..Last /\ Back \in 1..From
  /\ PageSize \in Nat \ {0} /\ {MaxCycles, MaxFaults} \subseteq Nat
  /\ Fetch \cap Checker = {}

VARIABLES
  history, status, \* the execution
  cycles,
  deployed,        \* is there a state machine?
  arn, resolved,   \* _state_machine_arn (is it an ARN?), _state_machine_arn_resolved
  listed,          \* what list_state_machines gave a caller that has yet to keep it
  blind,           \* observation: has anybody looked before the machine was there?
  fetch,           \* each request: where it is, the status and the number of
                   \* events read, and the length of the history when it began
  shown,           \* the graph SfnGraph renders, or NoGraph
  faults

execution == <<history, status, cycles, deployed>>
lookup == <<arn, resolved, listed, blind>>
vars == <<execution, lookup, fetch, shown, faults>>

State == 1..Last
Caller == Fetch \cup Checker
Event == {"in", "out"} \X State
Colour == {"pending", "running", "succeeded", "failed"}
NoGraph == [execution |-> "none", states |-> <<>>]
Graph == [execution : {"RUNNING", "SUCCEEDED", "FAILED"}, states : [State -> Colour]]
Free == [at |-> "free", status |-> "RUNNING", read |-> 0, since |-> 0, graph |-> NoGraph]

TypeOK ==
  /\ history \in Seq(Event) /\ status \in {"RUNNING", "SUCCEEDED", "FAILED"}
  /\ cycles \in 0..MaxCycles /\ faults \in 0..MaxFaults
  /\ {deployed, arn, resolved, blind} \subseteq BOOLEAN
  /\ listed \in [Caller -> {"nothing", "no machine", "machine"}]
  /\ shown \in Graph \cup {NoGraph}
  /\ fetch \in [Fetch -> [at : {"free", "asked", "paging", "answered"},
                          status : {"RUNNING", "SUCCEEDED", "FAILED"},
                          read : Nat, since : Nat, graph : Graph \cup {NoGraph}]]

Init ==
  /\ history = <<>> /\ status = "RUNNING" /\ cycles = 0
  /\ deployed = FALSE /\ arn = FALSE /\ resolved = FALSE /\ blind = FALSE
  /\ listed = [c \in Caller |-> "nothing"]
  /\ fetch = [f \in Fetch |-> Free] /\ shown = NoGraph /\ faults = 0

(***************************************************************************)
(* The execution (external)                                                *)
(***************************************************************************)
Happened(h, e) == \E k \in DOMAIN h : h[k] = e
At(i) == history # <<>> /\ history[Len(history)] = <<"in", i>>
After(i) == IF i = 0 THEN history = <<>>
            ELSE history # <<>> /\ history[Len(history)] = <<"out", i>>

Deploy ==
  /\ ~deployed /\ deployed' = TRUE
  /\ UNCHANGED <<history, status, cycles, lookup, fetch, shown, faults>>

Enter ==
  /\ deployed /\ status = "RUNNING"
  /\ \/ \E i \in State :
          After(i - 1) /\ history' = Append(history, <<"in", i>>) /\ UNCHANGED cycles
     \/ /\ After(From) /\ cycles < MaxCycles /\ cycles' = cycles + 1
        /\ history' = Append(history, <<"in", Back>>)
  /\ UNCHANGED <<status, deployed, lookup, fetch, shown, faults>>

Exit ==
  /\ status = "RUNNING"
  /\ \E i \in State : At(i) /\ history' = Append(history, <<"out", i>>)
  /\ UNCHANGED <<status, cycles, deployed, lookup, fetch, shown, faults>>

Finish ==
  /\ deployed /\ status = "RUNNING"
  /\ status' = (IF After(Last) THEN "SUCCEEDED" ELSE "FAILED")
  /\ UNCHANGED <<history, cycles, deployed, lookup, fetch, shown, faults>>

(***************************************************************************)
(* resolve_state_machine_arn                                               *)
(***************************************************************************)
(* get_sfn_graph is a coroutine that never awaits: while it waits for AWS it
   holds the event loop.  The health checks have threads of their own.     *)
HasLoop(f) == \A g \in Fetch \ {f} : fetch[g].at # "paging" /\ listed[g] = "nothing"
Wants(c) == c \in Fetch => fetch[c].at = "asked" /\ HasLoop(c)

(* Faulty variant: the flag is set first, so that nobody else looks it up. *)
ListMachinesMarked(c) ==
  /\ Wants(c) /\ ~resolved /\ listed[c] = "nothing"
  /\ listed' = [listed EXCEPT ![c] = IF deployed THEN "machine" ELSE "no machine"]
  /\ resolved' = TRUE /\ blind' = (blind \/ ~deployed)
  /\ UNCHANGED <<execution, arn, fetch, shown, faults>>

(* Several callers may look it up at once. *)
ListMachines(c) ==
  /\ Wants(c) /\ ~resolved /\ listed[c] = "nothing"
  /\ listed' = [listed EXCEPT ![c] = IF deployed THEN "machine" ELSE "no machine"]
  /\ blind' = (blind \/ ~deployed)
  /\ UNCHANGED <<execution, arn, resolved, fetch, shown, faults>>

(* The two globals, set without a call in between. *)
KeepArn(c) ==
  /\ listed[c] # "nothing" /\ listed' = [listed EXCEPT ![c] = "nothing"]
  /\ arn' = (listed[c] = "machine") /\ resolved' = TRUE
  /\ UNCHANGED <<execution, blind, fetch, shown, faults>>

(* A 503: there is no state machine, as far as the process will ever know. *)
Unavailable(f) ==
  /\ fetch[f].at = "asked" /\ HasLoop(f) /\ listed[f] = "nothing" /\ resolved /\ ~arn
  /\ fetch' = [fetch EXCEPT ![f] = Free]
  /\ UNCHANGED <<execution, lookup, shown, faults>>

(***************************************************************************)
(* _sfn_execution_graph                                                    *)
(***************************************************************************)
Colours(h, st) ==
  [i \in State |->
    IF ~Happened(h, <<"in", i>>) THEN "pending"
    ELSE IF Happened(h, <<"out", i>>) THEN "succeeded"
    ELSE IF st = "RUNNING" THEN "running" ELSE "failed"]

Upto(k) == SubSeq(history, 1, k)

Set(f, at, st, read, since, graph) ==
  fetch' = [fetch EXCEPT ![f] =
    [at |-> at, status |-> st, read |-> read, since |-> since, graph |-> graph]]

(* describe_execution comes first. *)
Describe(f) ==
  /\ fetch[f].at = "asked" /\ HasLoop(f) /\ listed[f] = "nothing" /\ resolved /\ arn
  /\ Set(f, "paging", status, 0, Len(history), NoGraph)
  /\ UNCHANGED <<execution, lookup, shown, faults>>

(* Faulty variant: only the first page is read. *)
PageOnce(f) ==
  LET k == fetch[f].read + PageSize IN
  /\ fetch[f].at = "paging"
  /\ Set(f, "answered", fetch[f].status, 0, fetch[f].since,
         [execution |-> fetch[f].status,
          states |-> Colours(IF k < Len(history) THEN Upto(k) ELSE history, fetch[f].status)])
  /\ UNCHANGED <<execution, lookup, shown, faults>>

(* Faulty variant: the status is read after the history. *)
PageThenDescribe(f) ==
  /\ fetch[f].at = "paging"
  /\ \E k \in fetch[f].since..Len(history) :
       Set(f, "answered", status, 0, fetch[f].since,
           [execution |-> status, states |-> Colours(Upto(k), status)])
  /\ UNCHANGED <<execution, lookup, shown, faults>>

(* get_execution_history: another page while there is a nextToken. *)
Page(f) ==
  LET k == fetch[f].read + PageSize IN
  /\ fetch[f].at = "paging"
  /\ IF k < Len(history)
     THEN Set(f, "paging", fetch[f].status, k, fetch[f].since, NoGraph)
     ELSE Set(f, "answered", fetch[f].status, 0, fetch[f].since,
              [execution |-> fetch[f].status, states |-> Colours(history, fetch[f].status)])
  /\ UNCHANGED <<execution, lookup, shown, faults>>

(***************************************************************************)
(* SfnGraph.tsx                                                            *)
(***************************************************************************)
(* Faulty variant: the interval is cleared once there is a graph. *)
AskUntilShown(f) ==
  /\ fetch[f].at = "free" /\ shown = NoGraph
  /\ Set(f, "asked", "RUNNING", 0, 0, NoGraph)
  /\ UNCHANGED <<execution, lookup, shown, faults>>

Ask(f) ==
  /\ fetch[f].at = "free"
  /\ Set(f, "asked", "RUNNING", 0, 0, NoGraph)
  /\ UNCHANGED <<execution, lookup, shown, faults>>

Apply(f) ==
  /\ fetch[f].at = "answered"
  /\ shown' = fetch[f].graph /\ fetch' = [fetch EXCEPT ![f] = Free]
  /\ UNCHANGED <<execution, lookup, faults>>

(* A 404 or 500, or no response: the last graph stays. *)
Fail(f) ==
  /\ fetch[f].at \in {"asked", "paging", "answered"}
  /\ faults < MaxFaults /\ faults' = faults + 1
  /\ fetch' = [fetch EXCEPT ![f] = Free]
  /\ listed' = [listed EXCEPT ![f] = "nothing"]
  /\ UNCHANGED <<execution, arn, resolved, blind, shown>>

Next ==
  \/ Deploy \/ Enter \/ Exit \/ Finish
  \/ \E c \in Caller : ListMachines(c) \/ KeepArn(c)
  \/ \E f \in Fetch : Unavailable(f) \/ Describe(f) \/ Page(f) \/ Ask(f) \/ Apply(f) \/ Fail(f)

Spec == Init /\ [][Next]_vars

(* The interval keeps firing, and a request is answered or fails; nothing
   is asked of the execution.                                              *)
Fairness ==
  \A f \in Fetch :
    /\ WF_vars(Ask(f)) /\ WF_vars(Apply(f))
    /\ WF_vars(ListMachines(f) \/ KeepArn(f) \/ Unavailable(f) \/ Describe(f) \/ Page(f))

FairSpec == Spec /\ Fairness
-----------------------------------------------------------------------------
(***************************************************************************)
(* Properties                                                              *)
(***************************************************************************)
(* What the graph of an execution ought to be: the state it is in, if any,
   is the last one it entered.                                             *)
Truth(h, st) ==
  [execution |-> st,
   states |-> [i \in State |->
     IF ~Happened(h, <<"in", i>>) THEN "pending"
     ELSE IF h[Len(h)] # <<"in", i>> THEN "succeeded"
     ELSE IF st = "RUNNING" THEN "running" ELSE "failed"]]

(* _sfn_execution_graph "A state that was entered but hasn't exited yet is
   the one currently running": although status and pages are read while the
   execution goes on, the answer is the graph of one moment of the request -
   as long as the execution has not been sent back.                        *)
OneMoment ==
  cycles = 0 => \A f \in Fetch : fetch[f].at = "answered" =>
    \E k \in fetch[f].since..Len(history) :
      \/ fetch[f].graph = Truth(Upto(k), "RUNNING")
      \/ k = Len(history) /\ fetch[f].graph = Truth(history, status)

(* DEMO-GUIDE.md:175 "each chip": what is on the screen is a graph the
   execution has had, and a chip is red only if the execution has ended in
   that state.                                                             *)
NoFalseAlarm ==
  shown # NoGraph =>
    \A i \in State : shown.states[i] = "failed" => status = "FAILED" /\ At(i)

(* resolve_state_machine_arn "doesn't change at runtime - cache it": whatever
   requests and health checks look the ARN up at the same time, None is
   cached, for good, only if one of them looked before the machine was there. *)
NoneIsEarned == resolved /\ ~arn => blind

(* SfnGraph.tsx's interval: once the ARN is known the panel ends up with the
   final graph of an execution that has ended, though requests fail and
   answers overtake each other.                                            *)
Settles ==
  <>[](status # "RUNNING" /\ arn => shown = [execution |-> status, states |-> Colours(history, status)])
=============================================================================

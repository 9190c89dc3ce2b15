--------------------------- MODULE GraphSchedule ---------------------------
(***************************************************************************)
(* Asynchronous execution: vxScheduleGraph and vxWaitGraph of              *)
(* sample/framework/vx_graph.c called by the threads of the application,   *)
(* and vxWorkerGraph of vx_context.c in the graph thread of the context,   *)
(* with the two queues of the context between them and the positions of    *)
(* the static array graph_queue that travel through them as pointers.      *)
(*                                                                         *)
(* The queues are the FIFOs module Queue implements.  What runs under the  *)
(* global lock is one step; what runs without it, between the calls that   *)
(* other threads can see, is a step of its own.  A release of the context  *)
(* comes when no call is in progress, as all references to its graphs are  *)
(* invalid after it; the writes to the queues then never fail.             *)
(***************************************************************************)
EXTENDS Integers, Sequences, FiniteSets, FiniteSetsExt

CONSTANTS
  Graphs,
  NumSlots,    \* positions in graph_queue: 10
  Depth,       \* VX_INT_MAX_QUEUE_DEPTH: 32
  Schedulers,  \* threads that call vxScheduleGraph
  Waiters,     \* threads that call vxWaitGraph
  NoGraph      \* a null v1

Threads == Schedulers \cup Waiters
Slots == 1 .. NumSlots
Statuses == {"success", "failure"}

ASSUME GraphScheduleAssumption ==
  /\ NumSlots \in Nat \ {0}
  /\ Depth \in Nat \ {0}
  /\ NoGraph \notin Graphs

VARIABLES
  lock,             \* the semaphore graph->lock
  v1,               \* the graph in each position of graph_queue
  v2,               \* the status in each position
  numGraphsQueued,
  input,            \* context->proc.input
  output,           \* context->proc.output
  running,          \* context->proc.running, and proc.input is not popped
  gpc,              \* where the graph thread is
  gslot,            \* its variable data
  ggraph,           \* its variable g
  gstatus,          \* its variable s
  pc,               \* where each application thread is
  graph,            \* the graph it schedules or waits for
  slot,             \* its variable pq or data
  result,           \* what its last call returned
  outcome,          \* the status of the last execution of each graph
  answer            \* what vxWaitGraph last returned for it

positions == <<v1, v2, numGraphsQueued>>
queues == <<input, output, running>>
worker == <<gpc, gslot, ggraph, gstatus>>
app == <<pc, graph, slot, result>>
history == <<outcome, answer>>
vars == <<lock, positions, queues, worker, app, history>>

Init ==
  /\ lock = [g \in Graphs |-> 1]
  /\ v1 = [q \in Slots |-> NoGraph]
  /\ v2 = [q \in Slots |-> "success"]
  /\ numGraphsQueued = 0
  /\ input = << >> /\ output = << >>
  /\ running = TRUE
  /\ gpc = "read"
  /\ gslot = 1
  /\ ggraph = NoGraph
  /\ gstatus = "failure"
  /\ pc = [t \in Threads |-> "idle"]
  /\ graph = [t \in Threads |-> NoGraph]
  /\ slot = [t \in Threads |-> 1]
  /\ result = [t \in Threads |-> "none"]
  /\ outcome = [g \in Graphs |-> "success"]
  /\ answer = [g \in Graphs |-> "success"]

Goto(t, where) == pc' = [pc EXCEPT ![t] = where]
Return(t, s) == Goto(t, "idle") /\ result' = [result EXCEPT ![t] = s]

-----------------------------------------------------------------------------
(* vxScheduleGraph.                                                        *)

Schedule(t, g) ==
  /\ t \in Schedulers /\ pc[t] = "idle" /\ running
  /\ graph' = [graph EXCEPT ![t] = g]
  /\ IF lock[g] > 0
     THEN /\ lock' = [lock EXCEPT ![g] = @ - 1]
          /\ Goto(t, "claim")
          /\ result' = [result EXCEPT ![t] = "none"]
     ELSE Return(t, "already_scheduled") /\ UNCHANGED lock
  /\ UNCHANGED <<positions, queues, worker, slot, history>>

FreeSlots_All == Slots
FreeSlots == {q \in Slots : v1[q] = NoGraph}

\* A position is found under the global lock, but not marked as taken.
Claim(t) ==
  /\ pc[t] = "claim"
  /\ IF FreeSlots = {}
     THEN Return(t, "no_resources") /\ UNCHANGED <<slot, numGraphsQueued>>
     ELSE /\ slot' = [slot EXCEPT ![t] = Min(FreeSlots)]
          /\ numGraphsQueued' = numGraphsQueued + 1
          /\ Goto(t, "fill")
          /\ UNCHANGED result
  /\ UNCHANGED <<lock, v1, v2, queues, worker, graph, history>>

Fill(t) ==
  /\ pc[t] = "fill"
  /\ v1' = [v1 EXCEPT ![slot[t]] = graph[t]]
  /\ v2' = [v2 EXCEPT ![slot[t]] = "success"]
  /\ Goto(t, "enqueue")
  /\ UNCHANGED <<lock, numGraphsQueued, queues, worker, graph, slot, result, history>>

Enqueue(t) ==
  /\ pc[t] = "enqueue"
  /\ Len(input) < Depth
  /\ input' = Append(input, slot[t])
  /\ Return(t, "success")
  /\ UNCHANGED <<lock, positions, output, running, worker, graph, slot, history>>

-----------------------------------------------------------------------------
(* vxWorkerGraph.                                                          *)

Take ==
  /\ gpc = "read" /\ running
  /\ input # << >>
  /\ gslot' = Head(input)
  /\ input' = Tail(input)
  /\ ggraph' = v1[Head(input)]
  /\ gpc' = "process"
  /\ UNCHANGED <<lock, positions, output, running, gstatus, app, history>>

\* vxProcessGraph, and the result in the position of the graph.
StatusStored_Stale == [v2 EXCEPT ![gslot] = gstatus]
StatusStored == [v2 EXCEPT ![gslot] = gstatus']
Process ==
  /\ gpc = "process"
  /\ gstatus' \in Statuses
  /\ outcome' = [outcome EXCEPT ![ggraph] = gstatus']
  /\ v1' = [v1 EXCEPT ![gslot] = ggraph]
  /\ v2' = StatusStored
  /\ gpc' = "write"
  /\ UNCHANGED <<lock, numGraphsQueued, queues, gslot, ggraph, app, answer>>

Write ==
  /\ gpc = "write"
  /\ Len(output) < Depth
  /\ output' = Append(output, gslot)
  /\ gpc' = "read"
  /\ UNCHANGED <<lock, positions, input, running, gslot, ggraph, gstatus, app, history>>

Stop_Drains ==
  /\ gpc = "read" /\ ~running /\ input = << >>
  /\ gpc' = "stopped"
  /\ UNCHANGED <<lock, positions, queues, gslot, ggraph, gstatus, app, history>>
Stop ==
  /\ gpc = "read" /\ ~running
  /\ gpc' = "stopped"
  /\ UNCHANGED <<lock, positions, queues, gslot, ggraph, gstatus, app, history>>

-----------------------------------------------------------------------------
(* vxWaitGraph.                                                            *)

\* Whether the graph is scheduled is seen by trying to take its lock.
Wait(t, g) ==
  /\ t \in Waiters /\ pc[t] = "idle" /\ running
  /\ graph' = [graph EXCEPT ![t] = g]
  /\ result' = [result EXCEPT ![t] = "none"]
  /\ IF lock[g] = 0
     THEN Goto(t, "read") /\ UNCHANGED lock
     ELSE Goto(t, "give_back") /\ lock' = [lock EXCEPT ![g] = @ - 1]
  /\ UNCHANGED <<positions, queues, worker, slot, history>>

GiveBack_Keeps(t) ==
  /\ pc[t] = "give_back"
  /\ Return(t, "failure")
  /\ UNCHANGED <<lock, positions, queues, worker, graph, slot, history>>
GiveBack(t) ==
  /\ pc[t] = "give_back"
  /\ lock' = [lock EXCEPT ![graph[t]] = @ + 1]
  /\ Return(t, "failure")
  /\ UNCHANGED <<positions, queues, worker, graph, slot, history>>

Mine(t) == v1[Head(output)] = graph[t]

ReadOutput(t) ==
  /\ pc[t] = "read"
  /\ output # << >>
  /\ output' = Tail(output)
  /\ slot' = [slot EXCEPT ![t] = Head(output)]
  /\ result' = [result EXCEPT ![t] = v2[Head(output)]]
  /\ Goto(t, IF Mine(t) THEN "free" ELSE "put_back")
  /\ UNCHANGED <<lock, positions, input, running, worker, graph, history>>

PutBack(t) ==
  /\ pc[t] = "put_back"
  /\ Len(output) < Depth
  /\ output' = Append(output, slot[t])
  /\ Goto(t, "read")
  /\ UNCHANGED <<lock, positions, input, running, worker, graph, slot, result, history>>

\* The position of the graph is given up, under the global lock.
HoldsGraph(t) == {q \in Slots : v1[q] = graph[t]}
Emptied_None(t) == v1
Emptied(t) == [v1 EXCEPT ![Min(HoldsGraph(t))] = NoGraph]
Free(t) ==
  /\ pc[t] = "free"
  /\ IF HoldsGraph(t) = {}
     THEN UNCHANGED <<v1, numGraphsQueued>>
     ELSE v1' = Emptied(t) /\ numGraphsQueued' = numGraphsQueued - 1
  /\ Goto(t, "unlock")
  /\ UNCHANGED <<lock, v2, queues, worker, graph, slot, result, history>>

Unlock(t) ==
  /\ pc[t] = "unlock"
  /\ lock' = [lock EXCEPT ![graph[t]] = @ + 1]
  /\ answer' = [answer EXCEPT ![graph[t]] = result[t]]
  /\ Goto(t, "idle")
  /\ UNCHANGED <<positions, queues, worker, graph, slot, result, outcome>>

-----------------------------------------------------------------------------
\* vxReleaseContext stops the graph thread.
Release ==
  /\ running
  /\ \A t \in Threads : pc[t] = "idle"
  /\ running' = FALSE
  /\ UNCHANGED <<lock, positions, input, output, worker, app, history>>

Released == ~running /\ gpc = "stopped" /\ UNCHANGED vars

AppStep(t) ==
  \/ Claim(t) \/ Fill(t) \/ Enqueue(t)
  \/ GiveBack(t) \/ ReadOutput(t) \/ PutBack(t) \/ Free(t) \/ Unlock(t)
WorkerStep == Take \/ Process \/ Write \/ Stop

Next ==
  \/ \E t \in Threads, g \in Graphs : Schedule(t, g) \/ Wait(t, g)
  \/ \E t \in Threads : AppStep(t)
  \/ WorkerStep
  \/ Release \/ Released

Spec == Init /\ [][Next]_vars

\* Threads run: none stays forever before a step it can take.
FairSpec ==
  /\ Spec
  /\ WF_vars(WorkerStep)
  /\ \A t \in Threads : WF_vars(AppStep(t))

-----------------------------------------------------------------------------
(* Properties.                                                             *)

\* Where the position of a graph may travel.
Travelling(q) ==
  Cardinality({i \in DOMAIN input : input[i] = q})
  + Cardinality({i \in DOMAIN output : output[i] = q})
  + (IF gpc \in {"process", "write"} /\ gslot = q THEN 1 ELSE 0)
  + Cardinality({t \in Threads : pc[t] \in {"enqueue", "put_back", "free"} /\ slot[t] = q})

\* A position that holds a graph is in exactly one queue or pair of hands,
\* and one that holds none in none: no pointer to it is lost or left behind.
PositionsTravelOnce ==
  \A q \in Slots : Travelling(q) = IF v1[q] = NoGraph THEN 0 ELSE 1

\* Two threads that schedule have different positions ("acquire a position
\* in the graph queue").
OwnPosition ==
  \A t, u \in Threads :
    t # u /\ {pc[t], pc[u]} \subseteq {"fill", "enqueue"} => slot[t] # slot[u]

\* Which graphs are scheduled, and which have been executed since.
InHands(g, places) == \E t \in Threads : graph[t] = g /\ pc[t] \in places
IsIn(g, queue) == \E i \in DOMAIN queue : v1[queue[i]] = g
Scheduled(g) == IsIn(g, input) \/ (gpc = "process" /\ ggraph = g)
Executed(g) ==
  \/ gpc = "write" /\ ggraph = g
  \/ IsIn(g, output)
  \/ \E t \in Threads : pc[t] = "put_back" /\ v1[slot[t]] = g
  \/ InHands(g, {"free", "unlock"})
StateOf(g) ==
  IF Scheduled(g) THEN "scheduled" ELSE IF Executed(g) THEN "executed" ELSE "free"
State == [g \in Graphs |-> StateOf(g)]

\* Refinement: each graph that was scheduled is executed once, and
\* vxWaitGraph returns the status of that execution and nothing before it.
Promise == INSTANCE AsyncGraphs WITH state <- State
KeepsPromise == Promise!Spec

\* VX_ERROR_GRAPH_SCHEDULED is only for a graph that is scheduled, or was
\* and has not been waited for since; or that a vxWaitGraph in another thread
\* is about to find not scheduled.
Refused(t, g) == Schedule(t, g) /\ result'[t] = "already_scheduled"
RefusedIfScheduled ==
  [][\A t \in Schedulers, g \in Graphs :
       Refused(t, g) => State[g] # "free" \/ InHands(g, {"give_back"})]_vars

-----------------------------------------------------------------------------
(* The inductive invariant behind the theorems of GraphScheduleProofs.     *)

TypeOK ==
  /\ lock \in [Graphs -> 0 .. 1]
  /\ v1 \in [Slots -> Graphs \cup {NoGraph}]
  /\ v2 \in [Slots -> Statuses]
  /\ input \in Seq(Slots) /\ output \in Seq(Slots)
  /\ running \in BOOLEAN
  /\ gpc \in {"read", "process", "write", "stopped"}
  /\ gslot \in Slots
  /\ ggraph \in Graphs \cup {NoGraph}
  /\ gstatus \in Statuses
  /\ pc \in [Threads -> {"idle", "claim", "fill", "enqueue",
                         "give_back", "read", "put_back", "free", "unlock"}]
  /\ graph \in [Threads -> Graphs \cup {NoGraph}]
  /\ slot \in [Threads -> Slots]
  /\ result \in [Threads -> Statuses \cup {"none", "already_scheduled", "no_resources"}]
  /\ outcome \in [Graphs -> Statuses]
  /\ answer \in [Graphs -> Statuses]

\* Where the threads are.
Control ==
  \A t \in Threads :
    /\ pc[t] \in {"claim", "fill", "enqueue"} => t \in Schedulers
    /\ pc[t] # "idle" => graph[t] \in Graphs

\* The lock of a graph is taken for one thread or one position at a time.
Holds(t, g) == pc[t] \in {"claim", "fill", "give_back", "unlock"} /\ graph[t] = g
LockTaken ==
  /\ \A t, u \in Threads : \A g \in Graphs : Holds(t, g) /\ Holds(u, g) => t = u
  /\ \A p, q \in Slots : v1[p] # NoGraph /\ v1[p] = v1[q] => p = q
  /\ \A t \in Threads, q \in Slots : ~(v1[q] # NoGraph /\ Holds(t, v1[q]))
  /\ \A t \in Threads, g \in Graphs : Holds(t, g) => lock[g] = 0
  /\ \A q \in Slots : v1[q] # NoGraph => lock[v1[q]] = 0

\* Where a position is: in a queue, in the graph thread, in a thread's hands.
Queued(q) == q \in Range(input)
Written(q) == q \in Range(output)
InWork(q) == gpc \in {"process", "write"} /\ gslot = q
InHand(t, q) == pc[t] \in {"enqueue", "put_back", "free"} /\ slot[t] = q

\* A position is in at most one of them, and in one if it holds a graph; no
\* queue has it twice.
Somewhere(q) ==
  Queued(q) \/ Written(q) \/ InWork(q) \/ \E t \in Threads : InHand(t, q)
WellPlaced(q) ==
  /\ Queued(q) => ~Written(q) /\ ~InWork(q)
  /\ Written(q) => ~InWork(q)
  /\ \A t \in Threads :
       InHand(t, q) => /\ ~Queued(q) /\ ~Written(q) /\ ~InWork(q)
                       /\ \A u \in Threads : InHand(u, q) => t = u
  /\ v1[q] # NoGraph <=> Somewhere(q)
Placed ==
  /\ IsInjective(input) /\ IsInjective(output)
  /\ \A q \in Slots : WellPlaced(q)

\* The position a thread has is for the graph it is busy with.
Named ==
  /\ gpc \in {"process", "write"} => v1[gslot] = ggraph
  /\ \A t \in Threads :
       /\ pc[t] = "fill" => v1[slot[t]] = NoGraph
       /\ pc[t] \in {"enqueue", "free"} => v1[slot[t]] = graph[t]

\* What has been executed carries the status of that execution.
CarriesOutcome ==
  /\ gpc = "write" => v2[gslot] = outcome[v1[gslot]]
  /\ \A q \in Slots : Written(q) => v2[q] = outcome[v1[q]]
  /\ \A t \in Threads :
       /\ pc[t] = "put_back" => v2[slot[t]] = outcome[v1[slot[t]]]
       /\ pc[t] \in {"free", "unlock"} => result[t] = outcome[graph[t]]

IInv ==
  TypeOK /\ Control /\ LockTaken /\ Placed /\ Named /\ CarriesOutcome

-----------------------------------------------------------------------------
\* vxWaitGraph returns on a graph that is scheduled or has been executed.
WaitReturns ==
  \A t \in Waiters : pc[t] = "read" ~> pc[t] = "idle"

\* vxReleaseContext can join the graph thread, whatever is still queued.
ReleaseReturns == ~running ~> gpc = "stopped"
=============================================================================

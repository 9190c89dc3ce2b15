---------------------------- MODULE GraphExecute ----------------------------
(***************************************************************************)
(* A graph of sample/framework/vx_graph.c from its construction to its     *)
(* execution: vxVerifyGraph derives the heads of the graph and refuses     *)
(* cycles and objects with two writers, and vxExecuteGraph runs the nodes  *)
(* in waves, each found by vxFindNextNodes from the wave before.  The      *)
(* graph is changed between executions by nodes that come and go, by new   *)
(* values of parameters and by the aging of delays.                        *)
(*                                                                         *)
(* A node is what it reads (its VX_INPUT parameters) and what it writes    *)
(* (VX_OUTPUT and VX_BIDIRECTIONAL); an object is the memory it covers, so *)
(* that an image, its regions of interest, a pyramid and its levels relate *)
(* as in vxCheckWriteDependency.  The nodes of a wave run in any order:    *)
(* one after the other, or in the pool of module Threadpool.               *)
(***************************************************************************)
EXTENDS Integers, FiniteSets

CONSTANTS
  Nodes,        \* nodes that may be in the graph
  Refs,         \* data objects
  Area,         \* the memory each of them covers
  Aged,         \* the object that takes the place of each when delays age
  Bindings,     \* the parameters a new node may get
  Buffers,      \* the objects that may replace each other as a parameter
  Modes,        \* whether waves may go to the pool: OPENVX_USE_SMP
  Disciplined   \* parameters are set as PrivateBuffer says

Overlap(r, s) == Area[r] \cap Area[s] # {}

ASSUME GraphExecuteAssumption ==
  /\ IsFiniteSet(Nodes)
  /\ \A r \in Refs : Area[r] # {}
  /\ Aged \in [Refs -> Refs]
  /\ \A r, s \in Refs : Overlap(Aged[r], Aged[s]) <=> Overlap(r, s)
  /\ Bindings \subseteq [in : SUBSET Refs, out : SUBSET Refs]
  /\ Buffers \subseteq Refs
  /\ Modes \subseteq BOOLEAN
  /\ Disciplined \in BOOLEAN

VARIABLES
  nodes,      \* graph->nodes
  in,         \* what each reads
  out,        \* what each writes
  verified,   \* graph->verified
  heads,      \* graph->heads
  status,     \* what the last call on the graph returned
  pc,         \* "idle", or "wave" in the loop of vxExecuteGraph
  pooled,     \* the waves of this execution go to the pool
  next,       \* next_nodes
  todo,       \* those of them that have not run
  left,       \* left_nodes
  visited,    \* the nodes with the flag visited
  executed,   \* the nodes with the flag executed
  abandoned   \* action is VX_ACTION_ABANDON

bindings == <<nodes, in, out>>
loop == <<pooled, next, todo, left, visited, executed, abandoned>>
vars == <<bindings, verified, heads, status, pc, loop>>

Init ==
  /\ nodes = {}
  /\ in = [n \in Nodes |-> {}]
  /\ out = [n \in Nodes |-> {}]
  /\ verified = FALSE
  /\ heads = {}
  /\ status = "none"
  /\ pc = "idle"
  /\ pooled = FALSE
  /\ next = {} /\ todo = {} /\ left = {}
  /\ visited = {} /\ executed = {}
  /\ abandoned = FALSE

-----------------------------------------------------------------------------
(* The dependences between nodes.                                          *)

\* vxFindNodesWithReference for all that node m writes.
Readers(m) == {n \in nodes : \E r \in out[m], s \in in[n] : Overlap(r, s)}

\* The same for all that node n reads.
Writers(n) == {m \in nodes : \E r \in in[n], s \in out[m] : Overlap(r, s)}

SingleWriter_Exact ==
  \A m, n \in nodes : m # n => out[m] \cap out[n] = {}
SingleWriter ==
  \A m, n \in nodes : m # n => \A r \in out[m], s \in out[n] : ~Overlap(r, s)

HeadNodes_Exact == {n \in nodes : \A m \in nodes \ {n} : out[m] \cap in[n] = {}}
\* A node that reads its own output counts as a head: it is compared with the
\* other nodes only.
HeadNodes == {n \in nodes : Writers(n) \subseteq {n}}

\* The nodes vxTraverseGraph comes to from h.
Reached(h) ==
  {n \in nodes : \A S \in SUBSET nodes :
     (h \in S /\ \A m \in S : Readers(m) \subseteq S) => n \in S}

\* It refuses a node that follows itself, and depth > graph->numNodes.
DepthLimit_Twice == Cardinality(nodes) \div 2   \* depth raised twice a level
DepthLimit == Cardinality(nodes)
CycleFrom(h) ==
  \/ \E n \in Reached(h) : n \in Readers(n)
  \/ \E walk \in [0 .. DepthLimit -> nodes] :
       /\ walk[0] \in Readers(h)
       /\ \A d \in 1 .. DepthLimit : walk[d] \in Readers(walk[d - 1])

-----------------------------------------------------------------------------
(* vxVerifyGraph.  The validators and initializers of the kernels may      *)
(* refuse: they are external.                                              *)

InvalidTopology ==
  \/ HeadNodes = {}
  \/ \E h \in HeadNodes : CycleFrom(h)
  \/ nodes # UNION {Reached(h) : h \in HeadNodes}

Topology ==
  CASE ~SingleWriter -> "multiple_writers"
    [] SingleWriter /\ InvalidTopology -> "invalid_graph"
    [] OTHER -> "verified"

VerifyGraph ==
  LET topology == Topology IN
  \E validated, initialized \in BOOLEAN :
    /\ status' = IF ~validated THEN "invalid_parameters"
                 ELSE IF topology # "verified" THEN topology
                 ELSE IF ~initialized THEN "failure" ELSE "verified"
    /\ verified' = (status' = "verified")
    /\ heads' = IF status' \in {"invalid_parameters", "multiple_writers"}
                THEN {} ELSE HeadNodes
    /\ UNCHANGED bindings

Verify == pc = "idle" /\ VerifyGraph /\ visited' = {}
          /\ UNCHANGED <<pc, pooled, next, todo, left, executed, abandoned>>

-----------------------------------------------------------------------------
(* vxExecuteGraph.                                                         *)

Begin(first) ==
  /\ pc' = "wave"
  /\ pooled' \in Modes
  /\ next' = first /\ todo' = first /\ left' = {}
  /\ visited' = {} /\ executed' = {}
  /\ abandoned' = FALSE

Process ==
  /\ pc = "idle"
  /\ IF verified
     THEN Begin(heads) /\ status' = "none" /\ UNCHANGED <<bindings, verified, heads>>
     ELSE /\ VerifyGraph
          /\ IF verified' THEN Begin(heads') ELSE UNCHANGED <<pc, loop>>

\* What vxTargetProcess returns: "abandon" if the kernel fails, and otherwise
\* what the callback of the node says.
Actions == {"continue", "abandon"}

\* One node of the wave.  To abandon stops the loop, but the pool runs the rest
\* of the wave.  A node found executed ends the wave ("Multiple executions
\* attempted!").
Execute(n) ==
  /\ pc = "wave" /\ n \in todo
  /\ IF n \in executed
     THEN todo' = {} /\ UNCHANGED <<executed, abandoned>>
     ELSE \E action \in Actions :
       /\ executed' = executed \cup {n}
       /\ abandoned' = (abandoned \/ action = "abandon")
       /\ todo' = IF action = "abandon" /\ ~pooled THEN {} ELSE todo \ {n}
  /\ UNCHANGED <<bindings, verified, heads, status, pc, pooled, next, left, visited>>

\* vxFindNextNodes.
Candidates_First == Readers(CHOOSE m \in next : TRUE) \cup left
Candidates == left \cup UNION {Readers(m) : m \in next}
Ready_Any(n) == Writers(n) \cap executed # {}
Ready(n) == Writers(n) \subseteq executed
NextWave_NotReset == LET found == {n \in Candidates : Ready(n)} \ visited IN
  IF found = {} THEN next ELSE found
NextWave == {n \in Candidates : Ready(n)} \ visited

\* vxAgeDelay for the delays registered with the graph.
AgeDelays ==
  /\ in' = [n \in Nodes |-> {Aged[r] : r \in in[n]}]
  /\ out' = [n \in Nodes |-> {Aged[r] : r \in out[n]}]
  /\ UNCHANGED nodes

Finish ==
  /\ pc' = "idle"
  /\ status' = IF abandoned THEN "abandoned" ELSE "processed"
  /\ pooled' = FALSE /\ abandoned' = FALSE
  /\ visited' = {} /\ next' = {} /\ left' = {}
  /\ AgeDelays

EndWave ==
  /\ pc = "wave" /\ todo = {}
  /\ IF abandoned \/ NextWave = {}
     THEN Finish /\ UNCHANGED todo
     ELSE /\ next' = NextWave /\ todo' = NextWave
          /\ left' = {n \in Candidates : ~Ready(n)}
          /\ visited' = visited \cup NextWave
          /\ UNCHANGED <<pc, status, bindings, pooled, abandoned>>
  /\ UNCHANGED <<verified, heads, executed>>

-----------------------------------------------------------------------------
(* Changes of the graph between executions.                                *)

\* vxCreateGenericNode, and vxSetParameterByIndex for each parameter.
AddNode(n, b) ==
  /\ pc = "idle" /\ n \notin nodes
  /\ nodes' = nodes \cup {n}
  /\ in' = [in EXCEPT ![n] = b.in]
  /\ out' = [out EXCEPT ![n] = b.out]
  /\ verified' = FALSE
  /\ status' = "none"
  /\ UNCHANGED <<heads, pc, loop>>

RemoveNode(n) ==
  /\ pc = "idle" /\ n \in nodes
  /\ nodes' = nodes \ {n}
  /\ in' = [in EXCEPT ![n] = {}]
  /\ out' = [out EXCEPT ![n] = {}]
  /\ verified' = FALSE
  /\ status' = "none"
  /\ UNCHANGED <<heads, pc, loop>>

\* The memory of r is used by no parameter but the one of node n that is old.
PrivateBuffer(n, old, r) ==
  \A m \in nodes : \A s \in in[m] \cup out[m] :
    Overlap(r, s) => m = n /\ s = old /\ s \notin in[n] \cap out[n]

Replace(n, old, new) ==
  /\ old \in in[n] \cup out[n]
  /\ in' = [in EXCEPT ![n] = IF old \in @ THEN (@ \ {old}) \cup {new} ELSE @]
  /\ out' = [out EXCEPT ![n] = IF old \in @ THEN (@ \ {old}) \cup {new} ELSE @]
  /\ UNCHANGED nodes

MayReplace(n, old, new) ==
  Disciplined => \A r \in {old, new} : PrivateBuffer(n, old, r)

\* vxSetParameterByIndex leaves verified as it is ...
SetParameter(n, old, new) ==
  /\ pc = "idle" /\ n \in nodes
  /\ MayReplace(n, old, new)
  /\ Replace(n, old, new)
  /\ status' = "none"
  /\ UNCHANGED <<verified, heads, pc, loop>>

\* ... and vxSetGraphParameterByIndex sets it.
SetGraphParameter(n, old, new) ==
  /\ pc = "idle" /\ n \in nodes
  /\ MayReplace(n, old, new) /\ (Disciplined => verified)
  /\ Replace(n, old, new)
  /\ verified' = TRUE
  /\ status' = "none"
  /\ UNCHANGED <<heads, pc, loop>>

\* vxAgeDelay called by the application.
Age ==
  /\ pc = "idle"
  /\ AgeDelays
  /\ status' = "none"
  /\ UNCHANGED <<verified, heads, pc, loop>>

Change ==
  \/ Verify
  \/ \E n \in Nodes : RemoveNode(n) \/ \E b \in Bindings : AddNode(n, b)
  \/ \E n \in Nodes, old, new \in Buffers :
       SetParameter(n, old, new) \/ SetGraphParameter(n, old, new)
  \/ Age

Step == EndWave \/ \E n \in Nodes : Execute(n)

Next == Process \/ Step \/ Change

Spec == Init /\ [][Next]_vars

\* A node and the loop around it go on until they are done.
FairSpec == Spec /\ WF_vars(Step)

-----------------------------------------------------------------------------
Statuses == {"none", "verified", "invalid_parameters", "multiple_writers",
             "invalid_graph", "failure", "processed", "abandoned"}

\* The types, and that nothing of a wave survives it.
TypeOK ==
  /\ nodes \in SUBSET Nodes /\ heads \in SUBSET Nodes
  /\ in \in [Nodes -> SUBSET Refs] /\ out \in [Nodes -> SUBSET Refs]
  /\ verified \in BOOLEAN /\ pooled \in BOOLEAN /\ abandoned \in BOOLEAN
  /\ status \in Statuses
  /\ pc \in {"idle", "wave"}
  /\ next \in SUBSET Nodes /\ todo \in SUBSET next /\ left \in SUBSET Nodes
  /\ visited \in SUBSET Nodes /\ executed \in SUBSET Nodes
  /\ pc = "idle" => next = {} /\ left = {} /\ visited = {} /\ ~abandoned

Acyclic ==
  \E rank \in [nodes -> 1 .. Cardinality(nodes)] :
    \A m \in nodes : \A n \in Readers(m) : rank[m] < rank[n]

MemoryWritten(n) == UNION {Area[r] : r \in out[n]}

\* While a graph counts as verified it has no cycle and no object with two
\* writers, and its heads are the nodes that depend on no other: also after
\* parameters were replaced and delays aged, when vxVerifyGraph is not called
\* again.
VerifiedIsFresh ==
  verified => /\ \A m, n \in nodes : m # n => MemoryWritten(m) \cap MemoryWritten(n) = {}
              /\ Acyclic
              /\ heads = {n \in nodes : Writers(n) = {}}

\* vxVerifyGraph finds a topology invalid only if there is a cycle: chains as
\* long as the graph, and nodes on several paths, pass.
RefusesOnlyCycles ==
  status = "invalid_graph" => nodes = {} \/ ~Acyclic

\* The loop never comes to a node that was executed already: the branch
\* "Multiple executions attempted!" of vxExecuteGraph is not reached.
NeverTwice == todo \cap executed = {}

\* No node is executed before all nodes that write what it reads, through any
\* image, region or level.
ProducersFirst ==
  pc = "wave" => \A n \in executed : Writers(n) \subseteq executed

\* The nodes of one wave do not depend on each other, so that the pool may run
\* them in any order.
WaveIsIndependent ==
  pc = "wave" => \A m, n \in next : m \notin Writers(n)

\* An execution that returns VX_SUCCESS has executed every node.
RunIsComplete == status = "processed" => executed = nodes

\* Every execution returns.
Terminates == pc = "wave" ~> pc = "idle"
=============================================================================

---------------------------- MODULE NodeCoarsen ----------------------------
(***************************************************************************)
(* The scheduler of my-apps/vx_profile_and_verify/vx_scheduling            *)
(* (MyNode.cpp): every node of a graph is given to a target, by one        *)
(* target's priority or by coarsening.  Coarsening takes the target on     *)
(* which the node alone is fastest, ranks the nodes, follows the critical  *)
(* path from each start node, moves neighbours on the path together where  *)
(* the saved transfer outweighs the slower computation (clusterCP), and    *)
(* then does the same for the other nodes, in the order of what they gain  *)
(* from the right target (clusterG).                                       *)
(*                                                                         *)
(* Nodes are numbered as the application adds them, producers first.  Node *)
(* n writes one data object, also called n; SrcData are the data objects   *)
(* nobody writes.  std::sort leaves equals in any order, so equals are     *)
(* taken in any order here.                                                *)
(***************************************************************************)
EXTENDS Integers, FiniteSets, FiniteSetsExt

CONSTANTS N,          \* number of nodes
          SrcData,    \* data objects of the application
          Graphs,     \* graphs: node -> the data objects it reads
          Profiles,   \* measured times of a kernel, per target
          Unit,       \* ticks of the measurements in one unit of time
          Host, Device

Nodes   == 1..N
Data    == Nodes \cup SrcData
Targets == {Host, Device}
Nobody  == 0

ASSUME CoarsenAssumption ==
  /\ N \in Nat \ {0}
  /\ IsFiniteSet(SrcData) /\ Nodes \cap SrcData = {} /\ Host # Device
  /\ Unit \in Nat \ {0}
  /\ \A g \in Graphs : /\ DOMAIN g = Nodes
                       /\ \A n \in Nodes : g[n] # {} /\ g[n] \subseteq SrcData \cup 1..(n - 1)
  \* measured times are positive
  /\ \A p \in Profiles, t \in Targets : p.comp[t] \in Nat \ {0} /\ p.trans[t] \in Nat \ {0}

VARIABLES inputs,     \* the graph: node -> data objects read
          profile,    \* node -> times of its kernel
          phase,      \* how far nodeCoarsen has come
          target,     \* mTarget
          rank,       \* mRank
          successor,  \* mPropagateSuccessor
          paths,      \* critical_paths, one per start node
          lamdas,     \* lamdaOnCP, what is left of it
          todo,       \* non_critical_nodes, what is left: node -> times listed
          visited,    \* nodes with visited set
          clusters    \* clusters: target -> nodes

graphVars == <<inputs, profile>>
pathVars  == <<rank, successor, paths>>
vars == <<graphVars, phase, target, pathVars, lamdas, todo, visited, clusters>>

---------------------------------------------------------------------------
(* The graph and the measurements.                                         *)

Readers(d)  == {n \in Nodes : d \in inputs[n]}
Written     == Nodes
Starts      == {n \in Nodes : inputs[n] \subseteq SrcData}

Comp(n, t)  == profile[n].comp[t]
Trans(n, t) == profile[n].trans[t]       \* one parameter's share

\* getMiniTurnAroundTimeTarget; the host comes first
TurnAround(n, t) == Comp(n, t) + (Cardinality(inputs[n]) + 1) * Trans(n, t)
FastestTarget(n) == IF TurnAround(n, Device) < TurnAround(n, Host) THEN Device ELSE Host

\* ImproveSorter: the ratio of slowest and fastest computation
Slowest(n) == Max({Comp(n, t) : t \in Targets})
Fastest(n) == Min({Comp(n, t) : t \in Targets})
GainsLess(m, n) == Slowest(m) * Fastest(n) < Slowest(n) * Fastest(m)

Init ==
  /\ inputs \in Graphs
  /\ profile \in [Nodes -> Profiles]
  /\ phase = "assign"
  /\ target = [n \in Nodes |-> Host]
  /\ rank = [n \in Nodes |-> 0]
  /\ successor = [n \in Nodes |-> Nobody]
  /\ paths = {} /\ lamdas = {}
  /\ todo = [n \in Nodes |-> 0]
  /\ visited = {}
  /\ clusters = [t \in Targets |-> {}]

\* MyNode::priority: one target for all, no clusters
Priority(t) ==
  /\ phase = "assign"
  /\ target' = [n \in Nodes |-> t]
  /\ phase' = "scheduled"
  /\ UNCHANGED <<graphVars, pathVars, lamdas, todo, visited, clusters>>

Assign ==
  /\ phase = "assign"
  /\ target' = [n \in Nodes |-> FastestTarget(n)]
  /\ phase' = "rank"
  /\ UNCHANGED <<graphVars, pathVars, lamdas, todo, visited, clusters>>

---------------------------------------------------------------------------
(* Ranks and critical paths.                                               *)

\* Mutation: the rank of the first reader instead of the best.
BestRank_First(n, r) == IF Readers(n) = {} THEN 0 ELSE r[Min(Readers(n))]

\* the best of the ranks of the readers of the node's output
BestRank(n, r) == Max({0} \cup {r[m] : m \in Readers(n)})

\* getPropagateRank returns that rank as an int: parts of a unit are lost
Whole(x) == (x \div Unit) * Unit

Weight(n) == (1 + Cardinality(inputs[n])) * Trans(n, target[n]) + Comp(n, target[n])

\* ranks of the nodes, computed from the last to the first
Ranks ==
  LET r[n \in 1..(N + 1)] ==
        IF n = N + 1 THEN [m \in Nodes |-> 0]
        ELSE LET later == r[n + 1]
             IN [later EXCEPT ![n] = Whole(BestRank(n, later)) + Weight(n)]
  IN r[1]

\* the first reader of the best rank
Successor(n, r) ==
  LET best == {m \in Readers(n) : r[m] = BestRank(n, r)}
  IN IF best = {} THEN Nobody ELSE Min(best)

\* the nodes on the path of successors from n
PathFrom(n, s) ==
  LET reach[k \in 0..N] == IF k = 0 THEN {n}
                           ELSE reach[k - 1] \cup ({s[m] : m \in reach[k - 1]} \ {Nobody})
  IN reach[N]

\* as many paths as there are start nodes, from the first nodes of the list
CriticalPaths(s) == {PathFrom(i, s) : i \in 1..Cardinality(Starts)}

\* a node's part of the transfer of one parameter
Share(n) == IF n = Nobody THEN 0 ELSE Trans(n, target[n])

Lamda(d, w, r) == [data |-> d, writer |-> w, reader |-> r, value |-> Share(w) + Share(r)]

\* data objects on a path: sources, results, and those between nodes of it.
\* One between nodes is listed by both, and by every path it is on; the copies
\* are one here: when a second is taken both nodes are visited and stay.
LamdasOf(p) ==
  (UNION {{Lamda(d, Nobody, r) : d \in inputs[r] \cap SrcData} : r \in p})
  \cup {Lamda(w, w, Nobody) : w \in {n \in p : Readers(n) = {}}}
  \cup (UNION {{Lamda(w, w, r) : w \in inputs[r] \cap p} : r \in p})

Rank ==
  LET r == Ranks
      s == [n \in Nodes |-> Successor(n, r)]
  IN /\ phase = "rank"
     /\ rank' = r
     /\ successor' = s
     /\ paths' = CriticalPaths(s)
     /\ lamdas' = UNION {LamdasOf(p) : p \in CriticalPaths(s)}
     \* a node is listed once for every path it is not on
     /\ todo' = [n \in Nodes |->
          Cardinality({i \in 1..Cardinality(Starts) : n \notin PathFrom(i, s)})]
     /\ phase' = "path"
     /\ UNCHANGED <<graphVars, target, visited, clusters>>

---------------------------------------------------------------------------
(* clusterCP: neighbours on a critical path.                               *)

Best(S) == {l \in S : \A k \in S : k.value <= l.value}

\* what node n loses on target t
Slower(n, t) == Comp(n, t) - Comp(n, target[n])

\* Mutation: clusterCP moves nodes it has placed before.
Moves_Visited(l) == {<<l.writer, l.reader>>, <<l.reader, l.writer>>}

\* who may move to the other's target, and the cost of it
Moves(l) == {m \in {<<l.writer, l.reader>>, <<l.reader, l.writer>>} : m[1] \notin visited}
Cost(m)  == Slower(m[1], target[m[2]])

\* the cheaper move, the writer's of two equals
Cheapest(l) ==
  IF \E m \in Moves(l) : m[1] = l.writer /\ \A k \in Moves(l) : Cost(m) <= Cost(k)
  THEN <<l.writer, l.reader>> ELSE <<l.reader, l.writer>>

Pair(l) == {l.writer, l.reader} \ {Nobody}

Together(l) ==
  /\ clusters' = [clusters EXCEPT ![target[l.writer]] = @ \cup Pair(l)]
  /\ UNCHANGED target

Join(l) ==
  LET stays == Cheapest(l)[2]
  IN /\ target' = [target EXCEPT ![Cheapest(l)[1]] = target[stays]]
     /\ clusters' = [clusters EXCEPT ![target[stays]] = @ \cup Pair(l)]

Worthwhile(l) == Moves(l) # {} /\ l.value > Cost(Cheapest(l))

ClusterCP ==
  /\ phase = "path" /\ lamdas # {}
  /\ \E l \in Best(lamdas) :
       /\ lamdas' = lamdas \ {l}
       /\ visited' = visited \cup Pair(l)
       /\ CASE Cardinality(Pair(l)) < 2 -> UNCHANGED <<target, clusters>>
            [] Cardinality(Pair(l)) = 2 /\ target[l.writer] = target[l.reader] -> Together(l)
            [] OTHER -> IF Worthwhile(l) THEN Join(l) ELSE UNCHANGED <<target, clusters>>
  /\ UNCHANGED <<graphVars, phase, pathVars, todo>>

---------------------------------------------------------------------------
(* clusterG: the other nodes.                                              *)

Listed == {n \in Nodes : todo[n] > 0}

\* next in the order of improvement
First(S) == {n \in S : \A m \in S : ~GainsLess(m, n)}

Neighbours(n) == (inputs[n] \cap Written) \cup Readers(n)

\* visited neighbours on another target, counted
Elsewhere(n) == {m \in Neighbours(n) \cap visited : target[m] # target[n]}

Around(n) == {Lamda(d, IF d \in Written THEN d ELSE Nobody, n) : d \in inputs[n]}
             \cup {Lamda(n, n, r) : r \in Readers(n)}

\* the target of the neighbour across the dearest transfer
Reside(n, l) == IF l.reader = n THEN target[l.writer] ELSE target[l.reader]

Move(n, t) ==
  /\ target' = [target EXCEPT ![n] = t]
  /\ clusters' = [clusters EXCEPT ![t] = @ \cup {n}]

ClusterG ==
  /\ phase = "path" /\ lamdas = {}
  /\ \E n \in First(Listed) :
       /\ IF Elsewhere(n) = {}
          THEN Move(n, target[n])
          ELSE \E l \in Best(Around(n)) :
                 IF l.value > Comp(n, target[n]) + Comp(n, Reside(n, l))
                 THEN Move(n, Reside(n, l)) ELSE UNCHANGED <<target, clusters>>
       /\ todo' = [todo EXCEPT ![n] = @ - 1]
       /\ visited' = visited \cup {n}
  /\ UNCHANGED <<graphVars, phase, pathVars, lamdas>>

Coarsened == phase = "path" /\ lamdas = {} /\ Listed = {}

Schedule == \/ \E t \in Targets : Priority(t)
            \/ Assign \/ Rank \/ ClusterCP \/ ClusterG

---------------------------------------------------------------------------
(* Properties.                                                             *)

\* Chains of nodes from n to a node nobody reads, each reading the last.
Chains(n) ==
  {S \in SUBSET (n..N) :
     /\ n \in S /\ Readers(Max(S)) = {}
     /\ \A m \in S \ {n} : \E k \in S \cap inputs[m] : \A j \in S : j > k => j >= m}

Length(S) == MapThenSumSet(Weight, S)

\* "Compute the critical path": the rank of a node is the length of the
\* longest chain of work and transfers it starts, and the path of successors
\* is such a chain, for any numbering that puts producers first.  Ranks lose
\* less than a unit per node that follows, so rank and path may fall short of
\* the longest chain by that much, and by no more; with times in whole units
\* both are exact.  (Targets move later, so it is compared before.)
RankNearLongestPath ==
  phase = "path" /\ visited = {} =>
    \A n \in Nodes :
      LET path    == PathFrom(n, successor)
          chains  == Chains(n)
          longest == Max({Length(S) : S \in chains})
      IN /\ path \in chains
         /\ rank[n] <= Length(path)
         /\ \E S \in chains :
              Length(S) = longest /\ longest - rank[n] <= (Unit - 1) * (Cardinality(S) - 1)

\* Clusters are what runs together on one target: a node is in the cluster of
\* a target only if it runs there, so it is in no two clusters.  (With one
\* start node; a node on one of several paths is taken up again by clusterG.)
ClusterIsTarget ==
  Cardinality(Starts) = 1 =>
    \A t \in Targets : \A n \in clusters[t] : target[n] = t
===========================================================================

-------------------------- MODULE LocalDataProofs --------------------------
(***************************************************************************)
(* For every graph, every measurement and every number of runs: ranks are  *)
(* near the longest paths, clusters are what runs together, stale data are *)
(* read only across a boundary from the host to the device that both sides *)
(* of which are in clusters, and the results are in host memory when a run *)
(* is over.                                                                *)
(*                                                                         *)
(* The argument about data does not look into the scheduler: until the     *)
(* flags are set nothing runs, and afterwards targets and clusters stay as *)
(* they are.  What is needed from registerForLocalOptimized is Registered: *)
(* a flag means what its comment says.  Then Current follows: what an      *)
(* executed node wrote is where its flag says it is.                       *)
(*                                                                         *)
(* The argument about clusters is OnePath: who has been placed is not      *)
(* listed again.  The one about ranks is Measured, shown from the last     *)
(* node to the first: a chain is its first node and a chain of a reader.   *)
(* Ranks, paths and sums are recursive functions; that there is one that   *)
(* satisfies its equation is shown step by step, with the least number of  *)
(* a set in place of an induction scheme.                                  *)
(***************************************************************************)
EXTENDS LocalData, FiniteSetTheorems, WellFoundedInduction, TLAPS

\* the flags of a scheduled graph
Registered ==
  /\ \A d \in Data : optimized[d] => IsLocal(d)
  /\ \A d \in Data : optimized[d] /\ NeedTransferBack(d) => back[d]

\* nothing runs before the graph is scheduled
Idle == phase # "scheduled" => run = 0 /\ \A d \in Data : ~optimized[d]

\* what an executed node wrote, and what the application wrote, is there
Current ==
  /\ \A n \in executed : \/ target[n] = Host /\ host[n] = run
                         \/ /\ target[n] = Device /\ device[n] = run
                            /\ IsDownloaded(n) => host[n] = run
  /\ run > 0 => \A d \in SrcData : host[d] = run

Types ==
  /\ executed \subseteq Nodes
  /\ inputs \in Graphs
  /\ run \in Nat
  /\ DOMAIN host = Data /\ DOMAIN device = Data
  /\ run = 0 => executed = {} /\ stale = {}

LInv == Types /\ Registered /\ Idle /\ Current /\ StaleOnlyAcross

---------------------------------------------------------------------------
(* Initial states and the steps before anything runs.                      *)

LEMMA InitLInv == LocalInit => LInv
  BY DEF LocalInit, Init, LInv, Types, Registered, Idle, Current, StaleOnlyAcross

\* The scheduler's own steps leave the data alone, and a graph they work on is
\* not scheduled yet.
LEMMA ScheduleFrame ==
  ASSUME Schedule PROVE phase # "scheduled" /\ UNCHANGED inputs
  BY DEF Schedule, Priority, Assign, Rank, ClusterCP, ClusterG, graphVars

LEMMA ScheduleKeeps ==
  ASSUME LInv, Schedule, UNCHANGED dataVars PROVE LInv'
<1>1. phase # "scheduled" /\ UNCHANGED inputs
  BY ScheduleFrame
<1>2. run = 0 /\ (\A d \in Data : ~optimized[d]) /\ executed = {} /\ stale = {}
  BY <1>1 DEF LInv, Idle, Types
<1>3. /\ run' = 0 /\ (\A d \in Data : ~optimized'[d]) /\ executed' = {} /\ stale' = {}
      /\ host' = host /\ device' = device /\ run' = run
  BY <1>2 DEF dataVars, flags, copies, progress
<1>4. Types'
  BY <1>1, <1>3 DEF LInv, Types
<1>5. Registered' /\ Idle' /\ Current' /\ StaleOnlyAcross'
  BY <1>3 DEF Registered, Idle, Current, StaleOnlyAcross
<1> QED BY <1>4, <1>5 DEF LInv

\* registerForLocalOptimized sets the flags by targets and clusters it leaves
\* alone.
LEMMA RegisterKeeps ==
  ASSUME LInv, Register PROVE LInv'
<1>1. phase # "scheduled"
  BY DEF Register, Coarsened
<1>2. run = 0 /\ executed = {} /\ stale = {}
  BY <1>1 DEF LInv, Idle, Types
<1>3. /\ UNCHANGED <<inputs, target, clusters>>
      /\ run' = 0 /\ executed' = {} /\ stale' = {}
      /\ host' = host /\ device' = device /\ phase' = "scheduled"
      /\ optimized' = [d \in Data |-> IsLocal(d)]
      /\ back' = [d \in Data |-> IsLocal(d) => NeedTransferBack(d)]
  BY <1>2 DEF Register, graphVars, copies, progress
<1>4. \A d \in Data : IsLocal(d)' = IsLocal(d) /\ NeedTransferBack(d)' = NeedTransferBack(d)
  BY <1>3 DEF IsLocal, NeedTransferBack, InCluster, Readers
<1>5. Registered'
  BY <1>3, <1>4 DEF Registered
<1>6. Types'
  BY <1>3 DEF LInv, Types
<1>7. Idle' /\ Current' /\ StaleOnlyAcross'
  BY <1>3 DEF Idle, Current, StaleOnlyAcross
<1> QED BY <1>5, <1>6, <1>7 DEF LInv

---------------------------------------------------------------------------
(* The steps of a run.  Targets, clusters and flags stay.                  *)

Frozen == UNCHANGED <<vars, flags>>

LEMMA FrozenKeeps ==
  ASSUME LInv, Frozen PROVE Registered' /\ (UNCHANGED <<inputs, target, clusters, phase, optimized, back>>)
<1>1. UNCHANGED <<inputs, target, clusters, phase, optimized, back>>
  BY DEF Frozen, vars, flags, graphVars
<1>2. \A d \in Data : IsLocal(d)' = IsLocal(d) /\ NeedTransferBack(d)' = NeedTransferBack(d)
  BY <1>1 DEF IsLocal, NeedTransferBack, InCluster, Readers
<1> QED BY <1>1, <1>2 DEF LInv, Registered

LEMMA StartRunKeeps ==
  ASSUME LInv, StartRun PROVE LInv'
<1>1. /\ Frozen /\ UNCHANGED <<device, stale>> /\ phase = "scheduled"
      /\ run' = run + 1 /\ executed' = {} /\ run \in Nat
      /\ host' = [d \in Data |-> IF d \in SrcData THEN run + 1 ELSE host[d]]
  BY DEF StartRun, Frozen, LInv, Types
<1>2. Registered' /\ (UNCHANGED <<inputs, target, clusters, phase, optimized, back>>)
  BY <1>1, FrozenKeeps
<1>3. Types'
  BY <1>1, <1>2 DEF LInv, Types
<1>4. Idle' /\ Current'
  BY <1>1, <1>2 DEF Idle, Current, Data
<1>5. StaleOnlyAcross'
  BY <1>1, <1>2 DEF LInv, StaleOnlyAcross, InCluster
<1> QED BY <1>2, <1>3, <1>4, <1>5 DEF LInv

\* What a ready node reads, wherever it looks: host memory if it runs on the
\* host, or on the device if the data are uploaded; else device memory.
LEMMA HostIsCurrent ==
  ASSUME LInv, NEW n \in Nodes, Ready(n), NEW d \in inputs[n],
         d \in Written /\ target[d] = Device =>
           (optimized[d] => target[n] = Host)
  PROVE  d \in Data /\ host[d] = run
<1>1. run > 0 /\ d \in Data /\ (d \in Written => d \in executed)
  BY CoarsenAssumption DEF Ready, LInv, Types, Data, Written, Nodes
<1>2. CASE d \in SrcData
  BY <1>1, <1>2 DEF LInv, Current
<1>3. CASE d \notin SrcData
  <2>1. d \in Written /\ d \in executed
    BY <1>1, <1>3 DEF Data, Written
  <2>2. CASE target[d] = Host
    BY <2>1, <2>2, <1>1, CoarsenAssumption DEF LInv, Current
  <2>3. CASE target[d] = Device
    <3>1. optimized[d] => NeedTransferBack(d)
      BY <2>1, <2>3, CoarsenAssumption DEF NeedTransferBack, Readers
    <3>2. IsDownloaded(d)
      BY <3>1, <1>1 DEF IsDownloaded, LInv, Registered
    <3> QED BY <2>1, <2>3, <3>2, <1>1, CoarsenAssumption DEF LInv, Current
  <2> QED BY <2>1, <2>2, <2>3 DEF LInv, Current
<1> QED BY <1>2, <1>3

LEMMA OnHostKeeps ==
  ASSUME LInv, NEW n \in Nodes, ExecuteOnHost(n) PROVE LInv'
<1>1. /\ Frozen /\ UNCHANGED <<device, run>> /\ target[n] = Host /\ Ready(n)
      /\ stale' = stale \cup StaleIn(n, host)
      /\ host' = [host EXCEPT ![n] = run] /\ executed' = executed \cup {n}
  BY DEF ExecuteOnHost, Frozen
<1>2. Registered' /\ (UNCHANGED <<inputs, target, clusters, phase, optimized, back>>)
  BY <1>1, FrozenKeeps
<1>3. StaleIn(n, host) = {}
  BY <1>1, HostIsCurrent DEF StaleIn
<1>4. Types'
  BY <1>1, <1>2, <1>3 DEF LInv, Types, Ready
<1>5. Idle'
  BY <1>1, <1>2 DEF LInv, Idle
<1>6. host'[n] = run /\ (\A d \in Data : d # n => host'[d] = host[d]) /\ n \notin SrcData
  BY <1>1, CoarsenAssumption DEF LInv, Types, Data
<1>7. Current'
  <2>1. \A d \in SrcData : host'[d] = host[d]
    BY <1>6 DEF Data
  <2>2. \A m \in executed : m # n => host'[m] = host[m]
    BY <1>6 DEF Data, LInv, Types
  <2>3. \A m \in Nodes : IsDownloaded(m)' = IsDownloaded(m)
    BY <1>2 DEF IsDownloaded
  <2> QED BY <1>1, <1>2, <1>6, <2>1, <2>2, <2>3 DEF LInv, Current, Types, Ready
<1>8. StaleOnlyAcross'
  BY <1>1, <1>2, <1>3 DEF LInv, StaleOnlyAcross, InCluster
<1> QED BY <1>2, <1>4, <1>5, <1>7, <1>8 DEF LInv

LEMMA DeviceIsCurrent ==
  ASSUME LInv, NEW n \in Nodes, Ready(n), target[n] = Device, NEW d \in inputs[n],
         Uploaded(n)[d] # run
  PROVE  d \in Written /\ target[d] = Host /\ InCluster(n) /\ InCluster(d)
<1>1. run > 0 /\ d \in Data /\ (d \in Written => d \in executed)
  BY CoarsenAssumption DEF Ready, LInv, Types, Data, Written, Nodes
<1>2. optimized[d]
  <2>1. SUFFICES ASSUME ~optimized[d] PROVE FALSE
    OBVIOUS
  <2>2. Uploaded(n)[d] = host[d]
    BY <2>1, <1>1 DEF Uploaded, IsUploaded
  <2> QED BY <2>1, <2>2, HostIsCurrent
<1>3. IsLocal(d) /\ Uploaded(n)[d] = device[d]
  BY <1>1, <1>2 DEF LInv, Registered, Uploaded, IsUploaded
<1>4. d \in Written /\ InCluster(d) /\ InCluster(n)
  BY <1>3 DEF IsLocal, Readers
<1>5. target[d] = Host
  BY <1>1, <1>3, <1>4 DEF LInv, Current
<1> QED BY <1>4, <1>5

LEMMA OnDeviceKeeps ==
  ASSUME LInv, NEW n \in Nodes, ExecuteOnDevice(n) PROVE LInv'
<1>1. /\ Frozen /\ UNCHANGED run /\ target[n] = Device /\ Ready(n)
      /\ stale' = stale \cup StaleIn(n, Uploaded(n))
      /\ device' = [Uploaded(n) EXCEPT ![n] = run]
      /\ host' = [host EXCEPT ![n] = IF IsDownloaded(n) THEN run ELSE @]
      /\ executed' = executed \cup {n}
  BY DEF ExecuteOnDevice, Frozen
<1>2. Registered' /\ (UNCHANGED <<inputs, target, clusters, phase, optimized, back>>)
  BY <1>1, FrozenKeeps
<1>3. Types'
  BY <1>1, <1>2 DEF LInv, Types, Ready, Uploaded
<1>4. Idle'
  BY <1>1, <1>2 DEF LInv, Idle
<1>5. \A m \in Nodes : IsDownloaded(m)' = IsDownloaded(m)
  BY <1>2 DEF IsDownloaded
<1>6. n \in Data /\ n \notin SrcData
  BY CoarsenAssumption DEF Data
<1>7. \A d \in Data : d # n => host'[d] = host[d] /\ device'[d] = Uploaded(n)[d]
  BY <1>1 DEF LInv, Types, Uploaded
<1>8. device'[n] = run /\ (IsDownloaded(n) => host'[n] = run)
  BY <1>1, <1>6 DEF LInv, Types, Uploaded
<1>9. \A m \in executed : target[m] = Device => Uploaded(n)[m] = run
  <2>1. SUFFICES ASSUME NEW m \in executed, target[m] = Device
                 PROVE  Uploaded(n)[m] = run
    OBVIOUS
  <2>2. m \in Data /\ m \in Nodes /\ device[m] = run /\ (IsDownloaded(m) => host[m] = run)
    BY <2>1, CoarsenAssumption DEF LInv, Types, Current, Data
  <2>3. ~optimized[m] => IsDownloaded(m)
    BY DEF IsDownloaded
  <2> QED BY <2>2, <2>3 DEF Uploaded, IsUploaded
<1>10. Current'
  <2>1. \A d \in SrcData : host'[d] = host[d]
    BY <1>6, <1>7 DEF Data
  <2>2. \A m \in executed : m # n => host'[m] = host[m] /\ device'[m] = Uploaded(n)[m]
    BY <1>7 DEF Data, LInv, Types
  <2> QED BY <1>1, <1>2, <1>5, <1>8, <1>9, <2>1, <2>2 DEF LInv, Current, Types, Ready
<1>11. StaleOnlyAcross'
  <2>1. \A d \in inputs[n] : Uploaded(n)[d] # run =>
           d \in Written /\ target[d] = Host /\ InCluster(n) /\ InCluster(d)
    BY <1>1, DeviceIsCurrent
  <2>2. \A s \in StaleIn(n, Uploaded(n)) :
           s.node = n /\ s.data \in inputs[n] /\ Uploaded(n)[s.data] # run
    BY DEF StaleIn
  <2> QED BY <1>1, <1>2, <2>1, <2>2 DEF LInv, StaleOnlyAcross, InCluster, StaleIn
<1> QED BY <1>2, <1>3, <1>4, <1>10, <1>11 DEF LInv

---------------------------------------------------------------------------
(* The theorems.                                                           *)

LEMMA StutterKeeps == ASSUME LInv, UNCHANGED allVars PROVE LInv'
<1>1. UNCHANGED <<inputs, target, clusters, phase, optimized, back, host, device, run, executed, stale>>
  BY DEF allVars, vars, dataVars, flags, copies, progress, graphVars
<1>2. \A d \in Data : IsLocal(d)' = IsLocal(d) /\ NeedTransferBack(d)' = NeedTransferBack(d)
  BY <1>1 DEF IsLocal, NeedTransferBack, InCluster, Readers
<1>3. Registered' /\ Idle' /\ Types'
  BY <1>1, <1>2 DEF LInv, Registered, Idle, Types
<1>4. Current' /\ StaleOnlyAcross'
  BY <1>1 DEF LInv, Current, StaleOnlyAcross, InCluster, IsDownloaded
<1> QED BY <1>3, <1>4 DEF LInv

LEMMA NextLInv == LInv /\ [LocalNext]_allVars => LInv'
  BY ScheduleKeeps, RegisterKeeps, StartRunKeeps, OnHostKeeps, OnDeviceKeeps, StutterKeeps
     DEF LocalNext

\* The inductive invariant of a scheduled graph's execution.
THEOREM LocalInv == LocalSpec => []LInv
  BY InitLInv, NextLInv, PTL DEF LocalSpec

\* A kernel reads data of another run only across a boundary from the host to
\* the device, between two nodes of clusters.
THEOREM Boundary == LocalSpec => []StaleOnlyAcross
<1>1. LInv => StaleOnlyAcross
  BY DEF LInv
<1> QED BY <1>1, LocalInv, PTL

\* When a run is over, the results and whatever crosses a boundary are in host
\* memory.
THEOREM Results == LocalSpec => []ResultsComeBack
<1>1. LInv => ResultsComeBack
  <2>1. SUFFICES ASSUME LInv, run > 0, executed = Nodes, NEW d \in Written,
                        Readers(d) = {} \/ (\E r \in Readers(d) : target[r] # target[d])
                 PROVE  host[d] = run
    BY DEF ResultsComeBack
  <2>2. d \in executed /\ d \in Data
    BY <2>1 DEF Written, Data
  <2>3. IsDownloaded(d)
    BY <2>1, <2>2 DEF LInv, Registered, IsLocal, NeedTransferBack, IsDownloaded
  <2> QED BY <2>1, <2>2, <2>3 DEF LInv, Current
<1> QED BY <1>1, LocalInv, PTL

---------------------------------------------------------------------------
(* Numbers.                                                                *)

LEMMA LeastNumber ==
  ASSUME NEW S \in SUBSET Nat, S # {}
  PROVE  \E x \in S : \A y \in S : x <= y
<1>1. PICK x \in S : \A y \in S : ~(<<y, x>> \in OpToRel(<, Nat))
  BY NatLessThanWellFounded, WFMin, Zenon
<1>2. \A y \in S : ~(y < x)
  BY <1>1 DEF OpToRel
<1> QED BY <1>2

\* Induction over a set of numbers that a step does not leave.
LEMMA StepByStep ==
  ASSUME NEW S \in SUBSET Nat, 0 \in S, \A k \in S : k + 1 \in S
  PROVE  S = Nat
<1>1. SUFFICES ASSUME Nat \ S # {} PROVE FALSE
  OBVIOUS
<1>2. PICK x \in Nat \ S : \A y \in Nat \ S : x <= y
  BY <1>1, LeastNumber
<1>3. x - 1 \in S
  BY <1>2
<1> QED BY <1>2, <1>3

---------------------------------------------------------------------------
(* Paths.  PathFrom is a function on 0..N defined by recursion; that there *)
(* is one is shown step by step.                                           *)

Extends(f, k, n, s) ==
  IF k = 0 THEN {n} ELSE f[k - 1] \cup ({s[m] : m \in f[k - 1]} \ {Nobody})

IsReach(f, n, s, K) == f = [k \in 0..K |-> Extends(f, k, n, s)]

LEMMA ReachExists ==
  ASSUME NEW n, NEW s, NEW K \in Nat
  PROVE  \E f : IsReach(f, n, s, K)
<1> DEFINE R == {k \in Nat : \E f : IsReach(f, n, s, k)}
<1>1. 0 \in R
  <2>1. IsReach([k \in 0..0 |-> {n}], n, s, 0)
    BY DEF IsReach, Extends
  <2> QED BY <2>1
<1>2. ASSUME NEW k \in R PROVE k + 1 \in R
  <2>1. k \in Nat
    OBVIOUS
  <2>2. PICK f : IsReach(f, n, s, k)
    OBVIOUS
  <2> DEFINE last == f[k] \cup ({s[m] : m \in f[k]} \ {Nobody})
             g    == [j \in 0..(k + 1) |-> IF j = k + 1 THEN last ELSE f[j]]
  <2>3. \A j \in 0..k : f[j] = Extends(f, j, n, s)
    BY <2>2 DEF IsReach
  <2>4. \A j \in 0..(k + 1) : g[j] = Extends(g, j, n, s)
    <3>1. SUFFICES ASSUME NEW j \in 0..(k + 1) PROVE g[j] = Extends(g, j, n, s)
      OBVIOUS
    <3>2. CASE j = k + 1
      <4>1. g[j - 1] = f[k] /\ g[j] = last /\ j # 0
        BY <2>1, <3>2
      <4> QED BY <4>1 DEF Extends
    <3>3. CASE j # k + 1
      <4>1. g[j] = f[j] /\ j \in 0..k /\ (j # 0 => g[j - 1] = f[j - 1])
        BY <2>1, <3>3
      <4> QED BY <4>1, <2>3 DEF Extends
    <3> QED BY <3>2, <3>3
  <2>5. IsReach(g, n, s, k + 1)
    BY <2>4 DEF IsReach
  <2> QED BY <2>1, <2>5
<1> HIDE DEF R
<1>3. R \in SUBSET Nat
  BY DEF R
<1>4. R = Nat
  BY <1>1, <1>2, <1>3, StepByStep
<1> QED BY <1>4 DEF R

LEMMA PathIsReach ==
  ASSUME NEW n, NEW s
  PROVE  \E f : PathFrom(n, s) = f[N] /\ \A k \in 0..N : f[k] = Extends(f, k, n, s)
<1> DEFINE g == CHOOSE h : h = [k \in 0..N |->
                  IF k = 0 THEN {n} ELSE h[k - 1] \cup ({s[m] : m \in h[k - 1]} \ {Nobody})]
<1>1. \E f : IsReach(f, n, s, N)
  BY ReachExists, CoarsenAssumption
<1>2. g = [k \in 0..N |->
             IF k = 0 THEN {n} ELSE g[k - 1] \cup ({s[m] : m \in g[k - 1]} \ {Nobody})]
  BY <1>1, Zenon DEF IsReach, Extends
<1>3. PathFrom(n, s) = g[N]
  BY Zenon DEF PathFrom
<1> HIDE DEF g
<1>4. \A k \in 0..N : g[k] = Extends(g, k, n, s)
  BY <1>2 DEF Extends
<1> QED BY <1>3, <1>4

\* What is kept by a step along the successors holds of a whole path.
LEMMA PathStays ==
  ASSUME NEW n, NEW s, NEW A, n \in A, \A m \in A : s[m] \in A \cup {Nobody}
  PROVE  PathFrom(n, s) \subseteq A
<1>1. PICK f : PathFrom(n, s) = f[N] /\ \A k \in 0..N : f[k] = Extends(f, k, n, s)
  BY PathIsReach
<1> DEFINE R == {k \in Nat : k <= N => f[k] \subseteq A}
<1>2. 0 \in R
  <2>1. 0 \in 0..N
    BY CoarsenAssumption
  <2> QED BY <1>1, <2>1 DEF Extends
<1>3. ASSUME NEW k \in R PROVE k + 1 \in R
  <2>1. SUFFICES ASSUME k + 1 <= N PROVE f[k + 1] \subseteq A
    OBVIOUS
  <2>2. k \in 0..N /\ k + 1 \in 0..N /\ f[k] \subseteq A /\ (k + 1) - 1 = k /\ k + 1 # 0
    BY <2>1, CoarsenAssumption
  <2>3. f[k + 1] = f[k] \cup ({s[m] : m \in f[k]} \ {Nobody})
    BY <1>1, <2>2 DEF Extends
  <2> QED BY <2>2, <2>3
<1> HIDE DEF R
<1>4. R \in SUBSET Nat
  BY DEF R
<1>5. R = Nat
  BY <1>2, <1>3, <1>4, StepByStep
<1> QED BY <1>1, <1>5, CoarsenAssumption DEF R

LEMMA LeastIsIn == ASSUME NEW S \in SUBSET Nat, S # {} PROVE Min(S) \in S
  BY LeastNumber DEF Min

LEMMA SuccessorType ==
  ASSUME NEW n, NEW r PROVE Successor(n, r) \in Nodes \cup {Nobody}
<1> DEFINE best == {m \in Readers(n) : r[m] = BestRank(n, r)}
<1>1. best \in SUBSET Nat /\ best \subseteq Nodes
  BY CoarsenAssumption DEF Readers, Nodes
<1>2. Successor(n, r) = IF best = {} THEN Nobody ELSE Min(best)
  BY DEF Successor
<1> HIDE DEF best
<1> QED BY <1>1, <1>2, LeastIsIn

---------------------------------------------------------------------------
(* What the scheduler keeps.                                               *)

SchedulerTypes ==
  /\ inputs \in Graphs
  /\ profile \in [Nodes -> Profiles]
  /\ phase \in {"assign", "rank", "path", "scheduled"}
  /\ target \in [Nodes -> Targets]
  /\ todo \in [Nodes -> Nat]
  /\ visited \subseteq Nodes
  /\ clusters \in [Targets -> SUBSET Nodes]
  /\ \A l \in lamdas : Pair(l) \subseteq Nodes

\* clusters are made on paths only
NotYet == phase \in {"assign", "rank"} => lamdas = {} /\ \A t \in Targets : clusters[t] = {}

\* With one start node there is one path: its nodes are not listed again, and
\* the others are listed once.  So who is in a cluster has been visited, and
\* is not moved any more.
OnePath ==
  Cardinality(Starts) = 1 /\ phase = "path" =>
    /\ \A n \in Nodes : todo[n] \in {0, 1}
    /\ \A l \in lamdas : \A n \in Pair(l) : todo[n] = 0
    /\ \A t \in Targets : \A n \in clusters[t] : n \in visited /\ todo[n] = 0

CInv == SchedulerTypes /\ NotYet /\ OnePath /\ ClusterIsTarget

LEMMA InitCInv == Init => CInv
<1>1. SUFFICES ASSUME Init PROVE CInv
  OBVIOUS
<1>2. SchedulerTypes
  BY <1>1 DEF Init, SchedulerTypes, Targets
<1> QED BY <1>1, <1>2 DEF Init, CInv, NotYet, OnePath, ClusterIsTarget

\* The graph and the measurements stay, and what is computed from them.
LEMMA SameGraph ==
  ASSUME UNCHANGED graphVars
  PROVE  inputs' = inputs /\ profile' = profile /\ Starts' = Starts
  BY DEF graphVars, Starts

LEMMA PriorityKeepsC ==
  ASSUME CInv, NEW t \in Targets, Priority(t) PROVE CInv'
<1>1. /\ phase = "assign" /\ phase' = "scheduled" /\ target' = [n \in Nodes |-> t]
      /\ UNCHANGED <<graphVars, lamdas, todo, visited, clusters>>
  BY DEF Priority
<1>2. \A u \in Targets : clusters[u] = {}
  BY <1>1 DEF CInv, NotYet
<1>3. SchedulerTypes'
  BY <1>1, SameGraph DEF CInv, SchedulerTypes, Pair
<1>4. NotYet' /\ OnePath'
  BY <1>1 DEF NotYet, OnePath
<1> QED BY <1>1, <1>2, <1>3, <1>4 DEF CInv, ClusterIsTarget

LEMMA AssignKeepsC == ASSUME CInv, Assign PROVE CInv'
<1>1. /\ phase = "assign" /\ phase' = "rank"
      /\ target' = [n \in Nodes |-> FastestTarget(n)]
      /\ UNCHANGED <<graphVars, lamdas, todo, visited, clusters>>
  BY DEF Assign
<1>2. lamdas = {} /\ \A u \in Targets : clusters[u] = {}
  BY <1>1 DEF CInv, NotYet
<1>3. \A n \in Nodes : FastestTarget(n) \in Targets
  BY DEF FastestTarget, Targets
<1>4. SchedulerTypes'
  BY <1>1, <1>3, SameGraph DEF CInv, SchedulerTypes, Pair
<1>5. NotYet' /\ OnePath'
  BY <1>1, <1>2 DEF NotYet, OnePath
<1> QED BY <1>1, <1>2, <1>4, <1>5 DEF CInv, ClusterIsTarget

---------------------------------------------------------------------------
(* The paths are found.                                                    *)

LEMMA FewStarts ==
  /\ IsFiniteSet(Nodes) /\ IsFiniteSet(Starts)
  /\ Cardinality(Starts) \in Nat /\ Cardinality(Starts) <= N
<1>1. IsFiniteSet(Nodes) /\ Cardinality(Nodes) = N
  BY FS_Interval, CoarsenAssumption DEF Nodes
<1>2. Starts \in SUBSET Nodes
  BY DEF Starts
<1> QED BY <1>1, <1>2, FS_Subset, FS_CardinalityType

LEMMA PairOnPath ==
  ASSUME NEW p, NEW l \in LamdasOf(p), p \subseteq Nodes
  PROVE  Pair(l) \subseteq p /\ Pair(l) # {}
<1> DEFINE sources  == UNION {{Lamda(d, Nobody, r) : d \in inputs[r] \cap SrcData} : r \in p}
           results  == {Lamda(w, w, Nobody) : w \in {n \in p : Readers(n) = {}}}
           between  == UNION {{Lamda(w, w, r) : w \in inputs[r] \cap p} : r \in p}
<1>1. LamdasOf(p) = sources \cup results \cup between
  BY DEF LamdasOf
<1>2. Nobody \notin p
  BY CoarsenAssumption DEF Nodes, Nobody
<1>3. CASE l \in sources
  BY <1>2, <1>3 DEF Lamda, Pair
<1>4. CASE l \in results
  BY <1>2, <1>4 DEF Lamda, Pair
<1>5. CASE l \in between
  BY <1>2, <1>5 DEF Lamda, Pair
<1> HIDE DEF sources, results, between
<1> QED BY <1>1, <1>3, <1>4, <1>5

LEMMA RankKeepsC == ASSUME CInv, Rank PROVE CInv'
<1> DEFINE s == [n \in Nodes |-> Successor(n, Ranks)]
           missed(n) == {i \in 1..Cardinality(Starts) : n \notin PathFrom(i, s)}
<1>1. /\ phase = "rank" /\ phase' = "path"
      /\ lamdas' = UNION {LamdasOf(p) : p \in CriticalPaths(s)}
      /\ todo' = [n \in Nodes |-> Cardinality(missed(n))]
      /\ UNCHANGED <<graphVars, target, visited, clusters>>
  BY DEF Rank
<1>2. \A u \in Targets : clusters[u] = {}
  BY <1>1 DEF CInv, NotYet
<1>3. \A m \in Nodes : s[m] \in Nodes \cup {Nobody}
  BY SuccessorType
<1> HIDE DEF s
<1>4. 1..Cardinality(Starts) \subseteq Nodes
  BY FewStarts, CoarsenAssumption DEF Nodes
<1>5. \A p \in CriticalPaths(s) : p \subseteq Nodes
  BY <1>3, <1>4, PathStays DEF CriticalPaths
<1>6. \A l \in lamdas' : \E p \in CriticalPaths(s) : p \subseteq Nodes /\ Pair(l) \subseteq p
  BY <1>1, <1>5, PairOnPath
<1>7. \A n \in Nodes : Cardinality(missed(n)) \in Nat
  <2>1. IsFiniteSet(1..Cardinality(Starts))
    BY FewStarts, FS_Interval
  <2>2. \A n \in Nodes : missed(n) \in SUBSET (1..Cardinality(Starts))
    OBVIOUS
  <2> HIDE DEF missed
  <2> QED BY <2>1, <2>2, FS_Subset, FS_CardinalityType
<1>8. SchedulerTypes'
  BY <1>1, <1>6, <1>7, SameGraph DEF CInv, SchedulerTypes, Pair
<1>9. ASSUME Cardinality(Starts) = 1
      PROVE  \A n \in Nodes : todo'[n] = IF n \in PathFrom(1, s) THEN 0 ELSE 1
  <2>1. \A n \in Nodes : missed(n) = IF n \in PathFrom(1, s) THEN {} ELSE {1}
    BY <1>9
  <2> QED BY <1>1, <2>1, FS_EmptySet, FS_Singleton
<1>10. OnePath'
  <2>1. SUFFICES ASSUME Cardinality(Starts) = 1
                 PROVE  /\ \A n \in Nodes : todo'[n] \in {0, 1}
                        /\ \A l \in lamdas' : \A n \in Pair(l) : todo'[n] = 0
    BY <1>1, <1>2, SameGraph DEF OnePath, Pair
  <2>2. CriticalPaths(s) = {PathFrom(1, s)}
    BY <2>1 DEF CriticalPaths
  <2> QED BY <1>6, <1>9, <2>1, <2>2
<1>11. NotYet' /\ ClusterIsTarget'
  BY <1>1, <1>2 DEF NotYet, ClusterIsTarget
<1> QED BY <1>8, <1>10, <1>11 DEF CInv

---------------------------------------------------------------------------
(* Neighbours on the path are placed together.                             *)

\* a pair of two nodes is two nodes
LEMMA TwoNodes ==
  ASSUME NEW l, ~(Cardinality(Pair(l)) < 2)
  PROVE  l.writer # Nobody /\ l.reader # Nobody /\ l.writer # l.reader
<1>1. SUFFICES ASSUME l.writer = Nobody \/ l.reader = Nobody \/ l.writer = l.reader
               PROVE  FALSE
  OBVIOUS
<1>2. Pair(l) = {} \/ Pair(l) = {l.writer} \/ Pair(l) = {l.reader}
  BY <1>1 DEF Pair
<1>3. Cardinality(Pair(l)) = 0 \/ Cardinality(Pair(l)) = 1
  BY <1>2, FS_EmptySet, FS_Singleton, Zenon
<1> QED BY <1>3

\* the three outcomes of clusterCP for a data object
LEMMA ThreeWays ==
  ASSUME ClusterCP
  PROVE  \E l \in Best(lamdas) :
           /\ phase = "path"
           /\ lamdas' = lamdas \ {l} /\ visited' = visited \cup Pair(l)
           /\ \/ UNCHANGED <<target, clusters>>
              \/ target[l.writer] = target[l.reader] /\ Together(l)
              \/ ~(Cardinality(Pair(l)) < 2) /\ Worthwhile(l) /\ Join(l)
  BY Zenon DEF ClusterCP

\* Whoever moves has not been visited before.
LEMMA MoverIsNew ==
  ASSUME SchedulerTypes, NEW l, Pair(l) \subseteq Nodes,
         ~(Cardinality(Pair(l)) < 2), Worthwhile(l)
  PROVE  Cheapest(l) \in Moves(l)
<1>1. /\ Moves(l) # {} /\ l.writer \in Nodes /\ l.reader \in Nodes /\ l.writer # l.reader
  BY TwoNodes DEF Worthwhile, Pair
<1>2. Moves(l) \subseteq {<<l.writer, l.reader>>, <<l.reader, l.writer>>}
  BY DEF Moves
<1>3. CASE <<l.reader, l.writer>> \in Moves(l)
  BY <1>1, <1>2, <1>3 DEF Cheapest
<1>4. CASE <<l.reader, l.writer>> \notin Moves(l)
  <2>1. Moves(l) = {<<l.writer, l.reader>>}
    BY <1>1, <1>2, <1>4
  <2>2. Cost(<<l.writer, l.reader>>) <= Cost(<<l.writer, l.reader>>)
    <3>1. target[l.writer] \in Targets /\ target[l.reader] \in Targets /\ profile[l.writer] \in Profiles
      BY <1>1 DEF SchedulerTypes
    <3>2. Comp(l.writer, target[l.reader]) \in Nat /\ Comp(l.writer, target[l.writer]) \in Nat
      BY <3>1, CoarsenAssumption DEF Comp
    <3> QED BY <3>2 DEF Cost, Slower
  <2>3. Cheapest(l) = <<l.writer, l.reader>>
    BY <2>1, <2>2 DEF Cheapest
  <2> QED BY <2>1, <2>3
<1> QED BY <1>3, <1>4

LEMMA ClusterCPKeepsC == ASSUME CInv, ClusterCP PROVE CInv'
<1>1. /\ phase = "path" /\ UNCHANGED <<graphVars, phase, todo>>
  BY DEF ClusterCP
<1>2. PICK l \in Best(lamdas) :
           /\ lamdas' = lamdas \ {l} /\ visited' = visited \cup Pair(l)
           /\ \/ UNCHANGED <<target, clusters>>
              \/ target[l.writer] = target[l.reader] /\ Together(l)
              \/ ~(Cardinality(Pair(l)) < 2) /\ Worthwhile(l) /\ Join(l)
  BY ThreeWays
<1>3. l \in lamdas /\ Pair(l) \subseteq Nodes
  BY DEF Best, CInv, SchedulerTypes
<1>4. Cardinality(Starts) = 1 => \A n \in Pair(l) : todo[n] = 0
  BY <1>1, <1>3 DEF CInv, OnePath
\* enough to follow targets and clusters
<1>5. SUFFICES /\ target' \in [Nodes -> Targets] /\ clusters' \in [Targets -> SUBSET Nodes]
               /\ \A t \in Targets : clusters'[t] \subseteq clusters[t] \cup Pair(l)
               /\ ClusterIsTarget'
  <2>1. ASSUME target' \in [Nodes -> Targets], clusters' \in [Targets -> SUBSET Nodes]
        PROVE  SchedulerTypes'
    BY <1>1, <1>2, <1>3, <2>1, SameGraph DEF CInv, SchedulerTypes, Pair
  <2>2. ASSUME \A t \in Targets : clusters'[t] \subseteq clusters[t] \cup Pair(l)
        PROVE  OnePath'
    BY <1>1, <1>2, <1>4, <2>2, SameGraph DEF CInv, OnePath, Pair
  <2>3. NotYet'
    BY <1>1 DEF NotYet
  <2> QED BY <2>1, <2>2, <2>3 DEF CInv
<1>6. CASE UNCHANGED <<target, clusters>>
  BY <1>1, <1>6, SameGraph DEF CInv, SchedulerTypes, ClusterIsTarget
<1>7. CASE target[l.writer] = target[l.reader] /\ Together(l)
  <2>1. /\ target' = target
        /\ clusters' = [clusters EXCEPT ![target[l.writer]] = @ \cup Pair(l)]
    BY <1>7 DEF Together
  <2>2. \A n \in Pair(l) : target[n] = target[l.writer]
    BY <1>7 DEF Pair
  <2>3. clusters \in [Targets -> SUBSET Nodes] /\ target \in [Nodes -> Targets]
    BY DEF CInv, SchedulerTypes
  <2>4. \A t \in Targets : clusters'[t] =
           IF t = target[l.writer] THEN clusters[t] \cup Pair(l) ELSE clusters[t]
    BY <2>1, <2>3
  <2>5. clusters' \in [Targets -> SUBSET Nodes]
    BY <2>1, <2>3, <1>3
  <2> QED BY <1>1, <2>1, <2>2, <2>3, <2>4, <2>5, SameGraph DEF CInv, ClusterIsTarget
<1>8. CASE ~(Cardinality(Pair(l)) < 2) /\ Worthwhile(l) /\ Join(l)
  <2>1. Cheapest(l) \in Moves(l)
    BY <1>3, <1>8, MoverIsNew DEF CInv
  <2>2. PICK m, k : /\ Cheapest(l) = <<m, k>> /\ m \notin visited
                    /\ m \in Nodes /\ k \in Nodes /\ m # k /\ Pair(l) = {m, k}
    BY <1>3, <1>8, <2>1, TwoNodes DEF Moves, Pair
  <2>3. /\ target' = [target EXCEPT ![m] = target[k]]
        /\ clusters' = [clusters EXCEPT ![target[k]] = @ \cup {m, k}]
    BY <1>8, <2>2 DEF Join
  <2>4. clusters \in [Targets -> SUBSET Nodes] /\ target \in [Nodes -> Targets]
    BY DEF CInv, SchedulerTypes
  <2>5. /\ target'[m] = target[k] /\ target'[k] = target[k]
        /\ \A n \in Nodes \ {m} : target'[n] = target[n]
        /\ target[k] \in Targets /\ target' \in [Nodes -> Targets]
    BY <2>2, <2>3, <2>4
  <2>6. /\ \A t \in Targets : clusters'[t] =
               IF t = target[k] THEN clusters[t] \cup {m, k} ELSE clusters[t]
        /\ clusters' \in [Targets -> SUBSET Nodes]
    BY <2>2, <2>3, <2>4
  <2>7. ASSUME Cardinality(Starts) = 1, NEW t \in Targets, NEW n \in clusters[t]
        PROVE  n # m /\ n \in Nodes /\ target[n] = t
    BY <1>1, <2>2, <2>4, <2>7 DEF CInv, OnePath, ClusterIsTarget
  <2>8. ClusterIsTarget'
    BY <1>1, <2>2, <2>5, <2>6, <2>7, SameGraph DEF ClusterIsTarget
  <2> QED BY <2>2, <2>5, <2>6, <2>8
<1> QED BY <1>2, <1>6, <1>7, <1>8

---------------------------------------------------------------------------
(* The other nodes are placed.                                             *)

\* The dearest transfer of a node with a node next to it leads to a node: one
\* to or from the application's data has only the node's own share.
LEMMA ResideIsTarget ==
  ASSUME SchedulerTypes, NEW n \in Nodes, Elsewhere(n) # {}, NEW l \in Best(Around(n))
  PROVE  Reside(n, l) \in Targets
<1>1. /\ target \in [Nodes -> Targets]
      /\ inputs[n] \subseteq SrcData \cup 1..(n - 1) /\ SrcData \cap Nodes = {}
      /\ 1..(n - 1) \subseteq Nodes
  BY CoarsenAssumption DEF SchedulerTypes, Nodes
<1>2. \A m \in Nodes : Share(m) \in Nat \ {0}
  <2>1. SUFFICES ASSUME NEW m \in Nodes PROVE Share(m) \in Nat \ {0}
    OBVIOUS
  <2>2. m # Nobody /\ target[m] \in Targets /\ profile[m] \in Profiles
    BY CoarsenAssumption DEF Nodes, Nobody, SchedulerTypes
  <2> QED BY <2>2, CoarsenAssumption DEF Share, Trans
<1>3. Share(Nobody) = 0
  BY DEF Share
<1>4. PICK m \in Nodes : m \in inputs[n] \/ m \in Readers(n)
  BY DEF Elsewhere, Neighbours, Written, Readers
<1>5. \E k \in Around(n) : k.value \in Nat /\ k.value > Share(n)
  <2>1. CASE m \in inputs[n]
    <3>1. Lamda(m, m, n) \in Around(n)
      BY <1>4, <2>1 DEF Around, Written
    <3> QED BY <1>2, <3>1 DEF Lamda
  <2>2. CASE m \in Readers(n)
    <3>1. Lamda(n, n, m) \in Around(n)
      BY <2>2 DEF Around
    <3> QED BY <1>2, <3>1 DEF Lamda
  <2> QED BY <1>4, <2>1, <2>2
<1>6. \A k \in Around(n) : k.value <= l.value
  BY DEF Best
<1>7. l \in Around(n)
  BY DEF Best
<1>8. CASE \E d \in inputs[n] : l = Lamda(d, IF d \in Written THEN d ELSE Nobody, n)
  <2>1. PICK d \in inputs[n] : l = Lamda(d, IF d \in Written THEN d ELSE Nobody, n)
    BY <1>8
  <2>2. d \in Written
    <3>1. SUFFICES ASSUME d \notin Written PROVE FALSE
      OBVIOUS
    <3>2. l.value = Share(n)
      BY <1>2, <1>3, <2>1, <3>1 DEF Lamda
    <3> QED BY <1>2, <1>5, <1>6, <3>2
  <2>3. l.reader = n /\ l.writer = d
    BY <2>1, <2>2 DEF Lamda
  <2> QED BY <1>1, <2>2, <2>3 DEF Reside, Written
<1>9. CASE \E r \in Readers(n) : l = Lamda(n, n, r)
  BY <1>1, <1>9 DEF Reside, Lamda, Readers
<1> QED BY <1>7, <1>8, <1>9 DEF Around

\* the outcomes of clusterG for a node
LEMMA PlacedOrLeft ==
  ASSUME SchedulerTypes, ClusterG
  PROVE  \E n \in First(Listed) :
           /\ todo' = [todo EXCEPT ![n] = @ - 1] /\ visited' = visited \cup {n}
           /\ UNCHANGED <<target, clusters>> \/ \E t \in Targets : Move(n, t)
<1>1. PICK n \in First(Listed) :
        /\ todo' = [todo EXCEPT ![n] = @ - 1] /\ visited' = visited \cup {n}
        /\ IF Elsewhere(n) = {}
           THEN Move(n, target[n])
           ELSE \E l \in Best(Around(n)) :
                  IF l.value > Comp(n, target[n]) + Comp(n, Reside(n, l))
                  THEN Move(n, Reside(n, l)) ELSE UNCHANGED <<target, clusters>>
  BY DEF ClusterG
<1>2. n \in Nodes
  BY DEF First, Listed
<1>3. CASE Elsewhere(n) = {}
  <2>1. target[n] \in Targets
    BY <1>2 DEF SchedulerTypes
  <2> QED BY <1>1, <1>3, <2>1
<1>4. CASE Elsewhere(n) # {}
  <2>1. PICK l \in Best(Around(n)) :
          Move(n, Reside(n, l)) \/ UNCHANGED <<target, clusters>>
    BY <1>1, <1>4
  <2>2. Reside(n, l) \in Targets
    BY <1>2, <1>4, ResideIsTarget
  <2> QED BY <1>1, <2>1, <2>2
<1> QED BY <1>3, <1>4

LEMMA ClusterGKeepsC == ASSUME CInv, ClusterG PROVE CInv'
<1>1. phase = "path" /\ UNCHANGED <<graphVars, phase, lamdas>>
  BY DEF ClusterG
<1>2. PICK n \in First(Listed) :
           /\ todo' = [todo EXCEPT ![n] = @ - 1] /\ visited' = visited \cup {n}
           /\ UNCHANGED <<target, clusters>> \/ \E t \in Targets : Move(n, t)
  BY PlacedOrLeft DEF CInv
<1>3. n \in Nodes /\ todo[n] > 0 /\ todo \in [Nodes -> Nat]
  BY DEF First, Listed, CInv, SchedulerTypes
<1>4. /\ target \in [Nodes -> Targets] /\ clusters \in [Targets -> SUBSET Nodes]
      /\ todo' \in [Nodes -> Nat] /\ visited' \subseteq Nodes
      /\ todo'[n] = todo[n] - 1 /\ \A m \in Nodes \ {n} : todo'[m] = todo[m]
  BY <1>2, <1>3 DEF CInv, SchedulerTypes
\* who is placed here was in no cluster
<1>5. ASSUME Cardinality(Starts) = 1
      PROVE  todo'[n] = 0 /\ \A t \in Targets : n \notin clusters[t]
  BY <1>1, <1>3, <1>4, <1>5 DEF CInv, OnePath
<1>6. /\ target' \in [Nodes -> Targets] /\ clusters' \in [Targets -> SUBSET Nodes]
      /\ \A t \in Targets : clusters'[t] \subseteq clusters[t] \cup {n}
      /\ ClusterIsTarget'
  <2>1. CASE UNCHANGED <<target, clusters>>
    BY <1>1, <1>4, <2>1, SameGraph DEF CInv, ClusterIsTarget
  <2>2. CASE \E t \in Targets : Move(n, t)
    <3>1. PICK t \in Targets : /\ target' = [target EXCEPT ![n] = t]
                               /\ clusters' = [clusters EXCEPT ![t] = @ \cup {n}]
      BY <2>2 DEF Move
    <3>2. /\ target'[n] = t /\ \A m \in Nodes \ {n} : target'[m] = target[m]
          /\ \A u \in Targets : clusters'[u] = IF u = t THEN clusters[u] \cup {n} ELSE clusters[u]
          /\ target' \in [Nodes -> Targets] /\ clusters' \in [Targets -> SUBSET Nodes]
      BY <1>3, <1>4, <3>1
    <3> QED BY <1>1, <1>4, <1>5, <3>2, SameGraph DEF CInv, ClusterIsTarget
  <2> QED BY <1>2, <2>1, <2>2
<1>7. SchedulerTypes'
  BY <1>1, <1>4, <1>6, SameGraph DEF CInv, SchedulerTypes, Pair
<1>8. OnePath'
  <2>1. SUFFICES ASSUME Cardinality(Starts) = 1
                 PROVE  /\ \A m \in Nodes : todo'[m] \in {0, 1}
                        /\ \A l \in lamdas : \A m \in Pair(l) : todo'[m] = 0
                        /\ \A t \in Targets : \A m \in clusters'[t] : m \in visited' /\ todo'[m] = 0
    BY <1>1, SameGraph DEF OnePath, Pair
  <2>2. /\ \A m \in Nodes : todo[m] \in {0, 1}
        /\ \A l \in lamdas : \A m \in Pair(l) : m \in Nodes /\ todo[m] = 0
        /\ \A t \in Targets : \A m \in clusters[t] : m \in visited /\ todo[m] = 0
    BY <1>1, <2>1 DEF CInv, OnePath, SchedulerTypes
  <2>3. todo'[n] = 0
    BY <1>5, <2>1
  <2>4. \A t \in Targets : \A m \in clusters'[t] : m \in Nodes /\ (m = n \/ m \in clusters[t])
    BY <1>6
  <2> QED BY <1>2, <1>4, <2>2, <2>3, <2>4
<1>9. NotYet'
  BY <1>1 DEF NotYet
<1> QED BY <1>6, <1>7, <1>8, <1>9 DEF CInv

---------------------------------------------------------------------------
(* The graph runs: the scheduler has done its work.                        *)

LEMMA RegisterKeepsC == ASSUME CInv, Register PROVE CInv'
<1>1. phase' = "scheduled" /\ UNCHANGED <<graphVars, target, lamdas, todo, visited, clusters>>
  BY DEF Register
<1>2. SchedulerTypes'
  BY <1>1, SameGraph DEF CInv, SchedulerTypes, Pair
<1> QED BY <1>1, <1>2, SameGraph DEF CInv, NotYet, OnePath, ClusterIsTarget

LEMMA StillC == ASSUME CInv, UNCHANGED vars PROVE CInv'
<1>1. UNCHANGED <<graphVars, phase, target, lamdas, todo, visited, clusters>>
  BY DEF vars
<1>2. SchedulerTypes' /\ NotYet'
  BY <1>1, SameGraph DEF CInv, SchedulerTypes, NotYet, Pair
<1>3. OnePath' /\ ClusterIsTarget'
  BY <1>1, SameGraph DEF CInv, OnePath, ClusterIsTarget, Pair
<1> QED BY <1>2, <1>3 DEF CInv

LEMMA NextCInv == CInv /\ [LocalNext]_allVars => CInv'
<1>1. SUFFICES ASSUME CInv, [LocalNext]_allVars PROVE CInv'
  OBVIOUS
<1>2. CASE Schedule
  BY <1>1, <1>2, PriorityKeepsC, AssignKeepsC, RankKeepsC, ClusterCPKeepsC, ClusterGKeepsC
     DEF Schedule
<1>3. CASE Register
  BY <1>1, <1>3, RegisterKeepsC
<1>4. CASE StartRun \/ (\E n \in Nodes : ExecuteOnHost(n) \/ ExecuteOnDevice(n)) \/ UNCHANGED allVars
  <2>1. UNCHANGED vars
    BY <1>4 DEF StartRun, ExecuteOnHost, ExecuteOnDevice, allVars
  <2> QED BY <1>1, <2>1, StillC
<1> QED BY <1>1, <1>2, <1>3, <1>4 DEF LocalNext

\* Who is in the cluster of a target runs on it, if the graph has one start
\* node: for every such graph and all measurements.
THEOREM ClusterIsTargetHolds == LocalSpec => []ClusterIsTarget
<1>1. LocalInit => CInv
  BY InitCInv DEF LocalInit
<1>2. CInv => ClusterIsTarget
  BY DEF CInv
<1> QED BY <1>1, <1>2, NextCInv, PTL DEF LocalSpec

---------------------------------------------------------------------------
(* Greatest numbers, parts of a unit, and weights.                         *)

LEMMA GreatestNumber ==
  ASSUME NEW S \in SUBSET Nat, S # {}, NEW b \in Nat, \A x \in S : x <= b
  PROVE  Max(S) \in S /\ \A x \in S : x <= Max(S)
<1> DEFINE T == {b - x : x \in S}
<1>1. T \in SUBSET Nat /\ T # {}
  <2>1. \A x \in S : b - x \in Nat
    OBVIOUS
  <2> QED BY <2>1
<1>2. PICK t \in T : \A u \in T : t <= u
  BY <1>1, LeastNumber
<1>3. PICK x \in S : t = b - x
  BY <1>2
<1>4. \A y \in S : x >= y
  <2>1. \A y \in S : b - x <= b - y
    BY <1>2, <1>3
  <2> QED BY <2>1
<1> QED BY <1>3, <1>4 DEF Max

LEMMA GreatestIs ==
  ASSUME NEW S \in SUBSET Nat, NEW x \in S, \A y \in S : y <= x
  PROVE  Max(S) = x
<1>1. x \in Nat /\ S # {}
  OBVIOUS
<1>2. Max(S) \in S /\ \A y \in S : y <= Max(S)
  BY <1>1, GreatestNumber
<1>3. Max(S) \in Nat /\ Max(S) <= x /\ x <= Max(S)
  BY <1>2
<1> QED BY <1>1, <1>3

LEMMA BoundedValues ==
  ASSUME NEW f, \A m \in Nodes : f[m] \in Nat
  PROVE  \E b \in Nat : \A m \in Nodes : f[m] <= b
<1> DEFINE R == {k \in Nat : \E b \in Nat : \A m \in Nodes : m <= k => f[m] <= b}
<1>1. 0 \in R
  BY CoarsenAssumption DEF Nodes
<1>2. ASSUME NEW k \in R PROVE k + 1 \in R
  <2>1. PICK b \in Nat : \A m \in Nodes : m <= k => f[m] <= b
    OBVIOUS
  <2>2. CASE k + 1 \in Nodes
    <3> DEFINE c == IF f[k + 1] > b THEN f[k + 1] ELSE b
    <3>1. c \in Nat /\ c >= b /\ c >= f[k + 1]
      BY <2>2
    <3> HIDE DEF c
    <3>2. ASSUME NEW m \in Nodes, m <= k + 1 PROVE f[m] <= c
      <4>1. CASE m = k + 1
        BY <3>1, <4>1
      <4>2. CASE m <= k
        BY <2>1, <3>1, <4>2
      <4> QED BY <3>2, <4>1, <4>2, CoarsenAssumption DEF Nodes
    <3> QED BY <3>1, <3>2
  <2>3. CASE k + 1 \notin Nodes
    <3>1. ASSUME NEW m \in Nodes, m <= k + 1 PROVE f[m] <= b
      BY <2>1, <2>3, <3>1, CoarsenAssumption DEF Nodes
    <3> QED BY <3>1
  <2> QED BY <2>2, <2>3
<1> HIDE DEF R
<1>3. R \in SUBSET Nat
  BY DEF R
<1>4. N \in R
  BY <1>1, <1>2, <1>3, StepByStep, CoarsenAssumption
<1>5. \A m \in Nodes : m <= N
  BY CoarsenAssumption DEF Nodes
<1>6. PICK b \in Nat : \A m \in Nodes : m <= N => f[m] <= b
  BY <1>4 DEF R
<1> QED BY <1>5, <1>6

LEMMA WholeLoses ==
  ASSUME NEW x \in Nat
  PROVE  Whole(x) \in Nat /\ Whole(x) <= x /\ x - Whole(x) <= Unit - 1
<1>1. Unit \in Nat \ {0}
  BY CoarsenAssumption
<1>2. PICK q, r : q = x \div Unit /\ r = x % Unit
  OBVIOUS
<1>3. q \in Nat /\ r \in 0..(Unit - 1) /\ x = Unit * q + r
  BY <1>1, <1>2
<1>4. q * Unit = Unit * q /\ Unit * q \in Nat
  BY <1>1, <1>3
<1> QED BY <1>1, <1>2, <1>3, <1>4 DEF Whole

LEMMA WeightType ==
  ASSUME SchedulerTypes, NEW n \in Nodes PROVE Weight(n) \in Nat
<1>1. /\ inputs \in Graphs /\ target[n] \in Targets /\ profile[n] \in Profiles
  BY DEF SchedulerTypes
<1>2. Comp(n, target[n]) \in Nat /\ Trans(n, target[n]) \in Nat
  BY <1>1, CoarsenAssumption DEF Comp, Trans
<1>3. Cardinality(inputs[n]) \in Nat
  <2>1. inputs[n] \in SUBSET (SrcData \cup 1..(n - 1))
    BY <1>1, CoarsenAssumption
  <2>2. IsFiniteSet(SrcData \cup 1..(n - 1))
    <3>1. n \in Int
      BY CoarsenAssumption DEF Nodes
    <3>2. IsFiniteSet(1..(n - 1))
      BY <3>1, FS_Interval
    <3> QED BY <3>2, FS_Union, CoarsenAssumption
  <2> QED BY <2>1, <2>2, FS_Subset, FS_CardinalityType
<1> QED BY <1>2, <1>3 DEF Weight

---------------------------------------------------------------------------
(* A path has its first node and, as readers have higher numbers, ends     *)
(* within N steps.                                                         *)

Forward(s) == \A m \in Nodes : s[m] = Nobody \/ (s[m] \in Nodes /\ s[m] > m)

LEMMA PathClosed ==
  ASSUME NEW n \in Nodes, NEW s, Forward(s)
  PROVE  /\ n \in PathFrom(n, s) /\ PathFrom(n, s) \subseteq n..N
         /\ \A m \in PathFrom(n, s) : s[m] \in PathFrom(n, s) \cup {Nobody}
<1>1. PICK f : PathFrom(n, s) = f[N] /\ \A k \in 0..N : f[k] = Extends(f, k, n, s)
  BY PathIsReach
<1>2. n \in Nat /\ n >= 1 /\ n <= N /\ N \in Nat
  BY CoarsenAssumption DEF Nodes
<1> DEFINE R == {k \in Nat : k <= N =>
                   /\ n \in f[k] /\ f[k] \subseteq n..N
                   /\ \A m \in f[k] : s[m] \in f[k] \cup {Nobody} \/ m >= n + k}
<1>3. 0 \in R
  <2>1. f[0] = {n}
    <3>1. 0 \in 0..N
      BY <1>2
    <3> QED BY <1>1, <3>1 DEF Extends
  <2> QED BY <1>2, <2>1
<1>4. ASSUME NEW k \in R PROVE k + 1 \in R
  <2>1. SUFFICES ASSUME k + 1 <= N
                 PROVE  /\ n \in f[k + 1] /\ f[k + 1] \subseteq n..N
                        /\ \A m \in f[k + 1] : s[m] \in f[k + 1] \cup {Nobody} \/ m >= n + (k + 1)
    OBVIOUS
  <2>2. k \in Nat /\ k + 1 \in 0..N /\ (k + 1) - 1 = k /\ k + 1 # 0 /\ k <= N
    BY <1>2, <2>1
  <2>3. f[k + 1] = f[k] \cup ({s[m] : m \in f[k]} \ {Nobody})
    BY <1>1, <2>2 DEF Extends
  <2>4. /\ n \in f[k] /\ f[k] \subseteq n..N
        /\ \A m \in f[k] : s[m] \in f[k] \cup {Nobody} \/ m >= n + k
    BY <2>2
  <2>5. \A j \in f[k] : j \in n..N /\ (s[j] = Nobody \/ (s[j] \in n..N /\ s[j] > j))
    BY <1>2, <2>4 DEF Forward, Nodes
  <2>6. ASSUME NEW m \in f[k + 1]
        PROVE  m \in n..N /\ (s[m] \in f[k + 1] \cup {Nobody} \/ m >= n + (k + 1))
    <3>1. CASE m \in f[k]
      BY <2>3, <2>5, <3>1
    <3>2. CASE m \notin f[k]
      <4>1. PICK j \in f[k] : m = s[j] /\ m # Nobody
        BY <2>3, <2>6, <3>2
      <4>2. j >= n + k
        BY <2>4, <3>2, <4>1
      <4> QED BY <1>2, <2>2, <2>5, <4>1, <4>2
    <3> QED BY <3>1, <3>2
  <2> QED BY <2>3, <2>4, <2>6
<1> HIDE DEF R
<1>5. R \in SUBSET Nat
  BY DEF R
<1>6. N \in R
  BY <1>2, <1>3, <1>4, <1>5, StepByStep
<1>7. /\ n \in f[N] /\ f[N] \subseteq n..N
      /\ \A m \in f[N] : s[m] \in f[N] \cup {Nobody} \/ m >= n + N
  BY <1>2, <1>6 DEF R
<1>8. \A m \in f[N] : ~(m >= n + N)
  BY <1>2, <1>7
<1> QED BY <1>1, <1>7, <1>8

LEMMA PathStep ==
  ASSUME NEW n \in Nodes, NEW s, Forward(s)
  PROVE  PathFrom(n, s) = IF s[n] = Nobody THEN {n} ELSE {n} \cup PathFrom(s[n], s)
<1>1. /\ n \in PathFrom(n, s)
      /\ \A m \in PathFrom(n, s) : s[m] \in PathFrom(n, s) \cup {Nobody}
  BY PathClosed
<1>2. CASE s[n] = Nobody
  <2>1. PathFrom(n, s) \subseteq {n}
    BY <1>2, PathStays
  <2> QED BY <1>1, <1>2, <2>1
<1>3. CASE s[n] # Nobody
  <2>1. s[n] \in Nodes
    BY <1>3 DEF Forward
  <2>2. /\ s[n] \in PathFrom(s[n], s)
        /\ \A m \in PathFrom(s[n], s) : s[m] \in PathFrom(s[n], s) \cup {Nobody}
    BY <2>1, PathClosed
  <2> DEFINE A == {n} \cup PathFrom(s[n], s)
  <2>3. PathFrom(n, s) \subseteq A
    <3>1. n \in A /\ \A m \in A : s[m] \in A \cup {Nobody}
      BY <2>2
    <3> HIDE DEF A
    <3> QED BY <3>1, PathStays
  <2>4. PathFrom(s[n], s) \subseteq PathFrom(n, s)
    <3>1. s[n] \in PathFrom(n, s)
      BY <1>1, <1>3
    <3> QED BY <1>1, <3>1, PathStays
  <2> QED BY <1>1, <1>3, <2>3, <2>4
<1> QED BY <1>2, <1>3

---------------------------------------------------------------------------
(* Chains grow at their first node.                                        *)

LEMMA ReadersFollow ==
  ASSUME SchedulerTypes, NEW n \in Nodes, NEW m \in Readers(n)
  PROVE  m \in Nodes /\ n < m /\ n \in inputs[m]
<1>1. m \in Nodes /\ n \in inputs[m] /\ inputs \in Graphs
  BY DEF Readers, SchedulerTypes
<1>2. n \in SrcData \cup 1..(m - 1)
  BY <1>1, CoarsenAssumption
<1>3. n \notin SrcData
  BY CoarsenAssumption
<1> QED BY <1>1, <1>2, <1>3, CoarsenAssumption DEF Nodes

LEMMA LastOf ==
  ASSUME NEW n \in Nodes, NEW S \in SUBSET (n..N), S # {}
  PROVE  Max(S) \in S /\ \A x \in S : x <= Max(S)
<1>1. S \in SUBSET Nat /\ N \in Nat /\ \A x \in S : x <= N
  BY CoarsenAssumption DEF Nodes
<1> QED BY <1>1, GreatestNumber

LEMMA ChainGrows ==
  ASSUME SchedulerTypes, NEW n \in Nodes, NEW m \in Readers(n), NEW T \in Chains(m)
  PROVE  {n} \cup T \in Chains(n)
<1> DEFINE S == {n} \cup T
<1>1. m \in Nodes /\ n < m /\ n \in inputs[m]
  BY ReadersFollow
<1>2. /\ T \subseteq m..N /\ m \in T /\ Readers(Max(T)) = {}
      /\ \A q \in T \ {m} : \E k \in T \cap inputs[q] : \A j \in T : j > k => j >= q
  BY DEF Chains
<1>3. n \in Nat /\ m \in Nat /\ N \in Nat /\ n <= N
  BY <1>1, CoarsenAssumption DEF Nodes
<1>4. \A x \in T : x \in m..N /\ x \in Nat /\ x >= m /\ x <= N
  BY <1>2, <1>3
<1>5. Max(T) \in T /\ \A x \in T : x <= Max(T)
  BY <1>1, <1>2, LastOf
<1>6. Max(S) = Max(T)
  <2>1. Max(T) \in S /\ S \in SUBSET Nat /\ \A x \in S : x <= Max(T)
    BY <1>1, <1>3, <1>4, <1>5
  <2> HIDE DEF S
  <2> QED BY <2>1, GreatestIs
<1>7. S \in SUBSET (n..N)
  BY <1>1, <1>3, <1>4
<1>8. ASSUME NEW q \in S \ {n} PROVE \E k \in S \cap inputs[q] : \A j \in S : j > k => j >= q
  <2>1. CASE q = m
    <3>1. n \in S \cap inputs[q]
      BY <1>1, <2>1
    <3>2. \A j \in S : j > n => j >= q
      BY <1>3, <1>4, <2>1
    <3> QED BY <3>1, <3>2
  <2>2. CASE q # m
    <3>1. PICK k \in T \cap inputs[q] : \A j \in T : j > k => j >= q
      BY <1>2, <1>8, <2>2
    <3>2. ~(n > k)
      BY <1>1, <1>3, <1>4
    <3> QED BY <3>1, <3>2
  <2> QED BY <2>1, <2>2
<1>9. n \in S
  OBVIOUS
<1> HIDE DEF S
<1>10. S \in Chains(n)
  BY <1>2, <1>6, <1>7, <1>8, <1>9 DEF Chains
<1> QED BY <1>10 DEF S

LEMMA ChainEnds ==
  ASSUME NEW n \in Nodes, Readers(n) = {}
  PROVE  {n} \in Chains(n)
<1>1. n \in Nat /\ N \in Nat /\ n <= N
  BY CoarsenAssumption DEF Nodes
<1>2. Max({n}) = n
  BY <1>1, GreatestIs
<1> QED BY <1>1, <1>2 DEF Chains

\* A chain is its first node, alone if nobody reads it, or with a chain of one
\* of the readers.
LEMMA ChainSplits ==
  ASSUME SchedulerTypes, NEW n \in Nodes, NEW S \in Chains(n)
  PROVE  \/ S = {n} /\ Readers(n) = {}
         \/ \E m \in Readers(n) : \E T \in Chains(m) : n \notin T /\ S = {n} \cup T
<1>1. /\ S \in SUBSET (n..N) /\ n \in S /\ Readers(Max(S)) = {}
      /\ \A q \in S \ {n} : \E k \in S \cap inputs[q] : \A j \in S : j > k => j >= q
  BY DEF Chains
<1>2. n \in Nat /\ N \in Nat /\ n <= N /\ S \in SUBSET Nat /\ \A x \in S : x >= n /\ x <= N
  BY <1>1, CoarsenAssumption DEF Nodes
<1>3. CASE S = {n}
  <2>1. Max(S) = n
    BY <1>2, <1>3, GreatestIs
  <2> QED BY <1>1, <1>3, <2>1
<1>4. CASE S # {n}
  <2> DEFINE T == S \ {n}
  <2>1. T \in SUBSET Nat /\ T # {} /\ T \subseteq S /\ S = {n} \cup T /\ n \notin T
    BY <1>1, <1>2, <1>4
  <2>2. \A q \in T : \E k \in S \cap inputs[q] : \A j \in S : j > k => j >= q
    BY <1>1
  <2> HIDE DEF T
  <2>3. PICK m \in T : \A x \in T : m <= x
    BY <2>1, LeastNumber
  <2>4. m \in Nodes /\ n < m /\ m \in Nat
    BY <1>2, <2>1, <2>3, CoarsenAssumption DEF Nodes
  <2>5. n \in inputs[m]
    <3>1. PICK k \in S \cap inputs[m] : \A j \in S : j > k => j >= m
      BY <2>2
    <3>2. k < m
      <4>1. inputs \in Graphs /\ k \in SrcData \cup 1..(m - 1)
        BY <2>4, CoarsenAssumption DEF SchedulerTypes
      <4>2. k \in Nodes
        BY <1>2, CoarsenAssumption DEF Nodes
      <4> QED BY <2>4, <4>1, <4>2, CoarsenAssumption
    <3>3. k \notin T
      BY <1>2, <2>1, <2>3, <3>2
    <3> QED BY <2>1, <3>1, <3>3
  <2>6. m \in Readers(n)
    BY <2>4, <2>5 DEF Readers
  <2>7. T \subseteq m..N
    BY <1>2, <2>1, <2>3
  <2>8. Max(T) = Max(S)
    <3>1. Max(S) \in S /\ \A x \in S : x <= Max(S)
      BY <1>1, LastOf
    <3>2. Max(S) # n
      BY <1>2, <2>1, <2>3, <2>4, <3>1
    <3>3. Max(S) \in T /\ \A x \in T : x <= Max(S)
      BY <2>1, <3>1, <3>2
    <3> QED BY <2>1, <3>3, GreatestIs
  <2>9. ASSUME NEW q \in T \ {m} PROVE \E k \in T \cap inputs[q] : \A j \in T : j > k => j >= q
    <3>1. PICK k \in S \cap inputs[q] : \A j \in S : j > k => j >= q
      BY <2>2
    <3>2. k # n
      <4>1. q > m /\ m > n
        BY <2>1, <2>3, <2>4
      <4> QED BY <2>1, <2>3, <2>4, <3>1, <4>1
    <3> QED BY <2>1, <3>1, <3>2
  <2>10. T \in Chains(m)
    BY <1>1, <2>3, <2>7, <2>8, <2>9 DEF Chains
  <2> QED BY <2>1, <2>6, <2>10
<1> QED BY <1>3, <1>4

---------------------------------------------------------------------------
(* Sums.  Length folds a set of nodes in an order it chooses; the sum does *)
(* not depend on it.                                                       *)

Some(T) == CHOOSE x \in T : TRUE

Summed(f, T) == IF T = {} THEN 0 ELSE Weight(Some(T)) + f[T \ {Some(T)}]

LEMMA LengthIsSum ==
  ASSUME NEW S, \E f : f = [T \in SUBSET S |-> Summed(f, T)]
  PROVE  \E g : Length(S) = g[S] /\ \A T \in SUBSET S : g[T] = Summed(g, T)
<1> DEFINE g == CHOOSE h : h = [T \in SUBSET S |->
                  IF T = {} THEN 0
                  ELSE Weight(CHOOSE x \in T : TRUE) + h[T \ {CHOOSE x \in T : TRUE}]]
<1>1. g = [T \in SUBSET S |->
             IF T = {} THEN 0
             ELSE Weight(CHOOSE x \in T : TRUE) + g[T \ {CHOOSE x \in T : TRUE}]]
  BY Zenon DEF Summed, Some
<1>2. Length(S) = g[S]
  BY Zenon DEF Length, MapThenSumSet, MapThenFoldSet
<1> HIDE DEF g
<1>3. \A T \in SUBSET S : g[T] = Summed(g, T)
  BY <1>1 DEF Summed, Some
<1> QED BY <1>2, <1>3

LEMMA CountNodes ==
  ASSUME NEW T \in SUBSET Nodes
  PROVE  IsFiniteSet(T) /\ Cardinality(T) \in Nat /\ Cardinality(T) <= N
<1>1. IsFiniteSet(Nodes) /\ Cardinality(Nodes) = N
  BY FS_Interval, CoarsenAssumption DEF Nodes
<1> QED BY <1>1, FS_Subset, FS_CardinalityType

LEMMA OneLess ==
  ASSUME NEW T \in SUBSET Nodes, T # {}
  PROVE  /\ Some(T) \in T /\ IsFiniteSet(T) /\ Cardinality(T) \in Nat \ {0}
         /\ \A x \in T : Cardinality(T \ {x}) = Cardinality(T) - 1
<1>1. IsFiniteSet(T)
  BY FewStarts, FS_Subset
<1>2. Cardinality(T) \in Nat \ {0}
  BY <1>1, FS_CardinalityType, FS_EmptySet
<1>3. \A x \in T : Cardinality(T \ {x}) = Cardinality(T) - 1
  BY <1>1, FS_RemoveElement
<1> QED BY <1>1, <1>2, <1>3 DEF Some

\* one sum for all sets of nodes
LEMMA SumExists ==
  \E f : f = [T \in SUBSET Nodes |-> Summed(f, T)]
<1> DEFINE SumTo(f, k) == \A T \in SUBSET Nodes : Cardinality(T) <= k => f[T] = Summed(f, T)
           R == {k \in Nat : \E f : SumTo(f, k)}
<1>1. 0 \in R
  <2> DEFINE f == [T \in SUBSET Nodes |-> 0]
  <2>1. ASSUME NEW T \in SUBSET Nodes, Cardinality(T) <= 0 PROVE f[T] = Summed(f, T)
    <3>1. T = {}
      BY <2>1, OneLess
    <3> QED BY <3>1 DEF Summed
  <2>2. SumTo(f, 0)
    BY <2>1
  <2> QED BY <2>2
<1>2. ASSUME NEW k \in R PROVE k + 1 \in R
  <2>1. k \in Nat
    OBVIOUS
  <2>2. PICK f : SumTo(f, k)
    OBVIOUS
  <2> DEFINE g == [T \in SUBSET Nodes |-> IF Cardinality(T) = k + 1 THEN Summed(f, T) ELSE f[T]]
  <2>3. ASSUME NEW T \in SUBSET Nodes, Cardinality(T) <= k + 1 PROVE g[T] = Summed(g, T)
    <3>1. CASE T = {}
      <4>1. Cardinality(T) = 0
        BY <3>1, FS_EmptySet
      <4>2. f[T] = Summed(f, T)
        BY <2>1, <2>2, <4>1
      <4> QED BY <2>1, <3>1, <4>1, <4>2 DEF Summed
    <3>2. CASE T # {}
      <4>1. /\ Some(T) \in T /\ Cardinality(T) \in Nat
            /\ Cardinality(T \ {Some(T)}) = Cardinality(T) - 1
        BY <3>2, OneLess
      <4>2. T \ {Some(T)} \in SUBSET Nodes /\ Cardinality(T \ {Some(T)}) # k + 1
        BY <2>1, <2>3, <4>1
      <4>3. g[T \ {Some(T)}] = f[T \ {Some(T)}]
        BY <4>2
      <4>4. Summed(g, T) = Summed(f, T)
        BY <4>3 DEF Summed
      <4>5. CASE Cardinality(T) = k + 1
        BY <4>4, <4>5
      <4>6. CASE Cardinality(T) # k + 1
        <5>1. Cardinality(T) <= k
          BY <2>1, <2>3, <4>1, <4>6
        <5> QED BY <2>2, <4>4, <4>6, <5>1
      <4> QED BY <4>5, <4>6
    <3> QED BY <3>1, <3>2
  <2> HIDE DEF g
  <2>4. SumTo(g, k + 1)
    BY <2>3
  <2> QED BY <2>1, <2>4
<1> HIDE DEF R
<1>3. R \in SUBSET Nat
  BY DEF R
<1>4. N \in R
  BY <1>1, <1>2, <1>3, StepByStep, CoarsenAssumption
<1>5. PICK f : SumTo(f, N)
  BY <1>4 DEF R
<1> DEFINE g == [T \in SUBSET Nodes |-> f[T]]
<1>6. ASSUME NEW T \in SUBSET Nodes PROVE g[T] = Summed(g, T)
  <2>1. Cardinality(T) <= N
    BY CountNodes
  <2>2. f[T] = Summed(f, T)
    BY <1>5, <2>1
  <2>3. g[T] = f[T] /\ g[T \ {Some(T)}] = f[T \ {Some(T)}]
    OBVIOUS
  <2> QED BY <2>2, <2>3 DEF Summed
<1> HIDE DEF g
<1>7. g = [T \in SUBSET Nodes |-> Summed(g, T)]
  BY <1>6 DEF g
<1> QED BY <1>7

LEMMA SumUnique ==
  ASSUME NEW A \in SUBSET Nodes, NEW f, NEW g,
         \A T \in SUBSET A : f[T] = Summed(f, T) /\ g[T] = Summed(g, T)
  PROVE  \A T \in SUBSET A : f[T] = g[T]
<1> DEFINE R == {k \in Nat : \A T \in SUBSET A : Cardinality(T) = k => f[T] = g[T]}
<1>1. 0 \in R
  <2>1. ASSUME NEW T \in SUBSET A, Cardinality(T) = 0 PROVE f[T] = g[T]
    <3>1. T = {}
      BY <2>1, OneLess
    <3> QED BY <3>1 DEF Summed
  <2> QED BY <2>1
<1>2. ASSUME NEW k \in R PROVE k + 1 \in R
  <2>1. k \in Nat /\ \A T \in SUBSET A : Cardinality(T) = k => f[T] = g[T]
    OBVIOUS
  <2>2. ASSUME NEW T \in SUBSET A, Cardinality(T) = k + 1 PROVE f[T] = g[T]
    <3>1. T # {}
      <4>1. SUFFICES ASSUME T = {} PROVE FALSE
        OBVIOUS
      <4>2. Cardinality(T) = 0
        BY <4>1, FS_EmptySet
      <4> QED BY <2>1, <2>2, <4>2
    <3>2. Some(T) \in T /\ Cardinality(T \ {Some(T)}) = Cardinality(T) - 1
      BY <3>1, OneLess
    <3>3. f[T \ {Some(T)}] = g[T \ {Some(T)}]
      BY <2>1, <2>2, <3>2
    <3> QED BY <3>1, <3>3 DEF Summed
  <2> QED BY <2>1, <2>2
<1> HIDE DEF R
<1>3. R \in SUBSET Nat
  BY DEF R
<1>4. R = Nat
  BY <1>1, <1>2, <1>3, StepByStep
<1>5. ASSUME NEW T \in SUBSET A PROVE f[T] = g[T]
  <2>1. Cardinality(T) \in Nat
    <3>1. T \in SUBSET Nodes
      OBVIOUS
    <3> QED BY <3>1, CountNodes
  <2> QED BY <1>4, <2>1 DEF R
<1> QED BY <1>5

LEMMA LengthByOne ==
  ASSUME NEW S \in SUBSET Nodes
  PROVE  Length(S) = IF S = {} THEN 0 ELSE Weight(Some(S)) + Length(S \ {Some(S)})
<1>1. PICK f : f = [T \in SUBSET Nodes |-> Summed(f, T)]
  BY SumExists
<1>2. \A T \in SUBSET Nodes : f[T] = Summed(f, T)
  BY <1>1
<1>3. ASSUME NEW A \in SUBSET Nodes PROVE Length(A) = f[A]
  <2> DEFINE h == [T \in SUBSET A |-> f[T]]
  <2>1. \A T \in SUBSET A : h[T] = Summed(h, T)
    <3>1. ASSUME NEW T \in SUBSET A PROVE h[T] = Summed(h, T)
      <4>1. f[T] = Summed(f, T)
        BY <1>2
      <4>2. h[T] = f[T] /\ h[T \ {Some(T)}] = f[T \ {Some(T)}]
        OBVIOUS
      <4> QED BY <4>1, <4>2 DEF Summed
    <3> QED BY <3>1
  <2>2. h = [T \in SUBSET A |-> Summed(h, T)]
    <3>1. h = [T \in SUBSET A |-> h[T]]
      OBVIOUS
    <3> HIDE DEF h
    <3> QED BY <2>1, <3>1
  <2> HIDE DEF h
  <2>3. \E e : e = [T \in SUBSET A |-> Summed(e, T)]
    BY <2>2
  <2>4. PICK g : Length(A) = g[A] /\ \A T \in SUBSET A : g[T] = Summed(g, T)
    BY <2>3, LengthIsSum
  <2>5. \A T \in SUBSET A : f[T] = Summed(f, T) /\ g[T] = Summed(g, T)
    BY <1>2, <2>4
  <2>6. f[A] = g[A]
    BY <2>5, SumUnique
  <2> QED BY <2>4, <2>6
<1>4. Length(S) = f[S] /\ (S # {} => Length(S \ {Some(S)}) = f[S \ {Some(S)}])
  BY <1>3
<1> QED BY <1>2, <1>4 DEF Summed

\* The length of a set of nodes is any node's weight and the length of the rest.
LEMMA LengthSplits ==
  ASSUME SchedulerTypes, NEW S \in SUBSET Nodes
  PROVE  Length(S) \in Nat /\ \A x \in S : Length(S) = Weight(x) + Length(S \ {x})
<1> DEFINE Fits(T) == Length(T) \in Nat /\ \A x \in T : Length(T) = Weight(x) + Length(T \ {x})
           R == {k \in Nat : \A T \in SUBSET Nodes : Cardinality(T) <= k => Fits(T)}
<1>1. 0 \in R
  <2>1. ASSUME NEW T \in SUBSET Nodes, Cardinality(T) <= 0 PROVE Fits(T)
    <3>1. T = {}
      BY <2>1, OneLess
    <3>2. Length(T) = 0
      BY <3>1, LengthByOne
    <3> QED BY <3>1, <3>2
  <2> QED BY <2>1
<1>2. ASSUME NEW k \in R PROVE k + 1 \in R
  <2>1. k \in Nat /\ \A T \in SUBSET Nodes : Cardinality(T) <= k => Fits(T)
    OBVIOUS
  <2>2. ASSUME NEW T \in SUBSET Nodes, Cardinality(T) <= k + 1, Cardinality(T) > 0
        PROVE  Fits(T)
    <3>1. T # {}
      BY <2>2, FS_EmptySet
    <3>2. PICK c \in T : Length(T) = Weight(c) + Length(T \ {c})
      BY <3>1, LengthByOne, OneLess
    <3>3. \A x \in T : T \ {x} \in SUBSET Nodes /\ Cardinality(T \ {x}) <= k
      BY <2>1, <2>2, <3>1, OneLess
    <3>4. \A x \in T : Fits(T \ {x})
      BY <2>1, <3>3
    <3>5. \A x \in T : Weight(x) \in Nat
      BY WeightType
    <3>6. Length(T) \in Nat
      BY <3>2, <3>4, <3>5
    <3>7. ASSUME NEW x \in T, x # c PROVE Length(T) = Weight(x) + Length(T \ {x})
      <4>1. /\ Length(T \ {c}) = Weight(x) + Length((T \ {c}) \ {x})
            /\ Length(T \ {x}) = Weight(c) + Length((T \ {x}) \ {c})
        BY <3>4, <3>7
      <4>2. (T \ {c}) \ {x} = (T \ {x}) \ {c}
        OBVIOUS
      <4>3. PICK rest : rest = Length((T \ {c}) \ {x}) /\ rest \in Nat
        <5>1. (T \ {c}) \ {x} \in SUBSET Nodes
          OBVIOUS
        <5>2. Length((T \ {c}) \ {x}) \in Nat
          <6>1. T \ {c} \in SUBSET Nodes /\ x \in T \ {c}
            BY <3>7
          <6>2. Cardinality((T \ {c}) \ {x}) = Cardinality(T \ {c}) - 1 /\ Cardinality(T \ {c}) \in Nat
            BY <6>1, OneLess
          <6>3. Cardinality((T \ {c}) \ {x}) <= k
            BY <2>1, <3>3, <6>2
          <6> QED BY <2>1, <5>1, <6>3
        <5> QED BY <5>2
      <4> QED BY <3>2, <3>5, <4>1, <4>2, <4>3
    <3> QED BY <3>2, <3>6, <3>7
  <2>3. ASSUME NEW T \in SUBSET Nodes, Cardinality(T) <= k + 1, ~(Cardinality(T) > 0)
        PROVE  Fits(T)
    <3>1. Cardinality(T) \in Nat
      BY CountNodes
    <3> QED BY <2>1, <2>3, <3>1
  <2> HIDE DEF Fits
  <2> QED BY <2>1, <2>2, <2>3
<1> HIDE DEF R
<1>3. R \in SUBSET Nat
  BY DEF R
<1>4. R = Nat
  BY <1>1, <1>2, <1>3, StepByStep
<1>5. Cardinality(S) \in Nat
  BY CountNodes
<1> QED BY <1>4, <1>5 DEF R

---------------------------------------------------------------------------
(* Ranks.                                                                  *)

\* what Ranks computes for a node from the ranks after it
Later(f, n) ==
  IF n = N + 1 THEN [m \in Nodes |-> 0]
  ELSE [f[n + 1] EXCEPT ![n] = Whole(BestRank(n, f[n + 1])) + Weight(n)]

LEMMA RankingExists ==
  ASSUME NEW K \in Nat, K <= N
  PROVE  \E f : f = [n \in (N + 1 - K)..(N + 1) |-> Later(f, n)]
<1> DEFINE R == {k \in Nat : k <= N => \E f : f = [n \in (N + 1 - k)..(N + 1) |-> Later(f, n)]}
<1>0. N \in Nat
  BY CoarsenAssumption
<1>1. 0 \in R
  <2> DEFINE f == [n \in (N + 1)..(N + 1) |-> [m \in Nodes |-> 0]]
  <2>1. \A n \in (N + 1)..(N + 1) : f[n] = Later(f, n)
    BY <1>0 DEF Later
  <2>2. (N + 1 - 0)..(N + 1) = (N + 1)..(N + 1)
    BY <1>0
  <2>3. f = [n \in (N + 1)..(N + 1) |-> f[n]]
    OBVIOUS
  <2> HIDE DEF f
  <2>4. f = [n \in (N + 1 - 0)..(N + 1) |-> Later(f, n)]
    BY <2>1, <2>2, <2>3
  <2> QED BY <2>4
<1>2. ASSUME NEW k \in R PROVE k + 1 \in R
  <2>1. SUFFICES ASSUME k + 1 <= N
                 PROVE  \E g : g = [n \in (N + 1 - (k + 1))..(N + 1) |-> Later(g, n)]
    OBVIOUS
  <2>2. k \in Nat /\ k <= N
    BY <1>0, <2>1
  <2>3. PICK f : f = [n \in (N + 1 - k)..(N + 1) |-> Later(f, n)]
    BY <2>2
  <2>4. \A n \in (N + 1 - k)..(N + 1) : f[n] = Later(f, n)
    BY <2>3
  <2> DEFINE j == N - k
             g == [n \in j..(N + 1) |-> IF n = j THEN Later(f, j) ELSE f[n]]
  <2>5. j \in Nat /\ N + 1 - k = j + 1 /\ j <= N
    BY <1>0, <2>2
  <2> HIDE DEF j
  <2>6. /\ g = [n \in j..(N + 1) |-> g[n]]
        /\ g[j] = Later(f, j)
        /\ \A n \in (j + 1)..(N + 1) : g[n] = f[n] /\ f[n] = Later(f, n)
    BY <1>0, <2>4, <2>5
  <2> HIDE DEF g
  <2>7. ASSUME NEW n \in j..(N + 1) PROVE g[n] = Later(g, n)
    <3>1. n # N + 1 => g[n + 1] = f[n + 1]
      <4>1. n # N + 1 => n + 1 \in (j + 1)..(N + 1)
        BY <1>0, <2>5
      <4> QED BY <2>6, <4>1
    <3>2. Later(g, n) = Later(f, n)
      BY <3>1 DEF Later
    <3>3. n = j \/ n \in (j + 1)..(N + 1)
      BY <1>0, <2>5
    <3> QED BY <2>6, <3>2, <3>3
  <2>8. N + 1 - (k + 1) = j
    BY <1>0, <2>2, <2>5
  <2>9. g = [n \in j..(N + 1) |-> Later(g, n)]
    BY <2>6, <2>7
  <2> QED BY <2>8, <2>9
<1> HIDE DEF R
<1>3. R \in SUBSET Nat
  BY DEF R
<1>4. K \in R
  BY <1>1, <1>2, <1>3, StepByStep
<1> QED BY <1>4 DEF R

LEMMA RanksAreLater ==
  \E f : Ranks = f[1] /\ \A n \in 1..(N + 1) : f[n] = Later(f, n)
<1> DEFINE g == CHOOSE h : h = [n \in 1..(N + 1) |->
                  IF n = N + 1 THEN [m \in Nodes |-> 0]
                  ELSE [h[n + 1] EXCEPT ![n] = Whole(BestRank(n, h[n + 1])) + Weight(n)]]
<1>1. \E f : f = [n \in 1..(N + 1) |-> Later(f, n)]
  <2>1. N \in Nat /\ N <= N /\ N + 1 - N = 1
    BY CoarsenAssumption
  <2>2. \E f : f = [n \in (N + 1 - N)..(N + 1) |-> Later(f, n)]
    BY <2>1, RankingExists
  <2> QED BY <2>1, <2>2
<1>2. g = [n \in 1..(N + 1) |->
             IF n = N + 1 THEN [m \in Nodes |-> 0]
             ELSE [g[n + 1] EXCEPT ![n] = Whole(BestRank(n, g[n + 1])) + Weight(n)]]
  BY <1>1, Zenon DEF Later
<1>3. Ranks = g[1]
  BY Zenon DEF Ranks
<1> HIDE DEF g
<1>4. \A n \in 1..(N + 1) : g[n] = Later(g, n)
  BY <1>2 DEF Later
<1> QED BY <1>3, <1>4

LEMMA BestRankIs ==
  ASSUME SchedulerTypes, NEW n \in Nodes, NEW r, \A m \in Nodes : r[m] \in Nat
  PROVE  /\ BestRank(n, r) \in Nat
         /\ \A m \in Readers(n) : r[m] <= BestRank(n, r)
         /\ Readers(n) # {} => \E m \in Readers(n) : r[m] = BestRank(n, r)
<1> DEFINE S == {0} \cup {r[m] : m \in Readers(n)}
<1>1. PICK b \in Nat : \A m \in Nodes : r[m] <= b
  BY BoundedValues
<1>2. \A m \in Readers(n) : m \in Nodes
  BY DEF Readers
<1>3. S \in SUBSET Nat /\ S # {} /\ \A x \in S : x <= b
  BY <1>1, <1>2
<1>4. BestRank(n, r) = Max(S)
  BY DEF BestRank
<1>5. Max(S) \in S /\ \A x \in S : x <= Max(S)
  <2> HIDE DEF S
  <2> QED BY <1>3, GreatestNumber
<1>6. PICK max : max = Max(S) /\ max \in S /\ max \in Nat /\ \A m \in Readers(n) : r[m] <= max
  BY <1>3, <1>5
<1>7. ASSUME Readers(n) # {} PROVE \E m \in Readers(n) : r[m] = max
  <2>1. CASE max = 0
    <3>1. PICK m \in Readers(n) : r[m] \in Nat
      BY <1>2, <1>7
    <3>2. r[m] <= max
      BY <1>6
    <3> QED BY <2>1, <3>1, <3>2
  <2>2. CASE max # 0
    BY <1>6, <2>2
  <2> QED BY <2>1, <2>2
<1> HIDE DEF S
<1> QED BY <1>4, <1>6, <1>7

LEMMA BestRankSame ==
  ASSUME NEW n, NEW r, NEW q, \A m \in Readers(n) : r[m] = q[m]
  PROVE  BestRank(n, r) = BestRank(n, q)
<1>1. {r[m] : m \in Readers(n)} = {q[m] : m \in Readers(n)}
  OBVIOUS
<1> QED BY <1>1 DEF BestRank

\* the rank of a node by the ranks of its readers
LEMMA RankEquation ==
  ASSUME SchedulerTypes
  PROVE  \A n \in Nodes : Ranks[n] \in Nat /\ Ranks[n] = Whole(BestRank(n, Ranks)) + Weight(n)
<1>1. PICK f : Ranks = f[1] /\ \A n \in 1..(N + 1) : f[n] = Later(f, n)
  BY RanksAreLater
<1>2. N \in Nat
  BY CoarsenAssumption
<1> DEFINE Holds(k) == /\ f[k] \in [Nodes -> Nat]
                       /\ \A m \in Nodes : m >= k =>
                            f[k][m] = Whole(BestRank(m, f[k])) + Weight(m)
           R == {d \in Nat : d <= N => Holds(N + 1 - d)}
<1>3. 0 \in R
  <2>1. N + 1 - 0 = N + 1 /\ N + 1 \in 1..(N + 1)
    BY <1>2
  <2>2. f[N + 1] = [m \in Nodes |-> 0]
    BY <1>1, <2>1 DEF Later
  <2>3. \A m \in Nodes : ~(m >= N + 1)
    BY <1>2 DEF Nodes
  <2>4. Holds(N + 1)
    BY <2>2, <2>3
  <2> HIDE DEF Holds
  <2> QED BY <2>1, <2>4
<1>4. ASSUME NEW d \in R PROVE d + 1 \in R
  <2>1. SUFFICES ASSUME d + 1 <= N PROVE Holds(N + 1 - (d + 1))
    <3> HIDE DEF Holds
    <3> QED OBVIOUS
  <2>2. PICK k : k = N - d
    OBVIOUS
  <2>3. d \in Nat /\ k \in Nodes /\ k \in Nat /\ N + 1 - (d + 1) = k /\ N + 1 - d = k + 1 /\ d <= N
        /\ k \in 1..(N + 1) /\ k # N + 1
    BY <1>2, <2>1, <2>2 DEF Nodes
  <2>4. Holds(k + 1)
    <3> HIDE DEF Holds
    <3> QED BY <2>3
  <2>5. f[k] = [f[k + 1] EXCEPT ![k] = Whole(BestRank(k, f[k + 1])) + Weight(k)]
    BY <1>1, <2>3 DEF Later
  <2>6. Whole(BestRank(k, f[k + 1])) + Weight(k) \in Nat
    <3>1. BestRank(k, f[k + 1]) \in Nat
      <4>1. \A m \in Nodes : f[k + 1][m] \in Nat
        BY <2>4
      <4> QED BY <2>3, <4>1, BestRankIs
    <3>2. Whole(BestRank(k, f[k + 1])) \in Nat /\ Weight(k) \in Nat
      BY <2>3, <3>1, WholeLoses, WeightType
    <3> QED BY <3>2
  <2>7. PICK v \in Nat : v = Whole(BestRank(k, f[k + 1])) + Weight(k)
    BY <2>6
  <2>8. /\ f[k] \in [Nodes -> Nat] /\ f[k][k] = v
        /\ \A m \in Nodes \ {k} : f[k][m] = f[k + 1][m]
    BY <2>3, <2>4, <2>5, <2>7
  <2>9. ASSUME NEW m \in Nodes, m >= k PROVE BestRank(m, f[k]) = BestRank(m, f[k + 1])
    <3>1. \A q \in Readers(m) : q \in Nodes /\ q # k
      <4>1. \A q \in Readers(m) : q \in Nodes /\ m < q
        BY ReadersFollow
      <4> QED BY <2>3, <2>9, <4>1, <1>2 DEF Nodes
    <3>2. \A q \in Readers(m) : f[k][q] = f[k + 1][q]
      BY <2>8, <3>1
    <3> QED BY <3>2, BestRankSame
  <2>10. ASSUME NEW m \in Nodes, m >= k PROVE f[k][m] = Whole(BestRank(m, f[k])) + Weight(m)
    <3>1. CASE m = k
      BY <2>7, <2>8, <2>9, <2>10, <3>1
    <3>2. CASE m # k
      <4>1. m >= k + 1
        BY <1>2, <2>3, <2>10, <3>2 DEF Nodes
      <4> QED BY <2>4, <2>8, <2>9, <2>10, <3>2, <4>1
    <3> QED BY <3>1, <3>2
  <2>11. Holds(k)
    BY <2>8, <2>10
  <2> HIDE DEF Holds
  <2> QED BY <2>3, <2>11
<1>5. Holds(1)
  <2> HIDE DEF Holds
  <2> HIDE DEF R
  <2>1. R \in SUBSET Nat
    BY DEF R
  <2>2. N \in R
    BY <1>2, <1>3, <1>4, <2>1, StepByStep
  <2>3. N + 1 - N = 1 /\ N <= N
    BY <1>2
  <2> QED BY <2>2, <2>3 DEF R
<1> QED BY <1>1, <1>2, <1>5 DEF Nodes

---------------------------------------------------------------------------
(* Ranks, paths and the longest chains.                                    *)

LEMMA SuccessorIs ==
  ASSUME SchedulerTypes, NEW n \in Nodes, NEW r, \A m \in Nodes : r[m] \in Nat
  PROVE  IF Readers(n) = {} THEN Successor(n, r) = Nobody
         ELSE Successor(n, r) \in Readers(n) /\ r[Successor(n, r)] = BestRank(n, r)
<1> DEFINE best == {m \in Readers(n) : r[m] = BestRank(n, r)}
<1>1. best \in SUBSET Nat /\ best \subseteq Readers(n) /\ \A m \in best : r[m] = BestRank(n, r)
  BY CoarsenAssumption DEF Readers, Nodes
<1>2. Readers(n) # {} => best # {}
  BY BestRankIs
<1>3. Successor(n, r) = IF best = {} THEN Nobody ELSE Min(best)
  BY DEF Successor
<1> HIDE DEF best
<1> QED BY <1>1, <1>2, <1>3, LeastIsIn

\* a node's rank, its path, and every chain it starts
Measured(n, r, s) ==
  /\ PathFrom(n, s) \in Chains(n)
  /\ r[n] <= Length(PathFrom(n, s))
  /\ \A S \in Chains(n) : Length(S) - r[n] <= (Unit - 1) * (Cardinality(S) - 1)

LEMMA ChainLength ==
  ASSUME SchedulerTypes, NEW n \in Nodes, NEW m \in Readers(n), NEW T \in Chains(m), n \notin T
  PROVE  /\ Length({n} \cup T) = Weight(n) + Length(T) /\ Length(T) \in Nat
         /\ Cardinality({n} \cup T) = Cardinality(T) + 1 /\ Cardinality(T) \in Nat
<1>1. T \in SUBSET Nodes
  <2>1. m \in Nodes /\ T \subseteq m..N
    BY DEF Readers, Chains
  <2> QED BY <2>1, CoarsenAssumption DEF Nodes
<1>2. {n} \cup T \in SUBSET Nodes /\ ({n} \cup T) \ {n} = T /\ n \in {n} \cup T
  BY <1>1
<1>3. Length({n} \cup T) = Weight(n) + Length(T)
  <2>1. \A x \in {n} \cup T : Length({n} \cup T) = Weight(x) + Length(({n} \cup T) \ {x})
    BY <1>2, LengthSplits
  <2> QED BY <1>2, <2>1
<1>4. Cardinality({n} \cup T) = Cardinality(T) + 1
  <2>1. IsFiniteSet(T)
    BY <1>1, FewStarts, FS_Subset
  <2>2. Cardinality(T \cup {n}) = Cardinality(T) + 1
    BY <2>1, FS_AddElement
  <2>3. T \cup {n} = {n} \cup T
    OBVIOUS
  <2> QED BY <2>2, <2>3
<1> QED BY <1>1, <1>3, <1>4, LengthSplits, CountNodes

LEMMA AloneMeasured ==
  ASSUME SchedulerTypes, NEW n \in Nodes, Readers(n) = {}, NEW r, NEW s,
         r[n] = Whole(BestRank(n, r)) + Weight(n), BestRank(n, r) = 0,
         s[n] = Nobody, Forward(s)
  PROVE  Measured(n, r, s)
<1>1. PathFrom(n, s) = {n} /\ {n} \in Chains(n)
  BY PathStep, ChainEnds
<1>2. \A S \in Chains(n) : S = {n}
  BY ChainSplits
<1>3. Weight(n) \in Nat
  BY WeightType
<1>4. Length({n}) = Weight(n)
  <2>1. {n} \in SUBSET Nodes /\ {n} \ {n} = {} /\ {} \in SUBSET Nodes
    OBVIOUS
  <2>2. \A x \in {n} : Length({n}) = Weight(x) + Length({n} \ {x})
    BY <2>1, LengthSplits
  <2>3. Length({}) = 0
    BY <2>1, LengthByOne
  <2>4. Length({n}) = Weight(n) + Length({})
    BY <2>1, <2>2
  <2> QED BY <1>3, <2>3, <2>4
<1>5. r[n] = Weight(n)
  <2>1. Whole(0) \in Nat /\ Whole(0) <= 0
    BY WholeLoses
  <2> QED BY <1>3, <2>1
<1>6. Cardinality({n}) = 1
  BY FS_Singleton
<1>7. (Unit - 1) * (1 - 1) = 0
  BY CoarsenAssumption
<1>8. /\ r[n] <= Length(PathFrom(n, s))
      /\ \A S \in Chains(n) : S = {n} /\ Length(S) - r[n] = 0
  <2>1. r[n] <= Length({n}) /\ Length({n}) - r[n] = 0
    BY <1>3, <1>4, <1>5
  <2> QED BY <1>1, <1>2, <2>1
<1>9. \A S \in Chains(n) : (Unit - 1) * (Cardinality(S) - 1) = 0
  BY <1>2, <1>6, <1>7
<1> QED BY <1>1, <1>8, <1>9 DEF Measured

LEMMA NextMeasured ==
  ASSUME SchedulerTypes, NEW n \in Nodes, Readers(n) # {}, NEW r, NEW s,
         \A m \in Nodes : r[m] \in Nat,
         r[n] = Whole(BestRank(n, r)) + Weight(n),
         s[n] \in Readers(n), r[s[n]] = BestRank(n, r), Forward(s),
         \A m \in Readers(n) : Measured(m, r, s)
  PROVE  Measured(n, r, s)
<1>1. /\ Weight(n) \in Nat /\ Unit \in Nat \ {0}
      /\ BestRank(n, r) \in Nat /\ \A m \in Readers(n) : r[m] <= BestRank(n, r)
  BY WeightType, CoarsenAssumption, BestRankIs
<1>2. /\ Whole(BestRank(n, r)) \in Nat /\ Whole(BestRank(n, r)) <= BestRank(n, r)
      /\ BestRank(n, r) - Whole(BestRank(n, r)) <= Unit - 1
  BY <1>1, WholeLoses
<1>3. PICK b, w \in Nat : b = BestRank(n, r) /\ w = Whole(BestRank(n, r))
  BY <1>1, <1>2
<1>4. \A m \in Readers(n) : m \in Nodes /\ n < m
  BY ReadersFollow
\* the path
<1>5. PathFrom(n, s) = {n} \cup PathFrom(s[n], s) /\ s[n] \in Nodes
  BY <1>4, PathStep, CoarsenAssumption DEF Nobody, Nodes
<1>6. PathFrom(s[n], s) \in Chains(s[n])
  BY DEF Measured
<1>7. PathFrom(n, s) \in Chains(n)
  BY <1>5, <1>6, ChainGrows
<1>8. n \notin PathFrom(s[n], s)
  <2>1. PathFrom(s[n], s) \subseteq s[n]..N
    BY <1>5, PathClosed
  <2> QED BY <1>4, <1>5, <2>1, CoarsenAssumption DEF Nodes
<1>9. r[n] <= Length(PathFrom(n, s))
  <2>1. /\ Length(PathFrom(n, s)) = Weight(n) + Length(PathFrom(s[n], s))
        /\ Length(PathFrom(s[n], s)) \in Nat
    BY <1>5, <1>6, <1>8, ChainLength
  <2>2. b <= Length(PathFrom(s[n], s))
    BY <1>3 DEF Measured
  <2> QED BY <1>1, <1>2, <1>3, <2>1, <2>2
\* the chains
<1>10. ASSUME NEW S \in Chains(n)
       PROVE  Length(S) - r[n] <= (Unit - 1) * (Cardinality(S) - 1)
  <2>0. PICK m \in Readers(n) : \E T \in Chains(m) : n \notin T /\ S = {n} \cup T
    BY ChainSplits
  <2>1. PICK T \in Chains(m) : n \notin T /\ S = {n} \cup T
    BY <2>0
  <2>2. /\ Length(S) = Weight(n) + Length(T) /\ Length(T) \in Nat
        /\ Cardinality(S) = Cardinality(T) + 1 /\ Cardinality(T) \in Nat
    BY <2>1, ChainLength
  <2>3. Length(T) - r[m] <= (Unit - 1) * (Cardinality(T) - 1)
    BY DEF Measured
  <2>4. r[m] \in Nat /\ r[m] <= b
    BY <1>1, <1>3, <1>4
  <2>5. PICK u, c, p \in Int : /\ u = Unit - 1 /\ c = Cardinality(T)
                               /\ p = u * (c - 1) /\ u * c = p + u
    BY <1>1, <2>2
  <2>6. (Unit - 1) * (Cardinality(S) - 1) = p + u
    BY <2>2, <2>5
  <2>7. Length(T) - r[m] <= p
    BY <2>3, <2>5
  <2>8. b - w <= u
    BY <1>2, <1>3, <2>5
  <2>9. Length(S) - r[n] <= p + u
    BY <1>1, <1>3, <2>2, <2>4, <2>5, <2>7, <2>8
  <2> QED BY <2>6, <2>9
<1> QED BY <1>7, <1>9, <1>10 DEF Measured

\* what getPropagateRank leaves in a node
Rated(n, r, s) ==
  /\ r[n] \in Nat /\ r[n] = Whole(BestRank(n, r)) + Weight(n)
  /\ IF Readers(n) = {} THEN s[n] = Nobody
     ELSE s[n] \in Readers(n) /\ r[s[n]] = BestRank(n, r)

LEMMA AllMeasured ==
  ASSUME SchedulerTypes, NEW r, NEW s, \A n \in Nodes : Rated(n, r, s)
  PROVE  \A n \in Nodes : r[n] \in Nat /\ Measured(n, r, s)
<1>1. \A n \in Nodes : r[n] \in Nat /\ r[n] = Whole(BestRank(n, r)) + Weight(n)
  BY DEF Rated
<1>2. \A n \in Nodes :
        IF Readers(n) = {} THEN s[n] = Nobody
        ELSE s[n] \in Readers(n) /\ r[s[n]] = BestRank(n, r)
  BY DEF Rated
<1>3. \A n \in Nodes : \A m \in Readers(n) : m \in Nodes /\ n < m
  BY ReadersFollow
<1>4. Forward(s)
  <2>1. ASSUME NEW n \in Nodes PROVE s[n] = Nobody \/ (s[n] \in Nodes /\ s[n] > n)
    <3>1. s[n] = Nobody \/ s[n] \in Readers(n)
      BY <1>2
    <3> QED BY <1>3, <3>1
  <2> QED BY <2>1 DEF Forward
<1>5. \A n \in Nodes : Readers(n) = {} => BestRank(n, r) = 0
  <2>1. \A n \in Nodes : Readers(n) = {} => BestRank(n, r) = Max({0})
    <3>1. ASSUME NEW n \in Nodes, Readers(n) = {} PROVE BestRank(n, r) = Max({0})
      <4>1. {0} \cup {r[m] : m \in Readers(n)} = {0}
        BY <3>1
      <4> QED BY <4>1 DEF BestRank
    <3> QED BY <3>1
  <2>2. Max({0}) = 0
    BY GreatestIs
  <2> QED BY <2>1, <2>2
<1> DEFINE R == {k \in Nat : \A n \in Nodes : N - n < k => Measured(n, r, s)}
<1>6. N \in Nat /\ \A n \in Nodes : n \in Nat /\ n <= N
  BY CoarsenAssumption DEF Nodes
<1>7. 0 \in R
  BY <1>6
<1>8. ASSUME NEW k \in R PROVE k + 1 \in R
  <2>1. k \in Nat /\ \A n \in Nodes : N - n < k => Measured(n, r, s)
    OBVIOUS
  <2>2. ASSUME NEW n \in Nodes, N - n < k + 1 PROVE Measured(n, r, s)
    <3>1. CASE Readers(n) = {}
      BY <1>1, <1>2, <1>4, <1>5, <3>1, AloneMeasured
    <3>2. CASE Readers(n) # {}
      <4>1. \A m \in Readers(n) : N - m < k /\ m \in Nodes
        BY <1>3, <1>6, <2>1, <2>2
      <4>2. \A m \in Readers(n) : Measured(m, r, s)
        BY <2>1, <4>1
      <4> QED BY <1>1, <1>2, <1>4, <3>2, <4>2, NextMeasured
    <3> QED BY <3>1, <3>2
  <2> QED BY <2>1, <2>2
<1> HIDE DEF R
<1>9. R \in SUBSET Nat
  BY DEF R
<1>10. N \in R
  BY <1>6, <1>7, <1>8, <1>9, StepByStep
<1> QED BY <1>1, <1>6, <1>10 DEF R, Nodes

\* the longest of the chains is no further from the rank than any
LEMMA LongestNear ==
  ASSUME SchedulerTypes, NEW n \in Nodes, NEW r, NEW s, r[n] \in Nat, Measured(n, r, s)
  PROVE  LET path    == PathFrom(n, s)
             chains  == Chains(n)
             longest == Max({Length(S) : S \in chains})
         IN /\ path \in chains
            /\ r[n] <= Length(path)
            /\ \E S \in chains :
                 Length(S) = longest /\ longest - r[n] <= (Unit - 1) * (Cardinality(S) - 1)
<1> DEFINE lengths == {Length(S) : S \in Chains(n)}
<1>1. /\ PathFrom(n, s) \in Chains(n) /\ r[n] <= Length(PathFrom(n, s))
      /\ \A S \in Chains(n) : Length(S) - r[n] <= (Unit - 1) * (Cardinality(S) - 1)
  BY DEF Measured
<1>2. N \in Nat /\ Unit - 1 \in Nat /\ n..N \subseteq Nodes
  BY CoarsenAssumption DEF Nodes
<1>3. ASSUME NEW S \in Chains(n)
      PROVE  Length(S) \in Nat /\ Length(S) <= r[n] + (Unit - 1) * N
  <2>1. S \in SUBSET Nodes
    BY <1>2 DEF Chains
  <2>2. Cardinality(S) \in Nat /\ Cardinality(S) <= N
    BY <2>1, CountNodes
  <2>3. (Unit - 1) * (Cardinality(S) - 1) <= (Unit - 1) * N
    <3>1. PICK u \in Nat, c \in Nat : u = Unit - 1 /\ c = N - (Cardinality(S) - 1)
      BY <1>2, <2>2
    <3>2. u * c \in Nat
      BY <3>1
    <3>3. u * (N - c) = u * N - u * c
      BY <1>2, <3>1
    <3> QED BY <1>2, <2>2, <3>1, <3>2, <3>3
  <2>4. Length(S) \in Nat
    BY <2>1, LengthSplits
  <2> QED BY <1>1, <1>2, <2>2, <2>3, <2>4
<1>4. r[n] + (Unit - 1) * N \in Nat
  BY <1>2
<1>5. lengths \in SUBSET Nat /\ lengths # {} /\ \A x \in lengths : x <= r[n] + (Unit - 1) * N
  BY <1>1, <1>3
<1>6. Max(lengths) \in lengths
  <2> HIDE DEF lengths
  <2> QED BY <1>4, <1>5, GreatestNumber
<1>7. PICK S \in Chains(n) : Length(S) = Max(lengths)
  BY <1>6
<1> QED BY <1>1, <1>7

---------------------------------------------------------------------------
(* Ranks and paths, from the step that computes them to the first that     *)
(* places a node.                                                          *)

Ranked ==
  /\ phase = "path" /\ visited = {} => \A n \in Nodes : Rated(n, rank, successor)
  /\ \A l \in lamdas : Pair(l) # {}

RInv == CInv /\ Ranked

LEMMA RankRanks == ASSUME CInv, Rank PROVE Ranked'
<1> DEFINE s == [n \in Nodes |-> Successor(n, Ranks)]
<1>1. /\ rank' = Ranks /\ successor' = s
      /\ lamdas' = UNION {LamdasOf(p) : p \in CriticalPaths(s)}
      /\ inputs' = inputs /\ profile' = profile /\ target' = target
  BY DEF Rank, graphVars
<1>2. SchedulerTypes
  BY DEF CInv
<1>3. PICK r : r = Ranks
  OBVIOUS
<1>4. \A n \in Nodes : r[n] \in Nat /\ r[n] = Whole(BestRank(n, r)) + Weight(n)
  BY <1>2, <1>3, RankEquation
<1>5. \A n \in Nodes : IF Readers(n) = {} THEN s[n] = Nobody
                       ELSE s[n] \in Readers(n) /\ r[s[n]] = BestRank(n, r)
  BY <1>2, <1>3, <1>4, SuccessorIs
<1> HIDE DEF s
<1>6. \A n \in Nodes : Rated(n, r, s)
  BY <1>4, <1>5 DEF Rated
<1>7. \A n \in Nodes : Rated(n, rank, successor)'
  <2>1. ASSUME NEW n \in Nodes PROVE Rated(n, rank, successor)'
    <3>1. Readers(n)' = Readers(n)
      BY <1>1 DEF Readers
    <3>2. BestRank(n, rank)' = BestRank(n, r)
      BY <1>1, <1>3, <3>1 DEF BestRank
    <3>3. Weight(n)' = Weight(n)
      BY <1>1 DEF Weight, Comp, Trans
    <3>4. Whole(BestRank(n, rank))' = Whole(BestRank(n, r))
      BY <3>2 DEF Whole
    <3> QED BY <1>1, <1>3, <1>6, <3>1, <3>2, <3>3, <3>4 DEF Rated
  <2> QED BY <2>1
<1>8. \A n \in Nodes : s[n] \in Nodes \cup {Nobody}
  BY SuccessorType DEF s
<1>9. \A p \in CriticalPaths(s) : p \subseteq Nodes
  <2>1. 1..Cardinality(Starts) \subseteq Nodes
    BY FewStarts, CoarsenAssumption DEF Nodes
  <2> QED BY <1>8, <2>1, PathStays DEF CriticalPaths
<1>10. \A l \in lamdas' : Pair(l) # {}
  <2>1. ASSUME NEW l \in lamdas' PROVE Pair(l) # {}
    <3>1. PICK p \in CriticalPaths(s) : l \in LamdasOf(p)
      BY <1>1
    <3>2. p \subseteq Nodes
      BY <1>9
    <3> QED BY <3>1, <3>2, PairOnPath
  <2> QED BY <2>1
<1> QED BY <1>7, <1>10 DEF Ranked, Pair

LEMMA NextRInv == RInv /\ [LocalNext]_allVars => RInv'
<1>1. SUFFICES ASSUME RInv, [LocalNext]_allVars PROVE Ranked'
  BY NextCInv DEF RInv
\* steps before the ranks, and steps that place a node
<1>2. CASE \E t \in Targets : Priority(t)
  BY <1>1, <1>2 DEF Priority, RInv, Ranked, Pair
<1>3. CASE Assign
  BY <1>1, <1>3 DEF Assign, RInv, Ranked, Pair
<1>4. CASE Rank
  BY <1>1, <1>4, RankRanks DEF RInv
<1>5. CASE ClusterCP
  <2>1. PICK l \in Best(lamdas) : lamdas' = lamdas \ {l} /\ visited' = visited \cup Pair(l)
    BY <1>5, ThreeWays
  <2>2. Pair(l) # {}
    BY <1>1 DEF Best, RInv, Ranked
  <2> QED BY <1>1, <2>1, <2>2 DEF RInv, Ranked, Pair
<1>6. CASE ClusterG
  BY <1>1, <1>6 DEF ClusterG, RInv, Ranked, Pair
<1>7. CASE Register
  BY <1>1, <1>7 DEF Register, RInv, Ranked, Pair
\* the graph runs
<1>8. CASE StartRun \/ (\E n \in Nodes : ExecuteOnHost(n) \/ ExecuteOnDevice(n)) \/ UNCHANGED allVars
  <2>1. UNCHANGED <<inputs, profile, phase, target, rank, successor, lamdas, visited>>
    BY <1>8 DEF StartRun, ExecuteOnHost, ExecuteOnDevice, allVars, vars, graphVars, pathVars
  <2>2. \A n \in Nodes : Rated(n, rank, successor)' <=> Rated(n, rank, successor)
    <3>1. ASSUME NEW n \in Nodes PROVE Rated(n, rank, successor)' <=> Rated(n, rank, successor)
      <4>1. Readers(n)' = Readers(n)
        BY <2>1 DEF Readers
      <4>2. BestRank(n, rank)' = BestRank(n, rank)
        BY <2>1, <4>1 DEF BestRank
      <4>3. Weight(n)' = Weight(n)
        BY <2>1 DEF Weight, Comp, Trans
      <4>4. Whole(BestRank(n, rank))' = Whole(BestRank(n, rank))
        BY <4>2 DEF Whole
      <4> QED BY <2>1, <4>1, <4>2, <4>3, <4>4 DEF Rated
    <3> QED BY <3>1
  <2> QED BY <1>1, <2>1, <2>2 DEF RInv, Ranked, Pair
<1> QED BY <1>1, <1>2, <1>3, <1>4, <1>5, <1>6, <1>7, <1>8 DEF LocalNext, Schedule

\* The rank of a node is the length of the longest chain it starts, less than
\* a unit short for every node that follows, and its path is such a chain: for
\* every graph and all measurements.
THEOREM RankNearLongestPathHolds == LocalSpec => []RankNearLongestPath
<1>1. LocalInit => RInv
  <2>1. Init => Ranked
    BY DEF Init, Ranked
  <2> QED BY <2>1, InitCInv DEF LocalInit, RInv
<1>2. RInv => RankNearLongestPath
  <2>1. SUFFICES ASSUME RInv, phase = "path", visited = {}
                 PROVE  \A n \in Nodes :
                          LET path    == PathFrom(n, successor)
                              chains  == Chains(n)
                              longest == Max({Length(S) : S \in chains})
                          IN /\ path \in chains
                             /\ rank[n] <= Length(path)
                             /\ \E S \in chains :
                                  /\ Length(S) = longest
                                  /\ longest - rank[n] <= (Unit - 1) * (Cardinality(S) - 1)
    BY DEF RankNearLongestPath
  <2>2. SchedulerTypes /\ \A n \in Nodes : Rated(n, rank, successor)
    BY <2>1 DEF RInv, CInv, Ranked
  <2>3. \A n \in Nodes : rank[n] \in Nat /\ Measured(n, rank, successor)
    BY <2>2, AllMeasured
  <2> QED BY <2>2, <2>3, LongestNear
<1> QED BY <1>1, <1>2, NextRInv, PTL DEF LocalSpec
============================================================================

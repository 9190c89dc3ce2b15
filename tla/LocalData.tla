----------------------------- MODULE LocalData -----------------------------
(***************************************************************************)
(* Where the data of a scheduled graph are while it runs.  A data object   *)
(* has a copy in host memory and one in device memory; a node on the host  *)
(* works on the first, a node on the device on the second                  *)
(* (targets/opencl/vx_interface.c, vxclCallOpenCLKernel).  The device      *)
(* uploads what a node reads and downloads what it wrote, except for data  *)
(* the scheduler has registered as local: their readers and their writer   *)
(* are all in clusters (DataObject::registerForLocalOptimized), they are   *)
(* not uploaded, and they are downloaded only if some reader runs on       *)
(* another target than the writer.                                         *)
(*                                                                         *)
(* A copy is named by the run of the graph that wrote it.  The device has  *)
(* memory of its own: the upload and download calls of the code are what   *)
(* moves data (an OpenCL that shares the host's pages would hide a         *)
(* forgotten upload).                                                      *)
(***************************************************************************)
EXTENDS NodeCoarsen

CONSTANT MaxRuns      \* bound: how often the graph is processed

VARIABLES optimized,  \* is_local_optimized
          back,       \* is_transfer_back
          host,       \* data object -> the run whose data host memory has
          device,     \* the same of device memory
          run,        \* number of the current run, 0 before the first
          executed,   \* nodes executed in this run
          stale       \* [node, data]: reads of another run's data

flags    == <<optimized, back>>
copies   == <<host, device>>
progress == <<run, executed>>
dataVars == <<flags, copies, progress, stale>>
allVars  == <<vars, dataVars>>

LocalInit ==
  /\ Init
  /\ optimized = [d \in Data |-> FALSE]
  /\ back = [d \in Data |-> TRUE]
  /\ host = [d \in Data |-> 0]
  /\ device = [d \in Data |-> 0]
  /\ run = 0 /\ executed = {}
  /\ stale = {}

---------------------------------------------------------------------------
(* registerForLocalOptimized.                                              *)

InCluster(n) == \E t \in Targets : n \in clusters[t]

\* Mutation: a result nobody reads counts as local.
IsLocal_Unread(d) == d \in Written /\ InCluster(d) /\ \A r \in Readers(d) : InCluster(r)

\* written and read, and only by nodes of clusters, of whatever target
IsLocal(d) == /\ d \in Written /\ Readers(d) # {}
              /\ InCluster(d) /\ \A r \in Readers(d) : InCluster(r)

\* Mutation: only the first reader's target is looked at.
NeedTransferBack_First(d) == Readers(d) # {} /\ target[Min(Readers(d))] # target[d]

NeedTransferBack(d) == \E r \in Readers(d) : target[r] # target[d]

Register ==
  /\ Coarsened
  /\ optimized' = [d \in Data |-> IsLocal(d)]
  /\ back' = [d \in Data |-> IsLocal(d) => NeedTransferBack(d)]
  /\ phase' = "scheduled"
  /\ UNCHANGED <<graphVars, target, pathVars, lamdas, todo, visited, clusters,
                 copies, progress, stale>>

---------------------------------------------------------------------------
(* The graph is processed again and again, each time on new source data.   *)

StartRun ==
  /\ phase = "scheduled"
  /\ run = 0 \/ executed = Nodes
  /\ run < MaxRuns
  /\ run' = run + 1
  /\ executed' = {}
  /\ host' = [d \in Data |-> IF d \in SrcData THEN run + 1 ELSE host[d]]
  /\ UNCHANGED <<vars, flags, device, stale>>

Ready(n) == /\ run > 0 /\ n \notin executed
            /\ inputs[n] \cap Written \subseteq executed

\* what a node reads that is not of this run
StaleIn(n, copy) == {[node |-> n, data |-> d] : d \in {e \in inputs[n] : copy[e] # run}}

\* vxTargetProcess of the C model: on host memory
ExecuteOnHost(n) ==
  /\ Ready(n) /\ target[n] = Host
  /\ stale' = stale \cup StaleIn(n, host)
  /\ host' = [host EXCEPT ![n] = run]
  /\ executed' = executed \cup {n}
  /\ UNCHANGED <<vars, flags, device, run>>

IsUploaded(d)   == ~optimized[d]
IsDownloaded(d) == ~(optimized[d] /\ ~back[d])

Uploaded(n) == [d \in Data |-> IF d \in inputs[n] /\ IsUploaded(d) THEN host[d] ELSE device[d]]

\* vxclCallOpenCLKernel, under the lock of the target
ExecuteOnDevice(n) ==
  /\ Ready(n) /\ target[n] = Device
  /\ stale' = stale \cup StaleIn(n, Uploaded(n))
  /\ device' = [Uploaded(n) EXCEPT ![n] = run]
  /\ host' = [host EXCEPT ![n] = IF IsDownloaded(n) THEN run ELSE @]
  /\ executed' = executed \cup {n}
  /\ UNCHANGED <<vars, flags, run>>

LocalNext ==
  \/ Schedule /\ UNCHANGED dataVars
  \/ Register
  \/ StartRun
  \/ \E n \in Nodes : ExecuteOnHost(n) \/ ExecuteOnDevice(n)

LocalSpec == LocalInit /\ [][LocalNext]_allVars

---------------------------------------------------------------------------
(* Properties.                                                             *)

\* vxclCallOpenCLKernel promises an upload "for each input parameter that is
\* an object", and leaves it out for local data whatever the target of their
\* writer.  Stale data are read only across a boundary the scheduler drew so: by a node
\* on the device, of an object a node on the host wrote, both in clusters.
\* Every other transfer that is left out is one nobody needed: nodes on the
\* host, data that stay on one target and graphs that are not coarsened
\* always work on data of their own run.
StaleOnlyAcross ==
  \A s \in stale :
    /\ target[s.node] = Device /\ s.data \in Written /\ target[s.data] = Host
    /\ InCluster(s.node) /\ InCluster(s.data)

\* When a run is over, host memory has its results, and everything a node of
\* another target than the writer's may read.
ResultsComeBack ==
  run > 0 /\ executed = Nodes =>
    \A d \in Written :
      Readers(d) = {} \/ (\E r \in Readers(d) : target[r] # target[d]) => host[d] = run
===========================================================================

----------------------------- MODULE Threadpool -----------------------------
(***************************************************************************)
(* The threadpool of sample/framework/vx_osal.c, which runs the nodes of a *)
(* wave of a graph in parallel: vxIssueThreadpool and vxCompleteThreadpool *)
(* called by the one thread that executes a graph on the pool (module      *)
(* ProcessGraph says why there is only one), vxWorkerThreadpool with       *)
(* vxWorkerNode in every worker, and vxDestroyThreadpool called by         *)
(* vxReleaseContext.                                                       *)
(*                                                                         *)
(* A work item is <<batch, index>>: the element workitems[index-1] of the  *)
(* array on the stack of vxExecuteGraph, in its batch'th use.  The queue   *)
(* of a worker (module Queue) is the set of the items queued on it: it     *)
(* holds at most Depth of them, a writer waits for room, and the order in  *)
(* which the items of one wave run makes no difference.                    *)
(*                                                                         *)
(* The issuer keeps pool->sem while it waits on a full queue, so its loop  *)
(* takes a step for every write.  A worker does nothing that can block     *)
(* while it has pool->sem, so that part of it is one step.                 *)
(***************************************************************************)
EXTENDS Integers, FiniteSets

CONSTANTS
  NumWorkers,  \* VX_INT_HOST_CORES
  Depth,       \* VX_INT_MAX_QUEUE_DEPTH
  MaxItems,    \* bound: nodes of a wave
  MaxBatches,  \* bound: waves
  Spurious     \* whether pthread_cond_wait may return without a broadcast

ASSUME ThreadpoolAssumption ==
  /\ NumWorkers \in Nat \ {0}
  /\ Depth \in Nat \ {0}
  /\ MaxItems \in Nat \ {0}
  /\ MaxBatches \in Nat
  /\ Spurious \in BOOLEAN

Workers == 0 .. NumWorkers - 1
Items == (1 .. MaxBatches) \X (1 .. MaxItems)

VARIABLES
  place,            \* how far each work item has come
  worker,           \* the worker whose queue it was written to
  action,           \* its v3: the action the node returned
  numCurrentItems,  \* pool->numCurrentItems
  nextWorkerIndex,  \* pool->nextWorkerIndex
  semFree,          \* pool->sem is not held by the issuer
  completed,        \* the event pool->completed
  pc,               \* where the issuer is
  batch,            \* the wave it is in
  size,             \* numWorkItems
  i,                \* the item it is about to write, from 1
  count,            \* the cycle detector of vxIssueThreadpool
  abandoned,        \* the action the issuer collected was VX_ACTION_ABANDON
  popped,           \* the queue of each worker has been popped
  exited,           \* each worker has returned from vxWorkerThreadpool
  release,          \* where vxDestroyThreadpool is
  victim            \* and at which worker

items == <<place, worker, action>>
pool == <<numCurrentItems, nextWorkerIndex, semFree, completed>>
issuer == <<pc, batch, size, i, count, abandoned>>
ends == <<popped, exited, release, victim>>
vars == <<items, pool, issuer, ends>>

Init ==
  /\ place = [x \in Items |-> "new"]
  /\ worker = [x \in Items |-> 0]
  /\ action = [x \in Items |-> "continue"]
  /\ numCurrentItems = 0
  /\ nextWorkerIndex = 0
  /\ semFree = TRUE
  /\ completed = FALSE
  /\ pc = "idle"
  /\ batch = 0
  /\ size = 0
  /\ i = 1
  /\ count = 0
  /\ abandoned = FALSE
  /\ popped = [w \in Workers |-> FALSE]
  /\ exited = [w \in Workers |-> FALSE]
  /\ release = "none"
  /\ victim = 0

Queued(w) == {x \in Items : place[x] = "queued" /\ worker[x] = w}
InHand(w) == {x \in Items : place[x] \in {"running", "ran"} /\ worker[x] = w}
Outstanding == {x \in Items : place[x] \in {"queued", "running", "ran"}}

-----------------------------------------------------------------------------
(* vxIssueThreadpool and vxCompleteThreadpool.                             *)

\* The completed event is reset when a wave is issued.
EventAtIssue_Kept == completed
EventAtIssue == FALSE

Issue(n) ==
  /\ pc = "idle" /\ semFree /\ release # "freed"
  /\ batch < MaxBatches
  /\ semFree' = FALSE
  /\ completed' = EventAtIssue
  /\ batch' = batch + 1
  /\ size' = n /\ i' = 1 /\ count' = 0 /\ abandoned' = FALSE
  /\ pc' = "write"
  /\ UNCHANGED <<items, numCurrentItems, nextWorkerIndex, ends>>

NextWorker == (nextWorkerIndex + 1) % NumWorkers

\* vxWriteQueue on the next worker's queue returns once there is room.
Write ==
  /\ pc = "write"
  /\ ~popped[nextWorkerIndex]
  /\ Cardinality(Queued(nextWorkerIndex)) < Depth
  /\ place' = [place EXCEPT ![<<batch, i>>] = "queued"]
  /\ worker' = [worker EXCEPT ![<<batch, i>>] = nextWorkerIndex]
  /\ numCurrentItems' = numCurrentItems + 1
  /\ nextWorkerIndex' = NextWorker
  /\ i' = i + 1 /\ count' = 0
  /\ pc' = IF i = size THEN "issued" ELSE "write"
  /\ UNCHANGED <<action, semFree, completed, batch, size, abandoned, ends>>

\* The item was counted before the write and is taken off the count again.
CountAfterFailure_Kept == numCurrentItems + 1
CountAfterFailure == numCurrentItems + 1 - 1

\* vxWriteQueue fails on a popped queue, or when a writer that waits for
\* room wakes up for nothing.  The next worker is tried, until all have been.
WriteFails ==
  /\ pc = "write"
  /\ \/ popped[nextWorkerIndex]
     \/ Spurious /\ Cardinality(Queued(nextWorkerIndex)) = Depth
  /\ numCurrentItems' = CountAfterFailure
  /\ nextWorkerIndex' = NextWorker
  /\ count' = count + 1
  /\ pc' = IF count' < NumWorkers THEN "write" ELSE "overflow"
  /\ UNCHANGED <<items, semFree, completed, batch, size, i, abandoned, ends>>

\* The event is set if nothing is left to wait for.
EventAtEnd == completed \/ numCurrentItems = 0

\* After an overflow the caller neither waits nor looks at the items.
EndIssue ==
  /\ pc \in {"issued", "overflow"}
  /\ completed' = EventAtEnd
  /\ semFree' = TRUE
  /\ pc' = IF pc = "issued" THEN "complete" ELSE "idle"
  /\ UNCHANGED <<items, numCurrentItems, nextWorkerIndex, batch, size, i, count, abandoned, ends>>

\* vxCompleteThreadpool: its result is ignored by vxExecuteGraph.
Complete ==
  /\ pc = "complete"
  /\ completed \/ Spurious
  /\ pc' = "collect"
  /\ UNCHANGED <<items, pool, batch, size, i, count, abandoned, ends>>

\* vxExecuteGraph looks for an item whose node gave up.
Collected_SkipsLast == {<<batch, k>> : k \in 1 .. size - 1}
Collected == {<<batch, k>> : k \in 1 .. size}
Collect ==
  /\ pc = "collect"
  /\ abandoned' = (\E x \in Collected : action[x] = "abandon")
  /\ pc' = "idle"
  /\ UNCHANGED <<items, pool, batch, size, i, count, ends>>

-----------------------------------------------------------------------------
(* vxWorkerThreadpool.                                                     *)

\* vxReadQueue takes an item of a queue that is not popped.
Read(w) ==
  /\ ~exited[w] /\ ~popped[w]
  /\ InHand(w) = {}
  /\ \E x \in Queued(w) : place' = [place EXCEPT ![x] = "running"]
  /\ UNCHANGED <<worker, action, pool, issuer, ends>>

\* vxWorkerNode runs the node and leaves its action in the item.
Run(w) ==
  /\ \E x \in InHand(w), a \in {"continue", "abandon"} :
       /\ place[x] = "running"
       /\ place' = [place EXCEPT ![x] = "ran"]
       /\ action' = [action EXCEPT ![x] = a]
  /\ UNCHANGED <<worker, pool, issuer, ends>>

\* The item is taken off the count, and the last one sets the event.
IsLast_OneEarly == numCurrentItems - 1 <= 1
IsLast_Never == numCurrentItems - 1 < 0
IsLast == numCurrentItems - 1 <= 0
Finish(w) ==
  /\ semFree
  /\ \E x \in InHand(w) : place[x] = "ran" /\ place' = [place EXCEPT ![x] = "done"]
  /\ numCurrentItems' = numCurrentItems - 1
  /\ completed' = (completed \/ IsLast)
  /\ UNCHANGED <<worker, action, nextWorkerIndex, semFree, issuer, ends>>

\* vxReadQueue returns vx_false_e on a popped queue, whatever it still holds.
Exit(w) ==
  /\ popped[w] /\ ~exited[w]
  /\ InHand(w) = {}
  /\ exited' = [exited EXCEPT ![w] = TRUE]
  /\ UNCHANGED <<items, pool, issuer, popped, release, victim>>

-----------------------------------------------------------------------------
(* vxDestroyThreadpool, the first thing vxReleaseContext does.  Nothing     *)
(* keeps it from doing so while the graph thread executes a graph.         *)

Destroy ==
  /\ release = "none"
  /\ release' = "pop"
  /\ UNCHANGED <<items, pool, issuer, popped, exited, victim>>

PoppedQueues_None == popped
PoppedQueues == [popped EXCEPT ![victim] = TRUE]
Pop ==
  /\ release = "pop"
  /\ popped' = PoppedQueues
  /\ release' = "join"
  /\ UNCHANGED <<items, pool, issuer, exited, victim>>

Join ==
  /\ release = "join"
  /\ exited[victim]
  /\ IF victim + 1 = NumWorkers
     THEN release' = "freed" /\ UNCHANGED victim
     ELSE release' = "pop" /\ victim' = victim + 1
  /\ UNCHANGED <<items, pool, issuer, popped, exited>>

-----------------------------------------------------------------------------
\* What an issuer does with a pool that was freed under it is undefined and
\* not followed any further.
IssuerStep ==
  release # "freed" /\ (Write \/ WriteFails \/ EndIssue \/ Complete \/ Collect)
WorkerStep(w) == Read(w) \/ Run(w) \/ Finish(w) \/ Exit(w)
DestroyStep == Pop \/ Join

\* The context is gone and nobody uses the pool any more.
Terminated == release = "freed" /\ pc = "idle" /\ UNCHANGED vars

Next ==
  \/ \E n \in 1 .. MaxItems : Issue(n)
  \/ IssuerStep
  \/ \E w \in Workers : WorkerStep(w)
  \/ Destroy \/ DestroyStep
  \/ Terminated

Spec == Init /\ [][Next]_vars

\* Threads run: none stays forever before a step it can take.
FairSpec ==
  /\ Spec
  /\ WF_vars(IssuerStep)
  /\ WF_vars(DestroyStep)
  /\ \A w \in Workers : WF_vars(WorkerStep(w))

-----------------------------------------------------------------------------
(* Properties.                                                             *)

ItemTypeOK ==
  /\ place \in [Items -> {"new", "queued", "running", "ran", "done"}]
  /\ worker \in [Items -> Workers]
  /\ action \in [Items -> {"continue", "abandon"}]
PoolTypeOK ==
  /\ numCurrentItems \in Int
  /\ nextWorkerIndex \in Workers
  /\ semFree \in BOOLEAN
  /\ completed \in BOOLEAN
IssuerTypeOK ==
  /\ pc \in {"idle", "write", "issued", "overflow", "complete", "collect"}
  /\ batch \in 0 .. MaxBatches
  /\ size \in 0 .. MaxItems
  /\ i \in 1 .. MaxItems + 1
  /\ count \in Nat
  /\ abandoned \in BOOLEAN
EndTypeOK ==
  /\ popped \in [Workers -> BOOLEAN]
  /\ exited \in [Workers -> BOOLEAN]
  /\ release \in {"none", "pop", "join", "freed"}
  /\ victim \in Workers
TypeOK == ItemTypeOK /\ PoolTypeOK /\ IssuerTypeOK /\ EndTypeOK

\* numCurrentItems, which the issuer and the workers change in three places,
\* is the number of items that a worker has still to run or to account for,
\* whichever writes failed on the way (vxIssueThreadpool, vxWorkerThreadpool).
CountsOutstanding == numCurrentItems = Cardinality(Outstanding)

\* The completed event is never set while an item is outstanding: who waits
\* for it in vxCompleteThreadpool is not released too early.
CompletedMeansDone == completed => Outstanding = {}

\* ... and with nobody inside vxIssueThreadpool it is set when none is, or
\* vxCompleteThreadpool would wait for ever.
DoneMeansCompleted == semFree /\ batch > 0 /\ Outstanding = {} => completed

\* The array of work items is on the stack of vxExecuteGraph: it is read,
\* written again or given up only when no worker can still use it, unless
\* the context is released meanwhile.
NoReuse ==
  pc = "collect" \/ (pc = "idle" /\ release = "none") => Outstanding = {}

\* When vxExecuteGraph looks at a wave every node of it has run, each on the
\* one worker it was given to: the next wave finds its inputs written.
WaveIsComplete == pc = "collect" => \A k \in 1 .. size : place[<<batch, k>>] = "done"

\* The inductive invariant behind CountsOutstanding and its like: the items
\* up to the one that is written next have left "new" and no others have, and
\* the event is reset as long as the issuer has pool->sem.
Started(b, k) == b < batch \/ (b = batch /\ k < i)
Progress ==
  /\ \A b \in 1 .. MaxBatches, k \in 1 .. MaxItems :
       place[<<b, k>>] # "new" => Started(b, k)
  /\ \A k \in 1 .. MaxItems : batch > 0 /\ k < i => place[<<batch, k>>] # "new"
  /\ pc = "write" => i <= size
  /\ pc \in {"issued", "complete", "collect"} => i = size + 1
  /\ pc # "idle" => batch > 0
Event ==
  /\ semFree <=> pc \notin {"write", "issued", "overflow"}
  /\ ~semFree => ~completed
IInv ==
  /\ TypeOK /\ Progress /\ Event
  /\ CountsOutstanding /\ CompletedMeansDone /\ DoneMeansCompleted

\* What is added where no thread wakes up for nothing: a wave is looked at
\* with the event set, and no write fails before the context is released.
Orderly ==
  /\ pc = "collect" => completed
  /\ release = "none" =>
       /\ \A w \in Workers : ~popped[w]
       /\ pc # "overflow"
       /\ pc = "idle" /\ batch > 0 => completed
  /\ batch = 0 => Outstanding = {}

\* A node that gave up is seen by vxExecuteGraph, whichever worker ran it.
AbandonSeen ==
  pc = "idle" /\ release = "none" =>
    (abandoned <=> \E k \in 1 .. size : action[<<batch, k>>] = "abandon")

\* Every wave that was issued comes back to vxExecuteGraph, as long as the
\* context is not released.
BatchReturns ==
  pc # "idle" /\ release = "none" ~> pc = "idle" \/ release # "none"

\* vxDestroyThreadpool joins every worker, unless a graph is being executed.
DestroyReturns ==
  release # "none" /\ pc = "idle" ~> release = "freed" \/ pc # "idle"
=============================================================================

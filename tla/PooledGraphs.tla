---------------------------- MODULE PooledGraphs ----------------------------
(***************************************************************************)
(* Any number of threads call vxProcessGraph (module ProcessGraph) and     *)
(* share the threadpool of their context (module Threadpool).  The call    *)
(* that found itself alone runs its waves on the pool; the work items, the *)
(* nodes and the targets they name are on its stack.  Nothing but the      *)
(* counter keeps a later call from the pool, and nothing but the completed *)
(* event keeps a call from returning while workers use its stack.          *)
(***************************************************************************)
EXTENDS Threadpool

CONSTANT Callers
ASSUME PooledGraphsAssumption == IsFiniteSet(Callers) /\ "nobody" \notin Callers

VARIABLES
  calls,  \* the static counter of vxProcessGraph
  at,     \* where each call is
  depth,  \* the argument of vxExecuteGraph
  owner   \* the call whose wave the pool is working on, or "nobody"

G == INSTANCE ProcessGraph WITH count <- calls, pc <- at

callVars == <<calls, at, depth>>
allVars == <<vars, callVars, owner>>

PooledInit == Init /\ G!Init /\ owner = "nobody"

Call(t) == (G!Enter(t) \/ G!ReadCount(t)) /\ UNCHANGED <<vars, owner>>

\* A call may run any number of waves, one after the other.
IssueWave(t) ==
  /\ G!OnPool(t)
  /\ \E n \in 1 .. MaxItems : Issue(n)
  /\ owner' = t
  /\ UNCHANGED callVars

InWave ==
  /\ IssuerStep
  /\ owner' = IF pc' = "idle" THEN "nobody" ELSE owner
  /\ UNCHANGED callVars

\* vxExecuteGraph returns between two waves.
Return(t) == owner # t /\ G!Leave(t) /\ UNCHANGED <<vars, owner>>

Work(w) == WorkerStep(w) /\ UNCHANGED <<callVars, owner>>

Release == (Destroy \/ DestroyStep) /\ UNCHANGED <<callVars, owner>>

\* The pool is gone: what happens to calls that are still inside is undefined.
Over == release = "freed" /\ UNCHANGED allVars

PooledNext ==
  \/ \E t \in Callers : Call(t) \/ IssueWave(t) \/ Return(t)
  \/ InWave
  \/ \E w \in Workers : Work(w)
  \/ Release
  \/ Over

\* Threads run; a call runs as many waves as its graph has, then it returns.
PooledSpec ==
  /\ PooledInit /\ [][PooledNext]_allVars
  /\ WF_allVars(InWave)
  /\ WF_allVars(DestroyStep /\ Release)
  /\ \A w \in Workers : WF_allVars(Work(w))
  /\ \A t \in Callers : WF_allVars(Return(t))

-----------------------------------------------------------------------------
(* Properties.                                                             *)

\* At most one call uses the threadpool, although the counter is read after
\* the lock has been released (vxProcessGraph).
OnePoolUser == G!OnePoolUser

\* A work item that a worker may still touch is on the stack of a call that is
\* inside vxExecuteGraph and that is the one using the pool: no call returns
\* over its items and none finds those of another in the pool.
WorkHasCaller ==
  release = "none" /\ Outstanding # {} =>
    /\ owner \in Callers
    /\ G!OnPool(owner)
    /\ \A x \in Outstanding : x[1] = batch
=============================================================================

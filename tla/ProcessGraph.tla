---------------------------- MODULE ProcessGraph ----------------------------
(***************************************************************************)
(* vxProcessGraph of sample/framework/vx_graph.c, called by any number of  *)
(* threads: the application's, the graph thread of the context, and a      *)
(* kernel that processes a graph of its own.  A counter of the calls in    *)
(* progress decides which of them may run its nodes on the threadpool of   *)
(* the context.  The counter is changed under the global lock, but it is   *)
(* read without it.                                                        *)
(***************************************************************************)
EXTENDS Integers, FiniteSets

CONSTANT Callers

VARIABLES
  count,  \* the static counter of vxProcessGraph
  pc,     \* where each call is
  depth   \* the argument of vxExecuteGraph
vars == <<count, pc, depth>>

Init ==
  /\ count = 0
  /\ pc = [t \in Callers |-> "out"]
  /\ depth = [t \in Callers |-> 0]

Goto(t, from, to) == pc[t] = from /\ pc' = [pc EXCEPT ![t] = to]

Enter(t) ==
  /\ Goto(t, "out", "entered")
  /\ count' = count + 1
  /\ UNCHANGED depth

\* The lock has been released: another call may have entered or left since.
ReadCount(t) ==
  /\ Goto(t, "entered", "executing")
  /\ depth' = [depth EXCEPT ![t] = count]
  /\ UNCHANGED count

CountAfterCall == count - 1
Leave(t) ==
  /\ Goto(t, "executing", "out")
  /\ count' = CountAfterCall
  /\ UNCHANGED depth

Next == \E t \in Callers : Enter(t) \/ ReadCount(t) \/ Leave(t)
Spec == Init /\ [][Next]_vars

\* vxExecuteGraph issues the nodes of a wave to the threadpool.
OnPool_TwoDeep(t) == pc[t] = "executing" /\ depth[t] <= 2
OnPool(t) == pc[t] = "executing" /\ depth[t] = 1

-----------------------------------------------------------------------------
(* Properties.                                                             *)

\* At most one call uses the threadpool, although the counter is read after
\* the lock has been released: the pool, its event and the work items on the
\* stack of vxExecuteGraph are shared by one issuer and the workers only.
OnePoolUser == \A t, u \in Callers : OnPool(t) /\ OnPool(u) => t = u

\* The inductive invariant: the counter counts the calls in progress, and a
\* call that found itself alone is inside with those that came later.
Inside == {t \in Callers : pc[t] # "out"}
CountsInside == count = Cardinality(Inside)
IInv == pc \in [Callers -> {"out", "entered", "executing"}]
        /\ depth \in [Callers -> Int] /\ CountsInside /\ OnePoolUser
=============================================================================

---------------------------- MODULE AsyncGraphs ----------------------------
(***************************************************************************)
(* What vxScheduleGraph and vxWaitGraph promise (include/VX/vx_api.h): a   *)
(* graph that was scheduled is executed once, and vxWaitGraph returns the  *)
(* status of that execution, after it.                                     *)
(***************************************************************************)
CONSTANTS Graphs, Statuses

VARIABLES
  state,   \* what the application knows of each graph
  outcome, \* the status of its last execution
  answer   \* the status vxWaitGraph last returned for it
vars == <<state, outcome, answer>>

Init ==
  /\ state = [g \in Graphs |-> "free"]
  /\ outcome \in [Graphs -> Statuses]
  /\ answer \in [Graphs -> Statuses]

Schedule(g) ==
  /\ state[g] = "free"
  /\ state' = [state EXCEPT ![g] = "scheduled"]
  /\ UNCHANGED <<outcome, answer>>

Execute(g) ==
  /\ state[g] = "scheduled"
  /\ state' = [state EXCEPT ![g] = "executed"]
  /\ \E s \in Statuses : outcome' = [outcome EXCEPT ![g] = s]
  /\ UNCHANGED answer

Wait(g) ==
  /\ state[g] = "executed"
  /\ state' = [state EXCEPT ![g] = "free"]
  /\ answer' = [answer EXCEPT ![g] = outcome[g]]
  /\ UNCHANGED outcome

Next == \E g \in Graphs : Schedule(g) \/ Execute(g) \/ Wait(g)
Spec == Init /\ [][Next]_vars
=============================================================================

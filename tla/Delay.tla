------------------------------- MODULE Delay --------------------------------
(***************************************************************************)
(* A delay of sample/framework/vx_delay.c: a ring of objects, the index    *)
(* that ages it, and the lists of node parameters that vxAgeDelay binds    *)
(* anew.  An object is its place in delay->refs; slot k is what the        *)
(* application writes as -k.                                               *)
(***************************************************************************)
EXTENDS Integers, FiniteSets

CONSTANTS
  Params,   \* parameters of nodes
  Counts    \* numbers of slots a delay may have

ASSUME DelayAssumption ==
  /\ IsFiniteSet(Params)
  /\ Counts \subseteq Nat \ {0}

VARIABLES
  count,      \* delay->count
  index,      \* delay->index
  set,        \* delay->set: the parameters filed in each list
  refs,       \* how often the parameters count as references to the delay
  bound,      \* the object each parameter names, or None
  slot,       \* the slot the application named when it set the parameter
  aged        \* the parameters that aging has bound since

delay == <<count, index, set, refs>>
vars == <<delay, bound, slot, aged>>

None == -1
Slots == 0 .. count - 1

Init ==
  /\ count \in Counts
  /\ index = 0
  /\ set = [i \in Slots |-> {}]
  /\ refs = 0
  /\ bound = [p \in Params |-> None]
  /\ slot = [p \in Params |-> 0]
  /\ aged = {}

\* vxGetReferenceFromDelay(delay, -k)
ReferenceFromDelay(k) == (index + k) % count

\* The list in which an object's parameters are filed.
ListOf_NoIndex(object) == (count - object) % count
ListOf(object) == (index + count - object) % count

Filed == UNION {set[i] : i \in Slots}

\* vxRemoveAssociationToDelay: it fails if the parameter is in another list.
Found(p) == bound[p] = None \/ p \in set[ListOf(bound[p])]
Removed(p) == [i \in Slots |-> IF bound[p] # None /\ i = ListOf(bound[p])
                               THEN set[i] \ {p} ELSE set[i]]
RefsLeft_Kept(p) == refs
RefsLeft(p) == IF bound[p] = None THEN refs ELSE refs - 1

\* vxAddAssociationToDelay: the first entry of a list needs no memory.
Add(p, object, lists) == [lists EXCEPT ![ListOf(object)] = @ \cup {p}]
NeedsMemory(object, lists) == lists[ListOf(object)] # {}

-----------------------------------------------------------------------------
(* vxSetParameterByIndex with an object of the delay, and with another; it *)
(* does nothing and returns an error if the parameter is not found.  The   *)
(* second is also what vxDestructNode does for a parameter that is found.  *)

SetToSlot(p, k) ==
  /\ Found(p)
  /\ LET object == ReferenceFromDelay(k) IN
     \/ /\ set' = Add(p, object, Removed(p))
        /\ refs' = RefsLeft(p) + 1
        /\ bound' = [bound EXCEPT ![p] = object]
        /\ slot' = [slot EXCEPT ![p] = k]
        /\ aged' = aged \ {p}
     \/ \* no memory: the parameter keeps its value, and is filed no longer
        /\ NeedsMemory(object, Removed(p))
        /\ set' = Removed(p)
        /\ refs' = RefsLeft(p)
        /\ UNCHANGED <<bound, slot, aged>>
  /\ UNCHANGED <<count, index>>

SetToOther(p) ==
  /\ Found(p)
  /\ set' = Removed(p)
  /\ refs' = RefsLeft(p)
  /\ bound' = [bound EXCEPT ![p] = None]
  /\ aged' = aged \ {p}
  /\ UNCHANGED <<count, index, slot>>

Following(i) == (i + 1) % count

\* Every parameter in list i gets the object i after the new index.
AgeDelay ==
  /\ index' = Following(index)
  /\ bound' = [p \in Params |->
       IF p \in Filed
       THEN (index' + (CHOOSE i \in Slots : p \in set[i])) % count
       ELSE bound[p]]
  /\ aged' = aged \cup Filed
  /\ UNCHANGED <<count, set, refs, slot>>

Next ==
  \/ \E p \in Params : SetToOther(p) \/ \E k \in Slots : SetToSlot(p, k)
  \/ AgeDelay

Spec == Init /\ [][Next]_vars

-----------------------------------------------------------------------------
TypeOK ==
  /\ count \in Counts
  /\ index \in Slots
  /\ set \in [Slots -> SUBSET Params]
  /\ refs \in Nat
  /\ bound \in [Params -> Slots \cup {None}]
  /\ slot \in [Params -> Slots]
  /\ aged \subseteq Params

\* The references the parameters hold on the delay are as many as the filed
\* parameters, and none is filed twice: the delay goes when the last is gone.
RefsCountFiled ==
  /\ refs = Cardinality(Filed)
  /\ \A i, j \in Slots : i # j => set[i] \cap set[j] = {}

\* What slot -k names for a node, slot -(k+1) names for another after aging
\* once more: the history that a graph sees is one of the ring.
PassesOn ==
  [][index' # index =>
       \A p, q \in aged \cap Filed : slot[q] = slot[p] + 1 => bound'[q] = bound[p]]_vars

\* In a ring of two a node sees what vxGetReferenceFromDelay returns for the
\* slot it was given.
TwoAgree ==
  count <= 2 => \A p \in Filed : bound[p] = ReferenceFromDelay(slot[p])
=============================================================================

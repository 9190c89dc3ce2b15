----------------------------- MODULE References -----------------------------
(***************************************************************************)
(* The reference counts of sample/framework/vx_reference.c, with the       *)
(* objects that hold each other: a graph its nodes, a node its parameters, *)
(* a vx_parameter its node, a pyramid its levels, a region of interest its *)
(* parent image.  The application releases what it holds in any order; an  *)
(* object whose two counts reach zero is destroyed, and its destructor     *)
(* releases what it points to, which may be destroyed in turn.  At the end *)
(* vxReleaseContext collects what the application has not released.        *)
(*                                                                         *)
(* An object is the slot of context->reftable it occupies.  A pointer that *)
(* is counted is a field of the object.  Destructors call each other; here *)
(* the fields of the objects that are being destroyed are released in any  *)
(* order, one per step.  Kernels and targets are not modelled: they stay   *)
(* until the modules are unloaded.                                         *)
(***************************************************************************)
EXTENDS Integers, FiniteSets

CONSTANTS
  MaxRefs,      \* VX_INT_MAX_REF
  NumFields,    \* bound: nodes of a graph, parameters, levels
  MaxExternal,  \* bound: external references to an object
  Retained,     \* bound: the kinds of objects that may have more than one
  Handles       \* memory of the application that images are made from

ASSUME ReferencesAssumption ==
  /\ MaxRefs \in Nat \ {0}
  /\ NumFields \in Nat \ {0}
  /\ MaxExternal \in Nat \ {0}
  /\ 0 \notin Handles

Objects == 1 .. MaxRefs
Fields == 1 .. NumFields
None == 0
NoCall == [node |-> None, index |-> 1, value |-> None]
NoFields == [f \in Fields |-> None]
Kinds == {"graph", "node", "parameter", "pyramid", "image"}

VARIABLES
  kind,       \* ref->type, "none" for an empty slot
  external,   \* ref->external_count
  internal,   \* ref->internal_count
  to,         \* the objects its fields point to
  dying,      \* the objects that are being destroyed
  subimages,  \* image->subimages, not counted
  memory,     \* image->memory.ptrs
  pc,         \* "idle", "set" in vxNodeSetParameter, or in vxReleaseContext
  call,       \* the arguments of vxNodeSetParameter
  r           \* the loop of vxReleaseContext

counts == <<external, internal, dying>>
images == <<subimages, memory>>
vars == <<kind, counts, to, images, pc, call, r>>

Init ==
  /\ kind = [o \in Objects |-> "none"]
  /\ external = [o \in Objects |-> 0]
  /\ internal = [o \in Objects |-> 0]
  /\ to = [o \in Objects |-> NoFields]
  /\ dying = {}
  /\ subimages = [o \in Objects |-> [s \in Objects |-> None]]
  /\ memory = [o \in Objects |-> None]
  /\ pc = "idle"
  /\ call = NoCall
  /\ r = 1

Idle == pc = "idle" /\ dying = {}
Held(o) == kind[o] # "none" /\ external[o] > 0

-----------------------------------------------------------------------------
(* vxCreateReference: a new object takes the first empty slot and belongs  *)
(* to the application.                                                     *)

NthFree(o, n) == kind[o] = "none" /\ Cardinality({p \in 1 .. o - 1 : kind[p] = "none"}) = n
FirstFree(o) == NthFree(o, 0)

\* The parent of a region and the node of a parameter are counted.
CountPointee_Not(p) == [internal EXCEPT ![p] = @]
CountPointee(p) == [internal EXCEPT ![p] = @ + 1]

Create(o, k) ==
  /\ Idle /\ FirstFree(o)
  /\ kind' = [kind EXCEPT ![o] = k]
  /\ external' = [external EXCEPT ![o] = 1]
  /\ UNCHANGED <<dying, pc, call, r>>

CreateGraph(o) == Create(o, "graph") /\ UNCHANGED <<internal, to, images>>

CreateImageFromHandle(o, h) ==
  /\ Create(o, "image")
  /\ memory' = [memory EXCEPT ![o] = h]
  /\ UNCHANGED <<internal, to, subimages>>

FirstEntry(i, s) == subimages[i][s] = None /\ \A t \in 1 .. s - 1 : subimages[i][t] # None
CreateImageFromROI(o, i) ==
  /\ kind[i] = "image" /\ Held(i)
  /\ Create(o, "image")
  /\ to' = [to EXCEPT ![o][1] = i]
  /\ internal' = CountPointee(i)
  /\ \E s \in Objects : FirstEntry(i, s) /\ subimages' = [subimages EXCEPT ![i][s] = o]
  /\ memory' = [memory EXCEPT ![o] = memory[i]]

\* vxInitPyramid: each level is created for the application and then handed
\* over to the pyramid.
CreatePyramid(o) ==
  /\ Idle /\ FirstFree(o)
  /\ \E level \in [Fields -> Objects] :
       /\ \A f \in Fields : NthFree(level[f], f)
       /\ LET levels == {level[f] : f \in Fields} IN
          /\ kind' = [p \in Objects |-> IF p = o THEN "pyramid"
                                        ELSE IF p \in levels THEN "image" ELSE kind[p]]
          /\ internal' = [p \in Objects |-> IF p \in levels THEN 1 ELSE internal[p]]
       /\ to' = [to EXCEPT ![o] = level]
  /\ external' = [external EXCEPT ![o] = 1]
  /\ UNCHANGED <<dying, images, pc, call, r>>

\* One reference for the application and one for the graph.
CreateGenericNode(o, g, f) ==
  /\ kind[g] = "graph" /\ Held(g) /\ to[g][f] = None
  /\ \A e \in 1 .. f - 1 : to[g][e] # None
  /\ Create(o, "node")
  /\ to' = [to EXCEPT ![g][f] = o]
  /\ internal' = CountPointee(o)
  /\ UNCHANGED images

GetParameterByIndex(o, n) ==
  /\ kind[n] = "node" /\ Held(n)
  /\ Create(o, "parameter")
  /\ to' = [to EXCEPT ![o][1] = n]
  /\ internal' = CountPointee(n)
  /\ UNCHANGED images

\* vxRetainReference, vxGetPyramidLevel, and the value of a parameter read by
\* vxQueryParameter.
Reachable(o) ==
  \/ Held(o)
  \/ \E p \in Objects, f \in Fields : Held(p) /\ kind[p] = "pyramid" /\ to[p][f] = o
  \/ \E p \in Objects, f \in Fields :
       /\ Held(p) /\ kind[p] = "parameter"
       /\ to[p][1] # None /\ to[to[p][1]][f] = o
Obtain(o) ==
  /\ Idle /\ Reachable(o)
  /\ external[o] < MaxExternal
  /\ external[o] > 0 => kind[o] \in Retained
  /\ external' = [external EXCEPT ![o] = @ + 1]
  /\ UNCHANGED <<kind, internal, dying, to, images, pc, call, r>>

-----------------------------------------------------------------------------
(* vxReleaseReferenceInt: the counts of o become e and i, and the object   *)
(* is destroyed if nothing is left of them.                                *)

Release_WhenUnlinked(o, e, i) ==
  /\ external' = [external EXCEPT ![o] = e]
  /\ internal' = [internal EXCEPT ![o] = i]
  /\ dying' = IF i = 0 THEN dying \cup {o} ELSE dying
Release(o, e, i) ==
  /\ external' = [external EXCEPT ![o] = e]
  /\ internal' = [internal EXCEPT ![o] = i]
  /\ dying' = IF e + i = 0 THEN dying \cup {o} ELSE dying

\* vxReleaseImage takes the region off the list of its parent.
Listing_Kept(o) == subimages
Listing(o) ==
  [i \in Objects |-> [s \in Objects |->
     IF i = to[o][1] /\ subimages[i][s] = o THEN None ELSE subimages[i][s]]]

ReleaseReference(o) ==
  /\ Idle /\ Held(o)
  /\ Release(o, external[o] - 1, internal[o])
  /\ subimages' = IF kind[o] = "image" THEN Listing(o) ELSE subimages
  /\ UNCHANGED <<kind, to, memory, pc, call, r>>

\* vxRemoveNode: the node leaves the graph, the last one takes its place, and
\* both references are released.
RemoveNode(n) ==
  /\ Idle /\ Held(n) /\ kind[n] = "node"
  /\ \E g \in Objects, f, last \in Fields :
       /\ kind[g] = "graph" /\ to[g][f] = n
       /\ to[g][last] # None /\ \A e \in last + 1 .. NumFields : to[g][e] = None
       /\ to' = [to EXCEPT ![g][f] = to[g][last], ![g][last] = None]
  /\ Release(n, external[n] - 1, internal[n] - 1)
  /\ UNCHANGED <<kind, images, pc, call, r>>

\* vxNodeSetParameter releases the old value ...
SetParameter(n, f, v) ==
  /\ Idle /\ Held(n) /\ kind[n] = "node"
  /\ Held(v) /\ kind[v] \in {"image", "pyramid"}
  /\ pc' = "set" /\ call' = [node |-> n, index |-> f, value |-> v]
  /\ to' = [to EXCEPT ![n][f] = None]
  /\ IF to[n][f] = None
     THEN UNCHANGED counts
     ELSE Release(to[n][f], external[to[n][f]], internal[to[n][f]] - 1)
  /\ UNCHANGED <<kind, images, r>>

\* ... and, when it returns from that, counts the new one.
FinishSetParameter ==
  /\ pc = "set" /\ dying = {}
  /\ pc' = "idle" /\ call' = NoCall
  /\ to' = [to EXCEPT ![call.node][call.index] = call.value]
  /\ internal' = CountPointee(call.value)
  /\ UNCHANGED <<kind, external, dying, images, r>>

\* vxDestructNode, vxDestructParameter, vxDestructPyramid and vxDestructImage
\* release their pointers.  vxDestructGraph also releases one of the external
\* references of each node.
ExternalLeft(d, o) ==
  IF kind[d] = "graph" /\ external[o] > 0 THEN external[o] - 1 ELSE external[o]
Destruct(d, f) ==
  /\ d \in dying /\ to[d][f] # None
  /\ to' = [to EXCEPT ![d][f] = None]
  /\ LET o == to[d][f] IN Release(o, ExternalLeft(d, o), internal[o] - 1)
  /\ UNCHANGED <<kind, images, pc, call, r>>

Free(d) ==
  /\ d \in dying /\ to[d] = NoFields
  /\ kind' = [kind EXCEPT ![d] = "none"]
  /\ dying' = dying \ {d}
  /\ subimages' = [subimages EXCEPT ![d] = [s \in Objects |-> None]]
  /\ memory' = [memory EXCEPT ![d] = None]
  /\ UNCHANGED <<external, internal, to, pc, call, r>>

-----------------------------------------------------------------------------
(* vxSwapImageHandle visits the first entry of the list of subimages, and  *)
(* in the same way the first of that one.                                  *)

FirstListed(i) ==
  {subimages[i][s] : s \in {s \in Objects :
     subimages[i][s] # None /\ \A t \in 1 .. s - 1 : subimages[i][t] = None}}
Visited(i) ==
  {o \in Objects : \A S \in SUBSET Objects :
     i \in S /\ (\A p \in S : FirstListed(p) \subseteq S) => o \in S}
SwapImageHandle(i, h) ==
  /\ Idle /\ Held(i) /\ kind[i] = "image"
  /\ to[i][1] = None /\ memory[i] # None
  /\ memory' = [o \in Objects |-> IF o \in Visited(i) THEN h ELSE memory[o]]
  /\ UNCHANGED <<kind, counts, to, subimages, pc, call, r>>

-----------------------------------------------------------------------------
(* vxReleaseContext.                                                       *)

ReleaseContext == Idle /\ pc' = "collect" /\ r' = 1 /\ UNCHANGED <<kind, counts, to, images, call>>

\* The external references of each slot are released, all of them.
ExternalCollected_One(o) == external[o] - 1
ExternalCollected(o) == 0
Collect ==
  /\ pc = "collect" /\ dying = {} /\ r \in Objects
  /\ r' = r + 1
  /\ IF Held(r) THEN Release(r, ExternalCollected(r), internal[r]) ELSE UNCHANGED counts
  /\ UNCHANGED <<kind, to, images, pc, call>>
Collected ==
  /\ pc = "collect" /\ dying = {} /\ r \notin Objects
  /\ pc' = "collected"
  /\ UNCHANGED <<kind, counts, to, images, call, r>>

Application ==
  \/ \E o \in Objects :
       \/ CreateGraph(o) \/ CreatePyramid(o)
       \/ \E h \in Handles : CreateImageFromHandle(o, h) \/ SwapImageHandle(o, h)
       \/ \E p \in Objects : CreateImageFromROI(o, p) \/ GetParameterByIndex(o, p)
       \/ \E p \in Objects, f \in Fields : CreateGenericNode(o, p, f) \/ SetParameter(o, f, p)
       \/ Obtain(o) \/ ReleaseReference(o) \/ RemoveNode(o)
  \/ ReleaseContext

Next ==
  \/ Application
  \/ FinishSetParameter
  \/ \E d \in Objects : Free(d) \/ \E f \in Fields : Destruct(d, f)
  \/ Collect \/ Collected

Spec == Init /\ [][Next]_vars

-----------------------------------------------------------------------------
CountTypeOK ==
  /\ kind \in [Objects -> Kinds \cup {"none"}]
  /\ external \in [Objects -> 0 .. MaxExternal]
  /\ internal \in [Objects -> Nat]
  /\ to \in [Objects -> [Fields -> Objects \cup {None}]]
  /\ dying \in SUBSET Objects
ImageTypeOK ==
  /\ subimages \in [Objects -> [Objects -> Objects \cup {None}]]
  /\ memory \in [Objects -> Handles \cup {None}]
CallTypeOK ==
  /\ pc \in {"idle", "set", "collect", "collected"}
  /\ call \in [node : Objects \cup {None}, index : Fields, value : Objects \cup {None}]
  /\ r \in 1 .. MaxRefs + 1
TypeOK == CountTypeOK /\ ImageTypeOK /\ CallTypeOK

\* The internal count of every object is the number of the pointers to it,
\* those of objects that are being destroyed included: it reaches zero neither
\* before the last of them is gone nor not at all.
Pointers(o) == {x \in Objects \X Fields : to[x[1]][x[2]] = o}
CountsPointers == \A o \in Objects : internal[o] = Cardinality(Pointers(o))

\* An object is destroyed exactly when nobody has a reference to it, and what
\* an object, alive or being destroyed, still points to has not been.
Destroyed == \A o \in dying : kind[o] # "none" /\ external[o] + internal[o] = 0
Referenced ==
  \A o \in Objects : kind[o] # "none" /\ o \notin dying => external[o] + internal[o] > 0
PointeesAlive ==
  \A o \in Objects, f \in Fields :
    to[o][f] # None => kind[o] # "none" /\ kind[to[o][f]] # "none" /\ to[o][f] \notin dying
LiveIfReferenced ==
  /\ Destroyed /\ Referenced /\ PointeesAlive
  /\ pc = "set" => \A o \in {call.node, call.value} : kind[o] # "none" /\ o \notin dying

\* The inductive invariant behind these two: an empty slot is not referred to,
\* pointers are to objects of the kinds their holders know, and what
\* vxNodeSetParameter returns to, the application still holds: only images
\* and pyramids are destroyed below it.
EmptySlots ==
  \A o \in Objects : kind[o] = "none" => external[o] = 0 /\ internal[o] = 0 /\ to[o] = NoFields
Pointees(k) ==
  CASE k \in {"graph", "parameter"} -> {"node"}
    [] k = "node" -> {"image", "pyramid"}
    [] OTHER -> {"image"}
KindsFit ==
  \A o \in Objects, f \in Fields : to[o][f] # None => kind[to[o][f]] \in Pointees(kind[o])
SetInProgress ==
  pc = "set" =>
    /\ call.node \in Objects /\ external[call.node] > 0 /\ kind[call.node] = "node"
    /\ call.value \in Objects /\ external[call.value] > 0
    /\ kind[call.value] \in {"image", "pyramid"}
    /\ to[call.node][call.index] = None
    /\ \A o \in dying : kind[o] \in {"image", "pyramid"}
IInv == /\ TypeOK /\ CountsPointers /\ EmptySlots /\ Destroyed /\ Referenced
        /\ KindsFit /\ SetInProgress

\* The list of subimages, whose entries are not counted, has only regions of
\* that image that have not been destroyed (vxReleaseImage clears the entry,
\* and vxSwapImageHandle follows it).
SubimagesAlive ==
  pc # "collect" /\ pc # "collected" =>
    \A i, s \in Objects :
      LET o == subimages[i][s] IN o # None => kind[o] = "image" /\ to[o][1] = i /\ o \notin dying

\* After the loop of vxReleaseContext the table is empty, in whichever order
\* the objects lie in it and refer to each other.
CollectsAll == pc = "collected" => \A o \in Objects : kind[o] = "none"

\* What SubimagesAlive rests on: the application still holds a region that is
\* listed, since every release of an image takes it off the list.
Listed ==
  pc \in {"idle", "set"} =>
    \A i, s \in Objects :
      LET o == subimages[i][s] IN
      o # None => kind[o] = "image" /\ to[o][1] = i /\ external[o] > 0

\* What CollectsAll rests on: of any images one is such that no other of
\* them is a region of it, so they do not keep each other alive, and the loop leaves
\* no external reference behind it.
Unpointed(S) == {o \in S : \A p \in S, f \in Fields : to[p][f] # o}
ImagesOrdered ==
  \A S \in SUBSET {o \in Objects : kind[o] = "image"} : S # {} => Unpointed(S) # {}
Swept ==
  /\ pc \in {"collect", "collected"} => \A o \in Objects : o < r => external[o] = 0
  /\ pc = "collected" => r = MaxRefs + 1 /\ dying = {}

\* Images made from a region of an image use the memory of that image, also
\* after it was replaced by vxSwapImageHandle.
RegionsShareMemory ==
  Idle => \A o \in Objects :
    kind[o] = "image" /\ to[o][1] # None => memory[o] = memory[to[o][1]]
=============================================================================

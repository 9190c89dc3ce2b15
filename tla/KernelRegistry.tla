-------------------------- MODULE KernelRegistry --------------------------
(***************************************************************************)
(* The kernels and modules of a context: the kernel table of every target, *)
(* the counters the context keeps over them, the module table of           *)
(* vxLoadKernels, and what vxReleaseContext makes of both                  *)
(* (framework/vx_kernel.c, vx_target.c, vx_context.c).                     *)
(*                                                                         *)
(* A kernel is a slot of a target's table.  It is counted by the target    *)
(* (one internal reference), by the application that added or found it     *)
(* (external) and by the nodes made from it (internal).  vxRemoveKernel    *)
(* frees the slot whatever is left of these counts, and vxAddKernel takes  *)
(* the first free slot and starts its counts anew.  Kernels and modules    *)
(* are removed in any order by the interface; Orderly is the discipline    *)
(* of an application that keeps to what the code can cope with.            *)
(***************************************************************************)
EXTENDS Integers, Sequences, FiniteSets

CONSTANTS Order,        \* the targets, by priority
          NumSlots,     \* VX_INT_MAX_KERNELS
          BaseNames,    \* the kernels a target comes with
          UserNames,    \* the kernels an application or a module may add
          BaseOf,       \* target -> its own kernels, as a sequence of names
          TargetOf,     \* user kernel -> the target its name starts with
          EnumOf,       \* kernel -> the number it is registered under
          NumModules,   \* VX_INT_MAX_MODULES
          Libraries,    \* names of loadable modules
          Orderly,      \* TRUE for an application that is orderly
          MaxExternal   \* bound: external references to a kernel

Targets == {Order[i] : i \in DOMAIN Order}
Names   == BaseNames \cup UserNames
Slots   == Targets \X (1..NumSlots)
NoName  == "noname"
NoEnum  == "invalid"          \* VX_KERNEL_INVALID
NoLib   == "nolib"

ASSUME KernelsAssumption ==
  /\ NumSlots \in Nat \ {0} /\ NumModules \in Nat \ {0} /\ MaxExternal \in Nat \ {0}
  /\ BaseNames \cap UserNames = {}
  /\ Order \in Seq(Targets)
  /\ TargetOf \in [UserNames -> Targets]
  \* neither a module nor a number stands for none
  /\ NoLib \notin Libraries
  /\ DOMAIN EnumOf = Names /\ \A n \in Names : EnumOf[n] # NoEnum
  /\ \A t \in Targets : BaseOf[t] \in Seq(BaseNames) /\ Len(BaseOf[t]) <= NumSlots
  /\ Orderly \in BOOLEAN
  \* added kernels of two targets are not registered under one number
  /\ \A m, n \in UserNames : EnumOf[m] = EnumOf[n] => TargetOf[m] = TargetOf[n]

VARIABLES kernels,      \* the tables: slot -> kernel
          reftable,     \* entries of the context's reference table per slot
          numKernels,   \* context->num_kernels
          numUnique,    \* context->num_unique_kernels
          targetKernels,\* target->num_kernels
          modules,      \* context->modules, by library
          numModules,   \* context->num_modules
          holders,      \* who has the kernel: application handles and nodes
                        \* (bound: one handle and one node per kernel at a time)
          contextReleased  \* vxReleaseContext has run

counters     == <<numKernels, numUnique, targetKernels>>
moduleTables == <<modules, numModules>>
registryVars == <<kernels, reftable, counters, moduleTables, holders, contextReleased>>

Holder == [kind : {"application", "node"}, slot : Slots,
           name : Names \cup {NoName}]

NoKernel == [name |-> NoName, enum |-> NoEnum, enabled |-> FALSE, user |-> FALSE,
             ext |-> 0, int |-> 0, alive |-> FALSE]

\* vxInitializeKernel: the counts start anew and the target's is taken
Initialized(n, user) ==
  [name |-> n, enum |-> EnumOf[n], enabled |-> FALSE, user |-> user,
   ext |-> IF user THEN 1 ELSE 0, int |-> 1, alive |-> TRUE]

Occupied(t) == {k \in 1..NumSlots : kernels[<<t, k>>].enum # NoEnum}

Lowest(S) == CHOOSE k \in S : \A j \in S : k <= j

\* vxIsKernelUnique, over a table: nobody enabled has this number
IsKernelUnique(table, e) ==
  \A s \in Slots : ~(table[s].enabled /\ table[s].enum = e)

EnabledSlots == {s \in Slots : kernels[s].enabled}
UniqueEnums  == {kernels[s].enum : s \in EnabledSlots}

---------------------------------------------------------------------------
(* A context starts with the kernels of its targets, all finalized.        *)

BaseTable ==
  [s \in Slots |->
     IF s[2] \in DOMAIN BaseOf[s[1]]
     THEN [Initialized(BaseOf[s[1]][s[2]], FALSE) EXCEPT !.enabled = TRUE]
     ELSE NoKernel]

RegistryInit ==
  /\ kernels = BaseTable
  /\ reftable = [s \in Slots |-> IF BaseTable[s].alive THEN 1 ELSE 0]
  /\ numKernels = Cardinality({s \in Slots : BaseTable[s].enabled})
  /\ numUnique = Cardinality({BaseTable[s].enum : s \in {r \in Slots : BaseTable[r].enabled}})
  /\ targetKernels = [t \in Targets |-> Len(BaseOf[t])]
  /\ modules = [m \in 1..NumModules |-> NoLib]
  /\ numModules = 0
  /\ holders = {}
  /\ contextReleased = FALSE

---------------------------------------------------------------------------
(* Adding, finalizing and removing.                                        *)

\* vxTargetAddKernel: a slot that is neither enabled nor numbered
FreeSlots(t) == {k \in 1..NumSlots : /\ ~kernels[<<t, k>>].enabled
                                     /\ kernels[<<t, k>>].enum = NoEnum}

AddKernel(n) ==
  LET t == TargetOf[n]
      s == <<t, Lowest(FreeSlots(t))>>
  IN /\ FreeSlots(t) # {}
     /\ \A r \in Slots : kernels[r].enum # NoEnum => kernels[r].name # n
     /\ kernels' = [kernels EXCEPT ![s] = Initialized(n, TRUE)]
     /\ reftable' = [reftable EXCEPT ![s] = @ + 1]
     /\ targetKernels' = [targetKernels EXCEPT ![t] = @ + 1]
     /\ UNCHANGED <<numKernels, numUnique, moduleTables, holders>>

\* the application finalizes a kernel it added, once
FinalizeKernel(s) ==
  /\ kernels[s].user /\ kernels[s].alive /\ ~kernels[s].enabled
  /\ numKernels' = numKernels + 1
  /\ numUnique' = numUnique + (IF IsKernelUnique(kernels, kernels[s].enum) THEN 1 ELSE 0)
  /\ kernels' = [kernels EXCEPT ![s].enabled = TRUE]
  /\ UNCHANGED <<reftable, targetKernels, moduleTables, holders>>

\* Mutation: a kernel goes with its last external reference.
Dropped_AtLastExternal(table, s) ==
  [table EXCEPT ![s].alive = @ /\ table[s].ext > 0]

\* the last reference gone: out of the reference table, magic number cleared
Dropped(table, s) ==
  [table EXCEPT ![s].alive = @ /\ table[s].ext + table[s].int > 0]

Entries(table, s) ==
  [reftable EXCEPT ![s] = IF kernels[s].alive /\ ~table[s].alive THEN @ - 1 ELSE @]

Less(n) == IF n = 0 THEN 0 ELSE n - 1        \* vxDecrementReference stops at zero

\* the table once the slot's kernel is disabled, released by its target and its
\* slot is free; the counts that remain are those of whoever still has it
Removed(s) ==
  [Dropped([kernels EXCEPT ![s].ext = Less(@), ![s].int = Less(@)], s)
      EXCEPT ![s].enabled = FALSE, ![s].enum = NoEnum, ![s].user = FALSE]

Disabled(s) == [kernels EXCEPT ![s].enabled = FALSE]

\* Mutation: asked while the removed kernel is still enabled.
StillUnique_TooEarly(s) == IsKernelUnique(kernels, kernels[s].enum)

StillUnique(s) == IsKernelUnique(Disabled(s), kernels[s].enum)

RemoveKernel(s) ==
  /\ kernels[s].user /\ kernels[s].alive
  /\ Orderly => \A h \in holders : h.slot # s
  /\ IF kernels[s].enabled
     THEN /\ numKernels' = numKernels - 1
          /\ numUnique' = numUnique - (IF StillUnique(s) THEN 1 ELSE 0)
     ELSE UNCHANGED <<numKernels, numUnique>>
  /\ targetKernels' = [targetKernels EXCEPT ![s[1]] = @ - 1]
  /\ kernels' = Removed(s)
  /\ reftable' = Entries(Removed(s), s)
  /\ UNCHANGED <<moduleTables, holders>>

---------------------------------------------------------------------------
(* Finding kernels, and what is made of them.                              *)

\* vxTargetSupports looks at the name up to a colon, of free slots too
Token(n) == IF n \in UserNames THEN TargetOf[n] ELSE n

Matches(t, x) == {k \in 1..NumSlots : /\ kernels[<<t, k>>].name # NoName
                                      /\ Token(kernels[<<t, k>>].name) = x}

\* priorities of the targets whose first match is enabled
ByName(x) == {i \in DOMAIN Order :
                /\ Matches(Order[i], x) # {}
                /\ kernels[<<Order[i], Lowest(Matches(Order[i], x))>>].enabled}

Numbered(t, e) == {k \in 1..NumSlots : kernels[<<t, k>>].enum = e}

\* priorities of the targets that have a kernel of this number, enabled or not
ByEnum(e) == {i \in DOMAIN Order : Numbered(Order[i], e) # {}}

\* the search goes on after a match: every target's kernel is counted ...
Counted(e) == {<<Order[i], Lowest(Numbered(Order[i], e))>> : i \in ByEnum(e)}

\* ... and the last one is returned
Returned(e) == LET i == CHOOSE j \in ByEnum(e) : \A k \in ByEnum(e) : k <= j
               IN <<Order[i], Lowest(Numbered(Order[i], e))>>

Handle(kind, s) == [kind |-> kind, slot |-> s, name |-> kernels[s].name]

GetKernelByName(x) ==
  /\ ByName(x) # {}
  /\ LET t == Order[Lowest(ByName(x))]
         s == <<t, Lowest(Matches(t, x))>>
     IN /\ Handle("application", s) \notin holders
        /\ kernels[s].ext < MaxExternal
        /\ kernels' = [kernels EXCEPT ![s].ext = @ + 1]
        /\ holders' = holders \cup {Handle("application", s)}
  /\ UNCHANGED <<reftable, counters, moduleTables>>

GetKernelByEnum(e) ==
  /\ ByEnum(e) # {}
  /\ Handle("application", Returned(e)) \notin holders
  /\ \A s \in Counted(e) : kernels[s].ext < MaxExternal
  /\ kernels' = [s \in Slots |-> IF s \in Counted(e)
                                 THEN [kernels[s] EXCEPT !.ext = @ + 1] ELSE kernels[s]]
  /\ holders' = holders \cup {Handle("application", Returned(e))}
  /\ UNCHANGED <<reftable, counters, moduleTables>>

ExternalLess(s) == Dropped([kernels EXCEPT ![s].ext = Less(@)], s)
InternalLess(s) == Dropped([kernels EXCEPT ![s].int = Less(@)], s)

ReleaseKernel(h) ==
  /\ h.kind = "application" /\ kernels[h.slot].alive
  /\ kernels' = ExternalLess(h.slot)
  /\ reftable' = Entries(ExternalLess(h.slot), h.slot)
  /\ holders' = holders \ {h}
  /\ UNCHANGED <<counters, moduleTables>>

\* vxCreateGenericNode, from a handle the application has
CreateNode(h) ==
  /\ h.kind = "application" /\ kernels[h.slot].alive
  /\ Handle("node", h.slot) \notin holders
  /\ kernels' = [kernels EXCEPT ![h.slot].int = @ + 1]
  /\ holders' = holders \cup {Handle("node", h.slot)}
  /\ UNCHANGED <<reftable, counters, moduleTables>>

\* the destructor of a node releases the kernel
DestroyNode(h) ==
  /\ h.kind = "node" /\ kernels[h.slot].alive
  /\ kernels' = InternalLess(h.slot)
  /\ reftable' = Entries(InternalLess(h.slot), h.slot)
  /\ holders' = holders \ {h}
  /\ UNCHANGED <<counters, moduleTables>>

\* vxSetNodeTarget: as many slots are searched as the target has kernels
Retarget(t, e) == {k \in Numbered(t, e) : k <= targetKernels[t]}

SetNodeTarget(h, t) ==
  LET e == kernels[h.slot].enum
      s == <<t, Lowest(Retarget(t, e))>>
  IN /\ h.kind = "node" /\ Retarget(t, e) # {} /\ s # h.slot
     /\ Handle("node", s) \notin holders
     /\ kernels' = [kernels EXCEPT ![h.slot].int = Less(@), ![s].int = @ + 1]
     /\ holders' = (holders \ {h}) \cup {Handle("node", s)}
     /\ UNCHANGED <<reftable, counters, moduleTables>>

---------------------------------------------------------------------------
(* Modules.  What a module publishes is added by AddKernel and finalized   *)
(* by FinalizeKernel; its publish function succeeds or fails.              *)

\* loaded already, as far as the first num_modules entries tell
IsLoaded(lib) == \E m \in 1..NumModules : m <= numModules /\ modules[m] = lib

FreeEntries == {m \in 1..NumModules : modules[m] = NoLib}

\* a failed publish unloads the module again and changes nothing
LoadKernels(lib) ==
  /\ ~IsLoaded(lib) /\ FreeEntries # {}
  /\ modules' = [modules EXCEPT ![Lowest(FreeEntries)] = lib]
  /\ numModules' = numModules + 1
  /\ UNCHANGED <<kernels, reftable, counters, holders>>

LoadedAt(lib) == {m \in 1..NumModules : modules[m] = lib}

UnloadKernels(lib) ==
  /\ LoadedAt(lib) # {}
  /\ Orderly => Lowest(LoadedAt(lib)) = numModules
  /\ modules' = [modules EXCEPT ![Lowest(LoadedAt(lib))] = NoLib]
  /\ numModules' = numModules - 1
  /\ UNCHANGED <<kernels, reftable, counters, holders>>

---------------------------------------------------------------------------
(* The end of the context.                                                 *)

NodesOf(s) == Cardinality({h \in holders : h.kind = "node" /\ h.slot = s})

\* the garbage collection drops what the application kept, graphs included
Collected(s) ==
  LET k == [kernels[s] EXCEPT !.ext = 0, !.int = @ - NodesOf(s)]
  IN [k EXCEPT !.alive = @ /\ k.ext + k.int > 0]

\* Mutation: the target's table is left one short.
Visited_OffByOne(s) == s[2] < targetKernels[s[1]] /\ kernels[s].enum # NoEnum

\* vxDeinitializeTarget goes through as many slots as the target has kernels
Visited(s) == s[2] <= targetKernels[s[1]] /\ kernels[s].enum # NoEnum

Deinitialized(s) ==
  LET k == [Collected(s) EXCEPT !.int = IF Visited(s) THEN Less(@) ELSE @,
                                !.enabled = IF Visited(s) THEN FALSE ELSE @]
  IN [k EXCEPT !.alive = @ /\ k.ext + k.int > 0]

\* the kernels a target has left are the first of its table
Packed(t) == Occupied(t) = 1..targetKernels[t]

\* the counters go with the context and are left as they are
ReleaseContext ==
  /\ Orderly => \A t \in Targets : Packed(t)
  /\ kernels' = [s \in Slots |-> Deinitialized(s)]
  /\ reftable' = [s \in Slots |-> IF kernels[s].alive /\ ~Deinitialized(s).alive
                                  THEN reftable[s] - 1 ELSE reftable[s]]
  /\ modules' = [m \in 1..NumModules |-> IF m <= numModules THEN NoLib ELSE modules[m]]
  /\ holders' = {}
  /\ contextReleased' = TRUE
  /\ UNCHANGED <<counters, numModules>>

Use ==
  \/ \E n \in UserNames : AddKernel(n)
  \/ \E s \in Slots : FinalizeKernel(s) \/ RemoveKernel(s)
  \/ \E n \in BaseNames : GetKernelByName(n)
  \/ \E e \in {EnumOf[n] : n \in Names} : GetKernelByEnum(e)
  \/ \E h \in holders : ReleaseKernel(h) \/ CreateNode(h) \/ DestroyNode(h)
  \/ \E h \in holders, t \in Targets : SetNodeTarget(h, t)
  \/ \E lib \in Libraries : LoadKernels(lib) \/ UnloadKernels(lib)

RegistryNext ==
  /\ ~contextReleased
  /\ \/ Use /\ UNCHANGED contextReleased
     \/ ReleaseContext

RegistrySpec == RegistryInit /\ [][RegistryNext]_registryVars

---------------------------------------------------------------------------
(* Properties.                                                             *)

\* The counters vxQueryContext and vxQueryTarget answer with are what the
\* tables hold: finalized kernels, different numbers among them, and taken
\* slots of each target, over any order of adding, finalizing and removing.
CountsAreExact ==
  ~contextReleased =>
    /\ numKernels = Cardinality(EnabledSlots)
    /\ numUnique = Cardinality(UniqueEnums)
    /\ \A t \in Targets : targetKernels[t] = Cardinality(Occupied(t))

\* A handle or a node names a kernel that lives and is still the one it was
\* when it was got: no slot is given to another kernel under its holders, and
\* no count runs out before they have all released it.
HeldKernelsStay ==
  \A h \in holders : kernels[h.slot].alive /\ kernels[h.slot].name = h.name

\* "By now, all external and internal references should be removed": after
\* vxReleaseContext no kernel is left in the reference table, and no module
\* is loaded.
AllReferencesRemoved ==
  contextReleased => /\ \A s \in Slots : reftable[s] = 0
                     /\ \A m \in 1..NumModules : modules[m] = NoLib
===========================================================================

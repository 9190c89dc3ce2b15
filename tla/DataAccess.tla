----------------------------- MODULE DataAccess -----------------------------
(***************************************************************************)
(* Threads access the memory of images and arrays, in the three ways the   *)
(* framework offers (sample/framework/vx_image.c, vx_array.c):             *)
(*   - vxAccess... and vxCommit..., with a pointer into the memory of the  *)
(*     object ("direct") or a copy that is noted in context->accessors     *)
(*     ("copied");                                                         *)
(*   - vxMap... and vxUnmap..., with an entry of context->memory_maps and a *)
(*     buffer, or the memory itself if it is an image of the host;         *)
(*   - vxCopy..., which is one call.                                       *)
(* Each object has a semaphore for its plane and counts its users as       *)
(* external references (vx_context.c, vx_osal.c, vx_reference.c).          *)
(*                                                                         *)
(* A thread here is the user of one patch; an application thread with      *)
(* several patches is several of them.  Objects are allocated before they  *)
(* are shared: the first access of all is not one of many.  The table of   *)
(* accessors has no lock: threads that access copies agree on turns.       *)
(***************************************************************************)
EXTENDS Integers, FiniteSets

CONSTANTS
  Threads,
  Objects,
  Host,          \* the images made from memory of the host
  Arrays,        \* the objects that are arrays, the others are images
  NumMaps,       \* length of context->memory_maps
  NumAccessors,  \* length of context->accessors
  MaxOdd         \* bound: commits that post what nobody waited for, or do not post

ASSUME DataAccessAssumption ==
  /\ IsFiniteSet(Threads)
  /\ Host \subseteq Objects /\ Arrays \subseteq Objects
  /\ Host \cap Arrays = {}
  /\ NumMaps \in Nat \ {0} /\ NumAccessors \in Nat \ {0}
  /\ MaxOdd \in Nat

Ids == 0 .. NumMaps - 1
Usages == {"ro", "wo", "rw"}
Writes(u) == u \in {"wo", "rw"}
Reads(u) == u \in {"ro", "rw"}

VARIABLES
  pc,         \* what each thread is doing
  obj,        \* with which object
  usage,      \* for what
  id,         \* the map_id it was given
  maps,       \* context->memory_maps
  accessors,  \* the threads whose copies are in context->accessors
  lock,       \* the semaphore of each object's plane
  external,   \* the external count of each object
  released,   \* the objects the application has released
  alive,      \* the objects that are not destroyed
  unwaited,   \* posts of a semaphore for which nobody waited (history)
  unposted    \* waits for which nobody will post (history)

call == <<obj, usage, id>>
tables == <<maps, accessors>>
refs == <<released, alive>>
odd == <<unwaited, unposted>>
vars == <<pc, call, tables, lock, external, refs, odd>>

FreeMap == [used |-> FALSE, ref |-> "none", buffered |-> FALSE]

Init ==
  /\ pc = [t \in Threads |-> "out"]
  /\ obj = [t \in Threads |-> "none"]
  /\ usage = [t \in Threads |-> "none"]
  /\ id = [t \in Threads |-> 0]
  /\ maps = [k \in Ids |-> FreeMap]
  /\ accessors = {}
  /\ lock = [o \in Objects |-> 1]
  /\ external = [o \in Objects |-> 1]
  /\ released = {}
  /\ alive = Objects
  /\ unwaited = [o \in Objects |-> 0]
  /\ unposted = [o \in Objects |-> 0]

\* A thread that has an entry in the table of maps.
Mapping == {"copyin", "copyingin", "mapped", "copyout", "copyingout", "unmapping"}

Goto(t, from, to) == pc[t] = from /\ pc' = [pc EXCEPT ![t] = to]

\* A call begins on an object the application has not released.
Begin(t, o, u, to) ==
  /\ pc[t] \in {"out", "refused"} /\ o \in Objects \ released
  /\ pc' = [pc EXCEPT ![t] = to]
  /\ obj' = [obj EXCEPT ![t] = o]
  /\ usage' = [usage EXCEPT ![t] = u]

Refuse(t) ==
  /\ pc[t] \in {"out", "refused"}
  /\ pc' = [pc EXCEPT ![t] = "refused"]
  /\ UNCHANGED <<obj, usage>>

\* The thread has no patch any more.
Forget(t) ==
  /\ pc' = [pc EXCEPT ![t] = "out"]
  /\ obj' = [obj EXCEPT ![t] = "none"]
  /\ usage' = [usage EXCEPT ![t] = "none"]
  /\ id' = [id EXCEPT ![t] = 0]

Wait(o) == lock[o] > 0 /\ lock' = [lock EXCEPT ![o] = @ - 1]
Post(o) == lock' = [lock EXCEPT ![o] = @ + 1]
Retain(o) == external' = [external EXCEPT ![o] = @ + 1]

\* vxDecrementReference counts only: it never destroys the object.
Drop(o) == external' = [external EXCEPT ![o] = @ - 1]

-----------------------------------------------------------------------------
(* vxMapImagePatch, vxMapArrayRange: an entry is taken, and if the patch is *)
(* read its data are copied into the buffer under the lock of the plane.   *)

Free(k) == ~maps[k].used
FirstFree == {k \in Ids : Free(k) /\ \A j \in Ids : Free(j) => k <= j}
Slot == FirstFree

NeedsCopyIn(o, u) == o \notin Host /\ Reads(u)
NeedsCopyOut(o, u) == o \notin Host /\ Writes(u)

RetainedByMap_No(o) == UNCHANGED external
RetainedByMap(o) == Retain(o)

\* With the table full vxMemoryMap reports success and sets no id: what the
\* caller does then is undefined and not followed.
Map(t, o, u) ==
  /\ \E k \in Slot :
       /\ maps' = [maps EXCEPT ![k] = [used |-> TRUE, ref |-> o, buffered |-> o \notin Host]]
       /\ id' = [id EXCEPT ![t] = k]
  /\ IF NeedsCopyIn(o, u)
     THEN Begin(t, o, u, "copyin") /\ UNCHANGED external
     ELSE Begin(t, o, u, "mapped") /\ RetainedByMap(o)
  /\ UNCHANGED <<accessors, lock, refs, odd>>

PostAfterCopyIn_No(o) == UNCHANGED lock
PostAfterCopyIn(o) == Post(o)

LockCopyIn(t) ==
  /\ Goto(t, "copyin", "copyingin")
  /\ Wait(obj[t])
  /\ UNCHANGED <<call, tables, external, refs, odd>>

EndCopyIn(t) ==
  /\ Goto(t, "copyingin", "mapped")
  /\ PostAfterCopyIn(obj[t]) /\ RetainedByMap(obj[t])
  /\ UNCHANGED <<call, tables, refs, odd>>

-----------------------------------------------------------------------------
(* vxUnmapImagePatch, vxUnmapArrayRange.                                   *)

\* vxFindMemoryMap says yes to every id of the table, but its callers look at
\* the entry again, outside the lock.
Found_Always(o, k) == TRUE
Found(o, k) == maps[k].used /\ maps[k].ref = o

Unmap(t) ==
  /\ pc[t] = "mapped"
  /\ pc' = [pc EXCEPT ![t] =
       IF ~Found(obj[t], id[t]) THEN "lost"
       ELSE IF NeedsCopyOut(obj[t], usage[t]) THEN "copyout" ELSE "unmapping"]
  /\ UNCHANGED <<call, tables, lock, external, refs, odd>>

\* A call with an id that was not given out for this object, or is not any more.
Given(o, k) == \E s \in Threads : pc[s] \in Mapping /\ obj[s] = o /\ id[s] = k
UnmapWrong(t, o, k) ==
  /\ ~Given(o, k)
  /\ IF Found(o, k)
     THEN Begin(t, o, "ro", "unmapping") /\ id' = [id EXCEPT ![t] = k]
     ELSE Refuse(t) /\ UNCHANGED id
  /\ UNCHANGED <<tables, lock, external, refs, odd>>

LockCopyOut(t) ==
  /\ Goto(t, "copyout", "copyingout")
  /\ Wait(obj[t])
  /\ UNCHANGED <<call, tables, external, refs, odd>>

\* vxMemoryUnmap clears the entry, or only its flag if it has no buffer.
Unmapped(k) ==
  IF maps[k].buffered THEN FreeMap ELSE [maps[k] EXCEPT !.used = FALSE]
EndUnmap(t) ==
  /\ maps' = [maps EXCEPT ![id[t]] = Unmapped(id[t])]
  /\ Drop(obj[t])
  /\ Forget(t)

\* An array keeps its lock until the entry is cleared.
EndCopyOut(t) ==
  /\ pc[t] = "copyingout"
  /\ Post(obj[t])
  /\ IF obj[t] \in Arrays
     THEN EndUnmap(t) /\ UNCHANGED accessors
     ELSE /\ pc' = [pc EXCEPT ![t] = "unmapping"]
          /\ UNCHANGED <<call, tables, external>>
  /\ UNCHANGED <<refs, odd>>

EndUnmapping(t) ==
  /\ pc[t] = "unmapping"
  /\ EndUnmap(t)
  /\ UNCHANGED <<accessors, lock, refs, odd>>

-----------------------------------------------------------------------------
(* vxAccessImagePatch, vxAccessArrayRange.                                 *)

TakesPlane(u) == Writes(u)
AccessDirect(t, o, u) ==
  /\ o \in Arrays => Writes(u)
  /\ Begin(t, o, u, "direct")
  /\ IF TakesPlane(u) THEN Wait(o) ELSE UNCHANGED lock
  /\ Retain(o)
  /\ UNCHANGED <<id, tables, refs, odd>>

\* A copy: the entry in the table comes first, then the lock.
AccessCopy(t, o, u) ==
  /\ IF Cardinality(accessors) < NumAccessors
     THEN /\ accessors' = accessors \cup {t}
          /\ Begin(t, o, u, IF Writes(u) THEN "copy" ELSE "copied")
          /\ IF Writes(u) THEN UNCHANGED external ELSE Retain(o)
     ELSE Refuse(t) /\ UNCHANGED <<accessors, external>>
  /\ UNCHANGED <<id, maps, lock, refs, odd>>

LockCopy(t) ==
  /\ Goto(t, "copy", "copied")
  /\ Wait(obj[t]) /\ Retain(obj[t])
  /\ UNCHANGED <<call, tables, refs, odd>>

-----------------------------------------------------------------------------
(* vxCommitImagePatch, vxCommitArrayRange, with the patch or with an empty  *)
(* one when nothing is to be written.                                      *)

\* An empty patch of a copy leaves the lock alone; every other commit posts.
Posts(t, empty) == ~(empty /\ t \in accessors)

\* The bound: one object has odd commits, and at most MaxOdd of them.
MayBeOdd(o) ==
  /\ unwaited[o] + unposted[o] < MaxOdd
  /\ \A p \in Objects \ {o} : unwaited[p] + unposted[p] = 0

Commit(t, empty) ==
  /\ pc[t] \in {"direct", "copied"}
  /\ LET o == obj[t] IN
     IF Posts(t, empty)
     THEN /\ Post(o)
          /\ UNCHANGED unposted
          /\ IF Writes(usage[t]) THEN UNCHANGED unwaited
             ELSE MayBeOdd(o) /\ unwaited' = [unwaited EXCEPT ![o] = @ + 1]
     ELSE /\ UNCHANGED <<lock, unwaited>>
          /\ IF ~Writes(usage[t]) THEN UNCHANGED unposted
             ELSE MayBeOdd(o) /\ unposted' = [unposted EXCEPT ![o] = @ + 1]
  /\ accessors' = accessors \ {t}
  /\ Drop(obj[t])
  /\ Forget(t)
  /\ UNCHANGED <<maps, refs>>

-----------------------------------------------------------------------------
(* vxCopyImagePatch and vxCopyArrayRange take the lock to write; to read     *)
(* they take none and change nothing.                                      *)

Copy(t, o) ==
  /\ Begin(t, o, "wo", "writing")
  /\ Wait(o)
  /\ UNCHANGED <<id, tables, external, refs, odd>>

EndCopy(t) ==
  /\ pc[t] = "writing"
  /\ Post(obj[t])
  /\ Forget(t)
  /\ UNCHANGED <<tables, external, refs, odd>>

-----------------------------------------------------------------------------
\* The calls in progress on an object.
Inside(o) ==
  {t \in Threads : obj[t] = o /\ pc[t] \in {"copyin", "copyingin", "copy", "writing"}}

\* vxReleaseImage, vxReleaseArray: patches that are mapped keep the object, but
\* nobody releases what another thread is just calling a function with.
Release(o) ==
  /\ o \in Objects \ released
  /\ Inside(o) = {}
  /\ released' = released \cup {o}
  /\ Drop(o)
  /\ alive' = IF external'[o] = 0 THEN alive \ {o} ELSE alive
  /\ UNCHANGED <<pc, call, tables, lock, odd>>

MapStep(t) ==
  \/ \E o \in Objects, u \in Usages : Map(t, o, u)
  \/ LockCopyIn(t) \/ EndCopyIn(t)
UnmapStep(t) ==
  \/ Unmap(t) \/ LockCopyOut(t) \/ EndCopyOut(t) \/ EndUnmapping(t)
  \/ \E o \in Objects, k \in Ids : UnmapWrong(t, o, k)
AccessStep(t) ==
  \/ \E o \in Objects, u \in Usages : AccessDirect(t, o, u) \/ AccessCopy(t, o, u)
  \/ LockCopy(t)
  \/ \E empty \in BOOLEAN : Commit(t, empty)
CopyStep(t) == EndCopy(t) \/ \E o \in Objects : Copy(t, o)

Next ==
  \/ \E t \in Threads : MapStep(t) \/ UnmapStep(t) \/ AccessStep(t) \/ CopyStep(t)
  \/ \E o \in Objects : Release(o)

Spec == Init /\ [][Next]_vars

-----------------------------------------------------------------------------
(* Properties.                                                             *)

PCs == Mapping \cup {"out", "refused", "lost", "direct", "copy", "copied", "writing"}

TypeOK ==
  /\ pc \in [Threads -> PCs]
  /\ obj \in [Threads -> Objects \cup {"none"}]
  /\ usage \in [Threads -> Usages \cup {"none"}]
  /\ id \in [Threads -> Ids]
  /\ maps \in [Ids -> [used : BOOLEAN, ref : Objects \cup {"none"}, buffered : BOOLEAN]]
  /\ accessors \in SUBSET Threads
  /\ lock \in [Objects -> Nat]
  /\ external \in [Objects -> Int]
  /\ released \in SUBSET Objects
  /\ alive \in SUBSET Objects
  /\ unwaited \in [Objects -> Nat]
  /\ unposted \in [Objects -> Nat]

\* Every patch that is mapped, or on its way in or out, has an entry of its own
\* that names its object: no thread clears or writes back the entry of another,
\* although ids that were never given out are found and the check of the entry
\* is made outside the lock of the table (vxMemoryMap, vxUnmapImagePatch).
MapsAreOwned ==
  \A t \in Threads : pc[t] \in Mapping =>
    /\ Found(obj[t], id[t])
    /\ \A s \in Threads : pc[s] \in Mapping /\ id[s] = id[t] => s = t

\* The threads that may change the memory of o, or copy it, under its lock.
Holders(o) ==
  {t \in Threads : obj[t] = o /\
     \/ pc[t] \in {"copyingin", "copyingout", "writing"}
     \/ pc[t] \in {"direct", "copied"} /\ Writes(usage[t])}

\* The semaphore of a plane is short of as many as hold it, except for readers
\* who committed and posted what they never took, and for copies given up whose
\* lock was kept.
LockCounts ==
  \A o \in Objects :
    lock[o] + Cardinality(Holders(o)) + unposted[o] = 1 + unwaited[o]

\* One writer at a time, and nobody copies what he is writing, as long as no
\* reader has committed its patch (vxAccessImagePatch: "single writer lock").
OneWriter == \A o \in Objects : unwaited[o] = 0 => Cardinality(Holders(o)) <= 1

\* An object lives as long as a patch of it is mapped or accessed, whoever
\* releases it, and its external count is the application's reference and one
\* for each patch: after the last patch it is what it was before the first.
Users(o) ==
  {t \in Threads : obj[t] = o /\
     pc[t] \in {"mapped", "copyout", "copyingout", "unmapping", "direct", "copied"}}
PatchesKeepAlive ==
  \A o \in Objects :
    /\ external[o] = Cardinality(Users(o)) + (IF o \in released THEN 0 ELSE 1)
    /\ external[o] > 0 => o \in alive
=============================================================================

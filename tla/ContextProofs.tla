---------------------------- MODULE ContextProofs ----------------------------
(***************************************************************************)
(* What the tables of a context say, for tables of any size.               *)
(*                                                                         *)
(* DataAccess, for any number of threads and objects: every mapped patch   *)
(* owns its entry of the table, the lock of a plane is short of exactly    *)
(* those who hold it, so that there is one writer, and an object lives as  *)
(* long as a patch of it.  A step is the step of one thread t with one     *)
(* object x.  The counts are compared before and after with t's own share  *)
(* taken out: the sets of holders and users differ in t alone.             *)
(*                                                                         *)
(* KernelRegistry, for any targets, kernels and modules: the counters are  *)
(* the sizes of what the tables hold, because a step lets one slot enter   *)
(* or leave a set; kernels that are held stay, because the internal count  *)
(* is one for the target and one for each node; and the end of the context *)
(* finds every kernel left, because what is left fills the first slots.    *)
(***************************************************************************)
EXTENDS DataAccess, KernelRegistry, FiniteSetTheorems, WellFoundedInduction, TLAPS

\* an entry in use is somebody's
EntriesHaveUsers ==
  \A k \in Ids : maps[k].used =>
    \E t \in Threads : pc[t] \in Mapping /\ id[t] = k /\ obj[t] = maps[k].ref

Out == {"out", "refused"}
HasObject == \A t \in Threads : pc[t] \notin Out => obj[t] \in Objects

\* nobody releases an object another thread is just calling a function with
InCall == {"copyin", "copyingin", "copy", "writing"}
InsideIsHeld == \A t \in Threads : pc[t] \in InCall => obj[t] \notin released

\* a copy waits for the lock only to write
CopiesWrite == \A t \in Threads : pc[t] = "copy" => Writes(usage[t])

MapsInv   == MapsAreOwned /\ EntriesHaveUsers
CountsInv == HasObject /\ InsideIsHeld /\ CopiesWrite /\ LockCounts /\ PatchesKeepAlive
AInv      == TypeOK /\ MapsInv /\ CountsInv

\* t's own share of the counts
Held(t, o)  == IF t \in Holders(o) THEN 1 ELSE 0
Using(t, o) == IF t \in Users(o) THEN 1 ELSE 0

\* no other thread is touched
OnlyBy(t) == \A s \in Threads \ {t} :
  pc'[s] = pc[s] /\ obj'[s] = obj[s] /\ usage'[s] = usage[s] /\ id'[s] = id[s]

-----------------------------------------------------------------------------
(* Sets that differ in one element.                                        *)

LEMMA OneDiffers ==
  ASSUME NEW S, NEW T, NEW t, IsFiniteSet(S), T \ {t} = S \ {t}
  PROVE  /\ IsFiniteSet(T) /\ Cardinality(S) \in Nat /\ Cardinality(T) \in Nat
         /\ Cardinality(T) - (IF t \in T THEN 1 ELSE 0)
              = Cardinality(S) - (IF t \in S THEN 1 ELSE 0)
<1> DEFINE R == S \ {t}
<1>1. IsFiniteSet(R) /\ Cardinality(R) \in Nat
  BY FS_Subset, FS_CardinalityType
<1>2. t \notin R
  OBVIOUS
<1>3. IsFiniteSet(R \cup {t}) /\ Cardinality(R \cup {t}) = Cardinality(R) + 1
  BY <1>1, <1>2, FS_AddElement
<1>4. S = IF t \in S THEN R \cup {t} ELSE R
  OBVIOUS
<1>5. T = IF t \in T THEN R \cup {t} ELSE R
  OBVIOUS
<1>6. Cardinality(S) = IF t \in S THEN Cardinality(R) + 1 ELSE Cardinality(R)
  <2>1. CASE t \in S  BY <2>1, <1>3, <1>4
  <2>2. CASE t \notin S  BY <2>2, <1>4
  <2> QED BY <2>1, <2>2
<1>7. Cardinality(T) = IF t \in T THEN Cardinality(R) + 1 ELSE Cardinality(R)
  <2>1. CASE t \in T  BY <2>1, <1>3, <1>5
  <2>2. CASE t \notin T  BY <2>2, <1>5
  <2> QED BY <2>1, <2>2
<1>8. IsFiniteSet(T)
  BY <1>1, <1>3, <1>5
<1> HIDE DEF R
<1> QED BY <1>1, <1>6, <1>7, <1>8

LEMMA CountsMove ==
  ASSUME NEW t \in Threads, OnlyBy(t), NEW o \in Objects
  PROVE  /\ Cardinality(Holders(o)) \in Nat /\ Cardinality(Holders(o)') \in Nat
         /\ Cardinality(Users(o)) \in Nat /\ Cardinality(Users(o)') \in Nat
         /\ Cardinality(Holders(o)') - Held(t, o)' = Cardinality(Holders(o)) - Held(t, o)
         /\ Cardinality(Users(o)') - Using(t, o)' = Cardinality(Users(o)) - Using(t, o)
<1>1. IsFiniteSet(Holders(o)) /\ IsFiniteSet(Users(o))
  BY DataAccessAssumption, FS_Subset DEF Holders, Users
<1>2. Holders(o)' \ {t} = Holders(o) \ {t}
  BY DEF OnlyBy, Holders
<1>3. Users(o)' \ {t} = Users(o) \ {t}
  BY DEF OnlyBy, Users
<1>4. /\ Cardinality(Holders(o)) \in Nat /\ Cardinality(Holders(o)') \in Nat
      /\ Cardinality(Holders(o)') - Held(t, o)' = Cardinality(Holders(o)) - Held(t, o)
  BY <1>1, <1>2, OneDiffers DEF Held
<1>5. /\ Cardinality(Users(o)) \in Nat /\ Cardinality(Users(o)') \in Nat
      /\ Cardinality(Users(o)') - Using(t, o)' = Cardinality(Users(o)) - Using(t, o)
  BY <1>1, <1>3, OneDiffers DEF Using
<1> QED BY <1>4, <1>5

-----------------------------------------------------------------------------
(* What a step must do to keep the invariants.                             *)

\* A step of t with x, pointwise: what it changes outside x, and the balance
\* of lock and count at x.
LEMMA CountsKept ==
  ASSUME AInv, TypeOK', NEW t \in Threads, OnlyBy(t), NEW x \in Objects, UNCHANGED refs,
         pc[t] \in Out \/ obj[t] = x, pc'[t] \in Out \/ obj'[t] = x,
         pc'[t] \in InCall => x \notin released,
         pc'[t] = "copy" => Writes(usage'[t]),
         \A o \in Objects \ {x} : /\ lock'[o] = lock[o] /\ external'[o] = external[o]
                                  /\ unwaited'[o] = unwaited[o] /\ unposted'[o] = unposted[o],
         lock'[x] + Held(t, x)' + unposted'[x] - unwaited'[x]
           = lock[x] + Held(t, x) + unposted[x] - unwaited[x],
         external'[x] - Using(t, x)' = external[x] - Using(t, x),
         external'[x] > external[x] => x \notin released
  PROVE  CountsInv'
<1>1. HasObject' /\ InsideIsHeld' /\ CopiesWrite'
  <2>1. HasObject'
    BY DEF AInv, CountsInv, HasObject, OnlyBy, InCall, Out
  <2>2. InsideIsHeld'
    <3>1. released' = released
      BY DEF refs
    <3>2. pc'[t] \in InCall => obj'[t] = x
      BY DEF InCall, Out
    <3> QED BY <3>1, <3>2 DEF AInv, CountsInv, InsideIsHeld, OnlyBy
  <2>3. CopiesWrite'
    BY DEF AInv, CountsInv, CopiesWrite, OnlyBy, Writes
  <2> QED BY <2>1, <2>2, <2>3
<1>2. \A o \in Objects \ {x} : Held(t, o) = 0 /\ Held(t, o)' = 0
  BY DEF Held, Holders, Out
<1>3. \A o \in Objects \ {x} : Using(t, o) = 0 /\ Using(t, o)' = 0
  BY DEF Using, Users, Out
<1>4. /\ Held(t, x) \in Int /\ Held(t, x)' \in Int
      /\ Using(t, x) \in Int /\ Using(t, x)' \in Int
  BY DEF Held, Using
<1>5. \A o \in Objects :
        /\ lock[o] \in Int /\ external[o] \in Int /\ unwaited[o] \in Int /\ unposted[o] \in Int
        /\ lock'[o] \in Int /\ external'[o] \in Int /\ unwaited'[o] \in Int /\ unposted'[o] \in Int
  BY DEF AInv, TypeOK
<1>6. LockCounts'
  <2>1. lock'[x] + Cardinality(Holders(x)') + unposted'[x] = 1 + unwaited'[x]
    <3>1. lock[x] + Cardinality(Holders(x)) + unposted[x] = 1 + unwaited[x]
      BY DEF AInv, CountsInv, LockCounts
    <3>2. /\ Cardinality(Holders(x)) \in Nat /\ Cardinality(Holders(x)') \in Nat
          /\ Cardinality(Holders(x)') - Held(t, x)' = Cardinality(Holders(x)) - Held(t, x)
      BY CountsMove
    <3> QED BY <3>1, <3>2, <1>4, <1>5
  <2>2. SUFFICES ASSUME NEW o \in Objects \ {x}
                 PROVE  lock'[o] + Cardinality(Holders(o)') + unposted'[o] = 1 + unwaited'[o]
    BY <2>1 DEF LockCounts
  <2>3. lock[o] + Cardinality(Holders(o)) + unposted[o] = 1 + unwaited[o]
    BY DEF AInv, CountsInv, LockCounts
  <2>4. /\ Cardinality(Holders(o)) \in Nat /\ Cardinality(Holders(o)') \in Nat
        /\ Cardinality(Holders(o)') - Held(t, o)' = Cardinality(Holders(o)) - Held(t, o)
    BY CountsMove
  <2>5. Held(t, o) = 0 /\ Held(t, o)' = 0
    BY <1>2
  <2> QED BY <2>3, <2>4, <2>5, <1>5
<1>7. PatchesKeepAlive'
  <2>1. /\ external'[x] = Cardinality(Users(x)') + (IF x \in released THEN 0 ELSE 1)
        /\ external'[x] > 0 => x \in alive
    <3>1. /\ external[x] = Cardinality(Users(x)) + (IF x \in released THEN 0 ELSE 1)
          /\ external[x] > 0 => x \in alive
      BY DEF AInv, CountsInv, PatchesKeepAlive
    <3>2. /\ Cardinality(Users(x)) \in Nat /\ Cardinality(Users(x)') \in Nat
          /\ Cardinality(Users(x)') - Using(t, x)' = Cardinality(Users(x)) - Using(t, x)
      BY CountsMove
    <3>3. external'[x] = Cardinality(Users(x)') + (IF x \in released THEN 0 ELSE 1)
      <4>1. external'[x] - Cardinality(Users(x)') = external[x] - Cardinality(Users(x))
        <5>1. external'[x] - Using(t, x)' = external[x] - Using(t, x)
          OBVIOUS
        <5>2. external[x] \in Int /\ external'[x] \in Int
          BY <1>5
        <5> QED BY <5>1, <5>2, <3>2, <1>4
      <4>2. CASE x \in released
        BY <4>1, <4>2, <3>1, <3>2, <1>5
      <4>3. CASE x \notin released
        BY <4>1, <4>3, <3>1, <3>2, <1>5
      <4> QED BY <4>2, <4>3
    <3>4. external'[x] > 0 => x \in alive
      <4>1. CASE external'[x] > external[x]
        <5>1. external[x] = Cardinality(Users(x)) + 1
          BY <4>1, <3>1
        <5> QED BY <5>1, <3>1, <3>2
      <4>2. CASE ~(external'[x] > external[x])
        BY <4>2, <3>1, <1>5
      <4> QED BY <4>1, <4>2
    <3> QED BY <3>3, <3>4
  <2>2. SUFFICES ASSUME NEW o \in Objects \ {x}
                 PROVE  /\ external'[o] = Cardinality(Users(o)') + (IF o \in released THEN 0 ELSE 1)
                        /\ external'[o] > 0 => o \in alive
    BY <2>1 DEF PatchesKeepAlive, refs
  <2>3. /\ external[o] = Cardinality(Users(o)) + (IF o \in released THEN 0 ELSE 1)
        /\ external[o] > 0 => o \in alive
    BY DEF AInv, CountsInv, PatchesKeepAlive
  <2>4. /\ Cardinality(Users(o)) \in Nat /\ Cardinality(Users(o)') \in Nat
        /\ Cardinality(Users(o)') - Using(t, o)' = Cardinality(Users(o)) - Using(t, o)
    BY CountsMove
  <2>5. Using(t, o) = 0 /\ Using(t, o)' = 0
    BY <1>3
  <2> QED BY <2>3, <2>4, <2>5, <1>5
<1> QED BY <1>1, <1>6, <1>7 DEF CountsInv

\* The table stays, and so does what t has in it.
LEMMA MapsKept ==
  ASSUME AInv, TypeOK', NEW t \in Threads, OnlyBy(t), maps' = maps,
         pc[t] \in Mapping <=> pc'[t] \in Mapping,
         pc[t] \in Mapping => obj'[t] = obj[t] /\ id'[t] = id[t]
  PROVE  MapsInv'
<1>1. \A s \in Threads : /\ pc[s] \in Mapping <=> pc'[s] \in Mapping
                         /\ pc[s] \in Mapping => obj'[s] = obj[s] /\ id'[s] = id[s]
  BY DEF OnlyBy
<1>2. MapsAreOwned'
  BY <1>1 DEF AInv, MapsInv, MapsAreOwned, Found
<1>3. EntriesHaveUsers'
  BY <1>1 DEF AInv, MapsInv, EntriesHaveUsers
<1> QED BY <1>2, <1>3 DEF MapsInv

\* t clears its entry and has no patch any more.
LEMMA MapsCleared ==
  ASSUME AInv, NEW t \in Threads, OnlyBy(t), pc[t] \in Mapping, pc'[t] \notin Mapping,
         maps' = [maps EXCEPT ![id[t]] = Unmapped(id[t])]
  PROVE  MapsInv'
<1>1. id[t] \in Ids /\ DOMAIN maps = Ids
  BY DEF AInv, TypeOK
<1>2. ~maps'[id[t]].used /\ \A k \in Ids \ {id[t]} : maps'[k] = maps[k]
  BY <1>1 DEF Unmapped, FreeMap, AInv, TypeOK
<1>3. \A s \in Threads \ {t} : pc[s] \in Mapping => id[s] # id[t] /\ id[s] \in Ids
  BY DEF AInv, MapsInv, MapsAreOwned, TypeOK
<1>4. MapsAreOwned'
  BY <1>2, <1>3 DEF AInv, MapsInv, MapsAreOwned, Found, OnlyBy
<1>5. EntriesHaveUsers'
  <2>1. SUFFICES ASSUME NEW k \in Ids, maps'[k].used
                 PROVE  \E s \in Threads : pc'[s] \in Mapping /\ id'[s] = k /\ obj'[s] = maps'[k].ref
    BY DEF EntriesHaveUsers
  <2>2. k # id[t] /\ maps'[k] = maps[k]
    BY <2>1, <1>2
  <2>3. PICK s \in Threads : pc[s] \in Mapping /\ id[s] = k /\ obj[s] = maps[k].ref
    BY <2>1, <2>2 DEF AInv, MapsInv, EntriesHaveUsers
  <2> QED BY <2>2, <2>3 DEF OnlyBy
<1> QED BY <1>4, <1>5 DEF MapsInv

-----------------------------------------------------------------------------
(* The steps of a thread: for each, what it changes, and t's share of the  *)
(* counts before and after.                                                *)

\* Nothing but the step of t: no share, no count.
LEMMA IdleKeeps ==
  ASSUME AInv, NEW t \in Threads, NEW x \in Objects, pc[t] \in Out,
         pc' = [pc EXCEPT ![t] = "refused"],
         UNCHANGED <<obj, usage, id, maps, accessors, lock, external, refs, odd>>
  PROVE  AInv'
<1>1. OnlyBy(t) /\ pc'[t] = "refused"
  BY DEF OnlyBy, AInv, TypeOK
<1>2. TypeOK'
  BY DEF AInv, TypeOK, PCs, refs, odd
<1>3. MapsInv'
  BY <1>1, <1>2, MapsKept DEF Mapping, Out
<1>4. Held(t, x) = 0 /\ Held(t, x)' = 0 /\ Using(t, x) = 0 /\ Using(t, x)' = 0
  BY <1>1 DEF Held, Holders, Using, Users, Out
<1>5. /\ lock[x] \in Int /\ external[x] \in Int /\ unwaited[x] \in Int /\ unposted[x] \in Int
      /\ lock' = lock /\ external' = external /\ unwaited' = unwaited /\ unposted' = unposted
  BY DEF AInv, TypeOK, odd
<1>6. CountsInv'
  BY <1>1, <1>2, <1>4, <1>5, CountsKept DEF Out, InCall
<1> QED BY <1>2, <1>3, <1>6 DEF AInv

\* Within a call that has its entry: the lock is taken.
LEMMA LockInMapKeeps ==
  ASSUME AInv, NEW t \in Threads, LockCopyIn(t) \/ LockCopyOut(t) PROVE AInv'
<1>1. /\ pc[t] \in {"copyin", "copyout"}
      /\ pc' = [pc EXCEPT ![t] = IF pc[t] = "copyin" THEN "copyingin" ELSE "copyingout"]
      /\ lock[obj[t]] > 0 /\ lock' = [lock EXCEPT ![obj[t]] = @ - 1]
      /\ UNCHANGED <<call, tables, external, refs, odd>>
  BY DEF LockCopyIn, LockCopyOut, Goto, Wait
<1>2. PICK x \in Objects : x = obj[t]
  BY <1>1 DEF AInv, CountsInv, HasObject, Out
<1>3. OnlyBy(t) /\ pc'[t] \in {"copyingin", "copyingout"} /\ (pc'[t] = "copyingin" <=> pc[t] = "copyin")
  BY <1>1 DEF OnlyBy, AInv, TypeOK, call
<1>4. /\ obj' = obj /\ usage' = usage /\ id' = id /\ maps' = maps /\ UNCHANGED refs
      /\ external' = external /\ unwaited' = unwaited /\ unposted' = unposted
  BY <1>1 DEF call, tables, odd
<1>5. TypeOK'
  BY <1>1, <1>2, <1>4 DEF AInv, TypeOK, PCs, Mapping, refs, tables
<1>6. MapsInv'
  BY <1>1, <1>3, <1>4, <1>5, MapsKept DEF Mapping
<1>7. Held(t, x) = 0 /\ Held(t, x)' = 1
  BY <1>1, <1>2, <1>3, <1>4 DEF Held, Holders
<1>8. Using(t, x)' = Using(t, x)
  BY <1>1, <1>3, <1>4 DEF Using, Users
<1>9. /\ lock[x] \in Int /\ lock'[x] = lock[x] - 1 /\ \A o \in Objects \ {x} : lock'[o] = lock[o]
  BY <1>1, <1>2 DEF AInv, TypeOK
<1>10. pc'[t] \in InCall => x \notin released
  BY <1>1, <1>2, <1>3 DEF AInv, CountsInv, InsideIsHeld, InCall
<1>11. /\ external[x] \in Int /\ unwaited[x] \in Int /\ unposted[x] \in Int
  BY <1>2 DEF AInv, TypeOK
<1>12. obj[t] = x /\ obj'[t] = x
  BY <1>2, <1>4
<1>13. CountsInv'
  BY <1>2, <1>3, <1>4, <1>5, <1>7, <1>8, <1>9, <1>10, <1>11, <1>12, CountsKept
<1> QED BY <1>5, <1>6, <1>13 DEF AInv

LEMMA EndCopyInKeeps ==
  ASSUME AInv, NEW t \in Threads, EndCopyIn(t) PROVE AInv'
<1>1. /\ pc[t] = "copyingin" /\ pc' = [pc EXCEPT ![t] = "mapped"]
      /\ lock' = [lock EXCEPT ![obj[t]] = @ + 1]
      /\ external' = [external EXCEPT ![obj[t]] = @ + 1]
      /\ UNCHANGED <<call, tables, refs, odd>>
  BY DEF EndCopyIn, Goto, PostAfterCopyIn, Post, RetainedByMap, Retain
<1>2. PICK x \in Objects : x = obj[t]
  BY <1>1 DEF AInv, CountsInv, HasObject, Out
<1>3. OnlyBy(t) /\ pc'[t] = "mapped"
  BY <1>1 DEF OnlyBy, AInv, TypeOK, call
<1>4. /\ obj' = obj /\ usage' = usage /\ id' = id /\ maps' = maps /\ UNCHANGED refs
      /\ unwaited' = unwaited /\ unposted' = unposted
  BY <1>1 DEF call, tables, odd
<1>5. TypeOK'
  BY <1>1, <1>2, <1>4 DEF AInv, TypeOK, PCs, Mapping, refs, tables
<1>6. MapsInv'
  BY <1>1, <1>3, <1>4, <1>5, MapsKept DEF Mapping
<1>7. Held(t, x) = 1 /\ Held(t, x)' = 0 /\ Using(t, x) = 0 /\ Using(t, x)' = 1
  BY <1>1, <1>2, <1>3, <1>4 DEF Held, Holders, Using, Users
<1>8. /\ lock[x] \in Int /\ lock'[x] = lock[x] + 1 /\ \A o \in Objects \ {x} : lock'[o] = lock[o]
      /\ external[x] \in Int /\ external'[x] = external[x] + 1
      /\ \A o \in Objects \ {x} : external'[o] = external[o]
  BY <1>1, <1>2 DEF AInv, TypeOK
<1>9. x \notin released
  BY <1>1, <1>2 DEF AInv, CountsInv, InsideIsHeld, InCall
<1>10. unwaited[x] \in Int /\ unposted[x] \in Int
  BY <1>2 DEF AInv, TypeOK
<1>11. obj[t] = x /\ obj'[t] = x
  BY <1>2, <1>4
<1>12. CountsInv'
  BY <1>2, <1>3, <1>4, <1>5, <1>7, <1>8, <1>9, <1>10, <1>11, CountsKept
<1> QED BY <1>5, <1>6, <1>12 DEF AInv

\* The entry of a mapped patch is found: it is its own.
LEMMA UnmapKeeps ==
  ASSUME AInv, NEW t \in Threads, Unmap(t) PROVE AInv'
<1>1. /\ pc[t] = "mapped" /\ pc' = [pc EXCEPT ![t] =
           IF NeedsCopyOut(obj[t], usage[t]) THEN "copyout" ELSE "unmapping"]
      /\ UNCHANGED <<call, tables, lock, external, refs, odd>>
  BY DEF Unmap, AInv, MapsInv, MapsAreOwned, Mapping
<1>2. PICK x \in Objects : x = obj[t]
  BY <1>1 DEF AInv, CountsInv, HasObject, Out
<1>3. OnlyBy(t) /\ pc'[t] \in {"copyout", "unmapping"}
  BY <1>1 DEF OnlyBy, AInv, TypeOK, call
<1>4. /\ obj' = obj /\ usage' = usage /\ id' = id /\ maps' = maps /\ UNCHANGED refs
      /\ lock' = lock /\ external' = external /\ unwaited' = unwaited /\ unposted' = unposted
  BY <1>1 DEF call, tables, odd
<1>5. TypeOK'
  BY <1>1, <1>4 DEF AInv, TypeOK, PCs, Mapping, refs, tables
<1>6. MapsInv'
  BY <1>1, <1>3, <1>4, <1>5, MapsKept DEF Mapping
<1>7. Held(t, x) = 0 /\ Held(t, x)' = 0 /\ Using(t, x) = 1 /\ Using(t, x)' = 1
  BY <1>1, <1>2, <1>3, <1>4 DEF Held, Holders, Using, Users
<1>8. /\ lock[x] \in Int /\ external[x] \in Int /\ unwaited[x] \in Int /\ unposted[x] \in Int
  BY <1>2 DEF AInv, TypeOK
<1>9. obj[t] = x /\ obj'[t] = x
  BY <1>2, <1>4
<1>10. CountsInv'
  BY <1>2, <1>3, <1>4, <1>5, <1>7, <1>8, <1>9, CountsKept DEF InCall
<1> QED BY <1>5, <1>6, <1>10 DEF AInv

\* An id nobody has is not in use, so the call is refused.
LEMMA UnmapWrongKeeps ==
  ASSUME AInv, NEW t \in Threads, NEW o \in Objects, NEW k \in Ids, UnmapWrong(t, o, k)
  PROVE  AInv'
<1>1. ~Found(o, k)
  BY DEF UnmapWrong, Given, Found, AInv, MapsInv, EntriesHaveUsers
<1>2. /\ pc[t] \in Out /\ pc' = [pc EXCEPT ![t] = "refused"]
      /\ UNCHANGED <<obj, usage, id, tables, lock, external, refs, odd>>
  BY <1>1 DEF UnmapWrong, Refuse, Out
<1> QED BY <1>2, IdleKeeps DEF tables

\* A thread that gives its patch back, and its entry.
LEMMA EndUnmapKeeps ==
  ASSUME AInv, NEW t \in Threads, EndUnmap(t), UNCHANGED <<accessors, refs, odd>>,
         \/ pc[t] = "copyingout" /\ Post(obj[t])
         \/ pc[t] = "unmapping" /\ UNCHANGED lock
  PROVE  AInv'
<1>1. /\ maps' = [maps EXCEPT ![id[t]] = Unmapped(id[t])]
      /\ external' = [external EXCEPT ![obj[t]] = @ - 1]
      /\ pc' = [pc EXCEPT ![t] = "out"]
      /\ obj' = [obj EXCEPT ![t] = "none"]
      /\ usage' = [usage EXCEPT ![t] = "none"]
      /\ id' = [id EXCEPT ![t] = 0]
      /\ UNCHANGED <<accessors, refs, odd>>
  BY DEF EndUnmap, Drop, Forget
<1>2. PICK x \in Objects : x = obj[t]
  BY DEF AInv, CountsInv, HasObject, Out
<1>3. OnlyBy(t) /\ pc'[t] = "out"
  BY <1>1 DEF OnlyBy, AInv, TypeOK
<1>4. UNCHANGED refs /\ unwaited' = unwaited /\ unposted' = unposted
  BY <1>1 DEF odd
<1>5. lock' \in [Objects -> Nat] /\ (\A o \in Objects \ {x} : lock'[o] = lock[o])
  <2>1. lock' = lock \/ lock' = [lock EXCEPT ![x] = @ + 1]
    BY <1>2 DEF Post
  <2>2. lock \in [Objects -> Nat]
    BY DEF AInv, TypeOK
  <2>3. CASE lock' = lock
    BY <2>2, <2>3
  <2>4. CASE lock' = [lock EXCEPT ![x] = @ + 1]
    <3>1. lock[x] + 1 \in Nat
      BY <2>2
    <3> QED BY <2>2, <2>4, <3>1
  <2> QED BY <2>1, <2>3, <2>4
<1>6. TypeOK'
  <2>1. 0 \in Ids /\ id[t] \in Ids
    BY DataAccessAssumption DEF Ids, AInv, TypeOK
  <2>2. Unmapped(id[t]) \in [used : BOOLEAN, ref : Objects \cup {"none"}, buffered : BOOLEAN]
    BY <2>1 DEF Unmapped, FreeMap, AInv, TypeOK
  <2>3. maps' \in [Ids -> [used : BOOLEAN, ref : Objects \cup {"none"}, buffered : BOOLEAN]]
    BY <1>1, <2>1, <2>2 DEF AInv, TypeOK
  <2>4. /\ pc' \in [Threads -> PCs]
        /\ obj' \in [Threads -> Objects \cup {"none"}]
        /\ usage' \in [Threads -> Usages \cup {"none"}]
        /\ id' \in [Threads -> Ids]
    BY <1>1, <2>1 DEF AInv, TypeOK, PCs
  <2>5. external' \in [Objects -> Int]
    BY <1>1, <1>2 DEF AInv, TypeOK
  <2>6. /\ accessors' \in SUBSET Threads /\ released' \in SUBSET Objects
        /\ alive' \in SUBSET Objects
        /\ unwaited' \in [Objects -> Nat] /\ unposted' \in [Objects -> Nat]
    BY <1>1, <1>4 DEF AInv, TypeOK, refs
  <2> QED BY <1>5, <2>3, <2>4, <2>5, <2>6 DEF AInv, TypeOK
<1>7. MapsInv'
  BY <1>1, <1>3, MapsCleared DEF Mapping
<1>8. Held(t, x)' = 0 /\ Using(t, x) = 1 /\ Using(t, x)' = 0
  BY <1>2, <1>3 DEF Held, Holders, Using, Users
<1>9. lock'[x] = lock[x] + Held(t, x) /\ Held(t, x) \in Int /\ lock[x] \in Int
  BY <1>2 DEF Post, Held, Holders, AInv, TypeOK
<1>10. /\ external[x] \in Int /\ external'[x] = external[x] - 1
       /\ \A o \in Objects \ {x} : external'[o] = external[o]
  BY <1>1, <1>2 DEF AInv, TypeOK
<1>11. unwaited[x] \in Int /\ unposted[x] \in Int
  BY <1>2 DEF AInv, TypeOK
<1>12. CountsInv'
  BY <1>2, <1>3, <1>4, <1>5, <1>6, <1>8, <1>9, <1>10, <1>11, CountsKept DEF Out, InCall
<1> QED BY <1>6, <1>7, <1>12 DEF AInv

LEMMA EndCopyOutKeeps ==
  ASSUME AInv, NEW t \in Threads, EndCopyOut(t) PROVE AInv'
<1>1. CASE obj[t] \in Arrays
  BY <1>1, EndUnmapKeeps DEF EndCopyOut
<1>2. CASE obj[t] \notin Arrays
  <2>1. /\ pc[t] = "copyingout" /\ pc' = [pc EXCEPT ![t] = "unmapping"]
        /\ lock' = [lock EXCEPT ![obj[t]] = @ + 1]
        /\ UNCHANGED <<call, tables, external, refs, odd>>
    BY <1>2 DEF EndCopyOut, Post
  <2>2. PICK x \in Objects : x = obj[t]
    BY <2>1 DEF AInv, CountsInv, HasObject, Out
  <2>3. OnlyBy(t) /\ pc'[t] = "unmapping"
    BY <2>1 DEF OnlyBy, AInv, TypeOK, call
  <2>4. /\ obj' = obj /\ usage' = usage /\ id' = id /\ maps' = maps /\ UNCHANGED refs
        /\ external' = external /\ unwaited' = unwaited /\ unposted' = unposted
    BY <2>1 DEF call, tables, odd
  <2>5. TypeOK'
    BY <2>1, <2>2, <2>4 DEF AInv, TypeOK, PCs, Mapping, refs, tables
  <2>6. MapsInv'
    BY <2>1, <2>3, <2>4, <2>5, MapsKept DEF Mapping
  <2>7. Held(t, x) = 1 /\ Held(t, x)' = 0 /\ Using(t, x) = 1 /\ Using(t, x)' = 1
    BY <2>1, <2>2, <2>3, <2>4 DEF Held, Holders, Using, Users
  <2>8. /\ lock[x] \in Int /\ lock'[x] = lock[x] + 1 /\ \A o \in Objects \ {x} : lock'[o] = lock[o]
    BY <2>1, <2>2 DEF AInv, TypeOK
  <2>9. external[x] \in Int /\ unwaited[x] \in Int /\ unposted[x] \in Int
    BY <2>2 DEF AInv, TypeOK
  <2>10. obj[t] = x /\ obj'[t] = x
    BY <2>2, <2>4
  <2>11. CountsInv'
    BY <2>2, <2>3, <2>4, <2>5, <2>7, <2>8, <2>9, <2>10, CountsKept DEF InCall
  <2> QED BY <2>5, <2>6, <2>11 DEF AInv
<1> QED BY <1>1, <1>2

\* A new entry: nobody owned it, for it was not in use.
LEMMA MapKeeps ==
  ASSUME AInv, NEW t \in Threads, NEW x \in Objects, NEW u \in Usages, Map(t, x, u)
  PROVE  AInv'
<1>1. PICK k \in Ids : /\ ~maps[k].used
                       /\ maps' = [maps EXCEPT ![k] = [used |-> TRUE, ref |-> x, buffered |-> x \notin Host]]
                       /\ id' = [id EXCEPT ![t] = k]
  BY DEF Map, Slot, FirstFree, Free
<1>2. PICK to \in {"copyin", "mapped"} : pc' = [pc EXCEPT ![t] = to]
                                         /\ external' = IF to = "mapped"
                                              THEN [external EXCEPT ![x] = @ + 1] ELSE external
  BY DEF Map, Begin, RetainedByMap, Retain
<1>3. /\ pc[t] \in Out /\ x \notin released
      /\ obj' = [obj EXCEPT ![t] = x] /\ usage' = [usage EXCEPT ![t] = u]
      /\ UNCHANGED <<accessors, lock, refs, odd>>
  BY DEF Map, Begin, Out
<1>4. OnlyBy(t) /\ pc'[t] = to /\ obj'[t] = x /\ id'[t] = k
  BY <1>1, <1>2, <1>3 DEF OnlyBy, AInv, TypeOK
<1>5. UNCHANGED refs /\ lock' = lock /\ unwaited' = unwaited /\ unposted' = unposted
  BY <1>3 DEF odd
<1>6. TypeOK'
  <2>1. [used |-> TRUE, ref |-> x, buffered |-> x \notin Host]
          \in [used : BOOLEAN, ref : Objects \cup {"none"}, buffered : BOOLEAN]
    OBVIOUS
  <2>2. maps' \in [Ids -> [used : BOOLEAN, ref : Objects \cup {"none"}, buffered : BOOLEAN]]
    BY <1>1, <2>1 DEF AInv, TypeOK
  <2>3. external' \in [Objects -> Int] /\ pc' \in [Threads -> PCs]
    BY <1>2 DEF AInv, TypeOK, PCs, Mapping
  <2> QED BY <1>1, <1>3, <2>2, <2>3 DEF AInv, TypeOK, refs, odd
<1>7. MapsInv'
  <2>1. /\ maps'[k].used /\ maps'[k].ref = x
        /\ \A j \in Ids \ {k} : maps'[j] = maps[j]
    BY <1>1 DEF AInv, TypeOK
  <2>2. \A s \in Threads \ {t} : pc[s] \in Mapping => id[s] # k /\ id[s] \in Ids
    BY <1>1 DEF AInv, MapsInv, MapsAreOwned, Found, TypeOK
  <2>3. MapsAreOwned'
    BY <1>4, <2>1, <2>2 DEF AInv, MapsInv, MapsAreOwned, Found, OnlyBy
  <2>4. EntriesHaveUsers'
    <3>1. SUFFICES ASSUME NEW j \in Ids, maps'[j].used
                   PROVE  \E s \in Threads : pc'[s] \in Mapping /\ id'[s] = j /\ obj'[s] = maps'[j].ref
      BY DEF EntriesHaveUsers
    <3>2. CASE j = k
      BY <3>2, <1>2, <1>4, <2>1 DEF Mapping
    <3>3. CASE j # k
      <4>1. PICK s \in Threads : pc[s] \in Mapping /\ id[s] = j /\ obj[s] = maps[j].ref
        BY <3>1, <3>3, <2>1 DEF AInv, MapsInv, EntriesHaveUsers
      <4>2. s # t
        BY <4>1, <1>3 DEF Mapping, Out
      <4>3. pc'[s] = pc[s] /\ id'[s] = id[s] /\ obj'[s] = obj[s]
        BY <4>2, <1>4 DEF OnlyBy
      <4> QED BY <4>1, <4>3, <3>3, <2>1
    <3> QED BY <3>2, <3>3
  <2> QED BY <2>3, <2>4 DEF MapsInv
<1>8. /\ Held(t, x) = 0 /\ Held(t, x)' = 0 /\ Using(t, x) = 0
      /\ Using(t, x)' = IF to = "mapped" THEN 1 ELSE 0
  BY <1>2, <1>3, <1>4 DEF Held, Holders, Using, Users, Out
<1>9. /\ external[x] \in Int /\ external'[x] = external[x] + Using(t, x)'
      /\ \A o \in Objects \ {x} : external'[o] = external[o]
  BY <1>2, <1>8 DEF AInv, TypeOK
<1>10. lock[x] \in Int /\ unwaited[x] \in Int /\ unposted[x] \in Int /\ Using(t, x)' \in Int
  BY <1>8 DEF AInv, TypeOK
<1>11. pc'[t] # "copy"
  BY <1>2, <1>4
<1>12. CountsInv'
  BY <1>3, <1>4, <1>5, <1>6, <1>8, <1>9, <1>10, <1>11, CountsKept
<1> QED BY <1>6, <1>7, <1>12 DEF AInv

-----------------------------------------------------------------------------
(* Access, commit and copy: the table of maps is not touched.               *)

\* How a call begins outside the table of maps.
LEMMA BeginKeepsMaps ==
  ASSUME AInv, NEW t \in Threads, NEW x \in Objects, NEW u \in Usages,
         NEW to \in {"direct", "copy", "copied", "writing"},
         Begin(t, x, u, to), UNCHANGED <<id, maps, refs, unwaited, unposted>>,
         accessors' \in SUBSET Threads, lock' \in [Objects -> Nat], external' \in [Objects -> Int]
  PROVE  /\ OnlyBy(t) /\ pc[t] \in Out /\ pc'[t] = to /\ obj'[t] = x /\ usage'[t] = u
         /\ x \notin released
         /\ TypeOK' /\ MapsInv'
<1>1. /\ pc[t] \in Out /\ x \notin released
      /\ pc' = [pc EXCEPT ![t] = to] /\ obj' = [obj EXCEPT ![t] = x]
      /\ usage' = [usage EXCEPT ![t] = u]
  BY DEF Begin, Out
<1>2. OnlyBy(t) /\ pc'[t] = to /\ obj'[t] = x /\ usage'[t] = u
  BY <1>1 DEF OnlyBy, AInv, TypeOK
<1>3. TypeOK'
  BY <1>1 DEF AInv, TypeOK, PCs, refs
<1>4. MapsInv'
  BY <1>1, <1>2, <1>3, MapsKept DEF Mapping, Out
<1> QED BY <1>1, <1>2, <1>3, <1>4

LEMMA AccessDirectKeeps ==
  ASSUME AInv, NEW t \in Threads, NEW x \in Objects, NEW u \in Usages, AccessDirect(t, x, u)
  PROVE  AInv'
<1>1. /\ Begin(t, x, u, "direct")
      /\ IF Writes(u) THEN lock[x] > 0 /\ lock' = [lock EXCEPT ![x] = @ - 1] ELSE lock' = lock
      /\ external' = [external EXCEPT ![x] = @ + 1]
      /\ UNCHANGED <<id, maps, accessors, refs, unwaited, unposted>>
  BY DEF AccessDirect, TakesPlane, Wait, Retain, tables, odd
<1>2. lock' \in [Objects -> Nat] /\ external' \in [Objects -> Int] /\ accessors' \in SUBSET Threads
  BY <1>1 DEF AInv, TypeOK
<1>3. /\ OnlyBy(t) /\ pc[t] \in Out /\ pc'[t] = "direct" /\ obj'[t] = x /\ usage'[t] = u
      /\ x \notin released /\ TypeOK' /\ MapsInv'
  BY <1>1, <1>2, BeginKeepsMaps
<1>4. /\ Held(t, x) = 0 /\ Using(t, x) = 0 /\ Using(t, x)' = 1
      /\ Held(t, x)' = IF Writes(u) THEN 1 ELSE 0
  BY <1>3 DEF Held, Holders, Using, Users, Out
<1>5. /\ lock'[x] = lock[x] - Held(t, x)' /\ lock[x] \in Int /\ Held(t, x)' \in Int
      /\ \A o \in Objects \ {x} : lock'[o] = lock[o]
  BY <1>1, <1>4 DEF AInv, TypeOK
<1>6. /\ external[x] \in Int /\ external'[x] = external[x] + 1
      /\ \A o \in Objects \ {x} : external'[o] = external[o]
  BY <1>1 DEF AInv, TypeOK
<1>7. /\ unwaited[x] \in Int /\ unposted[x] \in Int /\ UNCHANGED <<refs, unwaited, unposted>>
  BY <1>1 DEF AInv, TypeOK
<1>8. CountsInv'
  BY <1>3, <1>4, <1>5, <1>6, <1>7, CountsKept
<1> QED BY <1>3, <1>8 DEF AInv

LEMMA AccessCopyKeeps ==
  ASSUME AInv, NEW t \in Threads, NEW x \in Objects, NEW u \in Usages, AccessCopy(t, x, u)
  PROVE  AInv'
<1>1. CASE ~(Cardinality(accessors) < NumAccessors)
  BY <1>1, IdleKeeps DEF AccessCopy, Refuse, Out, refs
<1>2. CASE Cardinality(accessors) < NumAccessors
  <2>1. PICK to \in {"copy", "copied"} :
          /\ Begin(t, x, u, to) /\ (to = "copy" <=> Writes(u))
          /\ external' = IF to = "copied" THEN [external EXCEPT ![x] = @ + 1] ELSE external
          /\ accessors' = accessors \cup {t}
          /\ UNCHANGED <<id, maps, lock, refs, unwaited, unposted>>
    BY <1>2 DEF AccessCopy, Retain, odd
  <2>2. lock' \in [Objects -> Nat] /\ external' \in [Objects -> Int] /\ accessors' \in SUBSET Threads
    BY <2>1 DEF AInv, TypeOK
  <2>3. /\ OnlyBy(t) /\ pc[t] \in Out /\ pc'[t] = to /\ obj'[t] = x /\ usage'[t] = u
        /\ x \notin released /\ TypeOK' /\ MapsInv'
    BY <2>1, <2>2, BeginKeepsMaps
  <2>4. /\ Held(t, x) = 0 /\ Held(t, x)' = 0 /\ Using(t, x) = 0
        /\ Using(t, x)' = IF to = "copied" THEN 1 ELSE 0
    BY <2>1, <2>3 DEF Held, Holders, Using, Users, Out
  <2>5. /\ external[x] \in Int /\ external'[x] = external[x] + Using(t, x)' /\ Using(t, x)' \in Int
        /\ \A o \in Objects \ {x} : external'[o] = external[o]
    BY <2>1, <2>4 DEF AInv, TypeOK
  <2>6. /\ lock[x] \in Int /\ unwaited[x] \in Int /\ unposted[x] \in Int
        /\ UNCHANGED <<lock, refs, unwaited, unposted>> /\ (to = "copy" => Writes(u))
    BY <2>1 DEF AInv, TypeOK
  <2>7. CountsInv'
    BY <2>3, <2>4, <2>5, <2>6, CountsKept
  <2> QED BY <2>3, <2>7 DEF AInv
<1> QED BY <1>1, <1>2

LEMMA LockCopyKeeps ==
  ASSUME AInv, NEW t \in Threads, LockCopy(t) PROVE AInv'
<1>1. /\ pc[t] = "copy" /\ pc' = [pc EXCEPT ![t] = "copied"]
      /\ lock[obj[t]] > 0 /\ lock' = [lock EXCEPT ![obj[t]] = @ - 1]
      /\ external' = [external EXCEPT ![obj[t]] = @ + 1]
      /\ UNCHANGED <<call, tables, refs, odd>>
  BY DEF LockCopy, Goto, Wait, Retain
<1>2. PICK x \in Objects : x = obj[t]
  BY <1>1 DEF AInv, CountsInv, HasObject, Out
<1>3. OnlyBy(t) /\ pc'[t] = "copied"
  BY <1>1 DEF OnlyBy, AInv, TypeOK, call
<1>4. /\ obj' = obj /\ usage' = usage /\ id' = id /\ maps' = maps /\ UNCHANGED refs
      /\ unwaited' = unwaited /\ unposted' = unposted
  BY <1>1 DEF call, tables, odd
<1>5. TypeOK'
  BY <1>1, <1>2, <1>4 DEF AInv, TypeOK, PCs, Mapping, refs, tables
<1>6. MapsInv'
  BY <1>1, <1>3, <1>4, <1>5, MapsKept DEF Mapping
<1>7. Writes(usage[t]) /\ x \notin released
  BY <1>1, <1>2 DEF AInv, CountsInv, CopiesWrite, InsideIsHeld, InCall
<1>8. Held(t, x) = 0 /\ Held(t, x)' = 1 /\ Using(t, x) = 0 /\ Using(t, x)' = 1
  BY <1>1, <1>2, <1>3, <1>4, <1>7 DEF Held, Holders, Using, Users
<1>9. /\ lock[x] \in Int /\ lock'[x] = lock[x] - 1 /\ \A o \in Objects \ {x} : lock'[o] = lock[o]
      /\ external[x] \in Int /\ external'[x] = external[x] + 1
      /\ \A o \in Objects \ {x} : external'[o] = external[o]
  BY <1>1, <1>2 DEF AInv, TypeOK
<1>10. unwaited[x] \in Int /\ unposted[x] \in Int
  BY <1>2 DEF AInv, TypeOK
<1>11. obj[t] = x /\ obj'[t] = x
  BY <1>2, <1>4
<1>12. CountsInv'
  BY <1>2, <1>3, <1>4, <1>5, <1>7, <1>8, <1>9, <1>10, <1>11, CountsKept
<1> QED BY <1>5, <1>6, <1>12 DEF AInv

\* How a call ends outside the table of maps.
LEMMA ForgetKeepsMaps ==
  ASSUME AInv, NEW t \in Threads, pc[t] \notin Mapping, Forget(t), UNCHANGED <<maps, refs>>,
         accessors' \in SUBSET Threads, lock' \in [Objects -> Nat], external' \in [Objects -> Int],
         unwaited' \in [Objects -> Nat], unposted' \in [Objects -> Nat]
  PROVE  OnlyBy(t) /\ pc'[t] = "out" /\ TypeOK' /\ MapsInv'
<1>1. /\ pc' = [pc EXCEPT ![t] = "out"] /\ obj' = [obj EXCEPT ![t] = "none"]
      /\ usage' = [usage EXCEPT ![t] = "none"] /\ id' = [id EXCEPT ![t] = 0]
  BY DEF Forget
<1>2. OnlyBy(t) /\ pc'[t] = "out"
  BY <1>1 DEF OnlyBy, AInv, TypeOK
<1>3. TypeOK'
  <2>1. 0 \in Ids
    BY DataAccessAssumption DEF Ids
  <2> QED BY <1>1, <2>1 DEF AInv, TypeOK, PCs, refs
<1>4. MapsInv'
  BY <1>2, <1>3, MapsKept DEF Mapping
<1> QED BY <1>2, <1>3, <1>4

LEMMA CommitKeeps ==
  ASSUME AInv, NEW t \in Threads, NEW empty \in BOOLEAN, Commit(t, empty) PROVE AInv'
<1>1. /\ pc[t] \in {"direct", "copied"} /\ Forget(t) /\ UNCHANGED <<maps, refs>>
      /\ external' = [external EXCEPT ![obj[t]] = @ - 1]
      /\ accessors' = accessors \ {t}
  BY DEF Commit, Drop
<1>2. PICK x \in Objects : x = obj[t]
  BY <1>1 DEF AInv, CountsInv, HasObject, Out
<1>3. lock \in [Objects -> Nat] /\ unwaited \in [Objects -> Nat] /\ unposted \in [Objects -> Nat]
  BY DEF AInv, TypeOK
<1>4. \/ /\ lock' = [lock EXCEPT ![x] = @ + 1] /\ UNCHANGED <<unwaited, unposted>>
         /\ Writes(usage[t])
      \/ /\ lock' = [lock EXCEPT ![x] = @ + 1] /\ unwaited' = [unwaited EXCEPT ![x] = @ + 1]
         /\ UNCHANGED unposted /\ ~Writes(usage[t])
      \/ UNCHANGED <<lock, unwaited, unposted>> /\ ~Writes(usage[t])
      \/ /\ unposted' = [unposted EXCEPT ![x] = @ + 1] /\ UNCHANGED <<lock, unwaited>>
         /\ Writes(usage[t])
  BY <1>2 DEF Commit, Post
<1>5. lock' \in [Objects -> Nat] /\ unwaited' \in [Objects -> Nat] /\ unposted' \in [Objects -> Nat]
  <2>1. lock[x] + 1 \in Nat /\ unwaited[x] + 1 \in Nat /\ unposted[x] + 1 \in Nat
    BY <1>3
  <2> QED BY <1>3, <1>4, <2>1
<1>6. \A o \in Objects \ {x} :
        lock'[o] = lock[o] /\ unwaited'[o] = unwaited[o] /\ unposted'[o] = unposted[o]
  BY <1>3, <1>4
<1>7. Held(t, x) = (IF Writes(usage[t]) THEN 1 ELSE 0) /\ Using(t, x) = 1
  BY <1>1, <1>2 DEF Held, Holders, Using, Users
<1>8. lock'[x] + unposted'[x] - unwaited'[x] = lock[x] + Held(t, x) + unposted[x] - unwaited[x]
  BY <1>3, <1>4, <1>7
<1>9. /\ external' \in [Objects -> Int] /\ external[x] \in Int /\ external'[x] = external[x] - 1
      /\ \A o \in Objects \ {x} : external'[o] = external[o]
  BY <1>1, <1>2 DEF AInv, TypeOK
<1>10. OnlyBy(t) /\ pc'[t] = "out" /\ TypeOK' /\ MapsInv'
  <2>1. pc[t] \notin Mapping /\ accessors' \in SUBSET Threads
    BY <1>1 DEF Mapping, AInv, TypeOK
  <2> QED BY <1>1, <1>5, <1>9, <2>1, ForgetKeepsMaps
<1>11. Held(t, x)' = 0 /\ Using(t, x)' = 0 /\ Held(t, x) \in Int
  BY <1>10, <1>7 DEF Held, Holders, Using, Users
<1>12. /\ lock[x] \in Int /\ unwaited[x] \in Int /\ unposted[x] \in Int
       /\ lock'[x] \in Int /\ unwaited'[x] \in Int /\ unposted'[x] \in Int
  BY <1>3, <1>5
<1>13. lock'[x] + Held(t, x)' + unposted'[x] - unwaited'[x]
         = lock[x] + Held(t, x) + unposted[x] - unwaited[x]
  BY <1>8, <1>11, <1>12
<1>14. external'[x] - Using(t, x)' = external[x] - Using(t, x)
  BY <1>7, <1>9, <1>11
<1>15. UNCHANGED refs /\ obj[t] = x /\ pc'[t] \in Out /\ pc'[t] \notin InCall /\ pc'[t] # "copy"
       /\ ~(external'[x] > external[x])
  BY <1>1, <1>2, <1>9, <1>10 DEF Out, InCall
<1>16. CountsInv'
  BY <1>6, <1>9, <1>10, <1>13, <1>14, <1>15, CountsKept
<1> QED BY <1>10, <1>16 DEF AInv

LEMMA CopyKeeps ==
  ASSUME AInv, NEW t \in Threads, NEW x \in Objects, Copy(t, x) PROVE AInv'
<1>1. /\ Begin(t, x, "wo", "writing") /\ lock[x] > 0 /\ lock' = [lock EXCEPT ![x] = @ - 1]
      /\ UNCHANGED <<id, maps, accessors, external, refs, unwaited, unposted>>
  BY DEF Copy, Wait, tables, odd
<1>2. lock' \in [Objects -> Nat] /\ external' \in [Objects -> Int] /\ accessors' \in SUBSET Threads
  BY <1>1 DEF AInv, TypeOK
<1>3. /\ OnlyBy(t) /\ pc[t] \in Out /\ pc'[t] = "writing" /\ obj'[t] = x
      /\ x \notin released /\ TypeOK' /\ MapsInv'
  BY <1>1, <1>2, BeginKeepsMaps DEF Usages
<1>4. Held(t, x) = 0 /\ Held(t, x)' = 1 /\ Using(t, x) = 0 /\ Using(t, x)' = 0
  BY <1>3 DEF Held, Holders, Using, Users, Out
<1>5. /\ lock[x] \in Int /\ lock'[x] = lock[x] - 1 /\ \A o \in Objects \ {x} : lock'[o] = lock[o]
  BY <1>1 DEF AInv, TypeOK
<1>6. /\ external[x] \in Int /\ unwaited[x] \in Int /\ unposted[x] \in Int
      /\ UNCHANGED <<external, refs, unwaited, unposted>>
  BY <1>1 DEF AInv, TypeOK
<1>7. CountsInv'
  BY <1>3, <1>4, <1>5, <1>6, CountsKept
<1> QED BY <1>3, <1>7 DEF AInv

LEMMA EndCopyKeeps ==
  ASSUME AInv, NEW t \in Threads, EndCopy(t) PROVE AInv'
<1>1. /\ pc[t] = "writing" /\ Forget(t) /\ lock' = [lock EXCEPT ![obj[t]] = @ + 1]
      /\ UNCHANGED <<maps, accessors, external, refs, unwaited, unposted>>
  BY DEF EndCopy, Post, tables, odd
<1>2. PICK x \in Objects : x = obj[t]
  BY <1>1 DEF AInv, CountsInv, HasObject, Out
<1>3. /\ lock' \in [Objects -> Nat] /\ lock[x] \in Int /\ lock'[x] = lock[x] + 1
      /\ \A o \in Objects \ {x} : lock'[o] = lock[o]
  BY <1>1, <1>2 DEF AInv, TypeOK
<1>4. OnlyBy(t) /\ pc'[t] = "out" /\ TypeOK' /\ MapsInv'
  <2>1. /\ pc[t] \notin Mapping /\ accessors' \in SUBSET Threads /\ external' \in [Objects -> Int]
        /\ unwaited' \in [Objects -> Nat] /\ unposted' \in [Objects -> Nat]
    BY <1>1 DEF Mapping, AInv, TypeOK
  <2> QED BY <1>1, <1>3, <2>1, ForgetKeepsMaps
<1>5. Held(t, x) = 1 /\ Held(t, x)' = 0 /\ Using(t, x) = 0 /\ Using(t, x)' = 0
  BY <1>1, <1>2, <1>4 DEF Held, Holders, Using, Users
<1>6. /\ external[x] \in Int /\ unwaited[x] \in Int /\ unposted[x] \in Int
      /\ UNCHANGED <<external, refs, unwaited, unposted>> /\ obj[t] = x
  BY <1>1, <1>2 DEF AInv, TypeOK
<1>7. pc'[t] \in Out /\ pc'[t] \notin InCall /\ pc'[t] # "copy"
  BY <1>4 DEF Out, InCall
<1>8. CountsInv'
  BY <1>2, <1>3, <1>4, <1>5, <1>6, <1>7, CountsKept
<1> QED BY <1>4, <1>8 DEF AInv

-----------------------------------------------------------------------------
(* The application, and the theorems.                                      *)

\* An object with a patch is not destroyed when the application releases it.
LEMMA ReleaseKeeps ==
  ASSUME AInv, NEW x \in Objects, Release(x) PROVE AInv'
<1>1. /\ x \notin released /\ Inside(x) = {} /\ released' = released \cup {x}
      /\ external' = [external EXCEPT ![x] = @ - 1]
      /\ alive' = IF external'[x] = 0 THEN alive \ {x} ELSE alive
      /\ UNCHANGED <<pc, obj, usage, id, maps, accessors, lock, unwaited, unposted>>
  BY DEF Release, Drop, call, tables, odd
<1>2. external[x] \in Int /\ external'[x] = external[x] - 1
      /\ \A o \in Objects \ {x} : external'[o] = external[o] /\ (o \in alive' <=> o \in alive)
  BY <1>1 DEF AInv, TypeOK
<1>3. TypeOK'
  BY <1>1 DEF AInv, TypeOK
<1>4. MapsInv'
  BY <1>1 DEF AInv, MapsInv, MapsAreOwned, EntriesHaveUsers, Found
<1>5. HasObject' /\ CopiesWrite'
  BY <1>1 DEF AInv, CountsInv, HasObject, CopiesWrite
<1>6. InsideIsHeld'
  BY <1>1 DEF AInv, CountsInv, InsideIsHeld, InCall, Inside
<1>7. \A o \in Objects : Holders(o)' = Holders(o) /\ Users(o)' = Users(o)
  BY <1>1 DEF Holders, Users
<1>8. LockCounts'
  BY <1>1, <1>7 DEF AInv, CountsInv, LockCounts
<1>9. PatchesKeepAlive'
  <2>1. SUFFICES ASSUME NEW o \in Objects
                 PROVE  /\ external'[o] = Cardinality(Users(o)) + (IF o \in released' THEN 0 ELSE 1)
                        /\ external'[o] > 0 => o \in alive'
    BY <1>7 DEF PatchesKeepAlive
  <2>2. /\ external[o] = Cardinality(Users(o)) + (IF o \in released THEN 0 ELSE 1)
        /\ external[o] > 0 => o \in alive
    BY DEF AInv, CountsInv, PatchesKeepAlive
  <2>3. Cardinality(Users(o)) \in Nat
    BY DataAccessAssumption, FS_Subset, FS_CardinalityType DEF Users
  <2>4. CASE o = x
    <3>1. external[o] = Cardinality(Users(o)) + 1 /\ external'[o] = Cardinality(Users(o))
      BY <2>2, <2>3, <2>4, <1>1, <1>2
    <3>2. external'[o] > 0 => o \in alive'
      BY <3>1, <2>2, <2>3, <2>4, <1>1
    <3> QED BY <3>1, <3>2, <2>3, <2>4, <1>1
  <2>5. CASE o # x
    BY <2>2, <2>5, <1>1, <1>2
  <2> QED BY <2>4, <2>5
<1> QED BY <1>3, <1>4, <1>5, <1>6, <1>8, <1>9 DEF AInv, CountsInv

LEMMA StutterKeeps == ASSUME AInv, UNCHANGED vars PROVE AInv'
<1>1. UNCHANGED <<pc, obj, usage, id, maps, accessors, lock, external, released, alive,
                  unwaited, unposted>>
  BY DEF vars, call, tables, refs, odd
<1>2. TypeOK'
  BY <1>1 DEF AInv, TypeOK
<1>3. MapsInv'
  BY <1>1 DEF AInv, MapsInv, MapsAreOwned, EntriesHaveUsers, Found
<1>4. HasObject' /\ CopiesWrite' /\ InsideIsHeld'
  BY <1>1 DEF AInv, CountsInv, HasObject, CopiesWrite, InsideIsHeld
<1>5. \A o \in Objects : Holders(o)' = Holders(o) /\ Users(o)' = Users(o)
  BY <1>1 DEF Holders, Users
<1>6. LockCounts' /\ PatchesKeepAlive'
  BY <1>1, <1>5 DEF AInv, CountsInv, LockCounts, PatchesKeepAlive
<1> QED BY <1>2, <1>3, <1>4, <1>6 DEF AInv, CountsInv

LEMMA InitAInv == Init => AInv
<1>1. SUFFICES ASSUME Init PROVE AInv
  OBVIOUS
<1>2. TypeOK
  <2>1. 0 \in Ids
    BY DataAccessAssumption DEF Ids
  <2> QED BY <1>1, <2>1 DEF Init, TypeOK, FreeMap, PCs
<1>3. MapsInv /\ HasObject /\ CopiesWrite /\ InsideIsHeld
  BY <1>1 DEF Init, MapsInv, MapsAreOwned, EntriesHaveUsers, FreeMap, Mapping,
              HasObject, CopiesWrite, InsideIsHeld, InCall, Out
<1>4. \A o \in Objects : Holders(o) = {} /\ Users(o) = {}
  BY <1>1 DEF Init, Holders, Users
<1>5. LockCounts /\ PatchesKeepAlive
  BY <1>1, <1>4, FS_EmptySet DEF Init, LockCounts, PatchesKeepAlive
<1> QED BY <1>2, <1>3, <1>5 DEF AInv, CountsInv

LEMMA NextAInv == AInv /\ [Next]_vars => AInv'
<1>1. SUFFICES ASSUME AInv, [Next]_vars PROVE AInv'
  OBVIOUS
<1>2. ASSUME NEW t \in Threads, MapStep(t) PROVE AInv'
  BY <1>1, <1>2, MapKeeps, LockInMapKeeps, EndCopyInKeeps DEF MapStep
<1>3. ASSUME NEW t \in Threads, UnmapStep(t) PROVE AInv'
  <2>1. CASE EndUnmapping(t)
    BY <1>1, <2>1, EndUnmapKeeps DEF EndUnmapping
  <2> QED BY <1>1, <1>3, <2>1, UnmapKeeps, LockInMapKeeps, EndCopyOutKeeps, UnmapWrongKeeps
          DEF UnmapStep
<1>4. ASSUME NEW t \in Threads, AccessStep(t) PROVE AInv'
  BY <1>1, <1>4, AccessDirectKeeps, AccessCopyKeeps, LockCopyKeeps, CommitKeeps DEF AccessStep
<1>5. ASSUME NEW t \in Threads, CopyStep(t) PROVE AInv'
  BY <1>1, <1>5, CopyKeeps, EndCopyKeeps DEF CopyStep
<1> QED BY <1>1, <1>2, <1>3, <1>4, <1>5, ReleaseKeeps, StutterKeeps DEF Next

\* The inductive invariant.
LEMMA AccessInv == Spec => []AInv
  BY InitAInv, NextAInv, PTL DEF Spec

\* Every patch that is mapped, or on its way in or out, has an entry of its own
\* that names its object.
THEOREM Maps == Spec => []MapsAreOwned
<1>1. AInv => MapsAreOwned
  BY DEF AInv, MapsInv
<1> QED BY <1>1, AccessInv, PTL

\* The semaphore of a plane is short of as many as hold it.
THEOREM Locks == Spec => []LockCounts
<1>1. AInv => LockCounts
  BY DEF AInv, CountsInv
<1> QED BY <1>1, AccessInv, PTL

\* As long as no reader has posted what it never took, one thread at a time
\* writes to an object or copies what is being written.
THEOREM Writer == Spec => []OneWriter
<1>1. AInv => OneWriter
  <2>1. SUFFICES ASSUME AInv, NEW o \in Objects, unwaited[o] = 0
                 PROVE  Cardinality(Holders(o)) <= 1
    BY DEF OneWriter
  <2>2. lock[o] \in Nat /\ unposted[o] \in Nat
    BY <2>1 DEF AInv, TypeOK
  <2>3. lock[o] + Cardinality(Holders(o)) + unposted[o] = 1 + unwaited[o]
    BY <2>1 DEF AInv, CountsInv, LockCounts
  <2>4. Cardinality(Holders(o)) \in Nat
    BY DataAccessAssumption, FS_Subset, FS_CardinalityType DEF Holders
  <2> QED BY <2>1, <2>2, <2>3, <2>4
<1> QED BY <1>1, AccessInv, PTL

\* An object lives, and its count is right, as long as a patch of it is mapped
\* or accessed, whoever releases it.
THEOREM Patches == Spec => []PatchesKeepAlive
<1>1. AInv => PatchesKeepAlive
  BY DEF AInv, CountsInv
<1> QED BY <1>1, AccessInv, PTL

-----------------------------------------------------------------------------
(* The kernels of a context: types of the tables.                          *)

Enums  == {EnumOf[n] : n \in Names}
Kernel == [name : Names \cup {NoName}, enum : Enums \cup {NoEnum}, enabled : BOOLEAN,
           user : BOOLEAN, ext : Nat, int : Int, alive : BOOLEAN]

KernelTypes ==
  /\ kernels \in [Slots -> Kernel]
  /\ reftable \in [Slots -> Int]
  /\ numKernels \in Int /\ numUnique \in Int /\ numModules \in Int
  /\ targetKernels \in [Targets -> Int]
  /\ modules \in [1..NumModules -> Libraries \cup {NoLib}]
  /\ holders \in SUBSET Holder /\ IsFiniteSet(holders)
  /\ contextReleased \in BOOLEAN

\* only a taken slot is finalized or the application's
TakenOnly ==
  \A s \in Slots : kernels[s].enabled \/ kernels[s].user => kernels[s].enum # NoEnum

CountedInv == KernelTypes /\ TakenOnly /\ CountsAreExact

\* what a step leaves alone that does not give or take the slot
Keeps(s) == /\ kernels'[s].name = kernels[s].name /\ kernels'[s].enum = kernels[s].enum
            /\ kernels'[s].enabled = kernels[s].enabled /\ kernels'[s].user = kernels[s].user

-----------------------------------------------------------------------------
(* Tables and slots.                                                       *)

LEMMA LeastNumber ==
  ASSUME NEW S \in SUBSET Nat, S # {}
  PROVE  \E x \in S : \A y \in S : x <= y
<1>1. PICK x \in S : \A y \in S : ~(<<y, x>> \in OpToRel(<, Nat))
  BY NatLessThanWellFounded, WFMin, Zenon
<1>2. \A y \in S : ~(y < x)
  BY <1>1 DEF OpToRel
<1> QED
  BY <1>2

LEMMA LowestIs ==
  ASSUME NEW S \in SUBSET Nat, S # {}
  PROVE  Lowest(S) \in S /\ \A k \in S : Lowest(S) <= k
BY LeastNumber DEF Lowest

LEMMA HighestIs ==
  ASSUME NEW n \in Nat, NEW S \in SUBSET (1..n), S # {}
  PROVE  \E x \in S : \A y \in S : y <= x
<1> DEFINE R == {k \in 0..n : n - k \in S}
<1>1. PICK x \in S : TRUE
  OBVIOUS
<1>2. n - x \in R
  OBVIOUS
<1>3. PICK k \in R : \A j \in R : k <= j
  <2>1. R \in SUBSET Nat
    OBVIOUS
  <2> HIDE DEF R
  <2> QED
    BY <1>2, <2>1, LeastNumber
<1>4. \A y \in S : n - y \in R
  OBVIOUS
<1>5. \A y \in S : y <= n - k
  BY <1>3, <1>4
<1> QED
  BY <1>3, <1>5

LEMMA SlotsAre ==
  /\ \A s \in Slots : s[1] \in Targets /\ s[2] \in 1..NumSlots /\ s = <<s[1], s[2]>>
  /\ \A t \in Targets, k \in 1..NumSlots :
       <<t, k>> \in Slots /\ <<t, k>>[1] = t /\ <<t, k>>[2] = k
BY DEF Slots

LEMMA SlotsFinite == IsFiniteSet(Targets) /\ IsFiniteSet(Slots)
<1>1. Len(Order) \in Nat /\ Order \in [1..Len(Order) -> Targets]
  BY KernelsAssumption
<1>2. Order \in Surjection(1..Len(Order), Targets)
  BY <1>1 DEF Surjection, Targets
<1>3. IsFiniteSet(1..Len(Order)) /\ IsFiniteSet(1..NumSlots)
  BY <1>1, KernelsAssumption, FS_Interval
<1>4. IsFiniteSet(Targets)
  BY <1>2, <1>3, FS_Surjection
<1> QED
  BY <1>3, <1>4, FS_Product DEF Slots

\* one more reference to a kernel
LEMMA OneMore ==
  ASSUME NEW k \in Kernel
  PROVE  LET x == [k EXCEPT !.ext = k.ext + 1]
             i == [k EXCEPT !.int = k.int + 1]
         IN /\ x \in Kernel /\ x.name = k.name /\ x.enum = k.enum /\ x.enabled = k.enabled
            /\ x.user = k.user /\ x.alive = k.alive /\ x.ext = k.ext + 1 /\ x.int = k.int + 0
            /\ i \in Kernel /\ i.name = k.name /\ i.enum = k.enum /\ i.enabled = k.enabled
            /\ i.user = k.user /\ i.alive = k.alive /\ i.int = k.int + 1 /\ i.ext = k.ext + 0
            /\ k.ext \in Nat /\ k.int \in Int
BY DEF Kernel

LEMMA DroppedIs ==
  ASSUME NEW table \in [Slots -> Kernel], NEW s \in Slots
  PROVE  LET k == Dropped(table, s)
         IN /\ k \in [Slots -> Kernel]
            /\ \A r \in Slots \ {s} : k[r] = table[r]
            /\ k[s].name = table[s].name /\ k[s].enum = table[s].enum
            /\ k[s].enabled = table[s].enabled /\ k[s].user = table[s].user
            /\ k[s].ext = table[s].ext /\ k[s].int = table[s].int
            /\ k[s].alive = (table[s].alive /\ table[s].ext + table[s].int > 0)
BY DEF Dropped, Kernel

-----------------------------------------------------------------------------
(* What each operation does to the tables.                                 *)

\* the table of references follows the kernel of slot s
EntryFollows(s) ==
  reftable' = [reftable EXCEPT ![s] = IF kernels[s].alive /\ ~kernels'[s].alive THEN @ - 1 ELSE @]

\* only kernels of S are counted, one more reference each
Referenced(S, ext, int) ==
  /\ kernels' \in [Slots -> Kernel]
  /\ \A s \in Slots :
       /\ Keeps(s) /\ kernels'[s].alive = kernels[s].alive
       /\ kernels'[s].ext = IF s \in S THEN kernels[s].ext + ext ELSE kernels[s].ext
       /\ kernels'[s].int = IF s \in S THEN kernels[s].int + int ELSE kernels[s].int
  /\ UNCHANGED <<reftable, counters, moduleTables>>

\* the kernel of slot s has one reference less, and may go with it
Unreferenced(s, ext, int) ==
  /\ kernels' \in [Slots -> Kernel]
  /\ \A r \in Slots \ {s} : kernels'[r] = kernels[r]
  /\ Keeps(s)
  /\ kernels'[s].ext = ext /\ kernels'[s].int = int
  /\ kernels'[s].alive = (kernels[s].alive /\ ext + int > 0)
  /\ EntryFollows(s)
  /\ UNCHANGED <<counters, moduleTables>>

LEMMA OneReferenced ==
  ASSUME KernelTypes, NEW s \in Slots, UNCHANGED <<reftable, counters, moduleTables>>
  PROVE  /\ kernels' = [kernels EXCEPT ![s].ext = @ + 1] => Referenced({s}, 1, 0)
         /\ kernels' = [kernels EXCEPT ![s].int = @ + 1] => Referenced({s}, 0, 1)
<1>1. kernels \in [Slots -> Kernel] /\ kernels[s] \in Kernel
      /\ \A r \in Slots : kernels[r].ext \in Nat /\ kernels[r].int \in Int
  BY OneMore DEF KernelTypes
<1>2. ASSUME kernels' = [kernels EXCEPT ![s].ext = @ + 1] PROVE Referenced({s}, 1, 0)
  <2> DEFINE k == [kernels[s] EXCEPT !.ext = kernels[s].ext + 1]
  <2>1. kernels'[s] = k /\ \A r \in Slots \ {s} : kernels'[r] = kernels[r]
    BY <1>1, <1>2
  <2>2. kernels' = [kernels EXCEPT ![s] = k]
    BY <1>2
  <2>3. /\ k \in Kernel /\ k.name = kernels[s].name /\ k.enum = kernels[s].enum
        /\ k.enabled = kernels[s].enabled /\ k.user = kernels[s].user
        /\ k.alive = kernels[s].alive /\ k.ext = kernels[s].ext + 1 /\ k.int = kernels[s].int + 0
    BY <1>1, OneMore
  <2> HIDE DEF k
  <2>4. kernels' \in [Slots -> Kernel]
    BY <1>1, <2>2, <2>3
  <2> QED BY <1>1, <2>1, <2>3, <2>4 DEF Referenced, Keeps
<1>3. ASSUME kernels' = [kernels EXCEPT ![s].int = @ + 1] PROVE Referenced({s}, 0, 1)
  <2> DEFINE k == [kernels[s] EXCEPT !.int = kernels[s].int + 1]
  <2>1. kernels'[s] = k /\ \A r \in Slots \ {s} : kernels'[r] = kernels[r]
    BY <1>1, <1>3
  <2>2. kernels' = [kernels EXCEPT ![s] = k]
    BY <1>3
  <2>3. /\ k \in Kernel /\ k.name = kernels[s].name /\ k.enum = kernels[s].enum
        /\ k.enabled = kernels[s].enabled /\ k.user = kernels[s].user
        /\ k.alive = kernels[s].alive /\ k.int = kernels[s].int + 1 /\ k.ext = kernels[s].ext + 0
    BY <1>1, OneMore
  <2> HIDE DEF k
  <2>4. kernels' \in [Slots -> Kernel]
    BY <1>1, <2>2, <2>3
  <2> QED BY <1>1, <2>1, <2>3, <2>4 DEF Referenced, Keeps
<1> QED BY <1>2, <1>3

LEMMA AddDoes ==
  ASSUME KernelTypes, NEW n \in UserNames, AddKernel(n)
  PROVE  \E s \in Slots :
           /\ s[1] = TargetOf[n] /\ ~kernels[s].enabled /\ kernels[s].enum = NoEnum
           /\ kernels' = [kernels EXCEPT ![s] = Initialized(n, TRUE)]
           /\ reftable' = [reftable EXCEPT ![s] = @ + 1]
           /\ targetKernels' = [targetKernels EXCEPT ![s[1]] = @ + 1]
           /\ UNCHANGED <<numKernels, numUnique, moduleTables, holders>>
<1> DEFINE t == TargetOf[n]
           k == Lowest(FreeSlots(t))
<1>1. t \in Targets
  BY KernelsAssumption
<1>2. k \in FreeSlots(t)
  <2>1. FreeSlots(t) \in SUBSET Nat
    BY DEF FreeSlots
  <2>2. FreeSlots(t) # {}
    BY DEF AddKernel
  <2> QED BY <2>1, <2>2, LowestIs
<1>3. <<t, k>> \in Slots /\ <<t, k>>[1] = t
  BY <1>1, <1>2, SlotsAre DEF FreeSlots
<1> QED
  BY <1>2, <1>3 DEF AddKernel, FreeSlots

LEMMA FoundByName ==
  ASSUME KernelTypes, NEW x, GetKernelByName(x)
  PROVE  \E s \in Slots : /\ kernels[s].enabled
                          /\ Handle("application", s) \notin holders
                          /\ Referenced({s}, 1, 0)
                          /\ holders' = holders \cup {Handle("application", s)}
<1> DEFINE i == Lowest(ByName(x))
           t == Order[i]
           k == Lowest(Matches(t, x))
<1>1. DOMAIN Order \in SUBSET Nat /\ \A j \in DOMAIN Order : Order[j] \in Targets
  BY KernelsAssumption DEF Targets
<1>2. ByName(x) \in SUBSET Nat /\ ByName(x) # {}
  BY <1>1 DEF GetKernelByName, ByName
<1>3. i \in ByName(x)
  BY <1>2, LowestIs
<1>4. t \in Targets /\ Matches(t, x) # {} /\ kernels[<<t, k>>].enabled
  BY <1>1, <1>3 DEF ByName
<1>5. k \in Matches(t, x)
  <2>1. Matches(t, x) \in SUBSET Nat
    BY DEF Matches
  <2> QED BY <1>4, <2>1, LowestIs
<1> DEFINE s == <<t, k>>
<1>6. s \in Slots
  BY <1>4, <1>5, SlotsAre DEF Matches
<1>7. /\ Handle("application", s) \notin holders
      /\ kernels' = [kernels EXCEPT ![s].ext = @ + 1]
      /\ holders' = holders \cup {Handle("application", s)}
      /\ UNCHANGED <<reftable, counters, moduleTables>>
  BY DEF GetKernelByName
<1> HIDE DEF s
<1>8. Referenced({s}, 1, 0)
  BY <1>6, <1>7, OneReferenced
<1> QED
  BY <1>4, <1>6, <1>7, <1>8 DEF s

LEMMA FoundByEnum ==
  ASSUME KernelTypes, NEW e \in Enums, GetKernelByEnum(e)
  PROVE  \E s \in Slots : /\ kernels[s].enum = e /\ s \in Counted(e)
                          /\ s = Returned(e)
                          /\ Handle("application", s) \notin holders
                          /\ Referenced(Counted(e), 1, 0)
                          /\ holders' = holders \cup {Handle("application", s)}
<1>1. Len(Order) \in Nat /\ DOMAIN Order = 1..Len(Order)
      /\ \A j \in DOMAIN Order : Order[j] \in Targets
  BY KernelsAssumption DEF Targets
<1>2. ByEnum(e) # {} /\ ByEnum(e) \in SUBSET (1..Len(Order))
  BY <1>1 DEF GetKernelByEnum, ByEnum
<1> DEFINE i == CHOOSE j \in ByEnum(e) : \A k \in ByEnum(e) : k <= j
           t == Order[i]
           m == Lowest(Numbered(t, e))
<1>3. i \in ByEnum(e)
  BY <1>1, <1>2, HighestIs
<1>4. t \in Targets /\ Numbered(t, e) # {}
  BY <1>1, <1>3 DEF ByEnum
<1>5. m \in Numbered(t, e)
  <2>1. Numbered(t, e) \in SUBSET Nat
    BY DEF Numbered
  <2> QED BY <1>4, <2>1, LowestIs
<1>6. Returned(e) = <<t, m>> /\ <<t, m>> \in Counted(e)
  BY <1>3 DEF Returned, Counted
<1>7. <<t, m>> \in Slots /\ kernels[<<t, m>>].enum = e
  BY <1>4, <1>5, SlotsAre DEF Numbered
<1>8. Referenced(Counted(e), 1, 0)
  <2>1. /\ kernels' = [s \in Slots |-> IF s \in Counted(e)
                                       THEN [kernels[s] EXCEPT !.ext = @ + 1] ELSE kernels[s]]
        /\ UNCHANGED <<reftable, counters, moduleTables>>
    BY DEF GetKernelByEnum
  <2>2. \A s \in Slots : kernels[s] \in Kernel
    BY DEF KernelTypes
  <2> QED BY <2>1, <2>2, OneMore DEF Referenced, Keeps
<1> QED
  BY <1>6, <1>7, <1>8 DEF GetKernelByEnum

LEMMA LessIs ==
  /\ \A n \in Nat : Less(n) \in Nat
  /\ \A n \in Int : Less(n) \in Int
  /\ \A n \in Nat \ {0} : Less(n) = n - 1
BY DEF Less

LEMMA LessReferenced ==
  ASSUME KernelTypes, NEW s \in Slots, UNCHANGED <<counters, moduleTables>>
  PROVE  /\ kernels' = ExternalLess(s) /\ reftable' = Entries(ExternalLess(s), s)
              => Unreferenced(s, Less(kernels[s].ext), kernels[s].int)
         /\ kernels' = InternalLess(s) /\ reftable' = Entries(InternalLess(s), s)
              => Unreferenced(s, kernels[s].ext, Less(kernels[s].int))
<1>1. kernels \in [Slots -> Kernel] /\ kernels[s] \in Kernel
      /\ kernels[s].ext \in Nat /\ kernels[s].int \in Int
  BY OneMore DEF KernelTypes
<1>2. Less(kernels[s].ext) \in Nat /\ Less(kernels[s].int) \in Int
  BY <1>1, LessIs
<1>3. ASSUME kernels' = ExternalLess(s), reftable' = Entries(ExternalLess(s), s)
      PROVE  Unreferenced(s, Less(kernels[s].ext), kernels[s].int)
  <2> DEFINE e == Less(kernels[s].ext)
             T == [kernels EXCEPT ![s] = [kernels[s] EXCEPT !.ext = e]]
  <2>1. kernels' = Dropped(T, s) /\ EntryFollows(s)
    BY <1>3 DEF ExternalLess, Entries, EntryFollows
  <2> HIDE DEF e
  <2>2. [kernels[s] EXCEPT !.ext = e] \in Kernel
    BY <1>1, <1>2 DEF e, Kernel
  <2>3. T \in [Slots -> Kernel] /\ T[s] = [kernels[s] EXCEPT !.ext = e]
        /\ \A r \in Slots \ {s} : T[r] = kernels[r]
    BY <1>1, <2>2
  <2>4. /\ T[s].name = kernels[s].name /\ T[s].enum = kernels[s].enum
        /\ T[s].enabled = kernels[s].enabled /\ T[s].user = kernels[s].user
        /\ T[s].alive = kernels[s].alive /\ T[s].ext = e /\ T[s].int = kernels[s].int
    BY <1>1, <2>3 DEF Kernel
  <2> HIDE DEF T
  <2> QED BY <2>1, <2>3, <2>4, DroppedIs DEF Unreferenced, Keeps, e
<1>4. ASSUME kernels' = InternalLess(s), reftable' = Entries(InternalLess(s), s)
      PROVE  Unreferenced(s, kernels[s].ext, Less(kernels[s].int))
  <2> DEFINE e == Less(kernels[s].int)
             T == [kernels EXCEPT ![s] = [kernels[s] EXCEPT !.int = e]]
  <2>1. kernels' = Dropped(T, s) /\ EntryFollows(s)
    BY <1>4 DEF InternalLess, Entries, EntryFollows
  <2> HIDE DEF e
  <2>2. [kernels[s] EXCEPT !.int = e] \in Kernel
    BY <1>1, <1>2 DEF e, Kernel
  <2>3. T \in [Slots -> Kernel] /\ T[s] = [kernels[s] EXCEPT !.int = e]
        /\ \A r \in Slots \ {s} : T[r] = kernels[r]
    BY <1>1, <2>2
  <2>4. /\ T[s].name = kernels[s].name /\ T[s].enum = kernels[s].enum
        /\ T[s].enabled = kernels[s].enabled /\ T[s].user = kernels[s].user
        /\ T[s].alive = kernels[s].alive /\ T[s].int = e /\ T[s].ext = kernels[s].ext
    BY <1>1, <2>3 DEF Kernel
  <2> HIDE DEF T
  <2> QED BY <2>1, <2>3, <2>4, DroppedIs DEF Unreferenced, Keeps, e
<1> QED BY <1>3, <1>4

LEMMA RemoveDoes ==
  ASSUME KernelTypes, NEW s \in Slots, RemoveKernel(s)
  PROVE  /\ kernels' \in [Slots -> Kernel]
         /\ \A r \in Slots \ {s} : kernels'[r] = kernels[r]
         /\ kernels'[s].name = kernels[s].name /\ kernels'[s].enum = NoEnum
         /\ ~kernels'[s].enabled /\ ~kernels'[s].user
         /\ kernels'[s].ext = Less(kernels[s].ext) /\ kernels'[s].int = Less(kernels[s].int)
         /\ kernels'[s].alive =
              (kernels[s].alive /\ Less(kernels[s].ext) + Less(kernels[s].int) > 0)
         /\ EntryFollows(s)
<1>1. kernels \in [Slots -> Kernel] /\ kernels[s] \in Kernel
      /\ kernels[s].ext \in Nat /\ kernels[s].int \in Int
  BY OneMore DEF KernelTypes
<1>2. Less(kernels[s].ext) \in Nat /\ Less(kernels[s].int) \in Int
  BY <1>1, LessIs
<1> DEFINE T == [kernels EXCEPT ![s].ext = Less(@), ![s].int = Less(@)]
           D == Dropped(T, s)
<1>3. kernels' = [D EXCEPT ![s].enabled = FALSE, ![s].enum = NoEnum, ![s].user = FALSE]
  BY DEF RemoveKernel, Removed
<1>4. EntryFollows(s)
  BY DEF RemoveKernel, Entries, EntryFollows
<1>5. /\ T \in [Slots -> Kernel]
      /\ \A r \in Slots \ {s} : T[r] = kernels[r]
      /\ T[s].name = kernels[s].name /\ T[s].alive = kernels[s].alive
      /\ T[s].ext = Less(kernels[s].ext) /\ T[s].int = Less(kernels[s].int)
  BY <1>1, <1>2 DEF Kernel
<1> HIDE DEF T
<1>6. /\ D \in [Slots -> Kernel]
      /\ \A r \in Slots \ {s} : D[r] = T[r]
      /\ D[s].name = T[s].name /\ D[s].ext = T[s].ext /\ D[s].int = T[s].int
      /\ D[s].alive = (T[s].alive /\ T[s].ext + T[s].int > 0)
  BY <1>5, DroppedIs
<1> HIDE DEF D
<1>7. /\ kernels' \in [Slots -> Kernel]
      /\ \A r \in Slots \ {s} : kernels'[r] = D[r]
      /\ kernels'[s].name = D[s].name /\ kernels'[s].enum = NoEnum
      /\ kernels'[s].enabled = FALSE /\ kernels'[s].user = FALSE
      /\ kernels'[s].ext = D[s].ext /\ kernels'[s].int = D[s].int
      /\ kernels'[s].alive = D[s].alive
  BY <1>3, <1>6 DEF Kernel
<1> QED
  BY <1>4, <1>5, <1>6, <1>7

LEMMA CreateDoes ==
  ASSUME KernelTypes, NEW h \in holders, CreateNode(h)
  PROVE  /\ h.slot \in Slots /\ Referenced({h.slot}, 0, 1)
         /\ Handle("node", h.slot) \notin holders
         /\ holders' = holders \cup {Handle("node", h.slot)}
<1>1. h.slot \in Slots
  BY DEF KernelTypes, Holder
<1> QED
  BY <1>1, OneReferenced DEF CreateNode

LEMMA ReleaseDoes ==
  ASSUME KernelTypes, NEW h \in holders, ReleaseKernel(h)
  PROVE  /\ h.slot \in Slots /\ h.kind = "application"
         /\ Unreferenced(h.slot, Less(kernels[h.slot].ext), kernels[h.slot].int)
         /\ holders' = holders \ {h}
<1>1. h.slot \in Slots
  BY DEF KernelTypes, Holder
<1> QED
  BY <1>1, LessReferenced DEF ReleaseKernel

LEMMA DestroyDoes ==
  ASSUME KernelTypes, NEW h \in holders, DestroyNode(h)
  PROVE  /\ h.slot \in Slots /\ h.kind = "node"
         /\ Unreferenced(h.slot, kernels[h.slot].ext, Less(kernels[h.slot].int))
         /\ holders' = holders \ {h}
<1>1. h.slot \in Slots
  BY DEF KernelTypes, Holder
<1> QED
  BY <1>1, LessReferenced DEF DestroyNode

LEMMA RetargetDoes ==
  ASSUME KernelTypes, NEW h \in holders, NEW t \in Targets, SetNodeTarget(h, t)
  PROVE  /\ h.slot \in Slots /\ h.kind = "node"
         /\ \E s \in Slots :
              /\ s # h.slot /\ kernels[s].enum = kernels[h.slot].enum
              /\ Handle("node", s) \notin holders
              /\ holders' = (holders \ {h}) \cup {Handle("node", s)}
              /\ kernels' \in [Slots -> Kernel]
              /\ \A r \in Slots :
                   /\ Keeps(r) /\ kernels'[r].alive = kernels[r].alive
                   /\ kernels'[r].ext = kernels[r].ext
                   /\ kernels'[r].int = IF r = s THEN kernels[r].int + 1
                                        ELSE IF r = h.slot THEN Less(kernels[r].int)
                                        ELSE kernels[r].int
              /\ UNCHANGED <<reftable, counters, moduleTables>>
<1> DEFINE e == kernels[h.slot].enum
           k == Lowest(Retarget(t, e))
           s == <<t, k>>
<1>1. h.slot \in Slots
  BY DEF KernelTypes, Holder
<1>2. k \in Retarget(t, e)
  <2>1. Retarget(t, e) \in SUBSET Nat
    BY DEF Retarget, Numbered
  <2>2. Retarget(t, e) # {}
    BY DEF SetNodeTarget
  <2> QED BY <2>1, <2>2, LowestIs
<1>3. s \in Slots /\ kernels[s].enum = e
  BY <1>2, SlotsAre DEF Retarget, Numbered
<1>4. /\ h.kind = "node" /\ s # h.slot /\ Handle("node", s) \notin holders
      /\ kernels' = [kernels EXCEPT ![h.slot].int = Less(@), ![s].int = @ + 1]
      /\ holders' = (holders \ {h}) \cup {Handle("node", s)}
      /\ UNCHANGED <<reftable, counters, moduleTables>>
  BY DEF SetNodeTarget
<1> HIDE DEF s
<1>5. /\ kernels \in [Slots -> Kernel]
      /\ \A r \in Slots : kernels[r] \in Kernel /\ kernels[r].int \in Int /\ Less(kernels[r].int) \in Int
  BY OneMore, LessIs DEF KernelTypes
<1>6. /\ kernels'[s] = [kernels[s] EXCEPT !.int = kernels[s].int + 1]
      /\ kernels'[h.slot] = [kernels[h.slot] EXCEPT !.int = Less(kernels[h.slot].int)]
      /\ \A r \in Slots \ {s, h.slot} : kernels'[r] = kernels[r]
      /\ DOMAIN kernels' = Slots /\ kernels' = [r \in Slots |-> kernels'[r]]
  BY <1>1, <1>3, <1>4, <1>5
<1>7. \A r \in Slots :
        /\ kernels'[r] \in Kernel
        /\ Keeps(r) /\ kernels'[r].alive = kernels[r].alive
        /\ kernels'[r].ext = kernels[r].ext
        /\ kernels'[r].int = IF r = s THEN kernels[r].int + 1
                             ELSE IF r = h.slot THEN Less(kernels[r].int)
                             ELSE kernels[r].int
  <2> SUFFICES ASSUME NEW r \in Slots
               PROVE  /\ kernels'[r] \in Kernel
                      /\ Keeps(r) /\ kernels'[r].alive = kernels[r].alive
                      /\ kernels'[r].ext = kernels[r].ext
                      /\ kernels'[r].int = IF r = s THEN kernels[r].int + 1
                                           ELSE IF r = h.slot THEN Less(kernels[r].int)
                                           ELSE kernels[r].int
    OBVIOUS
  <2>1. CASE r = s
    BY <1>4, <1>5, <1>6, <2>1 DEF Kernel, Keeps
  <2>2. CASE r = h.slot
    BY <1>4, <1>5, <1>6, <2>2 DEF Kernel, Keeps
  <2>3. CASE r \notin {s, h.slot}
    BY <1>5, <1>6, <2>3 DEF Keeps
  <2> QED BY <2>1, <2>2, <2>3
<1>8. kernels' \in [Slots -> Kernel]
  BY <1>6, <1>7
<1> QED
  BY <1>1, <1>3, <1>4, <1>7, <1>8

LEMMA NodesAreNumbers == ASSUME KernelTypes PROVE \A s \in Slots : NodesOf(s) \in Nat
BY FS_Subset, FS_CardinalityType DEF NodesOf, KernelTypes

LEMMA CollectedIs ==
  ASSUME KernelTypes, NEW s \in Slots
  PROVE  LET c == Collected(s)
         IN /\ c \in Kernel /\ c.enum = kernels[s].enum /\ c.user = kernels[s].user
            /\ c.enabled = kernels[s].enabled
            /\ c.ext = 0 /\ c.int = kernels[s].int - NodesOf(s) /\ c.int \in Int
            /\ c.alive = (kernels[s].alive /\ c.int > 0)
<1>1. kernels[s] \in Kernel /\ kernels[s].int \in Int /\ NodesOf(s) \in Nat
  BY NodesAreNumbers, OneMore DEF KernelTypes
<1> DEFINE i == kernels[s].int - NodesOf(s)
           b == [kernels[s] EXCEPT !.ext = 0, !.int = @ - NodesOf(s)]
           c == [b EXCEPT !.alive = @ /\ b.ext + b.int > 0]
<1>2. i \in Int
  BY <1>1
<1>3. /\ b \in Kernel /\ b.enum = kernels[s].enum /\ b.user = kernels[s].user
      /\ b.enabled = kernels[s].enabled /\ b.alive = kernels[s].alive
      /\ b.ext = 0 /\ b.int = i
  BY <1>1, <1>2 DEF Kernel
<1>4. Collected(s) = c
  BY DEF Collected
<1> HIDE DEF b, i
<1>5. /\ c \in Kernel /\ c.enum = b.enum /\ c.user = b.user /\ c.enabled = b.enabled
      /\ c.ext = b.ext /\ c.int = b.int /\ c.alive = (b.alive /\ b.ext + b.int > 0)
  BY <1>3 DEF Kernel
<1> HIDE DEF c
<1> QED BY <1>2, <1>3, <1>4, <1>5 DEF i

\* what is left of the internal count when the target has gone through its table
LeftOf(s) == IF Visited(s) THEN Less(Collected(s).int) ELSE Collected(s).int

LEMMA EndDoes ==
  ASSUME KernelTypes, ReleaseContext
  PROVE  /\ kernels' \in [Slots -> Kernel]
         /\ \A s \in Slots :
              /\ kernels'[s].enum = kernels[s].enum /\ kernels'[s].user = kernels[s].user
              /\ kernels'[s].enabled => kernels[s].enabled
              /\ kernels'[s].alive = (Collected(s).alive /\ LeftOf(s) > 0)
<1>1. kernels' = [s \in Slots |-> Deinitialized(s)]
  BY DEF ReleaseContext
<1> SUFFICES ASSUME NEW s \in Slots
             PROVE  /\ Deinitialized(s) \in Kernel
                    /\ Deinitialized(s).enum = kernels[s].enum
                    /\ Deinitialized(s).user = kernels[s].user
                    /\ Deinitialized(s).enabled => kernels[s].enabled
                    /\ Deinitialized(s).alive = (Collected(s).alive /\ LeftOf(s) > 0)
  BY <1>1
<1> DEFINE c == Collected(s)
           k == [c EXCEPT !.int = IF Visited(s) THEN Less(@) ELSE @,
                          !.enabled = IF Visited(s) THEN FALSE ELSE @]
           d == [k EXCEPT !.alive = @ /\ k.ext + k.int > 0]
<1>2. /\ c \in Kernel /\ c.enum = kernels[s].enum /\ c.user = kernels[s].user
      /\ c.enabled = kernels[s].enabled /\ c.ext = 0 /\ c.int \in Int
  BY CollectedIs
<1>3. Deinitialized(s) = d
  BY DEF Deinitialized
<1>4. LeftOf(s) = (IF Visited(s) THEN Less(c.int) ELSE c.int) /\ LeftOf(s) \in Int
  BY <1>2, LessIs DEF LeftOf
<1> HIDE DEF c
<1>5. /\ k \in Kernel /\ k.enum = c.enum /\ k.user = c.user /\ (k.enabled => c.enabled)
      /\ k.ext = 0 /\ k.int = LeftOf(s) /\ k.alive = c.alive
  <2>1. CASE Visited(s)
    BY <1>2, <1>4, <2>1 DEF Kernel
  <2>2. CASE ~Visited(s)
    BY <1>2, <1>4, <2>2 DEF Kernel
  <2> QED BY <2>1, <2>2
<1> HIDE DEF k
<1>6. /\ d \in Kernel /\ d.enum = k.enum /\ d.user = k.user /\ d.enabled = k.enabled
      /\ d.alive = (k.alive /\ k.ext + k.int > 0)
  BY <1>5 DEF Kernel
<1> HIDE DEF d
<1> QED BY <1>2, <1>3, <1>4, <1>5, <1>6 DEF c

-----------------------------------------------------------------------------
(* Types.                                                                  *)

LEMMA EnumsAre ==
  /\ \A n \in Names : EnumOf[n] \in Enums
  /\ \A e \in Enums : e # NoEnum
BY KernelsAssumption DEF Enums

LEMMA InitializedIs ==
  ASSUME NEW n \in Names, NEW user \in BOOLEAN
  PROVE  LET k == Initialized(n, user)
         IN /\ k \in Kernel /\ k.name = n /\ k.enum = EnumOf[n] /\ k.enabled = FALSE
            /\ k.user = user /\ k.int = 1 /\ k.ext = (IF user THEN 1 ELSE 0) /\ k.alive = TRUE
BY EnumsAre DEF Initialized, Kernel

LEMMA HandleIs ==
  ASSUME KernelTypes, NEW s \in Slots, NEW kind \in {"application", "node"}
  PROVE  /\ Handle(kind, s) \in Holder
         /\ Handle(kind, s).kind = kind /\ Handle(kind, s).slot = s
         /\ Handle(kind, s).name = kernels[s].name
BY DEF Handle, Holder, KernelTypes, Kernel

LEMMA HandleAdded ==
  ASSUME KernelTypes, NEW H \in SUBSET Holder, IsFiniteSet(H),
         NEW s \in Slots, NEW kind \in {"application", "node"}
  PROVE  /\ H \cup {Handle(kind, s)} \in SUBSET Holder
         /\ IsFiniteSet(H \cup {Handle(kind, s)})
<1>1. Handle(kind, s) \in Holder
  BY HandleIs
<1>2. IsFiniteSet(H \cup {Handle(kind, s)})
  BY FS_AddElement
<1> QED BY <1>1, <1>2

LEMMA BaseTableIs ==
  /\ BaseTable \in [Slots -> Kernel]
  /\ \A s \in Slots :
       IF s[2] \in DOMAIN BaseOf[s[1]]
       THEN /\ BaseTable[s].enabled /\ ~BaseTable[s].user /\ BaseTable[s].alive
            /\ BaseTable[s].enum = EnumOf[BaseOf[s[1]][s[2]]] /\ BaseTable[s].int = 1
       ELSE BaseTable[s] = NoKernel
<1>1. NoKernel \in Kernel
  BY DEF NoKernel, Kernel
<1>2. ASSUME NEW s \in Slots, s[2] \in DOMAIN BaseOf[s[1]]
      PROVE  /\ BaseTable[s] \in Kernel
             /\ BaseTable[s].enabled /\ ~BaseTable[s].user /\ BaseTable[s].alive
             /\ BaseTable[s].enum = EnumOf[BaseOf[s[1]][s[2]]] /\ BaseTable[s].int = 1
  <2> DEFINE n == BaseOf[s[1]][s[2]]
             k == Initialized(n, FALSE)
  <2>1. s[1] \in Targets /\ BaseOf[s[1]] \in Seq(BaseNames)
    BY SlotsAre, KernelsAssumption
  <2>2. n \in Names
    BY <1>2, <2>1 DEF Names
  <2>3. BaseTable[s] = [k EXCEPT !.enabled = TRUE]
    BY <1>2 DEF BaseTable
  <2> HIDE DEF n
  <2>4. /\ k \in Kernel /\ k.enum = EnumOf[n] /\ k.user = FALSE /\ k.int = 1 /\ k.alive = TRUE
    BY <2>2, InitializedIs
  <2> HIDE DEF k
  <2> QED BY <2>3, <2>4 DEF Kernel, n
<1>3. ASSUME NEW s \in Slots, s[2] \notin DOMAIN BaseOf[s[1]] PROVE BaseTable[s] = NoKernel
  BY <1>3 DEF BaseTable
<1>4. BaseTable \in [Slots -> Kernel]
  <2>1. BaseTable = [s \in Slots |-> BaseTable[s]]
    BY DEF BaseTable
  <2>2. \A s \in Slots : BaseTable[s] \in Kernel
    BY <1>1, <1>2, <1>3
  <2> HIDE DEF BaseTable
  <2> QED BY <2>1, <2>2
<1> QED BY <1>2, <1>3, <1>4

LEMMA ValuesFinite ==
  ASSUME NEW R, IsFiniteSet(R), NEW table
  PROVE  IsFiniteSet({table[s].enum : s \in R})
<1> DEFINE V == {table[s].enum : s \in R}
           f == [s \in R |-> table[s].enum]
<1>1. f \in Surjection(R, V)
  BY DEF Surjection
<1> QED BY <1>1, FS_Surjection

LEMMA InitCounts ==
  LET on == {s \in Slots : BaseTable[s].enabled}
  IN Cardinality(on) \in Nat /\ Cardinality({BaseTable[s].enum : s \in on}) \in Nat
<1> DEFINE on == {s \in Slots : BaseTable[s].enabled}
<1>1. IsFiniteSet(on)
  BY SlotsFinite, FS_Subset
<1> HIDE DEF on
<1>2. IsFiniteSet({BaseTable[s].enum : s \in on})
  BY <1>1, ValuesFinite
<1> USE DEF on
<1> QED BY <1>1, <1>2, FS_CardinalityType

LEMMA InitTypes == RegistryInit => KernelTypes
<1> SUFFICES ASSUME RegistryInit PROVE KernelTypes
  OBVIOUS
<1>1. kernels \in [Slots -> Kernel] /\ reftable \in [Slots -> Int]
  BY BaseTableIs DEF RegistryInit
<1>2. numKernels \in Int /\ numUnique \in Int /\ numModules \in Int
  BY InitCounts DEF RegistryInit
<1>3. targetKernels \in [Targets -> Int]
  BY KernelsAssumption DEF RegistryInit
<1>4. /\ modules \in [1..NumModules -> Libraries \cup {NoLib}]
      /\ holders \in SUBSET Holder /\ IsFiniteSet(holders)
      /\ contextReleased \in BOOLEAN
  BY FS_EmptySet DEF RegistryInit
<1> QED BY <1>1, <1>2, <1>3, <1>4 DEF KernelTypes

LEMMA NextTypes == KernelTypes /\ [RegistryNext]_registryVars => KernelTypes'
<1> SUFFICES ASSUME KernelTypes, [RegistryNext]_registryVars PROVE KernelTypes'
  OBVIOUS
<1>1. ASSUME NEW n \in UserNames, AddKernel(n), UNCHANGED contextReleased PROVE KernelTypes'
  <2>1. Initialized(n, TRUE) \in Kernel
    BY InitializedIs DEF Names
  <2>2. PICK s \in Slots :
          /\ s[1] = TargetOf[n]
          /\ kernels' = [kernels EXCEPT ![s] = Initialized(n, TRUE)]
          /\ reftable' = [reftable EXCEPT ![s] = @ + 1]
          /\ targetKernels' = [targetKernels EXCEPT ![s[1]] = @ + 1]
          /\ UNCHANGED <<numKernels, numUnique, moduleTables, holders>>
    BY <1>1, AddDoes
  <2>3. kernels' \in [Slots -> Kernel]
    BY <2>1, <2>2 DEF KernelTypes
  <2>4. reftable' \in [Slots -> Int]
    BY <2>2 DEF KernelTypes
  <2>5. targetKernels' \in [Targets -> Int]
    BY <2>2, SlotsAre DEF KernelTypes
  <2> QED BY <1>1, <2>2, <2>3, <2>4, <2>5 DEF KernelTypes, moduleTables
<1>2. ASSUME NEW s \in Slots, FinalizeKernel(s), UNCHANGED contextReleased PROVE KernelTypes'
  <2>1. [kernels[s] EXCEPT !.enabled = TRUE] \in Kernel
    BY DEF KernelTypes, Kernel
  <2>2. kernels' \in [Slots -> Kernel]
    BY <1>2, <2>1 DEF FinalizeKernel, KernelTypes
  <2>3. numKernels' \in Int /\ numUnique' \in Int
    BY <1>2 DEF FinalizeKernel, KernelTypes
  <2> QED BY <1>2, <2>2, <2>3 DEF FinalizeKernel, KernelTypes, moduleTables
<1>3. ASSUME NEW s \in Slots, RemoveKernel(s), UNCHANGED contextReleased PROVE KernelTypes'
  <2>1. kernels' \in [Slots -> Kernel] /\ EntryFollows(s)
    BY <1>3, RemoveDoes
  <2>2. numKernels' \in Int /\ numUnique' \in Int /\ targetKernels' \in [Targets -> Int]
    BY <1>3, SlotsAre DEF RemoveKernel, KernelTypes
  <2>3. UNCHANGED <<moduleTables, holders>>
    BY <1>3 DEF RemoveKernel
  <2>4. reftable' \in [Slots -> Int]
    BY <2>1 DEF EntryFollows, KernelTypes
  <2> QED BY <1>3, <2>1, <2>2, <2>3, <2>4 DEF KernelTypes, moduleTables
<1>4. ASSUME NEW S, NEW e, NEW i, Referenced(S, e, i), NEW s \in Slots,
             NEW kind \in {"application", "node"},
             holders' = holders \cup {Handle(kind, s)}, UNCHANGED contextReleased
      PROVE  KernelTypes'
  <2>1. holders' \in SUBSET Holder /\ IsFiniteSet(holders')
    BY <1>4, HandleAdded DEF KernelTypes
  <2> QED BY <1>4, <2>1 DEF Referenced, KernelTypes, counters, moduleTables
<1>5. ASSUME NEW x, GetKernelByName(x), UNCHANGED contextReleased PROVE KernelTypes'
  BY <1>4, <1>5, FoundByName
<1>6. ASSUME NEW e \in Enums, GetKernelByEnum(e), UNCHANGED contextReleased PROVE KernelTypes'
  BY <1>4, <1>6, FoundByEnum
<1>7. ASSUME NEW h \in holders, CreateNode(h), UNCHANGED contextReleased PROVE KernelTypes'
  BY <1>4, <1>7, CreateDoes
<1>8. ASSUME NEW h \in holders, NEW s \in Slots, NEW e, NEW i, Unreferenced(s, e, i),
             holders' = holders \ {h}, UNCHANGED contextReleased
      PROVE  KernelTypes'
  <2>1. holders' \in SUBSET Holder /\ IsFiniteSet(holders')
    BY <1>8, FS_RemoveElement DEF KernelTypes
  <2> QED BY <1>8, <2>1 DEF Unreferenced, EntryFollows, KernelTypes, counters, moduleTables
<1>9. ASSUME NEW h \in holders, ReleaseKernel(h) \/ DestroyNode(h), UNCHANGED contextReleased
      PROVE  KernelTypes'
  BY <1>8, <1>9, ReleaseDoes, DestroyDoes
<1>10. ASSUME NEW h \in holders, NEW t \in Targets, SetNodeTarget(h, t), UNCHANGED contextReleased
       PROVE  KernelTypes'
  <2>1. PICK s \in Slots : /\ holders' = (holders \ {h}) \cup {Handle("node", s)}
                          /\ kernels' \in [Slots -> Kernel]
                          /\ UNCHANGED <<reftable, counters, moduleTables>>
    BY <1>10, RetargetDoes
  <2>2. IsFiniteSet(holders \ {h}) /\ holders \ {h} \in SUBSET Holder
    BY FS_RemoveElement DEF KernelTypes
  <2>3. holders' \in SUBSET Holder /\ IsFiniteSet(holders')
    BY <2>1, <2>2, HandleAdded DEF KernelTypes
  <2> QED BY <1>10, <2>1, <2>3 DEF KernelTypes, counters, moduleTables
<1>11. ASSUME NEW lib \in Libraries, LoadKernels(lib) \/ UnloadKernels(lib), UNCHANGED contextReleased
       PROVE  KernelTypes'
  BY <1>11 DEF LoadKernels, UnloadKernels, KernelTypes, counters
<1>12. ASSUME ReleaseContext PROVE KernelTypes'
  <2>1. kernels' \in [Slots -> Kernel]
    BY <1>12, EndDoes
  <2>2. reftable' \in [Slots -> Int]
    BY <1>12 DEF ReleaseContext, KernelTypes
  <2>3. modules' \in [1..NumModules -> Libraries \cup {NoLib}]
    BY <1>12 DEF ReleaseContext, KernelTypes
  <2> QED BY <1>12, <2>1, <2>2, <2>3, FS_EmptySet DEF ReleaseContext, KernelTypes, counters
<1>13. CASE UNCHANGED registryVars
  BY <1>13 DEF registryVars, counters, moduleTables, KernelTypes
<1> QED
  BY <1>1, <1>2, <1>3, <1>5, <1>6, <1>7, <1>9, <1>10, <1>11, <1>12, <1>13
     DEF RegistryNext, Use, Enums

-----------------------------------------------------------------------------
(* The counters.                                                           *)

LEMMA TakenFinite ==
  ASSUME TRUE
  PROVE  /\ IsFiniteSet(EnabledSlots) /\ IsFiniteSet(UniqueEnums)
         /\ \A t \in Targets : IsFiniteSet(Occupied(t))
<1>1. IsFiniteSet(EnabledSlots)
  BY SlotsFinite, FS_Subset DEF EnabledSlots
<1>2. IsFiniteSet(UniqueEnums)
  BY <1>1, ValuesFinite DEF UniqueEnums
<1>3. \A t \in Targets : IsFiniteSet(Occupied(t))
  <2>1. IsFiniteSet(1..NumSlots)
    BY KernelsAssumption, FS_Interval
  <2> QED BY <2>1, FS_Subset DEF Occupied
<1> QED BY <1>1, <1>2, <1>3

\* A step that gives and takes no slot.
LEMMA CountsStay ==
  ASSUME CountedInv, UNCHANGED <<counters, contextReleased>>, \A s \in Slots : Keeps(s)
  PROVE  TakenOnly' /\ CountsAreExact'
<1>1. EnabledSlots' = EnabledSlots
  BY DEF EnabledSlots, Keeps
<1>2. UniqueEnums' = UniqueEnums
  <2>1. \A s \in EnabledSlots : kernels'[s].enum = kernels[s].enum
    BY DEF EnabledSlots, Keeps
  <2> QED BY <1>1, <2>1 DEF UniqueEnums
<1>3. \A t \in Targets : Occupied(t)' = Occupied(t)
  BY SlotsAre DEF Occupied, Keeps
<1>4. TakenOnly'
  BY DEF TakenOnly, Keeps, CountedInv
<1> QED BY <1>1, <1>2, <1>3, <1>4 DEF CountsAreExact, counters, CountedInv

LEMMA AddCounts ==
  ASSUME CountedInv, ~contextReleased, NEW n \in UserNames, AddKernel(n), UNCHANGED contextReleased
  PROVE  TakenOnly' /\ CountsAreExact'
<1>1. PICK s \in Slots :
        /\ ~kernels[s].enabled /\ kernels[s].enum = NoEnum
        /\ kernels' = [kernels EXCEPT ![s] = Initialized(n, TRUE)]
        /\ targetKernels' = [targetKernels EXCEPT ![s[1]] = @ + 1]
        /\ UNCHANGED <<numKernels, numUnique>>
  BY AddDoes DEF CountedInv
<1>2. Initialized(n, TRUE).enum # NoEnum /\ Initialized(n, TRUE).enabled = FALSE
  <2>1. n \in Names
    BY DEF Names
  <2> QED BY <2>1, InitializedIs, EnumsAre
<1>3. /\ kernels'[s] = Initialized(n, TRUE) /\ \A r \in Slots \ {s} : kernels'[r] = kernels[r]
  BY <1>1 DEF CountedInv, KernelTypes
<1>4. EnabledSlots' = EnabledSlots
  BY <1>1, <1>2, <1>3 DEF EnabledSlots
<1>5. UniqueEnums' = UniqueEnums
  <2>1. \A r \in EnabledSlots : kernels'[r].enum = kernels[r].enum
    BY <1>1, <1>3 DEF EnabledSlots
  <2> QED BY <1>4, <2>1 DEF UniqueEnums
<1>6. s[1] \in Targets /\ s[2] \in 1..NumSlots /\ s = <<s[1], s[2]>>
  BY SlotsAre
<1>7. ASSUME NEW t \in Targets
      PROVE  Occupied(t)' = IF t = s[1] THEN Occupied(t) \cup {s[2]} ELSE Occupied(t)
  <2>1. \A k \in 1..NumSlots : <<t, k>> \in Slots /\ (<<t, k>> = s <=> t = s[1] /\ k = s[2])
    BY <1>6 DEF Slots
  <2> QED BY <1>2, <1>3, <1>6, <2>1 DEF Occupied
<1>8. s[2] \notin Occupied(s[1])
  BY <1>1, <1>6 DEF Occupied
<1>9. \A t \in Targets : targetKernels'[t] = Cardinality(Occupied(t)')
  <2> TAKE t \in Targets
  <2>1. /\ IsFiniteSet(Occupied(t)) /\ Cardinality(Occupied(t)) \in Nat
        /\ targetKernels[t] = Cardinality(Occupied(t)) /\ targetKernels \in [Targets -> Int]
    BY TakenFinite, FS_CardinalityType DEF CountedInv, CountsAreExact, KernelTypes
  <2>2. CASE t = s[1]
    <3>1. Cardinality(Occupied(t) \cup {s[2]}) = Cardinality(Occupied(t)) + 1
      BY <1>8, <2>1, <2>2, FS_AddElement
    <3> QED BY <1>1, <1>7, <2>1, <2>2, <3>1
  <2>3. CASE t # s[1]
    BY <1>1, <1>6, <1>7, <2>1, <2>3
  <2> QED BY <2>2, <2>3
<1>10. TakenOnly'
  BY <1>2, <1>3 DEF TakenOnly, CountedInv
<1> QED BY <1>1, <1>4, <1>5, <1>9, <1>10 DEF CountsAreExact, CountedInv

LEMMA UniqueIs ==
  ASSUME NEW table, NEW e
  PROVE  IsKernelUnique(table, e) <=> e \notin {table[s].enum : s \in {r \in Slots : table[r].enabled}}
BY DEF IsKernelUnique

LEMMA FinalizeCounts ==
  ASSUME CountedInv, ~contextReleased, NEW s \in Slots, FinalizeKernel(s), UNCHANGED contextReleased
  PROVE  TakenOnly' /\ CountsAreExact'
<1> DEFINE e == kernels[s].enum
<1>1. /\ kernels'[s].enabled /\ kernels'[s].enum = e /\ kernels'[s].user = kernels[s].user
      /\ \A r \in Slots \ {s} : kernels'[r] = kernels[r]
      /\ ~kernels[s].enabled /\ kernels[s].user
  BY DEF FinalizeKernel, CountedInv, KernelTypes, Kernel
<1>2. EnabledSlots' = EnabledSlots \cup {s} /\ s \notin EnabledSlots
  BY <1>1 DEF EnabledSlots
<1>3. UniqueEnums' = UniqueEnums \cup {e}
  <2>1. \A r \in EnabledSlots : kernels'[r].enum = kernels[r].enum
    BY <1>1, <1>2 DEF EnabledSlots
  <2> QED BY <1>1, <1>2, <2>1 DEF UniqueEnums
<1>4. \A t \in Targets : Occupied(t)' = Occupied(t)
  BY <1>1, SlotsAre DEF Occupied
<1>5. /\ numKernels = Cardinality(EnabledSlots) /\ numUnique = Cardinality(UniqueEnums)
      /\ numKernels' = numKernels + 1
      /\ numUnique' = numUnique + (IF e \notin UniqueEnums THEN 1 ELSE 0)
      /\ targetKernels' = targetKernels
  BY UniqueIs DEF FinalizeKernel, CountedInv, CountsAreExact, UniqueEnums, EnabledSlots
<1>6. numKernels' = Cardinality(EnabledSlots') /\ numUnique' = Cardinality(UniqueEnums')
  <2>1. Cardinality(EnabledSlots \cup {s}) = Cardinality(EnabledSlots) + 1
    BY <1>2, TakenFinite, FS_AddElement
  <2>2. Cardinality(UniqueEnums \cup {e}) =
          IF e \in UniqueEnums THEN Cardinality(UniqueEnums) ELSE Cardinality(UniqueEnums) + 1
    BY TakenFinite, FS_AddElement
  <2>3. Cardinality(EnabledSlots) \in Nat /\ Cardinality(UniqueEnums) \in Nat
    BY TakenFinite, FS_CardinalityType
  <2> QED BY <1>2, <1>3, <1>5, <2>1, <2>2, <2>3
<1>7. TakenOnly'
  BY <1>1 DEF TakenOnly, CountedInv
<1> QED BY <1>4, <1>5, <1>6, <1>7 DEF CountsAreExact, CountedInv

LEMMA RemoveCounts ==
  ASSUME CountedInv, ~contextReleased, NEW s \in Slots, RemoveKernel(s), UNCHANGED contextReleased
  PROVE  TakenOnly' /\ CountsAreExact'
<1> DEFINE e == kernels[s].enum
<1>1. /\ ~kernels'[s].enabled /\ kernels'[s].enum = NoEnum /\ ~kernels'[s].user
      /\ \A r \in Slots \ {s} : kernels'[r] = kernels[r]
  BY RemoveDoes DEF CountedInv
<1>2. kernels[s].user /\ e # NoEnum
  BY DEF RemoveKernel, CountedInv, TakenOnly
<1>3. EnabledSlots' = EnabledSlots \ {s}
  BY <1>1 DEF EnabledSlots
<1>4. /\ numKernels = Cardinality(EnabledSlots) /\ numUnique = Cardinality(UniqueEnums)
      /\ Cardinality(EnabledSlots) \in Nat /\ Cardinality(UniqueEnums) \in Nat
  BY TakenFinite, FS_CardinalityType DEF CountedInv, CountsAreExact
<1>5. numKernels' = Cardinality(EnabledSlots') /\ numUnique' = Cardinality(UniqueEnums')
  <2>1. CASE ~kernels[s].enabled
    <3>1. EnabledSlots' = EnabledSlots
      BY <1>3, <2>1 DEF EnabledSlots
    <3>2. UniqueEnums' = UniqueEnums
      <4>1. \A r \in EnabledSlots : kernels'[r].enum = kernels[r].enum
        BY <1>1, <2>1 DEF EnabledSlots
      <4> QED BY <3>1, <4>1 DEF UniqueEnums
    <3> QED BY <1>4, <2>1, <3>1, <3>2 DEF RemoveKernel
  <2>2. CASE kernels[s].enabled
    <3>1. /\ numKernels' = numKernels - 1
          /\ numUnique' = numUnique - (IF StillUnique(s) THEN 1 ELSE 0)
      BY <2>2 DEF RemoveKernel
    <3>2. Cardinality(EnabledSlots \ {s}) = Cardinality(EnabledSlots) - 1
      BY <2>2, TakenFinite, FS_RemoveElement DEF EnabledSlots
    <3>3. StillUnique(s) <=> \A r \in EnabledSlots \ {s} : kernels[r].enum # e
      <4> DEFINE T == Disabled(s)
      <4>1. /\ T[s].enabled = FALSE /\ \A r \in Slots \ {s} : T[r] = kernels[r]
        BY DEF Disabled, CountedInv, KernelTypes, Kernel
      <4> HIDE DEF T
      <4>2. IsKernelUnique(T, e) <=> \A r \in EnabledSlots \ {s} : kernels[r].enum # e
        BY <4>1 DEF IsKernelUnique, EnabledSlots
      <4> QED BY <4>2 DEF StillUnique, T
    <3>4. \A r \in EnabledSlots \ {s} : kernels'[r].enum = kernels[r].enum
      BY <1>1 DEF EnabledSlots
    <3>5. UniqueEnums' = {kernels[r].enum : r \in EnabledSlots \ {s}}
      BY <1>3, <3>4 DEF UniqueEnums
    <3>6. e \in UniqueEnums /\ s \in EnabledSlots
      BY <2>2 DEF UniqueEnums, EnabledSlots
    <3>7. UniqueEnums' = IF StillUnique(s) THEN UniqueEnums \ {e} ELSE UniqueEnums
      <4>1. CASE StillUnique(s)
        BY <3>3, <3>5, <3>6, <4>1 DEF UniqueEnums
      <4>2. CASE ~StillUnique(s)
        BY <3>3, <3>5, <3>6, <4>2 DEF UniqueEnums
      <4> QED BY <4>1, <4>2
    <3>8. Cardinality(UniqueEnums \ {e}) = Cardinality(UniqueEnums) - 1
      BY <3>6, TakenFinite, FS_RemoveElement
    <3> QED BY <1>3, <1>4, <3>1, <3>2, <3>7, <3>8
  <2> QED BY <2>1, <2>2
<1>6. s[1] \in Targets /\ s[2] \in 1..NumSlots /\ s = <<s[1], s[2]>>
  BY SlotsAre
<1>7. ASSUME NEW t \in Targets
      PROVE  Occupied(t)' = IF t = s[1] THEN Occupied(t) \ {s[2]} ELSE Occupied(t)
  <2>1. \A k \in 1..NumSlots : <<t, k>> \in Slots /\ (<<t, k>> = s <=> t = s[1] /\ k = s[2])
    BY <1>6 DEF Slots
  <2> QED BY <1>1, <1>6, <2>1 DEF Occupied
<1>8. s[2] \in Occupied(s[1])
  BY <1>2, <1>6 DEF Occupied
<1>9. \A t \in Targets : targetKernels'[t] = Cardinality(Occupied(t)')
  <2> TAKE t \in Targets
  <2>1. /\ IsFiniteSet(Occupied(t)) /\ Cardinality(Occupied(t)) \in Nat
        /\ targetKernels[t] = Cardinality(Occupied(t)) /\ targetKernels \in [Targets -> Int]
    BY TakenFinite, FS_CardinalityType DEF CountedInv, CountsAreExact, KernelTypes
  <2>2. targetKernels' = [targetKernels EXCEPT ![s[1]] = @ - 1]
    BY DEF RemoveKernel
  <2>3. CASE t = s[1]
    <3>1. Cardinality(Occupied(t) \ {s[2]}) = Cardinality(Occupied(t)) - 1
      BY <1>8, <2>1, <2>3, FS_RemoveElement
    <3> QED BY <1>7, <2>1, <2>2, <2>3, <3>1
  <2>4. CASE t # s[1]
    BY <1>6, <1>7, <2>1, <2>2, <2>4
  <2> QED BY <2>3, <2>4
<1>10. TakenOnly'
  BY <1>1 DEF TakenOnly, CountedInv
<1> QED BY <1>5, <1>9, <1>10 DEF CountsAreExact, CountedInv

LEMMA InitCounted == RegistryInit => CountedInv
<1> SUFFICES ASSUME RegistryInit PROVE CountedInv
  OBVIOUS
<1>1. TakenOnly
  <2>1. \A s \in Slots : s[2] \in DOMAIN BaseOf[s[1]] => EnumOf[BaseOf[s[1]][s[2]]] # NoEnum
    <3> TAKE s \in Slots
    <3> HAVE s[2] \in DOMAIN BaseOf[s[1]]
    <3>1. BaseOf[s[1]] \in Seq(BaseNames)
      BY SlotsAre, KernelsAssumption
    <3>2. BaseOf[s[1]][s[2]] \in Names
      BY <3>1 DEF Names
    <3> QED BY <3>2, KernelsAssumption
  <2> QED BY <2>1, BaseTableIs DEF RegistryInit, TakenOnly, NoKernel
<1>2. \A t \in Targets : targetKernels[t] = Cardinality(Occupied(t))
  <2> TAKE t \in Targets
  <2>1. BaseOf[t] \in Seq(BaseNames) /\ Len(BaseOf[t]) \in Nat /\ Len(BaseOf[t]) <= NumSlots
        /\ DOMAIN BaseOf[t] = 1..Len(BaseOf[t])
    BY KernelsAssumption
  <2>2. \A k \in 1..NumSlots : kernels[<<t, k>>].enum # NoEnum <=> k \in 1..Len(BaseOf[t])
    <3> TAKE k \in 1..NumSlots
    <3>1. <<t, k>> \in Slots /\ <<t, k>>[1] = t /\ <<t, k>>[2] = k
      BY SlotsAre
    <3>2. CASE k \in 1..Len(BaseOf[t])
      <4>1. kernels[<<t, k>>].enabled
        BY <2>1, <3>1, <3>2, BaseTableIs DEF RegistryInit
      <4> QED BY <1>1, <3>1, <3>2, <4>1 DEF TakenOnly
    <3>3. CASE k \notin 1..Len(BaseOf[t])
      BY <2>1, <3>1, <3>3, BaseTableIs DEF RegistryInit, NoKernel
    <3> QED BY <3>2, <3>3
  <2>3. Occupied(t) = 1..Len(BaseOf[t])
    BY <2>1, <2>2, KernelsAssumption DEF Occupied
  <2> QED BY <2>1, <2>3, FS_Interval DEF RegistryInit
<1>3. numKernels = Cardinality(EnabledSlots) /\ numUnique = Cardinality(UniqueEnums)
  BY DEF RegistryInit, EnabledSlots, UniqueEnums
<1> QED BY <1>1, <1>2, <1>3, InitTypes DEF CountedInv, CountsAreExact

LEMMA NextCounted == CountedInv /\ [RegistryNext]_registryVars => CountedInv'
<1> SUFFICES ASSUME CountedInv, [RegistryNext]_registryVars PROVE CountedInv'
  OBVIOUS
<1>1. KernelTypes /\ KernelTypes'
  BY NextTypes DEF CountedInv
<1>2. SUFFICES TakenOnly' /\ CountsAreExact'
  BY <1>1 DEF CountedInv
<1>3. CASE UNCHANGED registryVars
  BY <1>3, CountsStay DEF registryVars, counters, Keeps
<1>4. CASE RegistryNext
  <2>1. ~contextReleased
    BY <1>4 DEF RegistryNext
  <2>2. ASSUME NEW S, NEW e, NEW i, Referenced(S, e, i), UNCHANGED contextReleased
        PROVE  TakenOnly' /\ CountsAreExact'
    BY <2>2, CountsStay DEF Referenced, counters
  <2>3. ASSUME NEW s \in Slots, NEW e, NEW i, Unreferenced(s, e, i), UNCHANGED contextReleased
        PROVE  TakenOnly' /\ CountsAreExact'
    <3>1. \A r \in Slots : Keeps(r)
      BY <2>3 DEF Unreferenced, Keeps
    <3> QED BY <2>3, <3>1, CountsStay DEF Unreferenced, counters
  <2>4. ASSUME NEW n \in UserNames, AddKernel(n), UNCHANGED contextReleased
        PROVE  TakenOnly' /\ CountsAreExact'
    BY <2>1, <2>4, AddCounts
  <2>5. ASSUME NEW s \in Slots, FinalizeKernel(s) \/ RemoveKernel(s), UNCHANGED contextReleased
        PROVE  TakenOnly' /\ CountsAreExact'
    BY <2>1, <2>5, FinalizeCounts, RemoveCounts
  <2>6. ASSUME NEW x, GetKernelByName(x), UNCHANGED contextReleased
        PROVE  TakenOnly' /\ CountsAreExact'
    BY <1>1, <2>2, <2>6, FoundByName
  <2>7. ASSUME NEW e \in Enums, GetKernelByEnum(e), UNCHANGED contextReleased
        PROVE  TakenOnly' /\ CountsAreExact'
    BY <1>1, <2>2, <2>7, FoundByEnum
  <2>8. ASSUME NEW h \in holders, ReleaseKernel(h) \/ CreateNode(h) \/ DestroyNode(h),
               UNCHANGED contextReleased
        PROVE  TakenOnly' /\ CountsAreExact'
    BY <1>1, <2>2, <2>3, <2>8, ReleaseDoes, CreateDoes, DestroyDoes
  <2>9. ASSUME NEW h \in holders, NEW t \in Targets, SetNodeTarget(h, t), UNCHANGED contextReleased
        PROVE  TakenOnly' /\ CountsAreExact'
    <3>1. (\A r \in Slots : Keeps(r)) /\ UNCHANGED counters
      BY <1>1, <2>9, RetargetDoes
    <3> QED BY <2>9, <3>1, CountsStay
  <2>10. ASSUME NEW lib \in Libraries, LoadKernels(lib) \/ UnloadKernels(lib), UNCHANGED contextReleased
         PROVE  TakenOnly' /\ CountsAreExact'
    <3>1. (\A r \in Slots : Keeps(r)) /\ UNCHANGED counters
      BY <2>10 DEF LoadKernels, UnloadKernels, Keeps
    <3> QED BY <2>10, <3>1, CountsStay
  <2>11. ASSUME ReleaseContext PROVE TakenOnly' /\ CountsAreExact'
    <3>1. contextReleased'
      BY <2>11 DEF ReleaseContext
    <3>2. TakenOnly'
      BY <1>1, <2>11, EndDoes DEF TakenOnly, CountedInv
    <3> QED BY <3>1, <3>2 DEF CountsAreExact
  <2> QED
    BY <1>4, <2>4, <2>5, <2>6, <2>7, <2>8, <2>9, <2>10, <2>11 DEF RegistryNext, Use, Enums
<1> QED BY <1>3, <1>4

\* The counters are exact, whatever the application removes and when.
THEOREM CountsAreExactHolds == RegistrySpec => []CountsAreExact
<1>1. RegistryInit => CountedInv
  BY InitCounted
<1>2. CountedInv /\ [RegistryNext]_registryVars => CountedInv'
  BY NextCounted
<1>3. CountedInv => CountsAreExact
  BY DEF CountedInv
<1> QED BY <1>1, <1>2, <1>3, PTL DEF RegistrySpec

-----------------------------------------------------------------------------
(* Holders.                                                                *)

\* an application that removes only what nobody holds: a held slot is taken, by
\* the kernel it was, and its internal count is the target and the nodes
HeldAreTaken ==
  /\ contextReleased => holders = {}
  /\ \A h \in holders : kernels[h.slot].enum # NoEnum /\ kernels[h.slot].name = h.name
  /\ \A s \in Slots : ~contextReleased /\ kernels[s].enum # NoEnum =>
       kernels[s].alive /\ kernels[s].int = 1 + NodesOf(s)

HeldInv == KernelTypes /\ TakenOnly /\ HeldAreTaken

HandlesTo(H, kind, s) == {h \in H : h.kind = kind /\ h.slot = s}

LEMMA HandlesMove ==
  ASSUME NEW H, IsFiniteSet(H), NEW h, NEW kind, NEW s
  PROVE  LET n == Cardinality(HandlesTo(H, kind, s))
             one == IF h.kind = kind /\ h.slot = s THEN 1 ELSE 0
         IN /\ n \in Nat
            /\ h \notin H => Cardinality(HandlesTo(H \cup {h}, kind, s)) = n + one
            /\ h \in H => Cardinality(HandlesTo(H \ {h}, kind, s)) = n - one /\ n >= one
<1> DEFINE S == HandlesTo(H, kind, s)
           T == HandlesTo(H \cup {h}, kind, s)
           R == HandlesTo(H \ {h}, kind, s)
<1>1. IsFiniteSet(S) /\ Cardinality(S) \in Nat
  BY FS_Subset, FS_CardinalityType DEF HandlesTo
<1>2. CASE h.kind = kind /\ h.slot = s
  <2>1. h \notin H => T = S \cup {h} /\ h \notin S
    BY <1>2 DEF HandlesTo
  <2>2. h \in H => R = S \ {h} /\ h \in S
    BY <1>2 DEF HandlesTo
  <2> HIDE DEF S, T, R
  <2>3. h \notin H => Cardinality(T) = Cardinality(S) + 1
    BY <1>1, <2>1, FS_AddElement
  <2>4. h \in H => Cardinality(R) = Cardinality(S) - 1 /\ Cardinality(S) # 0
    BY <1>1, <2>2, FS_RemoveElement, FS_EmptySet
  <2> QED BY <1>1, <1>2, <2>3, <2>4 DEF S, T, R
<1>3. CASE ~(h.kind = kind /\ h.slot = s)
  <2>1. T = S /\ R = S
    BY <1>3 DEF HandlesTo
  <2> HIDE DEF S, T, R
  <2> QED BY <1>1, <1>3, <2>1 DEF S, T, R
<1> QED BY <1>2, <1>3

LEMMA NodesMove ==
  ASSUME KernelTypes, NEW h, NEW s
  PROVE  LET one == IF h.kind = "node" /\ h.slot = s THEN 1 ELSE 0
         IN /\ NodesOf(s) \in Nat
            /\ h \notin holders /\ holders' = holders \cup {h} => NodesOf(s)' = NodesOf(s) + one
            /\ h \in holders /\ holders' = holders \ {h} =>
                 NodesOf(s)' = NodesOf(s) - one /\ NodesOf(s) >= one
<1>1. NodesOf(s) = Cardinality(HandlesTo(holders, "node", s))
      /\ NodesOf(s)' = Cardinality(HandlesTo(holders', "node", s))
  BY DEF NodesOf, HandlesTo
<1>2. IsFiniteSet(holders)
  BY DEF KernelTypes
<1> DEFINE one == IF h.kind = "node" /\ h.slot = s THEN 1 ELSE 0
           n == Cardinality(HandlesTo(holders, "node", s))
<1>3. /\ n \in Nat
      /\ h \notin holders => Cardinality(HandlesTo(holders \cup {h}, "node", s)) = n + one
      /\ h \in holders => Cardinality(HandlesTo(holders \ {h}, "node", s)) = n - one /\ n >= one
  BY <1>2, HandlesMove
<1> HIDE DEF one
<1>4. ASSUME h \notin holders, holders' = holders \cup {h} PROVE NodesOf(s)' = NodesOf(s) + one
  BY <1>1, <1>3, <1>4
<1>5. ASSUME h \in holders, holders' = holders \ {h}
      PROVE  NodesOf(s)' = NodesOf(s) - one /\ NodesOf(s) >= one
  BY <1>1, <1>3, <1>5
<1> QED BY <1>1, <1>3, <1>4, <1>5 DEF one

\* A step that leaves the holders, the taken slots and their kernels alone.
LEMMA HeldStay ==
  ASSUME HeldInv, UNCHANGED <<holders, contextReleased>>,
         \A s \in Slots : /\ Keeps(s) /\ kernels'[s].alive = kernels[s].alive
                          /\ kernels'[s].int = kernels[s].int
  PROVE  HeldAreTaken'
<1>1. \A s : NodesOf(s)' = NodesOf(s)
  BY DEF NodesOf
<1>2. \A h \in holders : h.slot \in Slots
  BY DEF HeldInv, KernelTypes, Holder
<1> QED BY <1>1, <1>2 DEF HeldAreTaken, HeldInv, Keeps

\* A step after which one more handle or node has the kernel of slot s.
LEMMA HeldGained ==
  ASSUME HeldInv, ~contextReleased, UNCHANGED contextReleased,
         NEW s \in Slots, NEW kind \in {"application", "node"}, NEW S, NEW e, NEW i \in {0, 1},
         kernels[s].enum # NoEnum, Referenced(S, e, i),
         i = 0 <=> kind = "application", i = 1 => S = {s},
         Handle(kind, s) \notin holders, holders' = holders \cup {Handle(kind, s)}
  PROVE  HeldAreTaken'
<1>1. Handle(kind, s).kind = kind /\ Handle(kind, s).slot = s
      /\ Handle(kind, s).name = kernels[s].name
  BY HandleIs DEF HeldInv
<1>2. \A r \in Slots : /\ NodesOf(r) \in Nat
                       /\ NodesOf(r)' = NodesOf(r) + (IF kind = "node" /\ s = r THEN 1 ELSE 0)
  BY <1>1, NodesMove DEF HeldInv
<1>3. \A h \in holders : h.slot \in Slots
  BY DEF HeldInv, KernelTypes, Holder
<1>4. \A h \in holders' : kernels'[h.slot].enum # NoEnum /\ kernels'[h.slot].name = h.name
  BY <1>1, <1>3 DEF Referenced, Keeps, HeldInv, HeldAreTaken
<1>5. ASSUME NEW r \in Slots, kernels'[r].enum # NoEnum
      PROVE  kernels'[r].alive /\ kernels'[r].int = 1 + NodesOf(r)'
  <2>1. /\ kernels[r].enum # NoEnum /\ kernels[r].alive /\ kernels[r].int = 1 + NodesOf(r)
        /\ kernels'[r].alive = kernels[r].alive
        /\ kernels'[r].int = IF r \in S THEN kernels[r].int + i ELSE kernels[r].int
    BY <1>5 DEF Referenced, Keeps, HeldInv, HeldAreTaken
  <2>2. CASE kind = "application"
    BY <1>2, <2>1, <2>2
  <2>3. CASE kind = "node"
    <3>1. i = 1 /\ S = {s}
      BY <2>3
    <3> QED BY <1>2, <2>1, <2>3, <3>1
  <2> QED BY <2>2, <2>3
<1> QED BY <1>4, <1>5 DEF HeldAreTaken

\* A step after which one handle or node less has its kernel.
LEMMA HeldLost ==
  ASSUME HeldInv, ~contextReleased, UNCHANGED contextReleased,
         NEW h \in holders, holders' = holders \ {h}, h.kind \in {"application", "node"},
         NEW e \in Nat, NEW i, Unreferenced(h.slot, e, i),
         i = IF h.kind = "node" THEN Less(kernels[h.slot].int) ELSE kernels[h.slot].int
  PROVE  HeldAreTaken'
<1>1. \A g \in holders : g.slot \in Slots
  BY DEF HeldInv, KernelTypes, Holder
<1>2. \A r \in Slots : Keeps(r)
  BY DEF Unreferenced, Keeps
<1>3. \A g \in holders' : kernels'[g.slot].enum # NoEnum /\ kernels'[g.slot].name = g.name
  BY <1>1, <1>2 DEF Keeps, HeldInv, HeldAreTaken
<1>4. \A r \in Slots :
        LET one == IF h.kind = "node" /\ h.slot = r THEN 1 ELSE 0
        IN NodesOf(r) \in Nat /\ NodesOf(r)' = NodesOf(r) - one /\ NodesOf(r) >= one
  BY NodesMove DEF HeldInv
<1>5. ASSUME NEW r \in Slots, kernels'[r].enum # NoEnum
      PROVE  kernels'[r].alive /\ kernels'[r].int = 1 + NodesOf(r)'
  <2>1. kernels[r].enum # NoEnum /\ kernels[r].alive /\ kernels[r].int = 1 + NodesOf(r)
    BY <1>2, <1>5 DEF Keeps, HeldInv, HeldAreTaken
  <2>2. CASE r # h.slot
    BY <1>4, <2>1, <2>2 DEF Unreferenced
  <2>3. CASE r = h.slot
    <3>1. i = 1 + NodesOf(r)' /\ NodesOf(r)' \in Nat
      <4>1. CASE h.kind = "node"
        BY <1>4, <2>1, <2>3, <4>1, LessIs
      <4>2. CASE h.kind = "application"
        BY <1>4, <2>1, <2>3, <4>2
      <4> QED BY <4>1, <4>2
    <3>2. e + i > 0
      BY <3>1
    <3> QED BY <2>1, <2>3, <3>1, <3>2 DEF Unreferenced
  <2> QED BY <2>2, <2>3
<1> QED BY <1>3, <1>5 DEF HeldAreTaken

LEMMA AddHeld ==
  ASSUME HeldInv, ~contextReleased, NEW n \in UserNames, AddKernel(n), UNCHANGED contextReleased
  PROVE  HeldAreTaken'
<1>1. PICK s \in Slots :
        /\ kernels[s].enum = NoEnum
        /\ kernels' = [kernels EXCEPT ![s] = Initialized(n, TRUE)]
        /\ holders' = holders
  BY AddDoes DEF HeldInv
<1>2. Initialized(n, TRUE).alive = TRUE /\ Initialized(n, TRUE).int = 1
  <2>1. n \in Names
    BY DEF Names
  <2> QED BY <2>1, InitializedIs
<1>3. /\ kernels'[s] = Initialized(n, TRUE) /\ \A r \in Slots \ {s} : kernels'[r] = kernels[r]
  BY <1>1 DEF HeldInv, KernelTypes
<1>4. \A h \in holders : h.slot \in Slots /\ h.slot # s
  BY <1>1 DEF HeldInv, KernelTypes, Holder, HeldAreTaken
<1>5. \A r : NodesOf(r)' = NodesOf(r)
  BY <1>1 DEF NodesOf
<1>6. NodesOf(s) = 0
  <2>1. {h \in holders : h.kind = "node" /\ h.slot = s} = {}
    BY <1>4
  <2> QED BY <2>1, FS_EmptySet DEF NodesOf
<1>7. \A h \in holders' : kernels'[h.slot].enum # NoEnum /\ kernels'[h.slot].name = h.name
  BY <1>1, <1>3, <1>4 DEF HeldAreTaken, HeldInv
<1>8. ASSUME NEW r \in Slots, kernels'[r].enum # NoEnum
      PROVE  kernels'[r].alive /\ kernels'[r].int = 1 + NodesOf(r)'
  <2>1. CASE r = s
    <3>1. NodesOf(r)' = 0
      BY <1>5, <1>6, <2>1
    <3>2. kernels'[r].alive = TRUE /\ kernels'[r].int = 1
      BY <1>2, <1>3, <2>1
    <3> QED BY <3>1, <3>2
  <2>2. CASE r # s
    BY <1>3, <1>5, <1>8, <2>2 DEF HeldAreTaken, HeldInv
  <2> QED BY <2>1, <2>2
<1> QED BY <1>7, <1>8 DEF HeldAreTaken

LEMMA RemoveHeld ==
  ASSUME Orderly, HeldInv, NEW s \in Slots, RemoveKernel(s), UNCHANGED contextReleased
  PROVE  HeldAreTaken'
<1>1. /\ kernels'[s].enum = NoEnum /\ \A r \in Slots \ {s} : kernels'[r] = kernels[r]
  BY RemoveDoes DEF HeldInv
<1>2. holders' = holders /\ \A h \in holders : h.slot # s
  BY DEF RemoveKernel
<1>3. \A h \in holders : h.slot \in Slots
  BY DEF HeldInv, KernelTypes, Holder
<1>4. \A r : NodesOf(r)' = NodesOf(r)
  BY <1>2 DEF NodesOf
<1> QED BY <1>1, <1>2, <1>3, <1>4 DEF HeldAreTaken, HeldInv

\* The node leaves the kernel it had for the one of the same number.
LEMMA RetargetHeld ==
  ASSUME HeldInv, ~contextReleased, NEW h \in holders, NEW t \in Targets, SetNodeTarget(h, t),
         UNCHANGED contextReleased
  PROVE  HeldAreTaken'
<1>1. h.slot \in Slots /\ h.kind = "node"
  BY RetargetDoes DEF HeldInv
<1>2. PICK s \in Slots :
        /\ s # h.slot /\ kernels[s].enum = kernels[h.slot].enum
        /\ Handle("node", s) \notin holders
        /\ holders' = (holders \ {h}) \cup {Handle("node", s)}
        /\ \A r \in Slots :
             /\ Keeps(r) /\ kernels'[r].alive = kernels[r].alive
             /\ kernels'[r].int = IF r = s THEN kernels[r].int + 1
                                  ELSE IF r = h.slot THEN Less(kernels[r].int)
                                  ELSE kernels[r].int
  BY RetargetDoes DEF HeldInv
<1> DEFINE g == Handle("node", s)
<1>3. g.kind = "node" /\ g.slot = s /\ g.name = kernels[s].name
  BY HandleIs DEF HeldInv
<1>4. \A r \in holders : r.slot \in Slots
  BY DEF HeldInv, KernelTypes, Holder
<1>5. \A r \in holders' : kernels'[r.slot].enum # NoEnum /\ kernels'[r.slot].name = r.name
  BY <1>1, <1>2, <1>3, <1>4 DEF Keeps, HeldInv, HeldAreTaken
<1>6. ASSUME NEW r \in Slots
      PROVE  /\ NodesOf(r) \in Nat /\ (r = h.slot => NodesOf(r) >= 1)
             /\ NodesOf(r)' = NodesOf(r) - (IF r = h.slot THEN 1 ELSE 0) + (IF r = s THEN 1 ELSE 0)
  <2> DEFINE H == holders \ {h}
             a == IF h.kind = "node" /\ h.slot = r THEN 1 ELSE 0
             b == IF g.kind = "node" /\ g.slot = r THEN 1 ELSE 0
             n == Cardinality(HandlesTo(holders, "node", r))
  <2>1. IsFiniteSet(holders) /\ IsFiniteSet(H) /\ g \notin H /\ holders' = H \cup {g}
    BY <1>2, FS_RemoveElement DEF HeldInv, KernelTypes
  <2>2. /\ NodesOf(r) = Cardinality(HandlesTo(holders, "node", r))
        /\ NodesOf(r)' = Cardinality(HandlesTo(holders', "node", r))
    BY DEF NodesOf, HandlesTo
  <2>3. /\ n \in Nat
        /\ h \in holders => Cardinality(HandlesTo(holders \ {h}, "node", r)) = n - a /\ n >= a
    BY <2>1, HandlesMove
  <2> HIDE DEF g
  <2>4. Cardinality(HandlesTo(H \cup {g}, "node", r)) = Cardinality(HandlesTo(H, "node", r)) + b
    BY <2>1, HandlesMove
  <2>5. a = (IF r = h.slot THEN 1 ELSE 0) /\ b = (IF r = s THEN 1 ELSE 0)
    BY <1>1, <1>3 DEF g
  <2> HIDE DEF a, b, H
  <2> QED BY <1>1, <2>1, <2>2, <2>3, <2>4, <2>5 DEF H
<1>7. ASSUME NEW r \in Slots, kernels'[r].enum # NoEnum
      PROVE  kernels'[r].alive /\ kernels'[r].int = 1 + NodesOf(r)'
  <2>1. kernels[r].alive /\ kernels[r].int = 1 + NodesOf(r)
    BY <1>2, <1>7 DEF Keeps, HeldInv, HeldAreTaken
  <2>2. CASE r = h.slot
    BY <1>2, <1>6, <2>1, <2>2, LessIs
  <2>3. CASE r # h.slot
    BY <1>2, <1>6, <2>1, <2>3
  <2> QED BY <2>2, <2>3
<1> QED BY <1>5, <1>7 DEF HeldAreTaken

LEMMA InitHeld == RegistryInit => HeldInv
<1> SUFFICES ASSUME RegistryInit PROVE HeldInv
  OBVIOUS
<1>1. \A s \in Slots : kernels[s].enum # NoEnum => kernels[s].alive /\ kernels[s].int = 1
  BY BaseTableIs DEF RegistryInit, NoKernel
<1>2. \A s \in Slots : NodesOf(s) = 0
  BY FS_EmptySet DEF RegistryInit, NodesOf
<1>3. HeldAreTaken
  BY <1>1, <1>2 DEF RegistryInit, HeldAreTaken
<1> QED BY <1>3, InitCounted DEF HeldInv, CountedInv

LEMMA NextHeld ==
  ASSUME Orderly, CountedInv, HeldInv, [RegistryNext]_registryVars
  PROVE  HeldInv'
<1>1. KernelTypes /\ KernelTypes' /\ TakenOnly'
  BY NextCounted DEF CountedInv
<1> SUFFICES HeldAreTaken'
  BY <1>1 DEF HeldInv
<1>2. CASE UNCHANGED registryVars
  BY <1>2, HeldStay DEF registryVars, Keeps
<1>3. CASE RegistryNext
  <2>1. ~contextReleased
    BY <1>3 DEF RegistryNext
  <2>2. ASSUME NEW n \in UserNames, AddKernel(n), UNCHANGED contextReleased PROVE HeldAreTaken'
    BY <2>1, <2>2, AddHeld
  <2>3. ASSUME NEW s \in Slots, FinalizeKernel(s), UNCHANGED contextReleased PROVE HeldAreTaken'
    <3>1. /\ kernels'[s].enabled /\ kernels'[s].enum = kernels[s].enum
          /\ kernels'[s].user = kernels[s].user /\ kernels'[s].name = kernels[s].name
          /\ kernels'[s].alive = kernels[s].alive /\ kernels'[s].int = kernels[s].int
          /\ \A r \in Slots \ {s} : kernels'[r] = kernels[r]
      BY <1>1, <2>3 DEF FinalizeKernel, KernelTypes, Kernel
    <3>2. holders' = holders /\ \A r : NodesOf(r)' = NodesOf(r)
      BY <2>3 DEF FinalizeKernel, NodesOf
    <3>3. \A h \in holders : h.slot \in Slots
      BY <1>1 DEF KernelTypes, Holder
    <3> QED BY <2>3, <3>1, <3>2, <3>3 DEF HeldAreTaken, HeldInv
  <2>4. ASSUME NEW s \in Slots, RemoveKernel(s), UNCHANGED contextReleased PROVE HeldAreTaken'
    BY <2>4, RemoveHeld
  <2>5. ASSUME NEW x, GetKernelByName(x), UNCHANGED contextReleased PROVE HeldAreTaken'
    <3>1. PICK s \in Slots : /\ kernels[s].enabled
                            /\ Handle("application", s) \notin holders
                            /\ Referenced({s}, 1, 0)
                            /\ holders' = holders \cup {Handle("application", s)}
      BY <1>1, <2>5, FoundByName
    <3>2. kernels[s].enum # NoEnum
      BY <3>1 DEF HeldInv, TakenOnly
    <3> QED BY <2>1, <2>5, <3>1, <3>2, HeldGained
  <2>6. ASSUME NEW e \in Enums, GetKernelByEnum(e), UNCHANGED contextReleased PROVE HeldAreTaken'
    <3>1. PICK s \in Slots : /\ kernels[s].enum = e
                            /\ Handle("application", s) \notin holders
                            /\ Referenced(Counted(e), 1, 0)
                            /\ holders' = holders \cup {Handle("application", s)}
      BY <1>1, <2>6, FoundByEnum
    <3> QED BY <2>1, <2>6, <3>1, EnumsAre, HeldGained
  <2>7. ASSUME NEW h \in holders, CreateNode(h), UNCHANGED contextReleased PROVE HeldAreTaken'
    <3>1. /\ h.slot \in Slots /\ Referenced({h.slot}, 0, 1)
          /\ Handle("node", h.slot) \notin holders
          /\ holders' = holders \cup {Handle("node", h.slot)}
      BY <1>1, <2>7, CreateDoes
    <3>2. kernels[h.slot].enum # NoEnum
      BY DEF HeldInv, HeldAreTaken
    <3> QED BY <2>1, <2>7, <3>1, <3>2, HeldGained
  <2>8. ASSUME NEW h \in holders, ReleaseKernel(h), UNCHANGED contextReleased PROVE HeldAreTaken'
    <3>1. /\ h.slot \in Slots /\ h.kind = "application" /\ holders' = holders \ {h}
          /\ Unreferenced(h.slot, Less(kernels[h.slot].ext), kernels[h.slot].int)
      BY <1>1, <2>8, ReleaseDoes
    <3>2. Less(kernels[h.slot].ext) \in Nat
      BY <1>1, <3>1, LessIs DEF KernelTypes, Kernel
    <3> QED BY <2>1, <2>8, <3>1, <3>2, HeldLost
  <2>9. ASSUME NEW h \in holders, DestroyNode(h), UNCHANGED contextReleased PROVE HeldAreTaken'
    <3>1. /\ h.slot \in Slots /\ h.kind = "node" /\ holders' = holders \ {h}
          /\ Unreferenced(h.slot, kernels[h.slot].ext, Less(kernels[h.slot].int))
      BY <1>1, <2>9, DestroyDoes
    <3>2. kernels[h.slot].ext \in Nat
      BY <1>1, <3>1 DEF KernelTypes, Kernel
    <3> QED BY <2>1, <2>9, <3>1, <3>2, HeldLost
  <2>10. ASSUME NEW h \in holders, NEW t \in Targets, SetNodeTarget(h, t), UNCHANGED contextReleased
         PROVE  HeldAreTaken'
    BY <2>1, <2>10, RetargetHeld
  <2>11. ASSUME NEW lib \in Libraries, LoadKernels(lib) \/ UnloadKernels(lib), UNCHANGED contextReleased
         PROVE  HeldAreTaken'
    BY <2>11, HeldStay DEF LoadKernels, UnloadKernels, Keeps
  <2>12. ASSUME ReleaseContext PROVE HeldAreTaken'
    BY <2>12 DEF ReleaseContext, HeldAreTaken
  <2> QED
    BY <1>3, <2>2, <2>3, <2>4, <2>5, <2>6, <2>7, <2>8, <2>9, <2>10, <2>11, <2>12
       DEF RegistryNext, Use, Enums
<1> QED BY <1>2, <1>3

\* A kernel of which the application has a handle or a node stays alive and keeps
\* its name, if the application removes only kernels it holds nothing of
\* (vxRemoveKernel frees the slot without asking).
THEOREM HeldKernelsStayHolds ==
  ASSUME Orderly PROVE RegistrySpec => []HeldKernelsStay
<1> DEFINE I == CountedInv /\ HeldInv
<1>1. RegistryInit => I
  BY InitCounted, InitHeld
<1>2. I /\ [RegistryNext]_registryVars => I'
  BY NextCounted, NextHeld
<1>3. I => HeldKernelsStay
  BY DEF HeldInv, HeldAreTaken, HeldKernelsStay, KernelTypes, Holder
<1> QED BY <1>1, <1>2, <1>3, PTL DEF RegistrySpec

-----------------------------------------------------------------------------
(* The end of the context.                                                 *)

\* a number that an added kernel shares with a target's own kernel is that of an own
\* kernel of the target it is added to
NumbersAreShared ==
  \A n \in UserNames, t \in Targets :
    (\E k \in DOMAIN BaseOf[t] : EnumOf[BaseOf[t][k]] = EnumOf[n]) =>
      \E k \in DOMAIN BaseOf[TargetOf[n]] : EnumOf[BaseOf[TargetOf[n]][k]] = EnumOf[n]

IsBase(s) == s[2] \in DOMAIN BaseOf[s[1]]

\* a target's own kernels stay in the first slots, added ones are in slots of their target
SlotsKeepKind ==
  \A s \in Slots :
    /\ IsBase(s) => ~kernels[s].user /\ kernels[s].enum = EnumOf[BaseOf[s[1]][s[2]]]
    /\ ~IsBase(s) /\ kernels[s].enum # NoEnum =>
         /\ kernels[s].user
         /\ \E n \in UserNames : TargetOf[n] = s[1] /\ EnumOf[n] = kernels[s].enum

AppsOf(s) == Cardinality(HandlesTo(holders, "application", s))

\* nobody but the application's handles and the one who added it has a kernel
EntriesAreExact ==
  ~contextReleased =>
    \A s \in Slots : /\ reftable[s] = IF kernels[s].alive THEN 1 ELSE 0
                     /\ kernels[s].alive => kernels[s].enum # NoEnum
                     /\ kernels[s].user => kernels[s].ext = 1 + AppsOf(s)

\* loaded modules have no hole between them
ModulesPacked ==
  ~contextReleased => /\ numModules \in 0..NumModules
                      /\ \A m \in 1..NumModules : modules[m] # NoLib <=> m <= numModules

WholeInv == SlotsKeepKind /\ EntriesAreExact /\ ModulesPacked /\ AllReferencesRemoved

LEMMA BaseIs ==
  /\ \A s \in Slots : IsBase(s) <=> s[2] <= Len(BaseOf[s[1]])
  /\ \A t \in Targets : /\ DOMAIN BaseOf[t] = 1..Len(BaseOf[t])
                        /\ Len(BaseOf[t]) \in Nat /\ Len(BaseOf[t]) <= NumSlots
  /\ \A s \in Slots : IsBase(s) => EnumOf[BaseOf[s[1]][s[2]]] # NoEnum
<1>1. \A t \in Targets : /\ BaseOf[t] \in Seq(BaseNames) /\ DOMAIN BaseOf[t] = 1..Len(BaseOf[t])
                        /\ Len(BaseOf[t]) \in Nat /\ Len(BaseOf[t]) <= NumSlots
  BY KernelsAssumption
<1>2. \A s \in Slots : IsBase(s) => EnumOf[BaseOf[s[1]][s[2]]] # NoEnum
  <2> TAKE s \in Slots
  <2> HAVE IsBase(s)
  <2>1. BaseOf[s[1]][s[2]] \in Names
    BY <1>1, SlotsAre DEF IsBase, Names
  <2> QED BY <2>1, KernelsAssumption
<1>3. \A s \in Slots : IsBase(s) <=> s[2] <= Len(BaseOf[s[1]])
  BY <1>1, SlotsAre DEF IsBase
<1> QED BY <1>1, <1>2, <1>3

\* vxGetKernelByEnum counts an added kernel only when it is the one it returns.
LEMMA AddedIsReturned ==
  ASSUME NumbersAreShared, KernelTypes, SlotsKeepKind, NEW e \in Enums,
         NEW r \in Counted(e), kernels[r].user
  PROVE  r = Returned(e)
<1>1. Len(Order) \in Nat /\ DOMAIN Order = 1..Len(Order)
      /\ \A j \in DOMAIN Order : Order[j] \in Targets
  BY KernelsAssumption DEF Targets
<1>2. \A j \in ByEnum(e) :
        LET t == Order[j]
            k == Lowest(Numbered(t, e))
        IN /\ j \in DOMAIN Order /\ t \in Targets /\ k \in 1..NumSlots /\ kernels[<<t, k>>].enum = e
           /\ \A m \in 1..NumSlots : kernels[<<t, m>>].enum = e => k <= m
  <2> TAKE j \in ByEnum(e)
  <2> DEFINE t == Order[j]
             k == Lowest(Numbered(t, e))
  <2>1. j \in DOMAIN Order /\ t \in Targets /\ Numbered(t, e) # {}
    BY <1>1 DEF ByEnum
  <2>2. Numbered(t, e) \in SUBSET Nat
    BY DEF Numbered
  <2>3. k \in Numbered(t, e) /\ \A m \in Numbered(t, e) : k <= m
    BY <2>1, <2>2, LowestIs
  <2> QED BY <2>1, <2>3 DEF Numbered
<1>3. PICK i \in ByEnum(e) : r = <<Order[i], Lowest(Numbered(Order[i], e))>>
  BY DEF Counted
<1> DEFINE t == Order[i]
           k == Lowest(Numbered(t, e))
<1>4. /\ t \in Targets /\ k \in 1..NumSlots /\ r = <<t, k>> /\ r \in Slots /\ r[1] = t /\ r[2] = k
      /\ kernels[r].enum = e /\ \A m \in 1..NumSlots : kernels[<<t, m>>].enum = e => k <= m
  BY <1>2, <1>3, SlotsAre
<1>5. ~IsBase(r)
  BY <1>4 DEF SlotsKeepKind
<1>6. PICK n \in UserNames : TargetOf[n] = t /\ EnumOf[n] = e
  BY <1>4, <1>5, EnumsAre DEF SlotsKeepKind
<1>7. ASSUME NEW j \in ByEnum(e) PROVE Order[j] = t
  <2> DEFINE u == Order[j]
             m == Lowest(Numbered(u, e))
             q == <<u, m>>
  <2>1. u \in Targets /\ m \in 1..NumSlots /\ q \in Slots /\ q[1] = u /\ q[2] = m
        /\ kernels[q].enum = e
    BY <1>2, SlotsAre
  <2>2. CASE IsBase(q)
    <3>1. EnumOf[BaseOf[u][m]] = EnumOf[n] /\ m \in DOMAIN BaseOf[u]
      BY <1>6, <2>1, <2>2 DEF SlotsKeepKind, IsBase
    <3>2. PICK d \in DOMAIN BaseOf[t] : EnumOf[BaseOf[t][d]] = e
      BY <1>6, <2>1, <3>1 DEF NumbersAreShared
    <3>3. d \in 1..NumSlots /\ d <= Len(BaseOf[t]) /\ Len(BaseOf[t]) \in Nat
      BY <1>4, BaseIs, KernelsAssumption
    <3>4. <<t, d>> \in Slots /\ <<t, d>>[1] = t /\ <<t, d>>[2] = d
      BY <1>4, <3>3, SlotsAre
    <3>5. kernels[<<t, d>>].enum = e
      BY <3>2, <3>4 DEF SlotsKeepKind, IsBase
    <3>6. k <= d
      BY <1>4, <3>3, <3>5
    <3>7. IsBase(r)
      BY <1>4, <3>3, <3>6, BaseIs
    <3> QED BY <1>5, <3>7
  <2>3. CASE ~IsBase(q)
    <3>1. PICK o \in UserNames : TargetOf[o] = u /\ EnumOf[o] = e
      BY <2>1, <2>3, EnumsAre DEF SlotsKeepKind
    <3> QED BY <1>6, <3>1, KernelsAssumption
  <2> QED BY <2>2, <2>3
<1>8. ByEnum(e) # {} /\ ByEnum(e) \in SUBSET (1..Len(Order))
  BY <1>1, <1>3 DEF ByEnum
<1> DEFINE l == CHOOSE j \in ByEnum(e) : \A o \in ByEnum(e) : o <= j
<1>9. l \in ByEnum(e)
  BY <1>1, <1>8, HighestIs
<1>10. Returned(e) = <<Order[l], Lowest(Numbered(Order[l], e))>>
  BY DEF Returned
<1> HIDE DEF l
<1> QED BY <1>3, <1>7, <1>9, <1>10

LEMMA AppsMove ==
  ASSUME KernelTypes, NEW h, NEW s
  PROVE  LET one == IF h.kind = "application" /\ h.slot = s THEN 1 ELSE 0
         IN /\ AppsOf(s) \in Nat
            /\ h \notin holders /\ holders' = holders \cup {h} => AppsOf(s)' = AppsOf(s) + one
            /\ h \in holders /\ holders' = holders \ {h} =>
                 AppsOf(s)' = AppsOf(s) - one /\ AppsOf(s) >= one
<1>1. AppsOf(s) = Cardinality(HandlesTo(holders, "application", s))
      /\ AppsOf(s)' = Cardinality(HandlesTo(holders', "application", s))
  BY DEF AppsOf, HandlesTo
<1>2. IsFiniteSet(holders)
  BY DEF KernelTypes
<1> DEFINE one == IF h.kind = "application" /\ h.slot = s THEN 1 ELSE 0
           n == Cardinality(HandlesTo(holders, "application", s))
<1>3. /\ n \in Nat
      /\ h \notin holders => Cardinality(HandlesTo(holders \cup {h}, "application", s)) = n + one
      /\ h \in holders =>
           Cardinality(HandlesTo(holders \ {h}, "application", s)) = n - one /\ n >= one
  BY <1>2, HandlesMove
<1> HIDE DEF one
<1>4. ASSUME h \notin holders, holders' = holders \cup {h} PROVE AppsOf(s)' = AppsOf(s) + one
  BY <1>1, <1>3, <1>4
<1>5. ASSUME h \in holders, holders' = holders \ {h}
      PROVE  AppsOf(s)' = AppsOf(s) - one /\ AppsOf(s) >= one
  BY <1>1, <1>3, <1>5
<1> QED BY <1>1, <1>3, <1>4, <1>5 DEF one

\* retargeting a node changes no handle of the application
LEMMA AppsSame ==
  ASSUME NEW h, h.kind = "node", NEW g, g.kind = "node", holders' = (holders \ {h}) \cup {g}, NEW s
  PROVE  AppsOf(s)' = AppsOf(s)
<1>1. HandlesTo(holders', "application", s) = HandlesTo(holders, "application", s)
  BY DEF HandlesTo
<1> QED BY <1>1 DEF AppsOf, HandlesTo

ReadyInv == CountedInv /\ HeldInv /\ WholeInv

\* A step that gives and takes no slot keeps what the slots are for.
LEMMA KindsStay ==
  ASSUME SlotsKeepKind, \A s \in Slots : Keeps(s)
  PROVE  SlotsKeepKind'
BY DEF SlotsKeepKind, Keeps, IsBase

LEMMA NextKinds ==
  ASSUME KernelTypes, TakenOnly, SlotsKeepKind, [RegistryNext]_registryVars
  PROVE  SlotsKeepKind'
<1>1. CASE UNCHANGED registryVars
  BY <1>1, KindsStay DEF registryVars, Keeps
<1>2. CASE RegistryNext
  <2>1. ASSUME NEW n \in UserNames, AddKernel(n) PROVE SlotsKeepKind'
    <3>1. PICK s \in Slots :
            /\ s[1] = TargetOf[n] /\ kernels[s].enum = NoEnum
            /\ kernels' = [kernels EXCEPT ![s] = Initialized(n, TRUE)]
      BY <2>1, AddDoes
    <3>2. Initialized(n, TRUE).user = TRUE /\ Initialized(n, TRUE).enum = EnumOf[n]
      <4>1. n \in Names
        BY DEF Names
      <4> QED BY <4>1, InitializedIs
    <3>3. kernels'[s] = Initialized(n, TRUE) /\ \A r \in Slots \ {s} : kernels'[r] = kernels[r]
      BY <3>1 DEF KernelTypes
    <3>4. ~IsBase(s)
      BY <3>1, BaseIs DEF SlotsKeepKind
    <3>5. kernels'[s].user /\ kernels'[s].enum = EnumOf[n] /\ TargetOf[n] = s[1]
      BY <3>1, <3>2, <3>3
    <3>6. ASSUME NEW r \in Slots
          PROVE  /\ IsBase(r) => ~kernels'[r].user /\ kernels'[r].enum = EnumOf[BaseOf[r[1]][r[2]]]
                 /\ ~IsBase(r) /\ kernels'[r].enum # NoEnum =>
                      /\ kernels'[r].user
                      /\ \E m \in UserNames : TargetOf[m] = r[1] /\ EnumOf[m] = kernels'[r].enum
      <4>1. CASE r = s
        BY <3>4, <3>5, <4>1
      <4>2. CASE r # s
        BY <3>3, <4>2 DEF SlotsKeepKind
      <4> QED BY <4>1, <4>2
    <3> QED BY <3>6 DEF SlotsKeepKind, IsBase
  <2>2. ASSUME NEW s \in Slots, FinalizeKernel(s) PROVE SlotsKeepKind'
    <3>1. \A r \in Slots : kernels'[r].user = kernels[r].user /\ kernels'[r].enum = kernels[r].enum
      BY <2>2 DEF FinalizeKernel, KernelTypes, Kernel
    <3> QED BY <3>1 DEF SlotsKeepKind, IsBase
  <2>3. ASSUME NEW s \in Slots, RemoveKernel(s) PROVE SlotsKeepKind'
    <3>1. kernels'[s].enum = NoEnum /\ \A r \in Slots \ {s} : kernels'[r] = kernels[r]
      BY <2>3, RemoveDoes
    <3>2. ~IsBase(s)
      BY <2>3 DEF RemoveKernel, SlotsKeepKind
    <3> QED BY <3>1, <3>2 DEF SlotsKeepKind, IsBase
  <2>4. ASSUME NEW S, NEW e, NEW i, Referenced(S, e, i) PROVE SlotsKeepKind'
    BY <2>4, KindsStay DEF Referenced
  <2>5. ASSUME NEW s \in Slots, NEW e, NEW i, Unreferenced(s, e, i) PROVE SlotsKeepKind'
    <3>1. \A r \in Slots : Keeps(r)
      BY <2>5 DEF Unreferenced, Keeps
    <3> QED BY <3>1, KindsStay
  <2>6. ASSUME NEW x, GetKernelByName(x) PROVE SlotsKeepKind'
    BY <2>4, <2>6, FoundByName
  <2>7. ASSUME NEW e \in Enums, GetKernelByEnum(e) PROVE SlotsKeepKind'
    BY <2>4, <2>7, FoundByEnum
  <2>8. ASSUME NEW h \in holders, ReleaseKernel(h) \/ CreateNode(h) \/ DestroyNode(h)
        PROVE  SlotsKeepKind'
    BY <2>4, <2>5, <2>8, ReleaseDoes, CreateDoes, DestroyDoes
  <2>9. ASSUME NEW h \in holders, NEW t \in Targets, SetNodeTarget(h, t) PROVE SlotsKeepKind'
    <3>1. \A r \in Slots : Keeps(r)
      BY <2>9, RetargetDoes
    <3> QED BY <3>1, KindsStay
  <2>10. ASSUME NEW lib \in Libraries, LoadKernels(lib) \/ UnloadKernels(lib) PROVE SlotsKeepKind'
    <3>1. \A r \in Slots : Keeps(r)
      BY <2>10 DEF LoadKernels, UnloadKernels, Keeps
    <3> QED BY <3>1, KindsStay
  <2>11. ASSUME ReleaseContext PROVE SlotsKeepKind'
    <3>1. \A r \in Slots : kernels'[r].user = kernels[r].user /\ kernels'[r].enum = kernels[r].enum
      BY <2>11, EndDoes
    <3> QED BY <3>1 DEF SlotsKeepKind, IsBase
  <2> QED
    BY <1>2, <2>1, <2>2, <2>3, <2>6, <2>7, <2>8, <2>9, <2>10, <2>11 DEF RegistryNext, Use, Enums
<1> QED BY <1>1, <1>2

\* The table of modules has no hole when the last one loaded is unloaded first.
LEMMA NextModules ==
  ASSUME Orderly, KernelTypes, ModulesPacked, [RegistryNext]_registryVars
  PROVE  ModulesPacked'
<1>1. ASSUME UNCHANGED <<moduleTables, contextReleased>> PROVE ModulesPacked'
  BY <1>1 DEF ModulesPacked, moduleTables
<1>2. ASSUME NEW lib \in Libraries, LoadKernels(lib), ~contextReleased, UNCHANGED contextReleased
      PROVE  ModulesPacked'
  <2> DEFINE m == Lowest(FreeEntries)
  <2>1. FreeEntries # {} /\ lib # NoLib
    BY <1>2, KernelsAssumption DEF LoadKernels
  <2>2. FreeEntries \in SUBSET Nat
    BY DEF FreeEntries
  <2>3. m \in FreeEntries /\ \A k \in FreeEntries : m <= k
    BY <2>1, <2>2, LowestIs
  <2>4. numModules \in 0..NumModules /\ NumModules \in Nat
        /\ \A k \in 1..NumModules : modules[k] # NoLib <=> k <= numModules
    BY <1>2, KernelsAssumption DEF ModulesPacked
  <2>5. m = numModules + 1 /\ m \in 1..NumModules
    <3>1. m \in 1..NumModules /\ ~(m <= numModules)
      BY <2>3, <2>4 DEF FreeEntries
    <3>2. numModules + 1 \in FreeEntries
      BY <2>4, <3>1 DEF FreeEntries
    <3> QED BY <2>3, <2>4, <3>1, <3>2
  <2>6. modules' = [modules EXCEPT ![m] = lib] /\ numModules' = numModules + 1
    BY <1>2 DEF LoadKernels
  <2> HIDE DEF m
  <2>7. \A k \in 1..NumModules : modules'[k] = IF k = m THEN lib ELSE modules[k]
    BY <2>6 DEF KernelTypes
  <2> QED BY <2>1, <2>4, <2>5, <2>6, <2>7 DEF ModulesPacked
<1>3. ASSUME NEW lib \in Libraries, UnloadKernels(lib), ~contextReleased, UNCHANGED contextReleased
      PROVE  ModulesPacked'
  <2> DEFINE m == Lowest(LoadedAt(lib))
  <2>1. LoadedAt(lib) # {} /\ lib # NoLib /\ m = numModules
    BY <1>3, KernelsAssumption DEF UnloadKernels
  <2>2. LoadedAt(lib) \in SUBSET Nat
    BY DEF LoadedAt
  <2>3. m \in LoadedAt(lib)
    BY <2>1, <2>2, LowestIs
  <2>4. numModules \in 0..NumModules /\ NumModules \in Nat /\ m \in 1..NumModules
        /\ \A k \in 1..NumModules : modules[k] # NoLib <=> k <= numModules
    BY <1>3, <2>3, KernelsAssumption DEF ModulesPacked, LoadedAt
  <2>5. modules' = [modules EXCEPT ![m] = NoLib] /\ numModules' = numModules - 1
    BY <1>3 DEF UnloadKernels
  <2> HIDE DEF m
  <2>6. \A k \in 1..NumModules : modules'[k] = IF k = m THEN NoLib ELSE modules[k]
    BY <2>5 DEF KernelTypes
  <2> QED BY <2>1, <2>4, <2>5, <2>6 DEF ModulesPacked
<1>4. ASSUME ReleaseContext PROVE ModulesPacked'
  BY <1>4 DEF ReleaseContext, ModulesPacked
<1>5. CASE UNCHANGED registryVars
  BY <1>1, <1>5 DEF registryVars
<1>6. CASE RegistryNext /\ ~ReleaseContext
  <2>1. ~contextReleased /\ UNCHANGED contextReleased /\ Use
    BY <1>6 DEF RegistryNext
  <2>2. \/ \E lib \in Libraries : LoadKernels(lib) \/ UnloadKernels(lib)
        \/ UNCHANGED moduleTables
    BY <2>1 DEF Use, AddKernel, FinalizeKernel, RemoveKernel, GetKernelByName, GetKernelByEnum,
                ReleaseKernel, CreateNode, DestroyNode, SetNodeTarget
  <2> QED BY <1>1, <1>2, <1>3, <2>1, <2>2
<1> QED BY <1>4, <1>5, <1>6

\* The table of references and the external counts of added kernels.
LEMMA NextEntries ==
  ASSUME Orderly, NumbersAreShared, ReadyInv, HeldInv', [RegistryNext]_registryVars
  PROVE  EntriesAreExact'
<1> DEFINE Exact(s) == /\ reftable[s] = IF kernels[s].alive THEN 1 ELSE 0
                       /\ kernels[s].alive => kernels[s].enum # NoEnum
                       /\ kernels[s].user => kernels[s].ext = 1 + AppsOf(s)
<1>1. /\ KernelTypes /\ KernelTypes' /\ TakenOnly /\ SlotsKeepKind /\ HeldAreTaken /\ HeldAreTaken'
      /\ HeldInv
  BY DEF ReadyInv, HeldInv, WholeInv
<1>2. CASE UNCHANGED registryVars
  <2>1. \A s : AppsOf(s)' = AppsOf(s)
    BY <1>2 DEF registryVars, AppsOf, HandlesTo
  <2> QED BY <1>2, <2>1 DEF registryVars, ReadyInv, WholeInv, EntriesAreExact
<1>3. CASE ReleaseContext
  BY <1>3 DEF ReleaseContext, EntriesAreExact
<1>4. CASE RegistryNext /\ ~ReleaseContext
  <2>1. /\ ~contextReleased /\ UNCHANGED contextReleased /\ Use
    BY <1>4 DEF RegistryNext
  <2>2. \A s \in Slots : Exact(s)
    BY <2>1 DEF ReadyInv, WholeInv, EntriesAreExact
  <2>3. \A h \in holders : h.slot \in Slots
    BY <1>1 DEF KernelTypes, Holder
  <2>4. \A s \in Slots : /\ kernels[s].enum # NoEnum => kernels[s].alive /\ kernels[s].int = 1 + NodesOf(s)
                         /\ kernels'[s].enum # NoEnum => kernels'[s].alive
    BY <1>1, <2>1 DEF HeldAreTaken
  <2>5. \A s \in Slots : kernels[s].ext \in Nat /\ AppsOf(s) \in Nat /\ NodesOf(s) \in Nat
    BY <1>1, AppsMove, NodesAreNumbers DEF KernelTypes, Kernel
  <2> SUFFICES ASSUME NEW r \in Slots PROVE Exact(r)'
    BY DEF EntriesAreExact
  <2>6. ASSUME UNCHANGED holders PROVE AppsOf(r)' = AppsOf(r)
    BY <2>6 DEF AppsOf, HandlesTo
  <2>7. ASSUME NEW n \in UserNames, AddKernel(n) PROVE Exact(r)'
    <3>1. PICK s \in Slots :
            /\ kernels[s].enum = NoEnum /\ holders' = holders
            /\ kernels' = [kernels EXCEPT ![s] = Initialized(n, TRUE)]
            /\ reftable' = [reftable EXCEPT ![s] = @ + 1]
      BY <1>1, <2>7, AddDoes
    <3>2. /\ Initialized(n, TRUE).alive = TRUE /\ Initialized(n, TRUE).ext = 1
          /\ Initialized(n, TRUE).enum # NoEnum
      <4>1. n \in Names
        BY DEF Names
      <4> QED BY <4>1, InitializedIs, EnumsAre
    <3>3. /\ kernels'[s] = Initialized(n, TRUE) /\ \A q \in Slots \ {s} : kernels'[q] = kernels[q]
          /\ reftable'[s] = reftable[s] + 1 /\ \A q \in Slots \ {s} : reftable'[q] = reftable[q]
      BY <1>1, <3>1 DEF KernelTypes
    <3>4. CASE r = s
      <4>1. AppsOf(s) = 0
        <5>1. HandlesTo(holders, "application", s) = {}
          BY <1>1, <3>1 DEF HandlesTo, HeldAreTaken
        <5> QED BY <5>1, FS_EmptySet DEF AppsOf
      <4>2. reftable[s] = 0
        BY <2>2, <3>1
      <4>3. AppsOf(r)' = 0
        BY <2>6, <3>1, <3>4, <4>1
      <4>4. kernels'[r].alive = TRUE /\ kernels'[r].ext = 1 /\ kernels'[r].enum # NoEnum
        BY <3>2, <3>3, <3>4
      <4>5. reftable'[r] = 1
        BY <3>3, <3>4, <4>2
      <4> QED BY <4>3, <4>4, <4>5
    <3>5. CASE r # s
      BY <2>2, <2>6, <3>1, <3>3, <3>5
    <3> QED BY <3>4, <3>5
  <2>8. ASSUME NEW s \in Slots, FinalizeKernel(s) PROVE Exact(r)'
    <3>1. /\ kernels'[r].alive = kernels[r].alive /\ kernels'[r].enum = kernels[r].enum
          /\ kernels'[r].user = kernels[r].user /\ kernels'[r].ext = kernels[r].ext
      BY <1>1, <2>8 DEF FinalizeKernel, KernelTypes, Kernel
    <3>2. reftable' = reftable /\ holders' = holders
      BY <2>8 DEF FinalizeKernel
    <3> QED BY <2>2, <2>6, <3>1, <3>2
  <2>9. ASSUME NEW s \in Slots, RemoveKernel(s) PROVE Exact(r)'
    <3>1. /\ \A q \in Slots \ {s} : kernels'[q] = kernels[q]
          /\ ~kernels'[s].user
          /\ kernels'[s].alive =
               (kernels[s].alive /\ Less(kernels[s].ext) + Less(kernels[s].int) > 0)
          /\ EntryFollows(s)
      BY <1>1, <2>9, RemoveDoes
    <3>2. holders' = holders /\ kernels[s].user /\ kernels[s].alive /\ \A h \in holders : h.slot # s
      BY <2>9 DEF RemoveKernel
    <3>3. kernels[s].ext = 1 /\ kernels[s].int = 1
      <4>1. HandlesTo(holders, "application", s) = {} /\ {h \in holders : h.kind = "node" /\ h.slot = s} = {}
        BY <3>2 DEF HandlesTo
      <4>2. AppsOf(s) = 0 /\ NodesOf(s) = 0
        BY <4>1, FS_EmptySet DEF AppsOf, NodesOf
      <4> QED BY <1>1, <2>2, <2>4, <3>2, <4>2 DEF TakenOnly
    <3>4. ~kernels'[s].alive
      <4>1. Less(1) = 0
        BY DEF Less
      <4>2. ~(Less(kernels[s].ext) + Less(kernels[s].int) > 0)
        BY <3>3, <4>1
      <4> QED BY <3>1, <4>2
    <3>5. reftable'[s] = reftable[s] - 1 /\ \A q \in Slots \ {s} : reftable'[q] = reftable[q]
      BY <1>1, <3>1, <3>2, <3>4 DEF EntryFollows, KernelTypes
    <3>6. CASE r = s
      BY <2>2, <3>1, <3>2, <3>4, <3>5, <3>6
    <3>7. CASE r # s
      BY <2>2, <2>6, <3>1, <3>2, <3>5, <3>7
    <3> QED BY <3>6, <3>7
  <2>10. ASSUME NEW S, NEW e, NEW i, Referenced(S, e, i),
                kernels[r].user =>
                  (IF r \in S THEN kernels[r].ext + e ELSE kernels[r].ext) = 1 + AppsOf(r)'
         PROVE  Exact(r)'
    BY <2>2, <2>10 DEF Referenced, Keeps
  <2>11. ASSUME NEW x, GetKernelByName(x) PROVE Exact(r)'
    <3>1. PICK s \in Slots : /\ Handle("application", s) \notin holders
                            /\ Referenced({s}, 1, 0)
                            /\ holders' = holders \cup {Handle("application", s)}
      BY <1>1, <2>11, FoundByName
    <3>2. AppsOf(r)' = AppsOf(r) + (IF s = r THEN 1 ELSE 0)
      BY <1>1, <3>1, HandleIs, AppsMove
    <3> QED BY <2>2, <2>5, <2>10, <3>1, <3>2
  <2>12. ASSUME NEW e \in Enums, GetKernelByEnum(e) PROVE Exact(r)'
    <3>1. PICK s \in Slots : /\ s \in Counted(e) /\ s = Returned(e)
                            /\ Handle("application", s) \notin holders
                            /\ Referenced(Counted(e), 1, 0)
                            /\ holders' = holders \cup {Handle("application", s)}
      BY <1>1, <2>12, FoundByEnum
    <3>2. AppsOf(r)' = AppsOf(r) + (IF s = r THEN 1 ELSE 0)
      BY <1>1, <3>1, HandleIs, AppsMove
    <3>3. kernels[r].user => (r \in Counted(e) <=> r = s)
      BY <1>1, <3>1, AddedIsReturned
    <3>4. kernels[r].user =>
            (IF r \in Counted(e) THEN kernels[r].ext + 1 ELSE kernels[r].ext) = 1 + AppsOf(r)'
      BY <2>2, <2>5, <3>2, <3>3
    <3> QED BY <2>10, <3>1, <3>4
  <2>13. ASSUME NEW h \in holders, CreateNode(h) PROVE Exact(r)'
    <3>1. /\ h.slot \in Slots /\ Referenced({h.slot}, 0, 1)
          /\ Handle("node", h.slot) \notin holders
          /\ holders' = holders \cup {Handle("node", h.slot)}
      BY <1>1, <2>13, CreateDoes
    <3>2. Handle("node", h.slot).kind = "node"
      BY <1>1, <3>1, HandleIs
    <3>3. AppsOf(r)' = AppsOf(r)
      BY <1>1, <2>5, <3>1, <3>2, AppsMove
    <3> QED BY <2>2, <2>5, <2>10, <3>1, <3>3
  <2>14. ASSUME NEW h \in holders, NEW e, NEW i, Unreferenced(h.slot, e, i),
                kernels[r].user => (IF r = h.slot THEN e ELSE kernels[r].ext) = 1 + AppsOf(r)'
         PROVE  Exact(r)'
    <3>1. Keeps(r) /\ kernels'[r].ext = IF r = h.slot THEN e ELSE kernels[r].ext
      BY <2>14 DEF Unreferenced, Keeps
    <3>2. h.slot \in Slots /\ kernels'[h.slot].alive
      BY <1>1, <2>3, <2>4, <2>14 DEF Unreferenced, Keeps, HeldAreTaken
    <3>3. reftable' = reftable
      BY <1>1, <2>14, <3>2 DEF Unreferenced, EntryFollows, KernelTypes
    <3>4. kernels'[r].alive = kernels[r].alive
      <4>1. CASE r = h.slot
        BY <2>14, <3>2, <4>1 DEF Unreferenced
      <4>2. CASE r # h.slot
        BY <2>14, <4>2 DEF Unreferenced
      <4> QED BY <4>1, <4>2
    <3> QED BY <2>2, <2>14, <3>1, <3>3, <3>4 DEF Keeps
  <2>15. ASSUME NEW h \in holders, ReleaseKernel(h) PROVE Exact(r)'
    <3>1. /\ h.slot \in Slots /\ h.kind = "application" /\ holders' = holders \ {h}
          /\ Unreferenced(h.slot, Less(kernels[h.slot].ext), kernels[h.slot].int)
      BY <1>1, <2>15, ReleaseDoes
    <3>2. LET one == IF h.slot = r THEN 1 ELSE 0
          IN AppsOf(r)' = AppsOf(r) - one /\ AppsOf(r) >= one
      BY <1>1, <3>1, AppsMove
    <3>3. kernels[r].user =>
            (IF r = h.slot THEN Less(kernels[h.slot].ext) ELSE kernels[r].ext) = 1 + AppsOf(r)'
      BY <2>2, <2>5, <3>2, LessIs
    <3> QED BY <2>14, <3>1, <3>3
  <2>16. ASSUME NEW h \in holders, DestroyNode(h) PROVE Exact(r)'
    <3>1. /\ h.slot \in Slots /\ h.kind = "node" /\ holders' = holders \ {h}
          /\ Unreferenced(h.slot, kernels[h.slot].ext, Less(kernels[h.slot].int))
      BY <1>1, <2>16, DestroyDoes
    <3>2. AppsOf(r)' = AppsOf(r)
      BY <1>1, <2>5, <3>1, AppsMove
    <3> QED BY <2>2, <2>14, <3>1, <3>2
  <2>17. ASSUME NEW h \in holders, NEW t \in Targets, SetNodeTarget(h, t) PROVE Exact(r)'
    <3>1. PICK s \in Slots :
            /\ h.kind = "node" /\ holders' = (holders \ {h}) \cup {Handle("node", s)}
            /\ Keeps(r) /\ kernels'[r].alive = kernels[r].alive /\ kernels'[r].ext = kernels[r].ext
            /\ reftable' = reftable
      BY <1>1, <2>17, RetargetDoes
    <3>2. AppsOf(r)' = AppsOf(r)
      BY <1>1, <3>1, HandleIs, AppsSame
    <3> QED BY <2>2, <3>1, <3>2 DEF Keeps
  <2>18. ASSUME NEW lib \in Libraries, LoadKernels(lib) \/ UnloadKernels(lib) PROVE Exact(r)'
    BY <2>2, <2>6, <2>18 DEF LoadKernels, UnloadKernels
  <2> QED
    BY <2>1, <2>7, <2>8, <2>9, <2>11, <2>12, <2>13, <2>15, <2>16, <2>17, <2>18 DEF Use, Enums
<1> QED BY <1>2, <1>3, <1>4

\* vxReleaseContext: every kernel left has its target and its nodes for references,
\* and is among the slots the target goes through.
LEMMA EndIsComplete ==
  ASSUME Orderly, ReadyInv, ~contextReleased, ReleaseContext
  PROVE  AllReferencesRemoved'
<1>1. /\ KernelTypes /\ HeldAreTaken /\ ModulesPacked /\ EntriesAreExact
  BY DEF ReadyInv, HeldInv, WholeInv
<1>2. ASSUME NEW s \in Slots PROVE reftable'[s] = 0
  <2>1. reftable'[s] = IF kernels[s].alive /\ ~kernels'[s].alive THEN reftable[s] - 1 ELSE reftable[s]
    BY DEF ReleaseContext
  <2>2. reftable[s] = IF kernels[s].alive THEN 1 ELSE 0
    BY <1>1 DEF EntriesAreExact
  <2>3. CASE ~kernels[s].alive
    BY <2>1, <2>2, <2>3
  <2>4. CASE kernels[s].alive
    <3>1. kernels[s].enum # NoEnum /\ kernels[s].int = 1 + NodesOf(s) /\ NodesOf(s) \in Nat
      BY <1>1, <2>4, NodesAreNumbers DEF EntriesAreExact, HeldAreTaken
    <3>2. Visited(s)
      <4>1. s[1] \in Targets /\ s[2] \in 1..NumSlots /\ s = <<s[1], s[2]>>
        BY SlotsAre
      <4>2. s[2] \in Occupied(s[1])
        BY <3>1, <4>1 DEF Occupied
      <4>3. Occupied(s[1]) = 1..targetKernels[s[1]]
        BY <4>1 DEF ReleaseContext, Packed
      <4>4. targetKernels[s[1]] \in Int
        BY <1>1, <4>1 DEF KernelTypes
      <4> QED BY <3>1, <4>2, <4>3, <4>4 DEF Visited
    <3>3. Collected(s).int = 1
      <4>1. Collected(s).int = kernels[s].int - NodesOf(s)
        BY <1>1, CollectedIs
      <4> QED BY <3>1, <4>1
    <3>4. LeftOf(s) = 0
      BY <3>2, <3>3 DEF LeftOf, Less
    <3>5. ~kernels'[s].alive
      <4>1. kernels'[s].alive = (Collected(s).alive /\ LeftOf(s) > 0)
        BY <1>1, EndDoes
      <4>2. ~(LeftOf(s) > 0)
        BY <3>4
      <4> QED BY <4>1, <4>2
    <3> QED BY <2>1, <2>2, <2>4, <3>5
  <2> QED BY <2>3, <2>4
<1>3. \A m \in 1..NumModules : modules'[m] = NoLib
  BY <1>1 DEF ReleaseContext, ModulesPacked
<1> QED BY <1>2, <1>3 DEF AllReferencesRemoved

LEMMA InitWhole == RegistryInit => WholeInv
<1> SUFFICES ASSUME RegistryInit PROVE WholeInv
  OBVIOUS
<1>1. \A s \in Slots : IF IsBase(s)
                       THEN /\ kernels[s].enum = EnumOf[BaseOf[s[1]][s[2]]]
                            /\ ~kernels[s].user /\ kernels[s].alive
                       ELSE kernels[s] = NoKernel
  BY BaseTableIs DEF RegistryInit, IsBase
<1>2. SlotsKeepKind
  BY <1>1 DEF SlotsKeepKind, NoKernel
<1>3. EntriesAreExact
  <2>1. \A s \in Slots : reftable[s] = IF kernels[s].alive THEN 1 ELSE 0
    BY DEF RegistryInit
  <2>2. \A s \in Slots : ~kernels[s].user /\ (kernels[s].alive => kernels[s].enum # NoEnum)
    BY <1>1, BaseIs DEF NoKernel
  <2> QED BY <2>1, <2>2 DEF EntriesAreExact
<1>4. ModulesPacked /\ AllReferencesRemoved
  BY KernelsAssumption DEF RegistryInit, ModulesPacked, AllReferencesRemoved
<1> QED BY <1>2, <1>3, <1>4 DEF WholeInv

LEMMA NextReady ==
  ASSUME Orderly, NumbersAreShared, ReadyInv, [RegistryNext]_registryVars
  PROVE  ReadyInv'
<1>1. CountedInv' /\ HeldInv'
  BY NextCounted, NextHeld DEF ReadyInv
<1>2. SlotsKeepKind'
  BY NextKinds DEF ReadyInv, HeldInv, WholeInv
<1>3. EntriesAreExact'
  BY <1>1, NextEntries
<1>4. ModulesPacked'
  BY NextModules DEF ReadyInv, HeldInv, WholeInv
<1>5. AllReferencesRemoved'
  <2>1. CASE UNCHANGED registryVars
    BY <2>1 DEF registryVars, moduleTables, ReadyInv, WholeInv, AllReferencesRemoved
  <2>2. CASE RegistryNext /\ ReleaseContext
    BY <2>2, EndIsComplete DEF RegistryNext
  <2>3. CASE RegistryNext /\ UNCHANGED contextReleased
    BY <2>3 DEF RegistryNext, AllReferencesRemoved
  <2> QED BY <2>1, <2>2, <2>3 DEF RegistryNext
<1> QED BY <1>1, <1>2, <1>3, <1>4, <1>5 DEF ReadyInv, WholeInv

THEOREM AllReferencesRemovedHolds ==
  ASSUME Orderly, NumbersAreShared PROVE RegistrySpec => []AllReferencesRemoved
<1>1. RegistryInit => ReadyInv
  BY InitCounted, InitHeld, InitWhole DEF ReadyInv
<1>2. ReadyInv /\ [RegistryNext]_registryVars => ReadyInv'
  BY NextReady
<1>3. ReadyInv => AllReferencesRemoved
  BY DEF ReadyInv, WholeInv
<1> QED BY <1>1, <1>2, <1>3, PTL DEF RegistrySpec
=============================================================================

-------------------------- MODULE ReferencesProofs --------------------------
(***************************************************************************)
(* Proofs about References, for a table of any size and objects with any   *)
(* number of fields.                                                       *)
(***************************************************************************)
EXTENDS References, FiniteSetTheorems, TLAPS

Tables == [Objects -> [Fields -> Objects \cup {None}]]
PointersIn(T, o) == {x \in Objects \X Fields : T[x[1]][x[2]] = o}
Same(a, b) == IF a = b THEN 1 ELSE 0

-----------------------------------------------------------------------------
(* Counting pointers.                                                      *)

LEMMA PointersFinite ==
  ASSUME NEW T, NEW o
  PROVE  IsFiniteSet(PointersIn(T, o)) /\ Cardinality(PointersIn(T, o)) \in Nat
  <1>1. IsFiniteSet(Objects) /\ IsFiniteSet(Fields)
    BY ReferencesAssumption, FS_Interval DEF Objects, Fields
  <1>2. IsFiniteSet(Objects \X Fields)
    BY <1>1, FS_Product
  <1>3. PointersIn(T, o) \subseteq Objects \X Fields
    BY DEF PointersIn
  <1> QED BY <1>2, <1>3, FS_Subset, FS_CardinalityType

Redirected(T, d, f, v, U) ==
  \A x \in Objects, y \in Fields : U[x][y] = IF x = d /\ y = f THEN v ELSE T[x][y]

\* Redirecting one field takes one pointer from what it pointed to and gives
\* one to what it points to.
LEMMA Redirect ==
  ASSUME NEW T \in Tables, NEW d \in Objects, NEW f \in Fields,
         NEW v \in Objects \cup {None}, NEW o \in Objects,
         NEW U, Redirected(T, d, f, v, U)
  PROVE  Cardinality(PointersIn(U, o))
           = Cardinality(PointersIn(T, o)) - Same(T[d][f], o) + Same(v, o)
  <1> DEFINE rest == PointersIn(T, o) \ {<<d, f>>}
  <1>1. \A x \in Objects \X Fields :
          U[x[1]][x[2]] = IF x = <<d, f>> THEN v ELSE T[x[1]][x[2]]
    BY DEF Redirected
  <1>2. PointersIn(U, o) = IF v = o THEN rest \cup {<<d, f>>} ELSE rest
    BY <1>1 DEF PointersIn
  <1>3. IsFiniteSet(rest) /\ <<d, f>> \notin rest
    BY PointersFinite, FS_RemoveElement
  <1>4. Cardinality(rest) = Cardinality(PointersIn(T, o)) - Same(T[d][f], o)
    <2>1. <<d, f>> \in PointersIn(T, o) <=> T[d][f] = o
      BY DEF PointersIn
    <2>2. CASE T[d][f] = o
      BY <2>1, <2>2, PointersFinite, FS_RemoveElement DEF Same
    <2>3. CASE T[d][f] # o
      <3>1. rest = PointersIn(T, o) /\ Same(T[d][f], o) = 0
        BY <2>1, <2>3 DEF Same
      <3>2. Cardinality(PointersIn(T, o)) \in Nat
        BY PointersFinite
      <3> QED BY <3>1, <3>2
    <2> QED BY <2>2, <2>3
  <1>5. Cardinality(rest) \in Nat
    BY <1>3, FS_CardinalityType
  <1>6. CASE v = o
    <2>1. Cardinality(PointersIn(U, o)) = Cardinality(rest) + 1
      BY <1>2, <1>3, <1>6, FS_AddElement
    <2> QED BY <1>4, <1>5, <1>6, <2>1, PointersFinite DEF Same
  <1>7. CASE v # o
    <2>1. Cardinality(PointersIn(U, o)) = Cardinality(rest)
      BY <1>2, <1>7
    <2> QED BY <1>4, <1>5, <1>7, <2>1, PointersFinite DEF Same
  <1> QED BY <1>6, <1>7

\* The same when the field that is emptied was copied to another one before.
LEMMA Replace ==
  ASSUME NEW T \in Tables, NEW M \in Tables, NEW U, NEW o \in Objects,
         NEW d \in Objects, NEW f \in Fields, NEW last \in Fields,
         Redirected(T, d, f, T[d][last], M), Redirected(M, d, last, None, U)
  PROVE  Cardinality(PointersIn(U, o)) = Cardinality(PointersIn(T, o)) - Same(T[d][f], o)
  <1>1. PICK v \in Objects \cup {None} : v = T[d][last]
    BY DEF Tables
  <1>2. M[d][last] = v
    BY <1>1 DEF Redirected
  <1>3. Cardinality(PointersIn(M, o))
          = Cardinality(PointersIn(T, o)) - Same(T[d][f], o) + Same(v, o)
    <2>1. Redirected(T, d, f, v, M)
      BY <1>1
    <2> QED BY <2>1, Redirect
  <1>4. None \in Objects \cup {None}
    OBVIOUS
  <1>5. Cardinality(PointersIn(U, o))
          = Cardinality(PointersIn(M, o)) - Same(M[d][last], o) + Same(None, o)
    BY <1>4, Redirect
  <1>6. Same(None, o) = 0
    BY ReferencesAssumption DEF Objects, None, Same
  <1>7. /\ Cardinality(PointersIn(T, o)) \in Int
        /\ Same(T[d][f], o) \in Int /\ Same(v, o) \in Int
    BY PointersFinite DEF Same
  <1> QED BY <1>2, <1>3, <1>5, <1>6, <1>7

LEMMA CountsAfterLink ==
  ASSUME CountsPointers, to \in Tables, internal \in [Objects -> Nat],
         NEW d \in Objects, NEW f \in Fields, NEW v \in Objects, to[d][f] = None,
         to' = [to EXCEPT ![d][f] = v], internal' = CountPointee(v)
  PROVE  CountsPointers'
  <1> SUFFICES ASSUME NEW o \in Objects
               PROVE  internal'[o] = Cardinality(PointersIn(to', o))
    BY DEF CountsPointers, Pointers, PointersIn
  <1>1. internal[o] = Cardinality(PointersIn(to, o))
    BY DEF CountsPointers, Pointers, PointersIn
  <1>2. Cardinality(PointersIn(to', o))
          = Cardinality(PointersIn(to, o)) - Same(to[d][f], o) + Same(v, o)
    <2>1. Redirected(to, d, f, v, to')
      BY DEF Tables, Redirected
    <2> QED BY <2>1, Redirect
  <1>3. to[d][f] # o
    BY ReferencesAssumption DEF Objects, None
  <1>4. internal'[o] = internal[o] + Same(v, o)
    BY DEF CountPointee, Same
  <1> QED BY <1>1, <1>2, <1>3, <1>4, PointersFinite DEF Same

LEMMA CountsAfterUnlink ==
  ASSUME CountsPointers, to \in Tables, internal \in [Objects -> Nat],
         NEW d \in Objects, NEW f \in Fields, to[d][f] # None,
         to' = [to EXCEPT ![d][f] = None],
         internal' = [internal EXCEPT ![to[d][f]] = internal[to[d][f]] - 1]
  PROVE  CountsPointers' /\ internal[to[d][f]] > 0
  <1>1. to[d][f] \in Objects
    BY DEF Tables
  <1>2. ASSUME NEW o \in Objects
        PROVE  internal[o] = Cardinality(PointersIn(to, o))
    BY <1>2 DEF CountsPointers, Pointers, PointersIn
  <1>3. ASSUME NEW o \in Objects
        PROVE  Cardinality(PointersIn(to', o))
                 = Cardinality(PointersIn(to, o)) - Same(to[d][f], o) + Same(None, o)
    <2>1. Redirected(to, d, f, None, to')
      BY DEF Tables, Redirected
    <2> QED BY <1>3, <2>1, Redirect
  <1>4. ASSUME NEW o \in Objects
        PROVE  internal'[o] = Cardinality(PointersIn(to', o))
    <2>1. Same(None, o) = 0
      BY <1>4, ReferencesAssumption DEF Objects, None, Same
    <2>2. internal'[o] = internal[o] - Same(to[d][f], o)
      <3>1. CASE to[d][f] = o
        BY <3>1, <1>4 DEF Same
      <3>2. CASE to[d][f] # o
        BY <3>2, <1>4 DEF Same
      <3> QED BY <3>1, <3>2
    <2>3. internal[o] = Cardinality(PointersIn(to, o))
      BY <1>2, <1>4
    <2>4. Cardinality(PointersIn(to', o))
            = Cardinality(PointersIn(to, o)) - Same(to[d][f], o) + Same(None, o)
      BY <1>3, <1>4
    <2>5. Same(to[d][f], o) \in Int /\ Cardinality(PointersIn(to, o)) \in Int
      BY PointersFinite DEF Same
    <2> QED BY <2>1, <2>2, <2>3, <2>4, <2>5
  <1>5. CountsPointers'
    BY <1>4 DEF CountsPointers, Pointers, PointersIn
  <1>6. Cardinality(PointersIn(to', to[d][f])) \in Nat
    BY PointersFinite
  <1>7. internal[to[d][f]] > 0
    BY <1>1, <1>4, <1>6
  <1> QED BY <1>5, <1>7

LEMMA CountsUnchanged ==
  ASSUME CountsPointers, to' = to, \A o \in Objects : internal'[o] = internal[o]
  PROVE  CountsPointers'
  BY DEF CountsPointers, Pointers

\* What is pointed to has a count, so it is neither empty nor being destroyed.
LEMMA PointeesCounted ==
  ASSUME CountTypeOK, CountsPointers, NEW d \in Objects, NEW f \in Fields, to[d][f] # None
  PROVE  to[d][f] \in Objects /\ internal[to[d][f]] > 0
  <1>1. to[d][f] \in Objects
    BY DEF CountTypeOK
  <1>2. <<d, f>> \in PointersIn(to, to[d][f])
    BY DEF PointersIn
  <1>3. Cardinality(PointersIn(to, to[d][f])) # 0
    BY <1>2, PointersFinite, FS_EmptySet
  <1>4. internal[to[d][f]] = Cardinality(PointersIn(to, to[d][f]))
    BY <1>1 DEF CountsPointers, Pointers, PointersIn
  <1> QED BY <1>1, <1>3, <1>4, PointersFinite

-----------------------------------------------------------------------------
(* CountsPointers is preserved.                                            *)

USE DEF IInv, TypeOK

LEMMA CreateEmpty ==
  ASSUME IInv, NEW o \in Objects, NEW k, Create(o, k)
  PROVE  external[o] = 0 /\ internal[o] = 0 /\ to[o] = NoFields
  BY DEF Create, FirstFree, NthFree, EmptySlots

LEMMA FirstField == 1 \in Fields
  BY ReferencesAssumption DEF Fields

LEMMA CountsOfRemoveNode ==
  ASSUME IInv, NEW n \in Objects, RemoveNode(n)
  PROVE  CountsPointers' /\ internal[n] > 0
  <1>1. PICK g \in Objects, f \in Fields, last \in Fields :
          /\ to[g][f] = n
          /\ to' = [to EXCEPT ![g][f] = to[g][last], ![g][last] = None]
    BY DEF RemoveNode
  <1> DEFINE middle == [to EXCEPT ![g][f] = to[g][last]]
  <1>2. to \in Tables /\ middle \in Tables /\ internal \in [Objects -> Nat]
    BY DEF CountTypeOK, Tables
  <1>3. Redirected(to, g, f, to[g][last], middle) /\ Redirected(middle, g, last, None, to')
    BY <1>1, <1>2 DEF Tables, Redirected
  <1>5. ASSUME NEW o \in Objects
        PROVE  internal'[o] = Cardinality(PointersIn(to', o))
    <2>1. Cardinality(PointersIn(to', o)) = Cardinality(PointersIn(to, o)) - Same(to[g][f], o)
      <3> HIDE DEF middle
      <3> QED BY <1>2, <1>3, <1>5, Replace
    <2>2. internal'[o] = internal[o] - Same(to[g][f], o)
      BY <1>1, <1>2, <1>5 DEF RemoveNode, Release, Same
    <2>3. internal[o] = Cardinality(PointersIn(to, o))
      BY <1>5 DEF CountsPointers, Pointers, PointersIn
    <2> QED BY <2>1, <2>2, <2>3
  <1>6. n # None
    BY ReferencesAssumption DEF Objects, None
  <1>7. internal[n] > 0
    BY <1>1, <1>6, PointeesCounted
  <1> QED BY <1>5, <1>7 DEF CountsPointers, Pointers, PointersIn

LEMMA LevelsDistinct ==
  ASSUME NEW o \in Objects, FirstFree(o), NEW level \in [Fields -> Objects],
         \A f \in Fields : NthFree(level[f], f)
  PROVE  \A f, g \in Fields : level[f] # o /\ (level[f] = level[g] => f = g)
  <1>1. \A f \in Fields : f # 0
    BY DEF Fields
  <1> QED BY <1>1 DEF FirstFree, NthFree

LEMMA CountsOfCreatePyramid ==
  ASSUME IInv, NEW o \in Objects, CreatePyramid(o)
  PROVE  CountsPointers'
  <1>1. PICK level \in [Fields -> Objects] :
          /\ \A f \in Fields : NthFree(level[f], f)
          /\ internal' = [p \in Objects |-> IF p \in {level[f] : f \in Fields} THEN 1 ELSE internal[p]]
          /\ to' = [to EXCEPT ![o] = level]
    BY DEF CreatePyramid
  <1>2. FirstFree(o) /\ to \in Tables /\ to[o] = NoFields
    BY DEF CreatePyramid, FirstFree, NthFree, EmptySlots, CountTypeOK, Tables
  <1>3. \A p \in Objects, f \in Fields : to'[p][f] = IF p = o THEN level[f] ELSE to[p][f]
    BY <1>1, <1>2 DEF Tables
  <1>4. \A f \in Fields : to[o][f] = None
    BY <1>2 DEF NoFields
  <1>5. ASSUME NEW p \in Objects
        PROVE  internal'[p] = Cardinality(PointersIn(to', p))
    <2>1. None # p
      BY <1>5, ReferencesAssumption DEF Objects, None
    <2>2. internal[p] = Cardinality(PointersIn(to, p))
      BY <1>5 DEF CountsPointers, Pointers, PointersIn
    <2>3. CASE p \in {level[f] : f \in Fields}
      <3>1. PICK f \in Fields : p = level[f]
        BY <2>3
      <3>2. kind[p] = "none"
        BY <1>1, <3>1 DEF NthFree
      <3>3. internal[p] = 0
        BY <1>5, <3>2 DEF EmptySlots
      <3>4. PointersIn(to, p) = {}
        BY <2>2, <3>3, PointersFinite, FS_EmptySet
      <3>5. \A g \in Fields : level[g] = p => g = f
        BY <1>1, <1>2, <3>1, LevelsDistinct
      <3>6. PointersIn(to', p) = {<<o, f>>}
        BY <1>3, <3>1, <3>4, <3>5 DEF PointersIn
      <3> QED BY <1>1, <1>5, <2>3, <3>6, FS_Singleton
    <2>4. CASE p \notin {level[f] : f \in Fields}
      <3>1. PointersIn(to', p) = PointersIn(to, p)
        BY <1>3, <1>4, <2>1, <2>4 DEF PointersIn
      <3> QED BY <1>1, <1>5, <2>2, <2>4, <3>1
    <2> QED BY <2>3, <2>4
  <1> QED BY <1>5 DEF CountsPointers, Pointers, PointersIn

LEMMA CountsStep ==
  ASSUME IInv, [Next]_vars
  PROVE  CountsPointers'
  <1> USE DEF CountTypeOK, Tables
  <1>1. ASSUME NEW o \in Objects, CreateGraph(o)
        PROVE  CountsPointers'
    BY <1>1, CountsUnchanged DEF CreateGraph
  <1>2. ASSUME NEW o \in Objects, NEW h \in Handles, CreateImageFromHandle(o, h)
        PROVE  CountsPointers'
    BY <1>2, CountsUnchanged DEF CreateImageFromHandle
  <1>3. ASSUME NEW o \in Objects, NEW i \in Objects, CreateImageFromROI(o, i)
        PROVE  CountsPointers'
    <2>1. Create(o, "image") /\ to' = [to EXCEPT ![o][1] = i] /\ internal' = CountPointee(i)
      BY <1>3 DEF CreateImageFromROI
    <2>2. to[o][1] = None
      BY <2>1, <1>3, CreateEmpty, FirstField DEF NoFields
    <2> QED BY <1>3, <2>1, <2>2, CountsAfterLink, FirstField
  <1>4. ASSUME NEW o \in Objects, NEW n \in Objects, GetParameterByIndex(o, n)
        PROVE  CountsPointers'
    <2>1. Create(o, "parameter") /\ to' = [to EXCEPT ![o][1] = n] /\ internal' = CountPointee(n)
      BY <1>4 DEF GetParameterByIndex
    <2>2. to[o][1] = None
      BY <2>1, <1>4, CreateEmpty, FirstField DEF NoFields
    <2> QED BY <1>4, <2>1, <2>2, CountsAfterLink, FirstField
  <1>5. ASSUME NEW o \in Objects, NEW g \in Objects, NEW f \in Fields, CreateGenericNode(o, g, f)
        PROVE  CountsPointers'
    BY <1>5, CountsAfterLink DEF CreateGenericNode
  <1>6. ASSUME NEW o \in Objects, CreatePyramid(o)
        PROVE  CountsPointers'
    BY <1>6, CountsOfCreatePyramid
  <1>7. ASSUME NEW o \in Objects, Obtain(o)
        PROVE  CountsPointers'
    BY <1>7, CountsUnchanged DEF Obtain
  <1>8. ASSUME NEW o \in Objects, ReleaseReference(o)
        PROVE  CountsPointers'
    BY <1>8, CountsUnchanged DEF ReleaseReference, Release
  <1>9. ASSUME NEW n \in Objects, RemoveNode(n)
        PROVE  CountsPointers'
    BY <1>9, CountsOfRemoveNode
  <1>10. ASSUME NEW n \in Objects, NEW f \in Fields, NEW v \in Objects, SetParameter(n, f, v)
         PROVE  CountsPointers'
    <2>1. CASE to[n][f] = None
      <3>1. to' = to /\ internal' = internal
        BY <1>10, <2>1 DEF SetParameter, counts
      <3> QED BY <3>1, CountsUnchanged
    <2>2. CASE to[n][f] # None
      BY <1>10, <2>2, CountsAfterUnlink DEF SetParameter, Release
    <2> QED BY <2>1, <2>2
  <1>11. ASSUME FinishSetParameter
         PROVE  CountsPointers'
    <2>1. call.node \in Objects /\ call.index \in Fields /\ call.value \in Objects
      BY <1>11 DEF FinishSetParameter, SetInProgress, CallTypeOK
    <2>2. to[call.node][call.index] = None
      BY <1>11 DEF FinishSetParameter, SetInProgress
    <2> QED BY <1>11, <2>1, <2>2, CountsAfterLink DEF FinishSetParameter
  <1>12. ASSUME NEW d \in Objects, NEW f \in Fields, Destruct(d, f)
         PROVE  CountsPointers'
    BY <1>12, CountsAfterUnlink DEF Destruct, Release
  <1>13. ASSUME NEW d \in Objects, Free(d)
         PROVE  CountsPointers'
    BY <1>13, CountsUnchanged DEF Free
  <1>14. ASSUME NEW o \in Objects, NEW h \in Handles, SwapImageHandle(o, h)
         PROVE  CountsPointers'
    BY <1>14, CountsUnchanged DEF SwapImageHandle, counts
  <1>15. ASSUME Collect
         PROVE  CountsPointers'
    BY <1>15, CountsUnchanged DEF Collect, Release, counts
  <1>16. ASSUME ReleaseContext \/ Collected \/ UNCHANGED vars
         PROVE  CountsPointers'
    BY <1>16, CountsUnchanged DEF ReleaseContext, Collected, vars, counts
  <1> QED
    BY <1>1, <1>2, <1>3, <1>4, <1>5, <1>6, <1>7, <1>8, <1>9, <1>10, <1>11, <1>12, <1>13,
       <1>14, <1>15, <1>16 DEF Next, Application

-----------------------------------------------------------------------------
(* TypeOK is preserved.                                                    *)

CountersOK ==
  /\ external \in [Objects -> 0 .. MaxExternal]
  /\ internal \in [Objects -> Nat]
  /\ dying \in SUBSET Objects

LEMMA ReleaseType ==
  ASSUME CountersOK, NEW o \in Objects, NEW e \in 0 .. MaxExternal, NEW i \in Nat,
         Release(o, e, i)
  PROVE  CountersOK'
  BY DEF CountersOK, Release

LEMMA LinkType ==
  ASSUME CountTypeOK, NEW p \in Objects, internal' = CountPointee(p)
  PROVE  internal' \in [Objects -> Nat]
  BY DEF CountTypeOK, CountPointee

LEMMA CreateType ==
  ASSUME CountTypeOK, NEW o \in Objects, NEW k \in Kinds, Create(o, k),
         internal' \in [Objects -> Nat], to' \in Tables
  PROVE  CountTypeOK'
  <1>1. kind' \in [Objects -> Kinds \cup {"none"}]
    BY DEF CountTypeOK, Create
  <1>2. external' \in [Objects -> 0 .. MaxExternal]
    BY ReferencesAssumption DEF CountTypeOK, Create
  <1>3. dying' \in SUBSET Objects
    BY DEF CountTypeOK, Create
  <1> QED BY <1>1, <1>2, <1>3 DEF CountTypeOK, Tables

LEMMA CountTypeStep ==
  ASSUME IInv, [Next]_vars
  PROVE  CountTypeOK'
  <1> USE ReferencesAssumption, FirstField
  <1>a. CountersOK /\ to \in Tables /\ kind \in [Objects -> Kinds \cup {"none"}]
    BY DEF CountersOK, CountTypeOK, Tables
  <1>b. ASSUME CountersOK', to' \in Tables, kind' \in [Objects -> Kinds \cup {"none"}]
        PROVE  CountTypeOK'
    BY <1>b DEF CountersOK, CountTypeOK, Tables
  <1>1. ASSUME NEW o \in Objects, CreateGraph(o)
        PROVE  CountTypeOK'
    BY <1>a, <1>1, CreateType DEF CreateGraph, CountersOK, Kinds
  <1>2. ASSUME NEW o \in Objects, NEW h \in Handles, CreateImageFromHandle(o, h)
        PROVE  CountTypeOK'
    BY <1>a, <1>2, CreateType DEF CreateImageFromHandle, CountersOK, Kinds
  <1>3. ASSUME NEW o \in Objects, NEW i \in Objects, CreateImageFromROI(o, i)
        PROVE  CountTypeOK'
    <2>1. to' \in Tables
      BY <1>a, <1>3 DEF CreateImageFromROI, Tables
    <2> QED BY <1>a, <1>3, <2>1, CreateType, LinkType DEF CreateImageFromROI, Kinds
  <1>4. ASSUME NEW o \in Objects, NEW n \in Objects, GetParameterByIndex(o, n)
        PROVE  CountTypeOK'
    <2>1. to' \in Tables
      BY <1>a, <1>4 DEF GetParameterByIndex, Tables
    <2> QED BY <1>a, <1>4, <2>1, CreateType, LinkType DEF GetParameterByIndex, Kinds
  <1>5. ASSUME NEW o \in Objects, NEW g \in Objects, NEW f \in Fields, CreateGenericNode(o, g, f)
        PROVE  CountTypeOK'
    <2>1. to' \in Tables
      BY <1>a, <1>5 DEF CreateGenericNode, Tables
    <2> QED BY <1>a, <1>5, <2>1, CreateType, LinkType DEF CreateGenericNode, Kinds
  <1>6. ASSUME NEW o \in Objects, CreatePyramid(o)
        PROVE  CountTypeOK'
    <2>1. CountersOK'
      BY <1>a, <1>6 DEF CreatePyramid, CountersOK
    <2>2. to' \in Tables
      BY <1>a, <1>6 DEF CreatePyramid, Tables
    <2>3. kind' \in [Objects -> Kinds \cup {"none"}]
      BY <1>a, <1>6 DEF CreatePyramid, Kinds
    <2> QED BY <1>b, <2>1, <2>2, <2>3
  <1>7. ASSUME NEW o \in Objects, Obtain(o)
        PROVE  CountTypeOK'
    <2>1. CountersOK'
      BY <1>a, <1>7 DEF Obtain, CountersOK
    <2> QED BY <1>a, <1>b, <1>7, <2>1 DEF Obtain
  <1>8. ASSUME NEW o \in Objects, ReleaseReference(o)
        PROVE  CountTypeOK'
    <2>1. external[o] - 1 \in 0 .. MaxExternal /\ internal[o] \in Nat
      BY <1>a, <1>8 DEF ReleaseReference, Held, CountersOK
    <2>2. CountersOK'
      BY <1>a, <1>8, <2>1, ReleaseType DEF ReleaseReference
    <2> QED BY <1>a, <1>b, <1>8, <2>2 DEF ReleaseReference
  <1>9. ASSUME NEW n \in Objects, RemoveNode(n)
        PROVE  CountTypeOK'
    <2>1. external[n] - 1 \in 0 .. MaxExternal
      BY <1>a, <1>9 DEF RemoveNode, Held, CountersOK
    <2>2. internal[n] - 1 \in Nat
      BY <1>a, <1>9, CountsOfRemoveNode DEF CountersOK
    <2>3. CountersOK'
      BY <1>a, <1>9, <2>1, <2>2, ReleaseType DEF RemoveNode
    <2>4. to' \in Tables
      BY <1>a, <1>9 DEF RemoveNode, Tables
    <2> QED BY <1>a, <1>b, <1>9, <2>3, <2>4 DEF RemoveNode
  <1>10. ASSUME NEW n \in Objects, NEW f \in Fields, NEW v \in Objects, SetParameter(n, f, v)
         PROVE  CountTypeOK'
    <2>1. CountersOK'
      <3>1. CASE to[n][f] = None
        BY <1>a, <1>10, <3>1 DEF SetParameter, CountersOK, counts
      <3>2. CASE to[n][f] # None
        <4>1. to[n][f] \in Objects /\ internal[to[n][f]] > 0
          BY <3>2, PointeesCounted
        <4>2. external[to[n][f]] \in 0 .. MaxExternal /\ internal[to[n][f]] - 1 \in Nat
          BY <1>a, <4>1 DEF CountersOK
        <4> QED BY <1>a, <1>10, <3>2, <4>1, <4>2, ReleaseType DEF SetParameter
      <3> QED BY <3>1, <3>2
    <2>2. to' \in Tables
      BY <1>a, <1>10 DEF SetParameter, Tables
    <2> QED BY <1>a, <1>b, <1>10, <2>1, <2>2 DEF SetParameter
  <1>11. ASSUME FinishSetParameter
         PROVE  CountTypeOK'
    <2>1. call.value \in Objects
      BY <1>11 DEF FinishSetParameter, SetInProgress
    <2>2. CountersOK'
      BY <1>a, <1>11, <2>1, LinkType DEF FinishSetParameter, CountersOK
    <2>3. to' \in Tables
      BY <1>a, <1>11, <2>1 DEF FinishSetParameter, Tables
    <2> QED BY <1>a, <1>b, <1>11, <2>2, <2>3 DEF FinishSetParameter
  <1>12. ASSUME NEW d \in Objects, NEW f \in Fields, Destruct(d, f)
         PROVE  CountTypeOK'
    <2>1. to[d][f] \in Objects /\ internal[to[d][f]] > 0
      BY <1>12, PointeesCounted DEF Destruct
    <2>2. ExternalLeft(d, to[d][f]) \in 0 .. MaxExternal /\ internal[to[d][f]] - 1 \in Nat
      BY <1>a, <2>1 DEF CountersOK, ExternalLeft
    <2>3. CountersOK'
      BY <1>a, <1>12, <2>1, <2>2, ReleaseType DEF Destruct
    <2>4. to' \in Tables
      BY <1>a, <1>12 DEF Destruct, Tables
    <2> QED BY <1>a, <1>b, <1>12, <2>3, <2>4 DEF Destruct
  <1>13. ASSUME NEW d \in Objects, Free(d)
         PROVE  CountTypeOK'
    BY <1>a, <1>b, <1>13 DEF Free, CountersOK
  <1>14. ASSUME Collect
         PROVE  CountTypeOK'
    <2>1. CASE Held(r)
      <3>1. r \in Objects /\ ExternalCollected(r) \in 0 .. MaxExternal /\ internal[r] \in Nat
        BY <1>a, <1>14 DEF Collect, ExternalCollected, CountersOK
      <3>2. CountersOK'
        BY <1>a, <1>14, <2>1, <3>1, ReleaseType DEF Collect
      <3> QED BY <1>a, <1>b, <1>14, <3>2 DEF Collect
    <2>2. CASE ~Held(r)
      BY <1>14, <2>2 DEF Collect, CountTypeOK, counts
    <2> QED BY <2>1, <2>2
  <1>15. ASSUME UNCHANGED <<kind, counts, to>>
         PROVE  CountTypeOK'
    BY <1>15 DEF CountTypeOK, counts
  <1>16. ASSUME NEW o \in Objects, NEW h \in Handles, SwapImageHandle(o, h)
         PROVE  CountTypeOK'
    BY <1>15, <1>16 DEF SwapImageHandle
  <1>17. ASSUME ReleaseContext \/ Collected \/ UNCHANGED vars
         PROVE  CountTypeOK'
    BY <1>15, <1>17 DEF ReleaseContext, Collected, vars
  <1> QED
    BY <1>1, <1>2, <1>3, <1>4, <1>5, <1>6, <1>7, <1>8, <1>9, <1>10, <1>11, <1>12, <1>13,
       <1>14, <1>16, <1>17 DEF Next, Application

LEMMA ImageTypeStep ==
  ASSUME IInv, [Next]_vars
  PROVE  ImageTypeOK'
  <1> USE DEF ImageTypeOK
  <1>1. ASSUME UNCHANGED images
        PROVE  ImageTypeOK'
    BY <1>1 DEF images
  <1>2. ASSUME NEW o \in Objects, NEW h \in Handles, CreateImageFromHandle(o, h)
        PROVE  ImageTypeOK'
    BY <1>2 DEF CreateImageFromHandle
  <1>3. ASSUME NEW o \in Objects, NEW i \in Objects, CreateImageFromROI(o, i)
        PROVE  ImageTypeOK'
    BY <1>3 DEF CreateImageFromROI
  <1>4. ASSUME NEW o \in Objects, ReleaseReference(o)
        PROVE  ImageTypeOK'
    BY <1>4 DEF ReleaseReference, Listing
  <1>5. ASSUME NEW d \in Objects, Free(d)
        PROVE  ImageTypeOK'
    BY <1>5 DEF Free
  <1>6. ASSUME NEW o \in Objects, NEW h \in Handles, SwapImageHandle(o, h)
        PROVE  ImageTypeOK'
    BY <1>6 DEF SwapImageHandle
  <1>7. ASSUME NEW o \in Objects, NEW p \in Objects, NEW f \in Fields,
               \/ CreateGraph(o) \/ CreatePyramid(o) \/ GetParameterByIndex(o, p)
               \/ CreateGenericNode(o, p, f) \/ SetParameter(o, f, p)
               \/ Obtain(o) \/ RemoveNode(o) \/ Destruct(o, f)
        PROVE  ImageTypeOK'
    BY <1>1, <1>7 DEF CreateGraph, CreatePyramid, GetParameterByIndex, CreateGenericNode,
                      SetParameter, Obtain, RemoveNode, Destruct
  <1>8. ASSUME ReleaseContext \/ FinishSetParameter \/ Collect \/ Collected \/ UNCHANGED vars
        PROVE  ImageTypeOK'
    BY <1>1, <1>8 DEF ReleaseContext, FinishSetParameter, Collect, Collected, vars
  <1> QED
    BY <1>2, <1>3, <1>4, <1>5, <1>6, <1>7, <1>8, FirstField DEF Next, Application

LEMMA CallTypeStep ==
  ASSUME IInv, [Next]_vars
  PROVE  CallTypeOK'
  <1> USE DEF CallTypeOK
  <1>1. ASSUME UNCHANGED <<pc, call, r>>
        PROVE  CallTypeOK'
    BY <1>1
  <1>2. ASSUME NEW n \in Objects, NEW f \in Fields, NEW v \in Objects, SetParameter(n, f, v)
        PROVE  CallTypeOK'
    BY <1>2 DEF SetParameter
  <1>3. ASSUME FinishSetParameter
        PROVE  CallTypeOK'
    BY <1>3, FirstField DEF FinishSetParameter, NoCall
  <1>4. ASSUME ReleaseContext
        PROVE  CallTypeOK'
    BY <1>4, ReferencesAssumption DEF ReleaseContext
  <1>5. ASSUME Collect
        PROVE  CallTypeOK'
    BY <1>5, ReferencesAssumption DEF Collect, Objects
  <1>6. ASSUME Collected
        PROVE  CallTypeOK'
    BY <1>6 DEF Collected
  <1>7. ASSUME NEW o \in Objects, NEW p \in Objects, NEW f \in Fields,
               \/ CreateGraph(o) \/ CreatePyramid(o) \/ GetParameterByIndex(o, p)
               \/ CreateGenericNode(o, p, f) \/ CreateImageFromROI(o, p)
               \/ Obtain(o) \/ ReleaseReference(o) \/ RemoveNode(o)
               \/ Destruct(o, f) \/ Free(o)
        PROVE  CallTypeOK'
    BY <1>1, <1>7 DEF CreateGraph, CreatePyramid, GetParameterByIndex, CreateGenericNode, Create,
                      CreateImageFromROI, Obtain, ReleaseReference, RemoveNode, Destruct, Free
  <1>8. ASSUME NEW o \in Objects, NEW h \in Handles,
               CreateImageFromHandle(o, h) \/ SwapImageHandle(o, h)
        PROVE  CallTypeOK'
    BY <1>1, <1>8 DEF CreateImageFromHandle, SwapImageHandle, Create
  <1>9. ASSUME UNCHANGED vars
        PROVE  CallTypeOK'
    BY <1>1, <1>9 DEF vars
  <1> QED
    BY <1>2, <1>3, <1>4, <1>5, <1>6, <1>7, <1>8, <1>9, FirstField DEF Next, Application

-----------------------------------------------------------------------------
(* EmptySlots, Destroyed and Referenced are preserved.                     *)

Slots == EmptySlots /\ Destroyed /\ Referenced

\* An object with a reference is neither empty nor being destroyed.
LEMMA CountedAlive ==
  ASSUME IInv, NEW o \in Objects, external[o] > 0 \/ internal[o] > 0
  PROVE  kind[o] # "none" /\ o \notin dying
  <1>1. external[o] \in Nat /\ internal[o] \in Nat
    BY ReferencesAssumption DEF CountTypeOK
  <1>2. kind[o] # "none"
    BY <1>1 DEF EmptySlots
  <1>3. o \notin dying
    BY <1>1 DEF Destroyed
  <1> QED BY <1>2, <1>3

LEMMA ReleaseSlots ==
  ASSUME CountTypeOK, Slots, NEW o \in Objects, kind[o] # "none", o \notin dying,
         NEW e \in Nat, NEW i \in Nat, Release(o, e, i), kind' = kind,
         \A p \in Objects : kind[p] = "none" => to'[p] = to[p]
  PROVE  Slots'
  <1>1. \A p \in Objects : /\ external'[p] = IF p = o THEN e ELSE external[p]
                           /\ internal'[p] = IF p = o THEN i ELSE internal[p]
    BY DEF CountTypeOK, Release
  <1>2. EmptySlots'
    BY <1>1 DEF Slots, EmptySlots
  <1>3. \A p \in Objects : p \in dying' <=> p \in dying \/ (p = o /\ e + i = 0)
    BY DEF Release
  <1>4. dying' \subseteq Objects
    BY DEF Release, CountTypeOK
  <1>5. Destroyed'
    BY <1>1, <1>3, <1>4 DEF Slots, Destroyed
  <1>6. Referenced'
    BY <1>1, <1>3 DEF Slots, Referenced
  <1> QED BY <1>2, <1>5, <1>6 DEF Slots

LEMMA CountSlots ==
  ASSUME CountTypeOK, Slots, NEW p \in Objects, kind[p] # "none", dying = {}, dying' = dying,
         internal' = CountPointee(p), external' = external, kind' = kind,
         \A o \in Objects : kind[o] = "none" => to'[o] = to[o]
  PROVE  Slots'
  <1>1. \A o \in Objects : internal[o] \in Nat /\ external[o] \in Nat
    BY ReferencesAssumption DEF CountTypeOK
  <1>2. \A o \in Objects : internal'[o] = IF o = p THEN internal[o] + 1 ELSE internal[o]
    BY DEF CountTypeOK, CountPointee
  <1>3. EmptySlots'
    BY <1>2 DEF Slots, EmptySlots
  <1>4. Destroyed'
    BY DEF Destroyed
  <1>5. Referenced'
    BY <1>1, <1>2 DEF Slots, Referenced
  <1> QED BY <1>3, <1>4, <1>5 DEF Slots

LEMMA CreateSlots ==
  ASSUME CountTypeOK, Slots, NEW o \in Objects, NEW k \in Kinds, Create(o, k),
         \A p \in Objects : internal'[p] = internal[p]
                           \/ (kind'[p] # "none" /\ internal'[p] = internal[p] + 1),
         \A p \in Objects : kind'[p] = "none" => to'[p] = to[p]
  PROVE  Slots'
  <1>1. \A p \in Objects : internal[p] \in Nat /\ external[p] \in Nat
    BY ReferencesAssumption DEF CountTypeOK
  <1>2. k # "none"
    BY DEF Kinds
  <1>3. \A p \in Objects : /\ kind'[p] = IF p = o THEN k ELSE kind[p]
                           /\ external'[p] = IF p = o THEN 1 ELSE external[p]
    BY DEF CountTypeOK, Create
  <1>4. EmptySlots'
    BY <1>2, <1>3 DEF Slots, EmptySlots
  <1>5. dying' = {}
    BY DEF Create, Idle
  <1>6. Destroyed'
    BY <1>5 DEF Destroyed
  <1>7. Referenced'
    <2> SUFFICES ASSUME NEW p \in Objects, kind'[p] # "none"
                 PROVE  external'[p] + internal'[p] > 0
      BY DEF Referenced
    <2>1. internal'[p] \in Nat /\ internal'[p] >= internal[p]
      BY <1>1
    <2>2. CASE p = o
      BY <1>3, <2>1, <2>2
    <2>3. CASE p # o
      <3>1. external[p] + internal[p] > 0
        BY <1>3, <2>3 DEF Slots, Referenced, Create, Idle
      <3> QED BY <1>1, <1>3, <2>1, <2>3, <3>1
    <2> QED BY <2>2, <2>3
  <1> QED BY <1>4, <1>6, <1>7 DEF Slots

LEMMA SlotsOfCreatePyramid ==
  ASSUME IInv, NEW o \in Objects, CreatePyramid(o)
  PROVE  Slots'
  <1>1. PICK levels \in SUBSET Objects :
          /\ \A p \in levels : kind[p] = "none"
          /\ kind' = [p \in Objects |-> IF p = o THEN "pyramid"
                                        ELSE IF p \in levels THEN "image" ELSE kind[p]]
          /\ internal' = [p \in Objects |-> IF p \in levels THEN 1 ELSE internal[p]]
    <2>1. PICK level \in [Fields -> Objects] :
            LET levels == {level[f] : f \in Fields} IN
            /\ \A f \in Fields : NthFree(level[f], f)
            /\ kind' = [p \in Objects |-> IF p = o THEN "pyramid"
                                          ELSE IF p \in levels THEN "image" ELSE kind[p]]
            /\ internal' = [p \in Objects |-> IF p \in levels THEN 1 ELSE internal[p]]
      BY DEF CreatePyramid
    <2> DEFINE levels == {level[f] : f \in Fields}
    <2>2. levels \in SUBSET Objects /\ \A p \in levels : kind[p] = "none"
      BY <2>1 DEF NthFree
    <2> QED BY <2>1, <2>2
  <1>2. \A p \in Objects : /\ p # o => to'[p] = to[p]
                           /\ external'[p] = IF p = o THEN 1 ELSE external[p]
    BY DEF CreatePyramid, CountTypeOK
  <1>3. \A p \in Objects : internal[p] \in Nat /\ external[p] \in Nat
    BY ReferencesAssumption DEF CountTypeOK
  <1>4. dying = {} /\ dying' = {}
    BY DEF CreatePyramid, Idle
  <1>5. EmptySlots'
    BY <1>1, <1>2 DEF EmptySlots
  <1>6. Destroyed'
    BY <1>4 DEF Destroyed
  <1>7. Referenced'
    <2> SUFFICES ASSUME NEW p \in Objects, kind'[p] # "none"
                 PROVE  external'[p] + internal'[p] > 0
      BY DEF Referenced
    <2>1. CASE p = o
      BY <1>1, <1>2, <1>3, <2>1
    <2>2. CASE p # o /\ p \in levels
      BY <1>1, <1>2, <1>3, <2>2
    <2>3. CASE p # o /\ p \notin levels
      BY <1>1, <1>2, <1>4, <2>3 DEF Referenced
    <2> QED BY <2>1, <2>2, <2>3
  <1> QED BY <1>5, <1>6, <1>7 DEF Slots

LEMMA SlotsStep ==
  ASSUME IInv, [Next]_vars
  PROVE  Slots'
  <1> USE ReferencesAssumption, FirstField
  <1>a. CountTypeOK /\ Slots /\ to \in Tables
    BY DEF Slots, CountTypeOK, Tables
  <1>b. \A o \in Objects : external[o] \in 0 .. MaxExternal /\ internal[o] \in Nat
    BY DEF CountTypeOK
  <1>1. ASSUME NEW o \in Objects, CreateGraph(o)
        PROVE  Slots'
    BY <1>a, <1>1, CreateSlots DEF CreateGraph, Kinds
  <1>2. ASSUME NEW o \in Objects, NEW h \in Handles, CreateImageFromHandle(o, h)
        PROVE  Slots'
    BY <1>a, <1>2, CreateSlots DEF CreateImageFromHandle, Kinds
  <1>3. ASSUME NEW o \in Objects, NEW i \in Objects, CreateImageFromROI(o, i)
        PROVE  Slots'
    <2>1. Create(o, "image") /\ kind[i] = "image"
      BY <1>3 DEF CreateImageFromROI
    <2>2. \A p \in Objects : kind'[p] = "none" => to'[p] = to[p]
      BY <1>a, <1>3, <2>1 DEF CreateImageFromROI, Create, CountTypeOK, Tables
    <2>3. \A p \in Objects : internal'[p] = internal[p]
                            \/ (kind'[p] # "none" /\ internal'[p] = internal[p] + 1)
      BY <1>a, <1>3, <2>1 DEF CreateImageFromROI, Create, CountTypeOK, CountPointee
    <2> QED BY <1>a, <1>3, <2>1, <2>2, <2>3, CreateSlots DEF Kinds
  <1>4. ASSUME NEW o \in Objects, NEW n \in Objects, GetParameterByIndex(o, n)
        PROVE  Slots'
    <2>1. Create(o, "parameter") /\ kind[n] = "node"
      BY <1>4 DEF GetParameterByIndex
    <2>2. \A p \in Objects : kind'[p] = "none" => to'[p] = to[p]
      BY <1>a, <1>4, <2>1 DEF GetParameterByIndex, Create, CountTypeOK, Tables
    <2>3. \A p \in Objects : internal'[p] = internal[p]
                            \/ (kind'[p] # "none" /\ internal'[p] = internal[p] + 1)
      BY <1>a, <1>4, <2>1 DEF GetParameterByIndex, Create, CountTypeOK, CountPointee
    <2> QED BY <1>a, <1>4, <2>1, <2>2, <2>3, CreateSlots DEF Kinds
  <1>5. ASSUME NEW o \in Objects, NEW g \in Objects, NEW f \in Fields, CreateGenericNode(o, g, f)
        PROVE  Slots'
    <2>1. Create(o, "node") /\ kind[g] = "graph"
      BY <1>5 DEF CreateGenericNode
    <2>2. \A p \in Objects : kind'[p] = "none" => to'[p] = to[p]
      BY <1>a, <1>5, <2>1 DEF CreateGenericNode, Create, CountTypeOK, Tables
    <2>3. \A p \in Objects : internal'[p] = internal[p]
                            \/ (kind'[p] # "none" /\ internal'[p] = internal[p] + 1)
      BY <1>a, <1>5, <2>1 DEF CreateGenericNode, Create, CountTypeOK, CountPointee
    <2> QED BY <1>a, <1>5, <2>1, <2>2, <2>3, CreateSlots DEF Kinds
  <1>6. ASSUME NEW o \in Objects, CreatePyramid(o)
        PROVE  Slots'
    BY <1>6, SlotsOfCreatePyramid
  <1>7. ASSUME NEW o \in Objects, Obtain(o)
        PROVE  Slots'
    <2>1. kind[o] # "none" /\ o \notin dying
      <3>1. CASE Held(o)
        BY <3>1, <1>7 DEF Held, Obtain, Idle
      <3>2. ASSUME NEW p \in Objects, NEW f \in Fields, to[p][f] = o
            PROVE  kind[o] # "none" /\ o \notin dying
        <4>1. o # None
          BY <1>7 DEF Objects, None
        <4>2. internal[o] > 0
          BY <3>2, <4>1, PointeesCounted
        <4> QED BY <1>7, <4>2, CountedAlive
      <3>3. ASSUME NEW p \in Objects, to[p][1] # None
            PROVE  to[p][1] \in Objects
        BY <1>a, <3>3 DEF Tables
      <3> QED BY <1>7, <3>1, <3>2, <3>3 DEF Obtain, Reachable
    <2>2. external[o] + 1 \in Nat /\ internal[o] \in Nat
      BY <1>b, <1>7
    <2>3. Release(o, external[o] + 1, internal[o])
      BY <1>a, <1>b, <1>7, <2>2 DEF Obtain, Release, CountTypeOK
    <2> QED BY <1>a, <1>7, <2>1, <2>2, <2>3, ReleaseSlots DEF Obtain
  <1>8. ASSUME NEW o \in Objects, ReleaseReference(o)
        PROVE  Slots'
    <2>1. kind[o] # "none" /\ o \notin dying
      BY <1>8 DEF ReleaseReference, Held, Idle
    <2>2. external[o] - 1 \in Nat /\ internal[o] \in Nat
      BY <1>b, <1>8 DEF ReleaseReference, Held
    <2> QED BY <1>a, <1>8, <2>1, <2>2, ReleaseSlots DEF ReleaseReference
  <1>9. ASSUME NEW n \in Objects, RemoveNode(n)
        PROVE  Slots'
    <2>1. kind[n] # "none" /\ n \notin dying
      BY <1>9 DEF RemoveNode, Held, Idle
    <2>2. external[n] - 1 \in Nat
      BY <1>b, <1>9 DEF RemoveNode, Held
    <2>3. internal[n] - 1 \in Nat
      BY <1>b, <1>9, CountsOfRemoveNode
    <2>4. \A p \in Objects : kind[p] = "none" => to'[p] = to[p]
      BY <1>a, <1>9 DEF RemoveNode, Tables
    <2> QED BY <1>a, <1>9, <2>1, <2>2, <2>3, <2>4, ReleaseSlots DEF RemoveNode
  <1>10. ASSUME NEW n \in Objects, NEW f \in Fields, NEW v \in Objects, SetParameter(n, f, v)
         PROVE  Slots'
    <2>1. \A p \in Objects : kind[p] = "none" => to'[p] = to[p]
      BY <1>a, <1>10 DEF SetParameter, Tables
    <2>2. CASE to[n][f] = None
      BY <1>a, <1>10, <2>1, <2>2 DEF SetParameter, Slots, EmptySlots, Destroyed, Referenced, counts
    <2>3. CASE to[n][f] # None
      <3>1. to[n][f] \in Objects /\ internal[to[n][f]] > 0
        BY <2>3, PointeesCounted
      <3>2. kind[to[n][f]] # "none" /\ to[n][f] \notin dying
        BY <3>1, CountedAlive
      <3>3. external[to[n][f]] \in Nat /\ internal[to[n][f]] - 1 \in Nat
        BY <1>b, <3>1
      <3> QED BY <1>a, <1>10, <2>1, <2>3, <3>1, <3>2, <3>3, ReleaseSlots DEF SetParameter
    <2> QED BY <2>2, <2>3
  <1>11. ASSUME FinishSetParameter
         PROVE  Slots'
    <2>1. call.value \in Objects /\ kind[call.value] # "none" /\ kind[call.node] = "node"
      BY <1>11 DEF FinishSetParameter, SetInProgress
    <2>2. \A p \in Objects : kind[p] = "none" => to'[p] = to[p]
      BY <1>a, <1>11, <2>1 DEF FinishSetParameter, Tables
    <2> QED BY <1>a, <1>11, <2>1, <2>2, CountSlots DEF FinishSetParameter
  <1>12. ASSUME NEW d \in Objects, NEW f \in Fields, Destruct(d, f)
         PROVE  Slots'
    <2>1. to[d][f] \in Objects /\ internal[to[d][f]] > 0
      BY <1>12, PointeesCounted DEF Destruct
    <2>2. kind[to[d][f]] # "none" /\ to[d][f] \notin dying
      BY <2>1, CountedAlive
    <2>3. ExternalLeft(d, to[d][f]) \in Nat /\ internal[to[d][f]] - 1 \in Nat
      BY <1>b, <2>1 DEF ExternalLeft
    <2>4. kind[d] # "none"
      BY <1>12 DEF Destruct, Destroyed
    <2>5. \A p \in Objects : kind[p] = "none" => to'[p] = to[p]
      BY <1>a, <1>12, <2>4 DEF Destruct, Tables
    <2> QED BY <1>a, <1>12, <2>1, <2>2, <2>3, <2>5, ReleaseSlots DEF Destruct
  <1>13. ASSUME NEW d \in Objects, Free(d)
         PROVE  Slots'
    <2>1. external[d] = 0 /\ internal[d] = 0 /\ to[d] = NoFields
      BY <1>b, <1>13 DEF Free, Destroyed
    <2>2. \A p \in Objects : kind'[p] = IF p = d THEN "none" ELSE kind[p]
      BY <1>a, <1>13 DEF Free, CountTypeOK
    <2> QED BY <1>a, <1>13, <2>1, <2>2 DEF Free, Slots, EmptySlots, Destroyed, Referenced, CountTypeOK
  <1>14. ASSUME Collect
         PROVE  Slots'
    <2>1. CASE Held(r)
      <3>1. /\ r \in Objects /\ kind[r] # "none" /\ r \notin dying
            /\ ExternalCollected(r) \in Nat /\ internal[r] \in Nat
        BY <1>b, <1>14, <2>1 DEF Collect, Held, ExternalCollected
      <3> QED BY <1>a, <1>14, <2>1, <3>1, ReleaseSlots DEF Collect
    <2>2. CASE ~Held(r)
      BY <1>a, <1>14, <2>2 DEF Collect, counts, Slots, EmptySlots, Destroyed, Referenced
    <2> QED BY <2>1, <2>2
  <1>15. ASSUME UNCHANGED <<kind, counts, to>>
         PROVE  Slots'
    BY <1>a, <1>15 DEF counts, Slots, EmptySlots, Destroyed, Referenced
  <1>16. ASSUME NEW o \in Objects, NEW h \in Handles, SwapImageHandle(o, h)
         PROVE  Slots'
    BY <1>15, <1>16 DEF SwapImageHandle
  <1>17. ASSUME ReleaseContext \/ Collected \/ UNCHANGED vars
         PROVE  Slots'
    BY <1>15, <1>17 DEF ReleaseContext, Collected, vars
  <1> QED
    BY <1>1, <1>2, <1>3, <1>4, <1>5, <1>6, <1>7, <1>8, <1>9, <1>10, <1>11, <1>12, <1>13,
       <1>14, <1>16, <1>17 DEF Next, Application

-----------------------------------------------------------------------------
(* KindsFit is preserved.                                                  *)

\* What a pointer is set to has the right kind, and the kinds of the objects
\* that are not empty do not change: an object that is pointed to, or points
\* to something, is not empty.
Fit(T, K) == \A o \in Objects, f \in Fields : T[o][f] # None => K[T[o][f]] \in Pointees(K[o])

LEMMA KindsKept ==
  ASSUME IInv, \A o \in Objects : kind[o] # "none" => kind'[o] = kind[o]
  PROVE  Fit(to, kind')
  <1> SUFFICES ASSUME NEW o \in Objects, NEW f \in Fields, to[o][f] # None
               PROVE  kind'[to[o][f]] \in Pointees(kind'[o])
    BY DEF Fit
  <1>1. kind[o] # "none"
    BY DEF EmptySlots, NoFields
  <1>2. to[o][f] \in Objects /\ kind[to[o][f]] # "none"
    BY PointeesCounted, CountedAlive
  <1> QED BY <1>1, <1>2 DEF KindsFit

LEMMA LinkFits ==
  ASSUME Fit(to, kind'), to \in Tables, NEW d \in Objects, NEW f \in Fields, NEW v,
         v # None => kind'[v] \in Pointees(kind'[d]),
         to' = [to EXCEPT ![d][f] = v]
  PROVE  KindsFit'
  BY DEF Fit, KindsFit, Tables

LEMMA UnlinkFits ==
  ASSUME IInv, NEW d \in Objects, NEW f \in Fields,
         kind' = kind, to' = [to EXCEPT ![d][f] = None]
  PROVE  KindsFit'
  BY DEF KindsFit, CountTypeOK

LEMMA KindsStep ==
  ASSUME IInv, [Next]_vars
  PROVE  KindsFit'
  <1> USE FirstField
  <1>a. to \in Tables /\ kind \in [Objects -> Kinds \cup {"none"}]
    BY DEF CountTypeOK, Tables
  <1>b. ASSUME NEW o \in Objects, NEW k, Create(o, k)
        PROVE  /\ Fit(to, kind') /\ kind'[o] = k
               /\ \A p \in Objects : kind[p] # "none" => kind'[p] = kind[p]
    <2>1. kind'[o] = k /\ \A p \in Objects : kind[p] # "none" => kind'[p] = kind[p]
      BY <1>a, <1>b DEF Create, FirstFree, NthFree
    <2> QED BY <2>1, KindsKept
  <1>c. ASSUME UNCHANGED <<kind, to>>
        PROVE  KindsFit'
    BY <1>c DEF KindsFit
  <1>1. ASSUME NEW o \in Objects, CreateGraph(o)
        PROVE  KindsFit'
    BY <1>b, <1>1 DEF CreateGraph, Fit, KindsFit
  <1>2. ASSUME NEW o \in Objects, NEW h \in Handles, CreateImageFromHandle(o, h)
        PROVE  KindsFit'
    BY <1>b, <1>2 DEF CreateImageFromHandle, Fit, KindsFit
  <1>3. ASSUME NEW o \in Objects, NEW i \in Objects, CreateImageFromROI(o, i)
        PROVE  KindsFit'
    <2>1. Create(o, "image") /\ kind[i] = "image" /\ to' = [to EXCEPT ![o][1] = i]
      BY <1>3 DEF CreateImageFromROI
    <2>2. kind'[i] = "image" /\ kind'[o] = "image" /\ Fit(to, kind')
      BY <1>b, <1>3, <2>1
    <2> QED BY <1>a, <1>3, <2>1, <2>2, LinkFits DEF Pointees
  <1>4. ASSUME NEW o \in Objects, NEW n \in Objects, GetParameterByIndex(o, n)
        PROVE  KindsFit'
    <2>1. Create(o, "parameter") /\ kind[n] = "node" /\ to' = [to EXCEPT ![o][1] = n]
      BY <1>4 DEF GetParameterByIndex
    <2>2. kind'[n] = "node" /\ kind'[o] = "parameter" /\ Fit(to, kind')
      BY <1>b, <1>4, <2>1
    <2> QED BY <1>a, <1>4, <2>1, <2>2, LinkFits DEF Pointees
  <1>5. ASSUME NEW o \in Objects, NEW g \in Objects, NEW f \in Fields, CreateGenericNode(o, g, f)
        PROVE  KindsFit'
    <2>1. Create(o, "node") /\ kind[g] = "graph" /\ to' = [to EXCEPT ![g][f] = o]
      BY <1>5 DEF CreateGenericNode
    <2>2. kind'[g] = "graph" /\ kind'[o] = "node" /\ Fit(to, kind')
      BY <1>b, <1>5, <2>1
    <2> QED BY <1>a, <1>5, <2>1, <2>2, LinkFits DEF Pointees
  <1>6. ASSUME NEW o \in Objects, CreatePyramid(o)
        PROVE  KindsFit'
    <2>1. PICK level \in [Fields -> Objects] :
            LET levels == {level[f] : f \in Fields} IN
            /\ \A f \in Fields : NthFree(level[f], f)
            /\ kind' = [p \in Objects |-> IF p = o THEN "pyramid"
                                          ELSE IF p \in levels THEN "image" ELSE kind[p]]
            /\ to' = [to EXCEPT ![o] = level]
      BY <1>6 DEF CreatePyramid
    <2>2. FirstFree(o)
      BY <1>6 DEF CreatePyramid
    <2>3. \A f \in Fields : level[f] # o
      BY <1>6, <2>1, <2>2, LevelsDistinct
    <2>4. kind'[o] = "pyramid" /\ \A f \in Fields : kind'[level[f]] = "image"
      BY <1>6, <2>1, <2>3
    <2>5. \A p \in Objects : kind[p] # "none" => kind'[p] = kind[p]
      BY <2>1, <2>2 DEF NthFree, FirstFree
    <2>6. Fit(to, kind')
      BY <2>5, KindsKept
    <2>7. \A p \in Objects, f \in Fields : to'[p][f] = IF p = o THEN level[f] ELSE to[p][f]
      BY <1>a, <2>1 DEF Tables
    <2> QED BY <2>4, <2>6, <2>7 DEF Fit, KindsFit, Pointees
  <1>7. ASSUME NEW o \in Objects, Obtain(o) \/ ReleaseReference(o)
        PROVE  KindsFit'
    BY <1>c, <1>7 DEF Obtain, ReleaseReference
  <1>8. ASSUME NEW n \in Objects, RemoveNode(n)
        PROVE  KindsFit'
    <2>1. PICK g \in Objects, f \in Fields, last \in Fields :
            to' = [to EXCEPT ![g][f] = to[g][last], ![g][last] = None]
      BY <1>8 DEF RemoveNode
    <2>2. kind' = kind
      BY <1>8 DEF RemoveNode
    <2> QED BY <1>a, <2>1, <2>2 DEF KindsFit, Tables
  <1>9. ASSUME NEW n \in Objects, NEW f \in Fields, NEW v \in Objects, SetParameter(n, f, v)
        PROVE  KindsFit'
    BY <1>9, UnlinkFits DEF SetParameter
  <1>10. ASSUME FinishSetParameter
         PROVE  KindsFit'
    <2>1. /\ call.node \in Objects /\ kind[call.node] = "node" /\ call.index \in Fields
          /\ kind[call.value] \in {"image", "pyramid"}
      BY <1>10 DEF FinishSetParameter, SetInProgress, CallTypeOK
    <2>2. kind' = kind /\ Fit(to, kind')
      BY <1>10 DEF FinishSetParameter, KindsFit, Fit
    <2> QED BY <1>a, <1>10, <2>1, <2>2, LinkFits DEF FinishSetParameter, Pointees
  <1>11. ASSUME NEW d \in Objects, NEW f \in Fields, Destruct(d, f)
         PROVE  KindsFit'
    BY <1>11, UnlinkFits DEF Destruct
  <1>12. ASSUME NEW d \in Objects, Free(d)
         PROVE  KindsFit'
    <2>1. \A p \in Objects : kind'[p] = IF p = d THEN "none" ELSE kind[p]
      BY <1>a, <1>12 DEF Free
    <2>2. to' = to /\ \A f \in Fields : to[d][f] = None
      BY <1>12 DEF Free, NoFields
    <2>3. \A p \in Objects, f \in Fields : to[p][f] # d
      <3> SUFFICES ASSUME NEW p \in Objects, NEW f \in Fields, to[p][f] = d
                   PROVE  FALSE
        OBVIOUS
      <3>1. internal[d] > 0
        BY ReferencesAssumption, PointeesCounted DEF Objects, None
      <3> QED BY <1>12, <3>1, CountedAlive DEF Free
    <2>4. \A p \in Objects, f \in Fields : to[p][f] # None => to[p][f] \in Objects
      BY <1>a DEF Tables
    <2> QED BY <2>1, <2>2, <2>3, <2>4 DEF KindsFit
  <1>13. ASSUME NEW o \in Objects, NEW h \in Handles, SwapImageHandle(o, h)
         PROVE  KindsFit'
    BY <1>c, <1>13 DEF SwapImageHandle
  <1>14. ASSUME ReleaseContext \/ Collect \/ Collected \/ UNCHANGED vars
         PROVE  KindsFit'
    BY <1>c, <1>14 DEF ReleaseContext, Collect, Collected, vars
  <1> QED
    BY <1>1, <1>2, <1>3, <1>4, <1>5, <1>6, <1>7, <1>8, <1>9, <1>10, <1>11, <1>12, <1>13,
       <1>14 DEF Next, Application

-----------------------------------------------------------------------------
(* SetInProgress is preserved.                                             *)

\* A release that keeps the external count, as vxNodeSetParameter and all
\* destructors but the one of a graph do it, adds at most the object to those
\* that are being destroyed.
LEMMA ReleaseInternal ==
  ASSUME CountTypeOK, NEW o \in Objects, NEW i, Release(o, external[o], i)
  PROVE  external' = external /\ dying' \subseteq dying \cup {o}
  BY DEF CountTypeOK, Release

LEMMA SetStep ==
  ASSUME IInv, [Next]_vars
  PROVE  SetInProgress'
  <1>a. CountTypeOK /\ to \in Tables
    BY DEF CountTypeOK, Tables
  <1>1. ASSUME pc' # "set"
        PROVE  SetInProgress'
    BY <1>1 DEF SetInProgress
  <1>2. ASSUME NEW n \in Objects, NEW f \in Fields, NEW v \in Objects, SetParameter(n, f, v)
        PROVE  SetInProgress'
    <2>1. /\ call'.node = n /\ call'.index = f /\ call'.value = v /\ kind' = kind
          /\ external[n] > 0 /\ kind[n] = "node"
          /\ external[v] > 0 /\ kind[v] \in {"image", "pyramid"} /\ dying = {}
      BY <1>2 DEF SetParameter, Held, Idle
    <2>2. to'[n][f] = None
      BY <1>a, <1>2 DEF SetParameter, Tables
    <2>3. external' = external /\ \A o \in dying' : kind[o] \in {"image", "pyramid"}
      <3>1. CASE to[n][f] = None
        BY <1>2, <2>1, <3>1 DEF SetParameter, counts
      <3>2. CASE to[n][f] # None
        <4>1. to[n][f] \in Objects /\ kind[to[n][f]] \in {"image", "pyramid"}
          BY <1>2, <2>1, <3>2, PointeesCounted DEF KindsFit, Pointees
        <4>2. external' = external /\ dying' \subseteq dying \cup {to[n][f]}
          BY <1>a, <1>2, <3>2, <4>1, ReleaseInternal DEF SetParameter
        <4> QED BY <2>1, <4>1, <4>2
      <3> QED BY <3>1, <3>2
    <2> QED BY <1>2, <2>1, <2>2, <2>3 DEF SetInProgress
  <1>3. ASSUME NEW d \in Objects, NEW f \in Fields, Destruct(d, f)
        PROVE  SetInProgress'
    <2> SUFFICES ASSUME pc = "set"
                 PROVE  SetInProgress'
      BY <1>1, <1>3 DEF Destruct
    <2>1. kind[d] \in {"image", "pyramid"} /\ kind' = kind /\ call' = call
      BY <1>3 DEF Destruct, SetInProgress
    <2>2. to[d][f] \in Objects /\ kind[to[d][f]] = "image"
      BY <1>3, <2>1, PointeesCounted DEF Destruct, KindsFit, Pointees
    <2>3. ExternalLeft(d, to[d][f]) = external[to[d][f]]
      BY <2>1 DEF ExternalLeft
    <2>4. external' = external /\ dying' \subseteq dying \cup {to[d][f]}
      BY <1>a, <1>3, <2>2, <2>3, ReleaseInternal DEF Destruct
    <2>5. to'[call.node][call.index] = None
      <3>1. call.node \in Objects /\ call.index \in Fields /\ to[call.node][call.index] = None
        BY DEF SetInProgress, CallTypeOK
      <3> QED BY <1>a, <1>3, <3>1 DEF Destruct, Tables
    <2> QED BY <2>1, <2>2, <2>4, <2>5 DEF SetInProgress
  <1>4. ASSUME NEW d \in Objects, Free(d)
        PROVE  SetInProgress'
    <2> SUFFICES ASSUME pc = "set"
                 PROVE  SetInProgress'
      BY <1>1, <1>4 DEF Free
    <2>1. call.node # d /\ call.value # d
      BY <1>4, CountedAlive DEF Free, SetInProgress
    <2>2. \A o \in Objects : kind'[o] = IF o = d THEN "none" ELSE kind[o]
      BY <1>4 DEF Free, CountTypeOK
    <2>3. dying' = dying \ {d} /\ dying \subseteq Objects
      BY <1>4 DEF Free, CountTypeOK
    <2>4. UNCHANGED <<external, to, call>>
      BY <1>4 DEF Free
    <2> QED BY <2>1, <2>2, <2>3, <2>4 DEF SetInProgress
  <1>5. ASSUME UNCHANGED vars
        PROVE  SetInProgress'
    BY <1>5 DEF SetInProgress, vars, counts
  <1>6. ASSUME ReleaseContext \/ FinishSetParameter \/ Collect \/ Collected
        PROVE  SetInProgress'
    BY <1>1, <1>6 DEF ReleaseContext, FinishSetParameter, Collect, Collected
  <1>7. ASSUME NEW o \in Objects, NEW p \in Objects, NEW f \in Fields,
               \/ CreateGraph(o) \/ CreatePyramid(o) \/ GetParameterByIndex(o, p)
               \/ CreateGenericNode(o, p, f) \/ CreateImageFromROI(o, p)
               \/ Obtain(o) \/ ReleaseReference(o) \/ RemoveNode(o)
        PROVE  SetInProgress'
    BY <1>1, <1>7 DEF CreateGraph, CreatePyramid, GetParameterByIndex, CreateGenericNode, Create,
                      CreateImageFromROI, Obtain, ReleaseReference, RemoveNode, Idle
  <1>8. ASSUME NEW o \in Objects, NEW h \in Handles,
               CreateImageFromHandle(o, h) \/ SwapImageHandle(o, h)
        PROVE  SetInProgress'
    BY <1>1, <1>8 DEF CreateImageFromHandle, SwapImageHandle, Create, Idle
  <1> QED
    BY <1>2, <1>3, <1>4, <1>5, <1>6, <1>7, <1>8, FirstField DEF Next, Application

-----------------------------------------------------------------------------
(* The theorems.                                                           *)

LEMMA InitIInv ==
  ASSUME Init
  PROVE  IInv
  <1> USE ReferencesAssumption, FirstField
  <1>1. TypeOK
    <2>1. CountTypeOK
      BY DEF Init, CountTypeOK, NoFields
    <2>2. ImageTypeOK
      BY DEF Init, ImageTypeOK
    <2>3. CallTypeOK
      BY DEF Init, CallTypeOK, NoCall
    <2> QED BY <2>1, <2>2, <2>3
  <1>2. CountsPointers
    <2>1. ASSUME NEW o \in Objects
          PROVE  Pointers(o) = {}
      BY <2>1 DEF Init, Pointers, NoFields, None, Objects
    <2> QED BY <2>1, FS_EmptySet DEF Init, CountsPointers
  <1>3. EmptySlots /\ Destroyed /\ Referenced
    BY DEF Init, EmptySlots, Destroyed, Referenced
  <1>4. KindsFit
    BY DEF Init, KindsFit, NoFields
  <1>5. SetInProgress
    BY DEF Init, SetInProgress
  <1> QED BY <1>1, <1>2, <1>3, <1>4, <1>5

LEMMA IInvStep ==
  ASSUME IInv, [Next]_vars
  PROVE  IInv'
  BY CountsStep, CountTypeStep, ImageTypeStep, CallTypeStep, SlotsStep, KindsStep, SetStep
  DEF Slots

\* The inductive invariant: the types, the counts, what is destroyed and what
\* is not, the kinds of what is pointed to, and the state vxNodeSetParameter
\* returns to from the destructors it has called.
THEOREM Inductive == Spec => []IInv
  <1>1. Init => IInv
    BY InitIInv
  <1>2. IInv /\ [Next]_vars => IInv'
    BY IInvStep
  <1> HIDE DEF IInv
  <1> QED BY <1>1, <1>2, PTL DEF Spec

\* The internal count of an object is the number of the pointers to it, for a
\* table of any size (vxIncrementReference and vxReleaseReferenceInt).
THEOREM CountsPointersHolds == Spec => []CountsPointers
  <1>1. IInv => CountsPointers
    OBVIOUS
  <1> HIDE DEF IInv
  <1> QED BY <1>1, Inductive, PTL

\* Objects are destroyed when nobody has a reference to them and not before:
\* no pointer of an object, and no argument of a call in progress, is left to
\* an object that has been destroyed.
THEOREM LiveIfReferencedHolds == Spec => []LiveIfReferenced
  <1>1. IInv => LiveIfReferenced
    <2> SUFFICES ASSUME IInv
                 PROVE  LiveIfReferenced
      OBVIOUS
    <2>1. PointeesAlive
      <3> SUFFICES ASSUME NEW o \in Objects, NEW f \in Fields, to[o][f] # None
                   PROVE  kind[o] # "none" /\ kind[to[o][f]] # "none" /\ to[o][f] \notin dying
        BY DEF PointeesAlive
      <3>1. kind[o] # "none"
        BY DEF EmptySlots, NoFields
      <3> QED BY <3>1, PointeesCounted, CountedAlive
    <2>2. ASSUME pc = "set"
          PROVE  \A o \in {call.node, call.value} : kind[o] # "none" /\ o \notin dying
      BY <2>2, CountedAlive DEF SetInProgress
    <2> QED BY <2>1, <2>2 DEF LiveIfReferenced
  <1> HIDE DEF IInv
  <1> QED BY <1>1, Inductive, PTL

-----------------------------------------------------------------------------
(* The list of subimages has only images the application holds.            *)

USE DEF Idle

LEMMA ListedKept ==
  ASSUME Listed, pc' \in {"idle", "set"} => pc \in {"idle", "set"},
         \A i, s \in Objects : subimages'[i][s] \in {None, subimages[i][s]},
         \A i, s \in Objects :
           LET o == subimages[i][s] IN
           subimages'[i][s] = o /\ o # None /\ kind[o] = "image" /\ to[o][1] = i /\ external[o] > 0
             => kind'[o] = "image" /\ to'[o][1] = i /\ external'[o] > 0
  PROVE  Listed'
  <1> SUFFICES ASSUME pc' \in {"idle", "set"}, NEW i \in Objects, NEW s \in Objects,
                      subimages'[i][s] # None
               PROVE  LET o == subimages'[i][s] IN
                      kind'[o] = "image" /\ to'[o][1] = i /\ external'[o] > 0
    BY DEF Listed
  <1>1. subimages'[i][s] = subimages[i][s]
    OBVIOUS
  <1>2. LET o == subimages[i][s] IN kind[o] = "image" /\ to[o][1] = i /\ external[o] > 0
    BY <1>1 DEF Listed
  <1> QED BY <1>1, <1>2

\* The same for the actions that leave the lists alone, with what is listed
\* named.
LEMMA ListsLeft ==
  ASSUME IInv, Listed, pc' \in {"idle", "set"} => pc \in {"idle", "set"}, subimages' = subimages,
         \A o \in Objects : kind[o] = "image" /\ external[o] > 0 =>
           kind'[o] = "image" /\ to'[o][1] = to[o][1] /\ external'[o] > 0
  PROVE  Listed'
  <1>1. \A i, s \in Objects : subimages[i][s] \in Objects \cup {None}
    BY DEF ImageTypeOK
  <1> QED BY <1>1, ListedKept

LEMMA ListedAfterROI ==
  ASSUME IInv, Listed, NEW o \in Objects, NEW i \in Objects, CreateImageFromROI(o, i)
  PROVE  Listed'
  <1>1. PICK t \in Objects : subimages' = [subimages EXCEPT ![i][t] = o]
    BY DEF CreateImageFromROI
  <1>2. /\ kind[o] = "none" /\ external[o] = 0 /\ pc = "idle" /\ pc' = pc
        /\ kind' = [kind EXCEPT ![o] = "image"] /\ external' = [external EXCEPT ![o] = 1]
        /\ to' = [to EXCEPT ![o][1] = i]
    BY CreateEmpty DEF CreateImageFromROI, Create, FirstFree, NthFree
  <1>3. /\ kind'[o] = "image" /\ external'[o] = 1 /\ to'[o][1] = i
        /\ \A p \in Objects : p # o => kind'[p] = kind[p] /\ external'[p] = external[p] /\ to'[p] = to[p]
    BY <1>2, FirstField DEF CountTypeOK
  <1>4. \A j, s \in Objects : /\ subimages'[j][s] = IF j = i /\ s = t THEN o ELSE subimages[j][s]
                              /\ subimages[j][s] \in Objects \cup {None}
    BY <1>1 DEF ImageTypeOK
  <1> SUFFICES ASSUME NEW j \in Objects, NEW s \in Objects, subimages'[j][s] # None
               PROVE  LET p == subimages'[j][s] IN
                      kind'[p] = "image" /\ to'[p][1] = j /\ external'[p] > 0
    BY DEF Listed
  <1>5. CASE j = i /\ s = t
    BY <1>3, <1>4, <1>5
  <1>6. CASE ~ (j = i /\ s = t)
    <2>1. PICK p \in Objects : p = subimages[j][s] /\ p = subimages'[j][s]
      BY <1>4, <1>6
    <2>2. kind[p] = "image" /\ to[p][1] = j /\ external[p] > 0
      <3>1. subimages[j][s] # None
        BY <1>4, <1>6
      <3>2. LET q == subimages[j][s] IN kind[q] = "image" /\ to[q][1] = j /\ external[q] > 0
        BY <1>2, <3>1 DEF Listed
      <3> QED BY <2>1, <3>2
    <2>3. p # o
      BY <1>2, <2>2
    <2> QED BY <1>3, <2>1, <2>2, <2>3
  <1> QED BY <1>5, <1>6

LEMMA ListedAfterRelease ==
  ASSUME IInv, Listed, NEW o \in Objects, ReleaseReference(o)
  PROVE  Listed'
  <1>1. /\ pc' = pc /\ pc = "idle" /\ kind' = kind /\ to' = to
        /\ external' = [external EXCEPT ![o] = external[o] - 1]
    BY DEF ReleaseReference, Release
  <1>2. \A p \in Objects : p # o => external'[p] = external[p]
    BY <1>1 DEF CountTypeOK
  <1>3. CASE kind[o] # "image"
    <2>1. subimages' = subimages
      BY <1>3 DEF ReleaseReference
    <2>2. \A p \in Objects : kind[p] = "image" /\ external[p] > 0 =>
            kind'[p] = "image" /\ to'[p][1] = to[p][1] /\ external'[p] > 0
      BY <1>1, <1>2, <1>3
    <2> QED BY <1>1, <2>1, <2>2, ListsLeft
  <1>4. CASE kind[o] = "image"
    <2>1. \A i, s \in Objects :
            subimages'[i][s] = IF i = to[o][1] /\ subimages[i][s] = o THEN None ELSE subimages[i][s]
      BY <1>4 DEF ReleaseReference, Listing
    <2>2. \A i, s \in Objects : subimages[i][s] \in Objects \cup {None}
      BY DEF ImageTypeOK
    <2>3. ASSUME NEW i \in Objects, NEW s \in Objects, subimages'[i][s] = subimages[i][s],
                 subimages[i][s] # None, to[subimages[i][s]][1] = i,
                 kind[subimages[i][s]] = "image", external[subimages[i][s]] > 0
          PROVE  LET p == subimages[i][s] IN
                 kind'[p] = "image" /\ to'[p][1] = i /\ external'[p] > 0
      <3>1. PICK p \in Objects : p = subimages[i][s]
        BY <2>2, <2>3
      <3>2. p # o
        BY <2>1, <2>3, <3>1
      <3> QED BY <1>1, <1>2, <2>3, <3>1, <3>2
    <2>4. \A i, s \in Objects : subimages'[i][s] \in {None, subimages[i][s]}
      BY <2>1
    <2> QED BY <1>1, <2>3, <2>4, ListedKept
  <1> QED BY <1>3, <1>4

LEMMA ListedAfterFree ==
  ASSUME IInv, Listed, NEW d \in Objects, Free(d)
  PROVE  Listed'
  <1>1. /\ pc' = pc /\ external' = external /\ to' = to /\ d \in dying
        /\ \A p \in Objects : p # d => kind'[p] = kind[p]
    BY DEF Free, CountTypeOK
  <1>2. \A i, s \in Objects : /\ subimages'[i][s] \in {None, subimages[i][s]}
                              /\ subimages[i][s] \in Objects \cup {None}
    BY DEF Free, ImageTypeOK
  <1>3. ~ (external[d] > 0)
    BY <1>1, CountedAlive
  <1>4. ASSUME NEW i \in Objects, NEW s \in Objects, subimages[i][s] # None,
               to[subimages[i][s]][1] = i,
               kind[subimages[i][s]] = "image", external[subimages[i][s]] > 0
        PROVE  LET p == subimages[i][s] IN
               kind'[p] = "image" /\ to'[p][1] = i /\ external'[p] > 0
    <2>1. PICK p \in Objects : p = subimages[i][s]
      BY <1>2, <1>4
    <2>2. p # d
      BY <1>3, <1>4, <2>1
    <2> QED BY <1>1, <1>4, <2>1, <2>2
  <1> QED BY <1>1, <1>2, <1>4, ListedKept

LEMMA ListedStep ==
  ASSUME IInv, Listed, [Next]_vars
  PROVE  Listed'
  <1>a. /\ to \in Tables /\ kind \in [Objects -> Kinds \cup {"none"}]
        /\ external \in [Objects -> 0 .. MaxExternal]
    BY DEF CountTypeOK, Tables
  <1>b. ASSUME NEW o \in Objects, NEW k, Create(o, k), subimages' = subimages,
               \A p \in Objects : p # o /\ kind[p] = "image" => to'[p] = to[p]
        PROVE  Listed'
    <2>1. kind[o] = "none" /\ pc = "idle"
      BY <1>b DEF Create, FirstFree, NthFree
    <2>2. \A p \in Objects : p # o => kind'[p] = kind[p] /\ external'[p] = external[p]
      BY <1>a, <1>b DEF Create
    <2> QED BY <1>b, <2>1, <2>2, ListsLeft
  <1>c. ASSUME NEW n \in Objects, kind[n] # "image", subimages' = subimages, kind' = kind,
               pc' \in {"idle", "set"} => pc \in {"idle", "set"},
               \A p \in Objects : p # n => to'[p] = to[p],
               \A p \in Objects : kind[p] = "image" => external'[p] = external[p]
        PROVE  Listed'
    BY <1>c, ListsLeft
  <1>1. ASSUME NEW o \in Objects, CreateGraph(o)
        PROVE  Listed'
    BY <1>b, <1>1 DEF CreateGraph, images
  <1>2. ASSUME NEW o \in Objects, NEW h \in Handles, CreateImageFromHandle(o, h)
        PROVE  Listed'
    BY <1>b, <1>2 DEF CreateImageFromHandle
  <1>3. ASSUME NEW o \in Objects, NEW n \in Objects, GetParameterByIndex(o, n)
        PROVE  Listed'
    BY <1>a, <1>b, <1>3 DEF GetParameterByIndex, images, Tables
  <1>4. ASSUME NEW o \in Objects, NEW g \in Objects, NEW f \in Fields, CreateGenericNode(o, g, f)
        PROVE  Listed'
    BY <1>a, <1>b, <1>4 DEF CreateGenericNode, images, Tables
  <1>5. ASSUME NEW o \in Objects, CreatePyramid(o)
        PROVE  Listed'
    <2>1. PICK level \in [Fields -> Objects] :
            LET levels == {level[f] : f \in Fields} IN
            /\ \A f \in Fields : NthFree(level[f], f)
            /\ kind' = [p \in Objects |-> IF p = o THEN "pyramid"
                                          ELSE IF p \in levels THEN "image" ELSE kind[p]]
            /\ to' = [to EXCEPT ![o] = level]
      BY <1>5 DEF CreatePyramid
    <2>2. /\ subimages' = subimages /\ pc = "idle" /\ kind[o] = "none"
          /\ external' = [external EXCEPT ![o] = 1]
      BY <1>5 DEF CreatePyramid, images, FirstFree, NthFree
    <2>3. \A f \in Fields : kind[level[f]] = "none"
      BY <2>1 DEF NthFree
    <2>4. \A p \in Objects : kind[p] = "image" =>
            kind'[p] = "image" /\ to'[p] = to[p] /\ external'[p] = external[p]
      BY <1>a, <2>1, <2>2, <2>3 DEF Tables
    <2> QED BY <2>2, <2>4, ListsLeft
  <1>6. ASSUME NEW o \in Objects, Obtain(o)
        PROVE  Listed'
    <2>1. external[o] + 1 > 0 /\ \A p \in Objects : external'[p] = external[p]
                                                \/ external'[p] = external[o] + 1
      BY <1>a, <1>6 DEF Obtain
    <2> QED BY <1>6, <2>1, ListsLeft DEF Obtain, images
  <1>7. ASSUME NEW n \in Objects, RemoveNode(n)
        PROVE  Listed'
    <2>1. PICK g \in Objects, f \in Fields, last \in Fields :
            kind[g] = "graph" /\ to' = [to EXCEPT ![g][f] = to[g][last], ![g][last] = None]
      BY <1>7 DEF RemoveNode
    <2>2. \A p \in Objects : p # g => to'[p] = to[p]
      BY <1>a, <2>1 DEF Tables
    <2>3. \A p \in Objects : kind[p] = "image" => external'[p] = external[p]
      BY <1>a, <1>7 DEF RemoveNode, Release
    <2> QED BY <1>c, <1>7, <2>1, <2>2, <2>3 DEF RemoveNode, images
  <1>8. ASSUME NEW n \in Objects, NEW f \in Fields, NEW v \in Objects, SetParameter(n, f, v)
        PROVE  Listed'
    <2>1. kind[n] = "node" /\ kind' = kind /\ subimages' = subimages /\ pc = "idle"
          /\ to' = [to EXCEPT ![n][f] = None]
      BY <1>8 DEF SetParameter, images
    <2>2. \A p \in Objects : p # n => to'[p] = to[p]
      BY <1>a, <2>1 DEF Tables
    <2>3. external' = external
      <3>1. CASE to[n][f] = None
        BY <1>8, <3>1 DEF SetParameter, counts
      <3>2. CASE to[n][f] # None
        BY <1>8, <3>2, PointeesCounted, ReleaseInternal DEF SetParameter
      <3> QED BY <3>1, <3>2
    <2> QED BY <1>c, <2>1, <2>2, <2>3
  <1>9. ASSUME FinishSetParameter
        PROVE  Listed'
    <2>1. call.node \in Objects /\ kind[call.node] = "node"
      BY <1>9 DEF FinishSetParameter, SetInProgress
    <2>2. /\ kind' = kind /\ external' = external /\ subimages' = subimages /\ pc = "set"
          /\ to' = [to EXCEPT ![call.node][call.index] = call.value]
      BY <1>9 DEF FinishSetParameter, images
    <2>3. \A p \in Objects : p # call.node => to'[p] = to[p]
      BY <1>a, <2>1, <2>2 DEF Tables
    <2> QED BY <1>c, <2>1, <2>2, <2>3
  <1>10. ASSUME NEW d \in Objects, NEW f \in Fields, Destruct(d, f)
         PROVE  Listed'
    <2> DEFINE o == to[d][f]
    <2>1. /\ kind' = kind /\ subimages' = subimages /\ pc' = pc /\ d \in dying /\ o # None
          /\ to' = [to EXCEPT ![d][f] = None]
          /\ external' = [external EXCEPT ![o] = ExternalLeft(d, o)]
      BY <1>10 DEF Destruct, images, Release
    <2>2. \A p \in Objects : p # d => to'[p] = to[p]
      BY <1>a, <2>1 DEF Tables
    <2>3. ~ (external[d] > 0)
      BY <2>1, CountedAlive
    <2>4. \A p \in Objects : kind[p] = "image" => external'[p] = external[p]
      <3>1. kind[d] = "graph" => kind[o] = "node"
        BY <2>1 DEF KindsFit, Pointees
      <3> QED BY <1>a, <2>1, <3>1 DEF ExternalLeft
    <2> QED BY <2>1, <2>2, <2>3, <2>4, ListsLeft
  <1>11. ASSUME NEW o \in Objects, NEW h \in Handles, SwapImageHandle(o, h)
         PROVE  Listed'
    BY <1>11, ListsLeft DEF SwapImageHandle, counts
  <1>12. ASSUME UNCHANGED vars
         PROVE  Listed'
    BY <1>12, ListsLeft DEF vars, counts, images
  <1>13. ASSUME ReleaseContext \/ Collect \/ Collected
         PROVE  Listed'
    BY <1>13 DEF ReleaseContext, Collect, Collected, Listed
  <1> QED
    BY <1>1, <1>2, <1>3, <1>4, <1>5, <1>6, <1>7, <1>8, <1>9, <1>10, <1>11, <1>12, <1>13,
       ListedAfterROI, ListedAfterRelease, ListedAfterFree DEF Next, Application

-----------------------------------------------------------------------------
(* Images do not keep each other alive.                                    *)

USE DEF Unpointed

\* Images that are new, to which no image points, and images that point to
\* no more than they did.
LEMMA OrderedKept ==
  ASSUME ImagesOrdered, NEW new \in SUBSET Objects,
         \A p \in Objects : kind'[p] = "image" =>
           \/ p \in new
           \/ kind[p] = "image" /\ \A f \in Fields : to'[p][f] \in {to[p][f], None},
         \A p \in Objects, f \in Fields : kind'[p] = "image" => to'[p][f] \notin new
  PROVE  ImagesOrdered'
  <1> SUFFICES ASSUME NEW S \in SUBSET Objects, \A p \in S : kind'[p] = "image", S # {}
               PROVE  \E o \in S : \A p \in S, f \in Fields : to'[p][f] # o
    BY DEF ImagesOrdered
  <1>1. CASE \E o \in S : o \in new
    BY <1>1
  <1>2. CASE \A o \in S : o \notin new
    <2>1. S \in SUBSET {o \in Objects : kind[o] = "image"}
      BY <1>2
    <2>2. PICK o \in S : \A p \in S, f \in Fields : to[p][f] # o
      BY <2>1 DEF ImagesOrdered
    <2>3. \A p \in S, f \in Fields : to'[p][f] \in {to[p][f], None}
      BY <1>2
    <2>4. o # None
      BY ReferencesAssumption DEF Objects, None
    <2> QED BY <2>2, <2>3, <2>4
  <1> QED BY <1>1, <1>2

\* The most common cases: no image is new, or the slot of one was empty.
LEMMA NoImageNew ==
  ASSUME ImagesOrdered,
         \A p \in Objects : kind'[p] = "image" =>
           kind[p] = "image" /\ \A f \in Fields : to'[p][f] \in {to[p][f], None}
  PROVE  ImagesOrdered'
  <1>1. {} \in SUBSET Objects
    OBVIOUS
  <1> QED BY <1>1, OrderedKept

LEMMA EmptyUnpointed ==
  ASSUME IInv, NEW o \in Objects, kind[o] = "none"
  PROVE  \A p \in Objects, f \in Fields : to[p][f] # o
  <1> SUFFICES ASSUME NEW p \in Objects, NEW f \in Fields, to[p][f] = o
               PROVE  FALSE
    OBVIOUS
  <1>1. internal[o] > 0
    BY PointeesCounted, ReferencesAssumption DEF Objects, None
  <1> QED BY <1>1, CountedAlive

LEMMA OrderedStep ==
  ASSUME IInv, ImagesOrdered, [Next]_vars
  PROVE  ImagesOrdered'
  <1>a. to \in Tables /\ kind \in [Objects -> Kinds \cup {"none"}]
    BY DEF CountTypeOK, Tables
  <1>b. ASSUME NEW o \in Objects, NEW k, Create(o, k), k # "image",
               \A p \in Objects : p # o /\ kind[p] = "image" => to'[p] = to[p]
        PROVE  ImagesOrdered'
    <2>1. \A p \in Objects : kind'[p] = IF p = o THEN k ELSE kind[p]
      BY <1>a, <1>b DEF Create
    <2> QED BY <1>b, <2>1, NoImageNew
  <1>c. ASSUME NEW o \in Objects, Create(o, "image"), NEW i \in Objects \cup {None}, i # o,
               \A p \in Objects : p # o => to'[p] = to[p],
               \A f \in Fields : to'[o][f] \in {i, None}
        PROVE  ImagesOrdered'
    <2>1. /\ \A p \in Objects : kind'[p] = IF p = o THEN "image" ELSE kind[p]
          /\ kind[o] = "none" /\ o # None
      BY <1>a, <1>c, ReferencesAssumption DEF Create, FirstFree, NthFree, Objects, None
    <2>2. \A p \in Objects, f \in Fields : to[p][f] # o
      BY <2>1, EmptyUnpointed
    <2>3. \A p \in Objects, f \in Fields : to'[p][f] # o
      BY <1>c, <2>1, <2>2
    <2>4. {o} \in SUBSET Objects
      OBVIOUS
    <2> QED BY <1>c, <2>1, <2>3, <2>4, OrderedKept
  <1>d. ASSUME NEW n \in Objects, kind[n] # "image", kind' = kind,
               \A p \in Objects : p # n => to'[p] = to[p]
        PROVE  ImagesOrdered'
    BY <1>d, NoImageNew
  <1>1. ASSUME NEW o \in Objects, CreateGraph(o)
        PROVE  ImagesOrdered'
    BY <1>b, <1>1 DEF CreateGraph
  <1>2. ASSUME NEW o \in Objects, NEW h \in Handles, CreateImageFromHandle(o, h)
        PROVE  ImagesOrdered'
    <2>1. Create(o, "image") /\ to' = to
      BY <1>2 DEF CreateImageFromHandle
    <2>2. \A f \in Fields : to'[o][f] \in {None}
      BY <1>2, <2>1, CreateEmpty DEF NoFields
    <2>3. None # o
      BY ReferencesAssumption DEF Objects, None
    <2> QED BY <1>c, <2>1, <2>2, <2>3
  <1>3. ASSUME NEW o \in Objects, NEW i \in Objects, CreateImageFromROI(o, i)
        PROVE  ImagesOrdered'
    <2>1. Create(o, "image") /\ kind[i] = "image" /\ to' = [to EXCEPT ![o][1] = i]
      BY <1>3 DEF CreateImageFromROI
    <2>2. i # o /\ to[o] = NoFields
      BY <2>1, CreateEmpty DEF Create, FirstFree, NthFree
    <2>3. \A f \in Fields : to'[o][f] \in {i, None}
      BY <1>a, <2>1, <2>2 DEF NoFields, Tables
    <2>4. \A p \in Objects : p # o => to'[p] = to[p]
      BY <1>a, <2>1 DEF Tables
    <2> QED BY <1>c, <1>3, <2>1, <2>2, <2>3, <2>4
  <1>4. ASSUME NEW o \in Objects, NEW n \in Objects, GetParameterByIndex(o, n)
        PROVE  ImagesOrdered'
    BY <1>a, <1>b, <1>4 DEF GetParameterByIndex, Tables
  <1>5. ASSUME NEW o \in Objects, NEW g \in Objects, NEW f \in Fields, CreateGenericNode(o, g, f)
        PROVE  ImagesOrdered'
    BY <1>a, <1>b, <1>5 DEF CreateGenericNode, Tables
  <1>6. ASSUME NEW o \in Objects, CreatePyramid(o)
        PROVE  ImagesOrdered'
    <2>1. PICK level \in [Fields -> Objects] :
            LET levels == {level[f] : f \in Fields} IN
            /\ \A f \in Fields : NthFree(level[f], f)
            /\ kind' = [p \in Objects |-> IF p = o THEN "pyramid"
                                          ELSE IF p \in levels THEN "image" ELSE kind[p]]
            /\ to' = [to EXCEPT ![o] = level]
      BY <1>6 DEF CreatePyramid
    <2> DEFINE levels == {level[f] : f \in Fields}
    <2>2. levels \in SUBSET Objects /\ \A p \in levels : kind[p] = "none"
      BY <2>1 DEF NthFree
    <2>3. \A p \in Objects : p # o => to'[p] = to[p]
      BY <1>a, <2>1 DEF Tables
    <2>4. \A p \in Objects : kind'[p] = "image" => p # o /\ (p \in levels \/ kind[p] = "image")
      BY <2>1
    <2>5. \A p \in Objects, f \in Fields : kind'[p] = "image" => to'[p][f] \notin levels
      BY <2>2, <2>3, <2>4, EmptyUnpointed
    <2> HIDE DEF levels
    <2> QED BY <2>2, <2>3, <2>4, <2>5, OrderedKept
  <1>7. ASSUME NEW n \in Objects, RemoveNode(n)
        PROVE  ImagesOrdered'
    <2>1. PICK g \in Objects, f \in Fields, last \in Fields :
            kind[g] = "graph" /\ to' = [to EXCEPT ![g][f] = to[g][last], ![g][last] = None]
      BY <1>7 DEF RemoveNode
    <2>2. \A p \in Objects : p # g => to'[p] = to[p]
      BY <1>a, <2>1 DEF Tables
    <2> QED BY <1>d, <1>7, <2>1, <2>2 DEF RemoveNode
  <1>8. ASSUME NEW n \in Objects, NEW f \in Fields, NEW v \in Objects, SetParameter(n, f, v)
        PROVE  ImagesOrdered'
    <2>1. kind[n] = "node" /\ kind' = kind /\ to' = [to EXCEPT ![n][f] = None]
      BY <1>8 DEF SetParameter
    <2> QED BY <1>a, <1>d, <2>1 DEF Tables
  <1>9. ASSUME FinishSetParameter
        PROVE  ImagesOrdered'
    <2>1. call.node \in Objects /\ kind[call.node] = "node"
      BY <1>9 DEF FinishSetParameter, SetInProgress
    <2>2. kind' = kind /\ to' = [to EXCEPT ![call.node][call.index] = call.value]
      BY <1>9 DEF FinishSetParameter
    <2> QED BY <1>a, <1>d, <2>1, <2>2 DEF Tables
  <1>10. ASSUME NEW d \in Objects, NEW f \in Fields, Destruct(d, f)
         PROVE  ImagesOrdered'
    <2>1. kind' = kind /\ to' = [to EXCEPT ![d][f] = None]
      BY <1>10 DEF Destruct
    <2>2. \A p \in Objects, e \in Fields : to'[p][e] \in {to[p][e], None}
      BY <1>a, <2>1 DEF Tables
    <2> QED BY <2>1, <2>2, NoImageNew
  <1>11. ASSUME NEW d \in Objects, Free(d)
         PROVE  ImagesOrdered'
    <2>1. to' = to /\ \A p \in Objects : kind'[p] \in {kind[p], "none"}
      BY <1>a, <1>11 DEF Free
    <2> QED BY <2>1, NoImageNew
  <1>12. ASSUME UNCHANGED <<kind, to>>
         PROVE  ImagesOrdered'
    BY <1>12, NoImageNew
  <1>13. ASSUME NEW o \in Objects, NEW h \in Handles,
                Obtain(o) \/ ReleaseReference(o) \/ SwapImageHandle(o, h)
         PROVE  ImagesOrdered'
    BY <1>12, <1>13 DEF Obtain, ReleaseReference, SwapImageHandle
  <1>14. ASSUME ReleaseContext \/ Collect \/ Collected \/ UNCHANGED vars
         PROVE  ImagesOrdered'
    BY <1>12, <1>14 DEF ReleaseContext, Collect, Collected, vars
  <1>15. ASSUME NEW o \in Objects, Obtain(o) \/ ReleaseReference(o)
         PROVE  ImagesOrdered'
    BY <1>12, <1>15 DEF Obtain, ReleaseReference
  <1> QED
    BY <1>1, <1>2, <1>3, <1>4, <1>5, <1>6, <1>7, <1>8, <1>9, <1>10, <1>11, <1>13, <1>14, <1>15
    DEF Next, Application

-----------------------------------------------------------------------------
(* The loop of vxReleaseContext leaves no external reference behind it.    *)

LEMMA SweptStep ==
  ASSUME IInv, Swept, [Next]_vars
  PROVE  Swept'
  <1>a. /\ external \in [Objects -> 0 .. MaxExternal] /\ \A o \in Objects : external[o] >= 0
        /\ to \in Tables
    BY ReferencesAssumption DEF CountTypeOK, Tables
  <1>1. ASSUME pc' \notin {"collect", "collected"}
        PROVE  Swept'
    BY <1>1 DEF Swept
  <1>2. ASSUME NEW d \in Objects, NEW f \in Fields, Destruct(d, f)
        PROVE  Swept'
    <2>1. /\ pc' = pc /\ r' = r /\ d \in dying /\ to[d][f] \in Objects
          /\ external' = [external EXCEPT ![to[d][f]] = ExternalLeft(d, to[d][f])]
      BY <1>a, <1>2 DEF Destruct, Release, Tables
    <2>2. pc # "collected"
      BY <2>1 DEF Swept
    <2>3. \A o \in Objects : external[o] = 0 => external'[o] = 0
      BY <1>a, <2>1 DEF ExternalLeft
    <2> QED BY <2>1, <2>2, <2>3 DEF Swept
  <1>3. ASSUME NEW d \in Objects, Free(d)
        PROVE  Swept'
    BY <1>3 DEF Free, Swept
  <1>4. ASSUME ReleaseContext
        PROVE  Swept'
    BY <1>4 DEF ReleaseContext, Swept, Objects
  <1>5. ASSUME Collect
        PROVE  Swept'
    <2>1. pc = "collect" /\ pc' = pc /\ r \in Objects /\ r' = r + 1
      BY <1>5 DEF Collect
    <2>2. CASE Held(r)
      <3>1. external' = [external EXCEPT ![r] = 0]
        BY <1>5, <2>2 DEF Collect, Release, ExternalCollected
      <3>2. \A o \in Objects : external'[o] = IF o = r THEN 0 ELSE external[o]
        BY <1>a, <2>1, <3>1
      <3> QED BY <2>1, <3>2 DEF Swept, Objects
    <2>3. CASE ~Held(r)
      <3>1. external' = external
        BY <1>5, <2>3 DEF Collect, counts
      <3>2. external[r] = 0
        BY <1>a, <2>1, <2>3 DEF Held, EmptySlots
      <3> QED BY <2>1, <3>1, <3>2 DEF Swept, Objects
    <2> QED BY <2>2, <2>3
  <1>6. ASSUME Collected
        PROVE  Swept'
    <2>1. /\ pc = "collect" /\ dying = {} /\ r \notin Objects /\ r \in 1 .. MaxRefs + 1
          /\ r' = r /\ external' = external /\ dying' = dying
      BY <1>6 DEF Collected, counts, CallTypeOK
    <2>2. r = MaxRefs + 1
      BY <2>1, ReferencesAssumption DEF Objects
    <2> QED BY <1>6, <2>1, <2>2 DEF Swept
  <1>7. ASSUME FinishSetParameter \/ UNCHANGED vars
        PROVE  Swept'
    BY <1>1, <1>7 DEF FinishSetParameter, Swept, vars, counts
  <1>8. ASSUME NEW o \in Objects, NEW p \in Objects, NEW f \in Fields,
               \/ CreateGraph(o) \/ CreatePyramid(o) \/ GetParameterByIndex(o, p)
               \/ CreateGenericNode(o, p, f) \/ CreateImageFromROI(o, p) \/ SetParameter(o, f, p)
               \/ Obtain(o) \/ ReleaseReference(o) \/ RemoveNode(o)
        PROVE  Swept'
    BY <1>1, <1>8 DEF CreateGraph, CreatePyramid, GetParameterByIndex, CreateGenericNode, Create,
                      CreateImageFromROI, SetParameter, Obtain, ReleaseReference, RemoveNode
  <1>9. ASSUME NEW o \in Objects, NEW h \in Handles,
               CreateImageFromHandle(o, h) \/ SwapImageHandle(o, h)
        PROVE  Swept'
    BY <1>1, <1>9 DEF CreateImageFromHandle, SwapImageHandle, Create
  <1> QED
    BY <1>2, <1>3, <1>4, <1>5, <1>6, <1>7, <1>8, <1>9, FirstField DEF Next, Application

\* No pointer, no object: what the loop has left has no external reference,
\* so something points to it.  Nothing points to graphs and parameters, and
\* an image without an image that points to it is a level or a value.
LEMMA NothingLeft ==
  ASSUME IInv, ImagesOrdered, dying = {}, \A o \in Objects : external[o] = 0
  PROVE  \A o \in Objects : kind[o] = "none"
  <1>1. ASSUME NEW o \in Objects, kind[o] # "none"
        PROVE  \E p \in Objects, f \in Fields : to[p][f] = o /\ kind[p] # "none"
    <2>1. internal[o] \in Nat /\ internal[o] > 0
      BY <1>1 DEF Referenced, CountTypeOK
    <2>2. PointersIn(to, o) # {}
      <3>1. internal[o] = Cardinality(PointersIn(to, o))
        BY <1>1 DEF CountsPointers, Pointers, PointersIn
      <3> QED BY <2>1, <3>1, FS_EmptySet
    <2>3. PICK x \in Objects \X Fields : to[x[1]][x[2]] = o
      BY <2>2 DEF PointersIn
    <2>4. kind[x[1]] # "none"
      BY <1>1, <2>3, ReferencesAssumption DEF EmptySlots, NoFields, None, Objects
    <2> QED BY <2>3, <2>4
  <1>2. ASSUME NEW o \in Objects, NEW p \in Objects, NEW f \in Fields, to[p][f] = o
        PROVE  kind[o] \in Pointees(kind[p])
    BY <1>2, ReferencesAssumption DEF KindsFit, None, Objects
  <1>3. \A o \in Objects : kind[o] \in Kinds \cup {"none"}
    BY DEF CountTypeOK
  <1>4. \A o \in Objects : kind[o] \notin {"graph", "parameter"}
    BY <1>1, <1>2 DEF Pointees
  <1>5. \A o \in Objects : kind[o] # "node"
    BY <1>1, <1>2, <1>3, <1>4 DEF Pointees, Kinds
  <1>6. \A o \in Objects : kind[o] # "pyramid"
    BY <1>1, <1>2, <1>3, <1>4, <1>5 DEF Pointees, Kinds
  <1>7. \A o \in Objects : kind[o] # "none" => kind[o] = "image"
    BY <1>3, <1>4, <1>5, <1>6 DEF Kinds
  <1> DEFINE S == {o \in Objects : kind[o] = "image"}
  <1>8. S = {}
    <2> SUFFICES ASSUME S # {}
                 PROVE  FALSE
      OBVIOUS
    <2>1. PICK o \in S : \A p \in S, f \in Fields : to[p][f] # o
      BY DEF ImagesOrdered
    <2> QED BY <1>1, <1>7, <2>1
  <1> QED BY <1>7, <1>8

LEMMA InitLists ==
  ASSUME Init
  PROVE  Listed /\ ImagesOrdered /\ Swept
  BY DEF Init, Listed, ImagesOrdered, Swept

\* The list of subimages has only regions of that image that the application
\* holds, so none that was destroyed, until vxReleaseContext starts.
THEOREM SubimagesAliveHolds == Spec => []SubimagesAlive
  <1>1. IInv /\ Listed => SubimagesAlive
    <2> SUFFICES ASSUME IInv, Listed, pc # "collect", pc # "collected",
                        NEW i \in Objects, NEW s \in Objects, subimages[i][s] # None
                 PROVE  LET o == subimages[i][s] IN
                        kind[o] = "image" /\ to[o][1] = i /\ o \notin dying
      BY DEF SubimagesAlive
    <2>1. pc \in {"idle", "set"}
      BY DEF CallTypeOK
    <2>2. LET o == subimages[i][s] IN kind[o] = "image" /\ to[o][1] = i /\ external[o] > 0
      BY <2>1 DEF Listed
    <2>3. subimages[i][s] \in Objects
      BY DEF ImageTypeOK
    <2> QED BY <2>2, <2>3, CountedAlive
  <1>2. IInv /\ Listed /\ [Next]_vars => Listed'
    BY ListedStep
  <1> HIDE DEF IInv
  <1> QED BY <1>1, <1>2, Inductive, InitLists, PTL DEF Spec

\* vxReleaseContext destroys all objects, however they refer to each other and
\* in whichever order they lie in the table.
THEOREM CollectsAllHolds == Spec => []CollectsAll
  <1>1. IInv /\ ImagesOrdered /\ Swept => CollectsAll
    <2> SUFFICES ASSUME IInv, ImagesOrdered, Swept, pc = "collected"
                 PROVE  \A o \in Objects : kind[o] = "none"
      BY DEF CollectsAll
    <2>1. dying = {} /\ r = MaxRefs + 1 /\ \A o \in Objects : o < r => external[o] = 0
      BY DEF Swept
    <2>2. \A o \in Objects : o < MaxRefs + 1
      BY ReferencesAssumption DEF Objects
    <2> QED BY <2>1, <2>2, NothingLeft
  <1>2. IInv /\ ImagesOrdered /\ [Next]_vars => ImagesOrdered'
    BY OrderedStep
  <1>3. IInv /\ Swept /\ [Next]_vars => Swept'
    BY SweptStep
  <1> HIDE DEF IInv
  <1> QED BY <1>1, <1>2, <1>3, Inductive, InitLists, PTL DEF Spec
=============================================================================

-------------------------- MODULE ThreadpoolProofs --------------------------
(***************************************************************************)
(* Proofs about Threadpool, for every number of workers, every depth of    *)
(* their queues and every wave, with and without spurious wake-ups and     *)
(* early releases; and about PooledGraphs, for every finite set of callers *)
(* of vxProcessGraph: its counter lets one call at a time on the pool, and *)
(* the pool gives that call its work items back.                           *)
(***************************************************************************)
EXTENDS PooledGraphs, FiniteSetTheorems, TLAPS

LEMMA ItemFacts ==
  /\ IsFiniteSet(Items)
  /\ \A S \in SUBSET Items : IsFiniteSet(S) /\ Cardinality(S) \in Nat
  <1>1. IsFiniteSet(1 .. MaxBatches) /\ IsFiniteSet(1 .. MaxItems)
    BY FS_Interval, ThreadpoolAssumption
  <1>2. IsFiniteSet(Items)
    BY <1>1, FS_Product, Zenon DEF Items
  <1> QED BY <1>2, FS_Subset, FS_CardinalityType

LEMMA NextWorkerType == nextWorkerIndex \in Workers => NextWorker \in Workers
  BY ThreadpoolAssumption DEF Workers, NextWorker

\* The outstanding items change in three ways only: not at all, by the item
\* that is written and by the item that is finished.
LEMMA OutstandingSame ==
  ASSUME place' = place PROVE Outstanding' = Outstanding
  BY DEF Outstanding

LEMMA OutstandingMoves ==
  ASSUME ItemTypeOK, NEW x \in Outstanding, NEW p \in {"queued", "running", "ran"},
         place' = [place EXCEPT ![x] = p]
  PROVE  Outstanding' = Outstanding
  BY DEF Outstanding, ItemTypeOK

LEMMA OutstandingGrows ==
  ASSUME ItemTypeOK, NEW x \in Items, place[x] = "new",
         place' = [place EXCEPT ![x] = "queued"]
  PROVE  /\ Outstanding' = Outstanding \cup {x}
         /\ Cardinality(Outstanding') = Cardinality(Outstanding) + 1
  <1>1. Outstanding' = Outstanding \cup {x} /\ x \notin Outstanding
    BY DEF Outstanding, ItemTypeOK
  <1>2. IsFiniteSet(Outstanding)
    BY ItemFacts DEF Outstanding
  <1> QED BY <1>1, <1>2, FS_AddElement

LEMMA OutstandingShrinks ==
  ASSUME ItemTypeOK, NEW x \in Outstanding, place' = [place EXCEPT ![x] = "done"]
  PROVE  /\ Outstanding' = Outstanding \ {x}
         /\ Cardinality(Outstanding') = Cardinality(Outstanding) - 1
  <1>1. Outstanding' = Outstanding \ {x}
    BY DEF Outstanding, ItemTypeOK
  <1>2. IsFiniteSet(Outstanding)
    BY ItemFacts DEF Outstanding
  <1> QED BY <1>1, <1>2, FS_RemoveElement

\* A count of zero says that nothing is outstanding.
LEMMA ZeroIsNone == Cardinality(Outstanding) = 0 <=> Outstanding = {}
  BY ItemFacts, FS_EmptySet DEF Outstanding

\* The item that is written is a fresh one.
LEMMA WrittenItem ==
  ASSUME IssuerTypeOK, Progress, pc = "write"
  PROVE  <<batch, i>> \in Items /\ place[<<batch, i>>] = "new"
  <1>1. batch \in 1 .. MaxBatches /\ i \in 1 .. MaxItems
    BY ThreadpoolAssumption DEF IssuerTypeOK, Progress
  <1>2. ~Started(batch, i)
    BY <1>1 DEF Started
  <1> QED BY <1>1, <1>2 DEF Progress, Items

-----------------------------------------------------------------------------
(* Types, one part at a time.                                              *)

\* The places, workers and actions of the items keep their types.
LEMMA NextItemType ==
  TypeOK /\ Progress /\ [Next]_vars => ItemTypeOK'
  <1> SUFFICES ASSUME TypeOK, Progress, [Next]_vars PROVE ItemTypeOK'
    OBVIOUS
  <1> USE DEF TypeOK, ItemTypeOK, items, pool, issuer, ends
  <1>1. ASSUME NEW n \in 1 .. MaxItems, Issue(n) PROVE ItemTypeOK'
    BY <1>1 DEF Issue
  <1>2. ASSUME Write PROVE ItemTypeOK'
    <2>1. nextWorkerIndex \in Workers
      BY DEF PoolTypeOK
    <2> QED BY <1>2, <2>1 DEF Write
  <1>3. ASSUME WriteFails PROVE ItemTypeOK'
    BY <1>3 DEF WriteFails
  <1>4. ASSUME EndIssue PROVE ItemTypeOK'
    BY <1>4 DEF EndIssue
  <1>5. ASSUME Complete PROVE ItemTypeOK'
    BY <1>5 DEF Complete
  <1>6. ASSUME Collect PROVE ItemTypeOK'
    BY <1>6 DEF Collect
  <1>7. ASSUME NEW w \in Workers, Read(w) PROVE ItemTypeOK'
    BY <1>7 DEF Read, Queued
  <1>8. ASSUME NEW w \in Workers, Run(w) PROVE ItemTypeOK'
    BY <1>8 DEF Run, InHand
  <1>9. ASSUME NEW w \in Workers, Finish(w) PROVE ItemTypeOK'
    BY <1>9 DEF Finish, InHand
  <1>10. ASSUME NEW w \in Workers, Exit(w) PROVE ItemTypeOK'
    BY <1>10 DEF Exit
  <1>11. ASSUME Destroy PROVE ItemTypeOK'
    BY <1>11 DEF Destroy
  <1>12. ASSUME Pop PROVE ItemTypeOK'
    BY <1>12 DEF Pop
  <1>13. ASSUME Join PROVE ItemTypeOK'
    BY <1>13 DEF Join
  <1>14. CASE UNCHANGED vars
    BY <1>14 DEF vars
  <1> QED BY <1>1, <1>2, <1>3, <1>4, <1>5, <1>6, <1>7, <1>8, <1>9, <1>10,
             <1>11, <1>12, <1>13, <1>14 DEF Next, IssuerStep, WorkerStep,
             DestroyStep, Terminated

\* The counter, the index of the next worker and the event keep theirs.
LEMMA NextPoolType ==
  TypeOK /\ [Next]_vars => PoolTypeOK'
  <1> SUFFICES ASSUME TypeOK, [Next]_vars PROVE PoolTypeOK'
    OBVIOUS
  <1> USE DEF TypeOK, PoolTypeOK, items, pool, issuer, ends
  <1>1. ASSUME NEW n \in 1 .. MaxItems, Issue(n) PROVE PoolTypeOK'
    BY <1>1 DEF Issue, EventAtIssue
  <1>2. ASSUME Write PROVE PoolTypeOK'
    BY <1>2, NextWorkerType DEF Write
  <1>3. ASSUME WriteFails PROVE PoolTypeOK'
    BY <1>3, NextWorkerType DEF WriteFails, CountAfterFailure
  <1>4. ASSUME EndIssue PROVE PoolTypeOK'
    BY <1>4 DEF EndIssue, EventAtEnd
  <1>5. ASSUME Complete PROVE PoolTypeOK'
    BY <1>5 DEF Complete
  <1>6. ASSUME Collect PROVE PoolTypeOK'
    BY <1>6 DEF Collect
  <1>7. ASSUME NEW w \in Workers, Read(w) PROVE PoolTypeOK'
    BY <1>7 DEF Read
  <1>8. ASSUME NEW w \in Workers, Run(w) PROVE PoolTypeOK'
    BY <1>8 DEF Run
  <1>9. ASSUME NEW w \in Workers, Finish(w) PROVE PoolTypeOK'
    BY <1>9 DEF Finish, IsLast
  <1>10. ASSUME NEW w \in Workers, Exit(w) PROVE PoolTypeOK'
    BY <1>10 DEF Exit
  <1>11. ASSUME Destroy PROVE PoolTypeOK'
    BY <1>11 DEF Destroy
  <1>12. ASSUME Pop PROVE PoolTypeOK'
    BY <1>12 DEF Pop
  <1>13. ASSUME Join PROVE PoolTypeOK'
    BY <1>13 DEF Join
  <1>14. CASE UNCHANGED vars
    BY <1>14 DEF vars
  <1> QED BY <1>1, <1>2, <1>3, <1>4, <1>5, <1>6, <1>7, <1>8, <1>9, <1>10,
             <1>11, <1>12, <1>13, <1>14 DEF Next, IssuerStep, WorkerStep,
             DestroyStep, Terminated

\* The variables of vxIssueThreadpool keep theirs.
LEMMA NextIssuerType ==
  TypeOK /\ Progress /\ [Next]_vars => IssuerTypeOK'
  <1> SUFFICES ASSUME TypeOK, Progress, [Next]_vars PROVE IssuerTypeOK'
    OBVIOUS
  <1> USE ThreadpoolAssumption DEF TypeOK, IssuerTypeOK, items, pool, issuer, ends
  <1>1. ASSUME NEW n \in 1 .. MaxItems, Issue(n) PROVE IssuerTypeOK'
    <2>1. batch' \in 0 .. MaxBatches /\ size' \in 0 .. MaxItems /\ i' \in 1 .. MaxItems + 1
      BY <1>1 DEF Issue
    <2>2. count' \in Nat /\ abandoned' \in BOOLEAN
      BY <1>1 DEF Issue
    <2>3. pc' = "write"
      BY <1>1 DEF Issue
    <2> QED BY <2>1, <2>2, <2>3
  <1>2. ASSUME Write PROVE IssuerTypeOK'
    BY <1>2 DEF Write, Progress
  <1>3. ASSUME WriteFails PROVE IssuerTypeOK'
    BY <1>3 DEF WriteFails
  <1>4. ASSUME EndIssue PROVE IssuerTypeOK'
    BY <1>4 DEF EndIssue
  <1>5. ASSUME Complete PROVE IssuerTypeOK'
    BY <1>5 DEF Complete
  <1>6. ASSUME Collect PROVE IssuerTypeOK'
    BY <1>6 DEF Collect
  <1>7. ASSUME NEW w \in Workers, Read(w) PROVE IssuerTypeOK'
    BY <1>7 DEF Read
  <1>8. ASSUME NEW w \in Workers, Run(w) PROVE IssuerTypeOK'
    BY <1>8 DEF Run
  <1>9. ASSUME NEW w \in Workers, Finish(w) PROVE IssuerTypeOK'
    BY <1>9 DEF Finish
  <1>10. ASSUME NEW w \in Workers, Exit(w) PROVE IssuerTypeOK'
    BY <1>10 DEF Exit
  <1>11. ASSUME Destroy PROVE IssuerTypeOK'
    BY <1>11 DEF Destroy
  <1>12. ASSUME Pop PROVE IssuerTypeOK'
    BY <1>12 DEF Pop
  <1>13. ASSUME Join PROVE IssuerTypeOK'
    BY <1>13 DEF Join
  <1>14. CASE UNCHANGED vars
    BY <1>14 DEF vars
  <1> QED BY <1>1, <1>2, <1>3, <1>4, <1>5, <1>6, <1>7, <1>8, <1>9, <1>10,
             <1>11, <1>12, <1>13, <1>14 DEF Next, IssuerStep, WorkerStep,
             DestroyStep, Terminated

\* The variables of vxDestroyThreadpool keep theirs.
LEMMA NextEndType ==
  TypeOK /\ [Next]_vars => EndTypeOK'
  <1> SUFFICES ASSUME TypeOK, [Next]_vars PROVE EndTypeOK'
    OBVIOUS
  <1> USE ThreadpoolAssumption DEF TypeOK, EndTypeOK, Workers, items, pool, issuer, ends
  <1>1. ASSUME NEW n \in 1 .. MaxItems, Issue(n) PROVE EndTypeOK'
    BY <1>1 DEF Issue
  <1>2. ASSUME Write PROVE EndTypeOK'
    BY <1>2 DEF Write
  <1>3. ASSUME WriteFails PROVE EndTypeOK'
    BY <1>3 DEF WriteFails
  <1>4. ASSUME EndIssue PROVE EndTypeOK'
    BY <1>4 DEF EndIssue
  <1>5. ASSUME Complete PROVE EndTypeOK'
    BY <1>5 DEF Complete
  <1>6. ASSUME Collect PROVE EndTypeOK'
    BY <1>6 DEF Collect
  <1>7. ASSUME NEW w \in Workers, Read(w) PROVE EndTypeOK'
    BY <1>7 DEF Read
  <1>8. ASSUME NEW w \in Workers, Run(w) PROVE EndTypeOK'
    BY <1>8 DEF Run
  <1>9. ASSUME NEW w \in Workers, Finish(w) PROVE EndTypeOK'
    BY <1>9 DEF Finish
  <1>10. ASSUME NEW w \in Workers, Exit(w) PROVE EndTypeOK'
    BY <1>10 DEF Exit
  <1>11. ASSUME Destroy PROVE EndTypeOK'
    BY <1>11 DEF Destroy
  <1>12. ASSUME Pop PROVE EndTypeOK'
    BY <1>12 DEF Pop, PoppedQueues
  <1>13. ASSUME Join PROVE EndTypeOK'
    BY <1>13 DEF Join
  <1>14. CASE UNCHANGED vars
    BY <1>14 DEF vars
  <1> QED BY <1>1, <1>2, <1>3, <1>4, <1>5, <1>6, <1>7, <1>8, <1>9, <1>10,
             <1>11, <1>12, <1>13, <1>14 DEF Next, IssuerStep, WorkerStep,
             DestroyStep, Terminated

-----------------------------------------------------------------------------
(* The strengthening.                                                      *)

\* The event stays reset while the issuer has pool->sem.
LEMMA NextEvent ==
  TypeOK /\ Event /\ [Next]_vars => Event'
  <1> SUFFICES ASSUME TypeOK, Event, [Next]_vars PROVE Event'
    OBVIOUS
  <1> USE DEF TypeOK, IssuerTypeOK, Event, items, pool, issuer, ends
  <1>1. ASSUME NEW n \in 1 .. MaxItems, Issue(n) PROVE Event'
    BY <1>1 DEF Issue, EventAtIssue
  <1>2. ASSUME Write PROVE Event'
    BY <1>2 DEF Write
  <1>3. ASSUME WriteFails PROVE Event'
    BY <1>3 DEF WriteFails
  <1>4. ASSUME EndIssue PROVE Event'
    BY <1>4 DEF EndIssue
  <1>5. ASSUME Complete PROVE Event'
    BY <1>5 DEF Complete
  <1>6. ASSUME Collect PROVE Event'
    BY <1>6 DEF Collect
  <1>7. ASSUME NEW w \in Workers, Read(w) PROVE Event'
    BY <1>7 DEF Read
  <1>8. ASSUME NEW w \in Workers, Run(w) PROVE Event'
    BY <1>8 DEF Run
  <1>9. ASSUME NEW w \in Workers, Finish(w) PROVE Event'
    BY <1>9 DEF Finish
  <1>10. ASSUME NEW w \in Workers, Exit(w) PROVE Event'
    BY <1>10 DEF Exit
  <1>11. ASSUME Destroy PROVE Event'
    BY <1>11 DEF Destroy
  <1>12. ASSUME Pop PROVE Event'
    BY <1>12 DEF Pop
  <1>13. ASSUME Join PROVE Event'
    BY <1>13 DEF Join
  <1>14. CASE UNCHANGED vars
    BY <1>14 DEF vars
  <1> QED BY <1>1, <1>2, <1>3, <1>4, <1>5, <1>6, <1>7, <1>8, <1>9, <1>10,
             <1>11, <1>12, <1>13, <1>14 DEF Next, IssuerStep, WorkerStep,
             DestroyStep, Terminated

\* Items leave "new" in the order they are written, and never come back.
LEMMA NextProgress ==
  TypeOK /\ Progress /\ [Next]_vars => Progress'
  <1> SUFFICES ASSUME TypeOK, Progress, [Next]_vars PROVE Progress'
    OBVIOUS
  <1> USE DEF TypeOK, items, pool, issuer, ends
  <1>1. ASSUME NEW n \in 1 .. MaxItems, Issue(n) PROVE Progress'
    <2>1. \A k \in 1 .. MaxItems : ~(k < i')
      BY <1>1 DEF Issue
    <2>2. \A b \in 1 .. MaxBatches, k \in 1 .. MaxItems : Started(b, k) => Started(b, k)'
      BY <1>1 DEF Issue, Started, IssuerTypeOK
    <2> QED BY <1>1, <2>1, <2>2 DEF Issue, Progress, IssuerTypeOK
  <1>2. ASSUME Write PROVE Progress'
    <2>1. <<batch, i>> \in Items /\ batch \in 1 .. MaxBatches /\ i \in 1 .. MaxItems
      BY <1>2, WrittenItem DEF Write, Items
    <2>2. \A y \in Items : place'[y] # "new" <=> place[y] # "new" \/ y = <<batch, i>>
      BY <1>2, <2>1 DEF Write, ItemTypeOK
    <2>3. \A b \in 1 .. MaxBatches, k \in 1 .. MaxItems : <<b, k>> \in Items
      BY DEF Items
    <2>4. \A b \in 1 .. MaxBatches, k \in 1 .. MaxItems :
            Started(b, k)' <=> Started(b, k) \/ <<b, k>> = <<batch, i>>
      BY <1>2, <2>1 DEF Write, Started, IssuerTypeOK
    <2>5. \A b \in 1 .. MaxBatches, k \in 1 .. MaxItems :
            place'[<<b, k>>] # "new" => Started(b, k)'
      BY <2>2, <2>3, <2>4 DEF Progress
    <2>6. \A k \in 1 .. MaxItems : k < i' => place'[<<batch, k>>] # "new"
      <3> SUFFICES ASSUME NEW k \in 1 .. MaxItems, k < i' PROVE place'[<<batch, k>>] # "new"
        OBVIOUS
      <3>1. k < i \/ k = i
        BY <1>2, <2>1 DEF Write
      <3> QED BY <3>1, <2>1, <2>2, <2>3 DEF Progress
    <2>7. batch' = batch /\ size' = size /\ i' = i + 1 /\ i <= size /\ batch > 0
      BY <1>2 DEF Write, Progress
    <2>8. pc' = IF i = size THEN "issued" ELSE "write"
      BY <1>2 DEF Write
    <2> QED BY <2>1, <2>5, <2>6, <2>7, <2>8 DEF Progress, IssuerTypeOK
  <1>3. ASSUME WriteFails PROVE Progress'
    <2>1. place' = place /\ batch' = batch /\ i' = i /\ size' = size
      BY <1>3 DEF WriteFails
    <2> QED BY <1>3, <2>1 DEF WriteFails, Progress, Started
  <1>4. ASSUME EndIssue PROVE Progress'
    <2>1. place' = place /\ batch' = batch /\ i' = i /\ size' = size
      BY <1>4 DEF EndIssue
    <2> QED BY <1>4, <2>1 DEF EndIssue, Progress, Started
  <1>5. ASSUME Complete PROVE Progress'
    <2>1. place' = place /\ batch' = batch /\ i' = i /\ size' = size
      BY <1>5 DEF Complete
    <2> QED BY <1>5, <2>1 DEF Complete, Progress, Started
  <1>6. ASSUME Collect PROVE Progress'
    <2>1. place' = place /\ batch' = batch /\ i' = i /\ size' = size
      BY <1>6 DEF Collect
    <2> QED BY <1>6, <2>1 DEF Collect, Progress, Started
  <1>7. ASSUME NEW w \in Workers, Read(w) PROVE Progress'
    <2>1. PICK x \in Items : place[x] # "new" /\ \E p \in {"running", "ran", "done"} : place' = [place EXCEPT ![x] = p]
      BY <1>7 DEF Read, Queued, InHand
    <2>2. \A y \in Items : place'[y] # "new" <=> place[y] # "new"
      BY <2>1 DEF ItemTypeOK
    <2>3. UNCHANGED issuer
      BY <1>7 DEF Read
    <2>4. \A b \in 1 .. MaxBatches, k \in 1 .. MaxItems : <<b, k>> \in Items
      BY DEF Items
    <2> QED BY <2>2, <2>3, <2>4 DEF Progress, Started, IssuerTypeOK
  <1>8. ASSUME NEW w \in Workers, Run(w) PROVE Progress'
    <2>1. PICK x \in Items : place[x] # "new" /\ \E p \in {"running", "ran", "done"} : place' = [place EXCEPT ![x] = p]
      BY <1>8 DEF Run, Queued, InHand
    <2>2. \A y \in Items : place'[y] # "new" <=> place[y] # "new"
      BY <2>1 DEF ItemTypeOK
    <2>3. UNCHANGED issuer
      BY <1>8 DEF Run
    <2>4. \A b \in 1 .. MaxBatches, k \in 1 .. MaxItems : <<b, k>> \in Items
      BY DEF Items
    <2> QED BY <2>2, <2>3, <2>4 DEF Progress, Started, IssuerTypeOK
  <1>9. ASSUME NEW w \in Workers, Finish(w) PROVE Progress'
    <2>1. PICK x \in Items : place[x] # "new" /\ \E p \in {"running", "ran", "done"} : place' = [place EXCEPT ![x] = p]
      BY <1>9 DEF Finish, Queued, InHand
    <2>2. \A y \in Items : place'[y] # "new" <=> place[y] # "new"
      BY <2>1 DEF ItemTypeOK
    <2>3. UNCHANGED issuer
      BY <1>9 DEF Finish
    <2>4. \A b \in 1 .. MaxBatches, k \in 1 .. MaxItems : <<b, k>> \in Items
      BY DEF Items
    <2> QED BY <2>2, <2>3, <2>4 DEF Progress, Started, IssuerTypeOK
  <1>10. ASSUME NEW w \in Workers, Exit(w) PROVE Progress'
    BY <1>10 DEF Exit, Progress, Started
  <1>11. ASSUME Destroy PROVE Progress'
    BY <1>11 DEF Destroy, Progress, Started
  <1>12. ASSUME Pop PROVE Progress'
    BY <1>12 DEF Pop, Progress, Started
  <1>13. ASSUME Join PROVE Progress'
    BY <1>13 DEF Join, Progress, Started
  <1>14. CASE UNCHANGED vars
    BY <1>14 DEF vars, Progress, Started
  <1> QED BY <1>1, <1>2, <1>3, <1>4, <1>5, <1>6, <1>7, <1>8, <1>9, <1>10,
             <1>11, <1>12, <1>13, <1>14 DEF Next, IssuerStep, WorkerStep,
             DestroyStep, Terminated

\* numCurrentItems follows the number of outstanding items.
LEMMA NextCounts ==
  TypeOK /\ Progress /\ CountsOutstanding /\ [Next]_vars => CountsOutstanding'
  <1> SUFFICES ASSUME TypeOK, Progress, CountsOutstanding, [Next]_vars PROVE CountsOutstanding'
    OBVIOUS
  <1> USE DEF TypeOK, items, pool, issuer, ends
  <1>1. ASSUME NEW n \in 1 .. MaxItems, Issue(n) PROVE CountsOutstanding'
    <2>1. Outstanding' = Outstanding
      BY <1>1, OutstandingSame DEF Issue
    <2> QED BY <1>1, <2>1 DEF Issue, CountsOutstanding
  <1>2. ASSUME Write PROVE CountsOutstanding'
    <2>1. <<batch, i>> \in Items /\ place[<<batch, i>>] = "new" /\ place' = [place EXCEPT ![<<batch, i>>] = "queued"]
      BY <1>2, WrittenItem DEF Write
    <2>2. Outstanding' = Outstanding \cup {<<batch, i>>} /\ Cardinality(Outstanding') = Cardinality(Outstanding) + 1
      BY <2>1, OutstandingGrows
    <2> QED BY <1>2, <2>2 DEF Write, CountsOutstanding
  <1>3. ASSUME WriteFails PROVE CountsOutstanding'
    <2>1. Outstanding' = Outstanding
      BY <1>3, OutstandingSame DEF WriteFails
    <2>2. numCurrentItems' = numCurrentItems
      BY <1>3 DEF WriteFails, CountAfterFailure, PoolTypeOK
    <2> QED BY <2>1, <2>2 DEF CountsOutstanding
  <1>4. ASSUME EndIssue PROVE CountsOutstanding'
    <2>1. Outstanding' = Outstanding
      BY <1>4, OutstandingSame DEF EndIssue
    <2> QED BY <1>4, <2>1 DEF EndIssue, CountsOutstanding
  <1>5. ASSUME Complete PROVE CountsOutstanding'
    <2>1. Outstanding' = Outstanding
      BY <1>5, OutstandingSame DEF Complete
    <2> QED BY <1>5, <2>1 DEF Complete, CountsOutstanding
  <1>6. ASSUME Collect PROVE CountsOutstanding'
    <2>1. Outstanding' = Outstanding
      BY <1>6, OutstandingSame DEF Collect
    <2> QED BY <1>6, <2>1 DEF Collect, CountsOutstanding
  <1>7. ASSUME NEW w \in Workers, Read(w) PROVE CountsOutstanding'
    <2>1. PICK x \in Outstanding, p \in {"running", "ran"} : place' = [place EXCEPT ![x] = p]
      BY <1>7 DEF Read, Queued, InHand, Outstanding
    <2>2. Outstanding' = Outstanding
      BY <2>1, OutstandingMoves
    <2> QED BY <1>7, <2>2 DEF Read, CountsOutstanding
  <1>8. ASSUME NEW w \in Workers, Run(w) PROVE CountsOutstanding'
    <2>1. PICK x \in Outstanding, p \in {"running", "ran"} : place' = [place EXCEPT ![x] = p]
      BY <1>8 DEF Run, Queued, InHand, Outstanding
    <2>2. Outstanding' = Outstanding
      BY <2>1, OutstandingMoves
    <2> QED BY <1>8, <2>2 DEF Run, CountsOutstanding
  <1>9. ASSUME NEW w \in Workers, Finish(w) PROVE CountsOutstanding'
    <2>1. PICK x \in Outstanding : place' = [place EXCEPT ![x] = "done"]
      BY <1>9 DEF Finish, InHand, Outstanding
    <2>2. Outstanding' = Outstanding \ {x} /\ Cardinality(Outstanding') = Cardinality(Outstanding) - 1
      BY <2>1, OutstandingShrinks
    <2> QED BY <1>9, <2>2 DEF Finish, CountsOutstanding
  <1>10. ASSUME NEW w \in Workers, Exit(w) PROVE CountsOutstanding'
    <2>1. Outstanding' = Outstanding
      BY <1>10, OutstandingSame DEF Exit
    <2> QED BY <1>10, <2>1 DEF Exit, CountsOutstanding
  <1>11. ASSUME Destroy PROVE CountsOutstanding'
    <2>1. Outstanding' = Outstanding
      BY <1>11, OutstandingSame DEF Destroy
    <2> QED BY <1>11, <2>1 DEF Destroy, CountsOutstanding
  <1>12. ASSUME Pop PROVE CountsOutstanding'
    <2>1. Outstanding' = Outstanding
      BY <1>12, OutstandingSame DEF Pop
    <2> QED BY <1>12, <2>1 DEF Pop, CountsOutstanding
  <1>13. ASSUME Join PROVE CountsOutstanding'
    <2>1. Outstanding' = Outstanding
      BY <1>13, OutstandingSame DEF Join
    <2> QED BY <1>13, <2>1 DEF Join, CountsOutstanding
  <1>14. CASE UNCHANGED vars
    <2>1. Outstanding' = Outstanding
      BY <1>14, OutstandingSame DEF vars
    <2> QED BY <1>14, <2>1 DEF vars, CountsOutstanding
  <1> QED BY <1>1, <1>2, <1>3, <1>4, <1>5, <1>6, <1>7, <1>8, <1>9, <1>10,
             <1>11, <1>12, <1>13, <1>14 DEF Next, IssuerStep, WorkerStep,
             DestroyStep, Terminated

\* The event is set only with a count of zero.
LEMMA NextCompletedMeansDone ==
  TypeOK /\ Progress /\ Event /\ CountsOutstanding /\ CompletedMeansDone /\ [Next]_vars => CompletedMeansDone'
  <1> SUFFICES ASSUME TypeOK, Progress, Event, CountsOutstanding, CompletedMeansDone, [Next]_vars PROVE CompletedMeansDone'
    OBVIOUS
  <1> USE DEF TypeOK, items, pool, issuer, ends
  <1>1. ASSUME NEW n \in 1 .. MaxItems, Issue(n) PROVE CompletedMeansDone'
    BY <1>1 DEF Issue, EventAtIssue, CompletedMeansDone
  <1>2. ASSUME Write PROVE CompletedMeansDone'
    <2>1. <<batch, i>> \in Items /\ place[<<batch, i>>] = "new" /\ place' = [place EXCEPT ![<<batch, i>>] = "queued"]
      BY <1>2, WrittenItem DEF Write
    <2>2. Outstanding' = Outstanding \cup {<<batch, i>>} /\ Cardinality(Outstanding') = Cardinality(Outstanding) + 1
      BY <2>1, OutstandingGrows
    <2> QED BY <1>2 DEF Write, Event, CompletedMeansDone
  <1>3. ASSUME WriteFails PROVE CompletedMeansDone'
    <2>1. Outstanding' = Outstanding
      BY <1>3, OutstandingSame DEF WriteFails
    <2> QED BY <1>3, <2>1 DEF WriteFails, CompletedMeansDone
  <1>4. ASSUME EndIssue PROVE CompletedMeansDone'
    <2>1. Outstanding' = Outstanding
      BY <1>4, OutstandingSame DEF EndIssue
    <2> QED BY <1>4, <2>1, ZeroIsNone DEF EndIssue, EventAtEnd, CountsOutstanding, CompletedMeansDone
  <1>5. ASSUME Complete PROVE CompletedMeansDone'
    <2>1. Outstanding' = Outstanding
      BY <1>5, OutstandingSame DEF Complete
    <2> QED BY <1>5, <2>1 DEF Complete, CompletedMeansDone
  <1>6. ASSUME Collect PROVE CompletedMeansDone'
    <2>1. Outstanding' = Outstanding
      BY <1>6, OutstandingSame DEF Collect
    <2> QED BY <1>6, <2>1 DEF Collect, CompletedMeansDone
  <1>7. ASSUME NEW w \in Workers, Read(w) PROVE CompletedMeansDone'
    <2>1. PICK x \in Outstanding, p \in {"running", "ran"} : place' = [place EXCEPT ![x] = p]
      BY <1>7 DEF Read, Queued, InHand, Outstanding
    <2>2. Outstanding' = Outstanding
      BY <2>1, OutstandingMoves
    <2> QED BY <1>7, <2>2 DEF Read, CompletedMeansDone
  <1>8. ASSUME NEW w \in Workers, Run(w) PROVE CompletedMeansDone'
    <2>1. PICK x \in Outstanding, p \in {"running", "ran"} : place' = [place EXCEPT ![x] = p]
      BY <1>8 DEF Run, Queued, InHand, Outstanding
    <2>2. Outstanding' = Outstanding
      BY <2>1, OutstandingMoves
    <2> QED BY <1>8, <2>2 DEF Run, CompletedMeansDone
  <1>9. ASSUME NEW w \in Workers, Finish(w) PROVE CompletedMeansDone'
    <2>1. PICK x \in Outstanding : place' = [place EXCEPT ![x] = "done"]
      BY <1>9 DEF Finish, InHand, Outstanding
    <2>2. Outstanding' = Outstanding \ {x} /\ Cardinality(Outstanding') = Cardinality(Outstanding) - 1
      BY <2>1, OutstandingShrinks
    <2>3. CASE completed
      BY <2>1, <2>3 DEF CompletedMeansDone
    <2>4. CASE ~completed /\ IsLast
      <3>1. Cardinality(Outstanding') <= 0
        BY <2>2, <2>4 DEF IsLast, CountsOutstanding
      <3>2. Cardinality(Outstanding') \in Nat /\ IsFiniteSet(Outstanding')
        BY <2>2, ItemFacts DEF Outstanding
      <3>3. Outstanding' = {}
        BY <3>1, <3>2, FS_EmptySet
      <3> QED BY <3>3 DEF CompletedMeansDone
    <2>5. CASE ~completed /\ ~IsLast
      BY <1>9, <2>5 DEF Finish, CompletedMeansDone
    <2> QED BY <2>3, <2>4, <2>5
  <1>10. ASSUME NEW w \in Workers, Exit(w) PROVE CompletedMeansDone'
    <2>1. Outstanding' = Outstanding
      BY <1>10, OutstandingSame DEF Exit
    <2> QED BY <1>10, <2>1 DEF Exit, CompletedMeansDone
  <1>11. ASSUME Destroy PROVE CompletedMeansDone'
    <2>1. Outstanding' = Outstanding
      BY <1>11, OutstandingSame DEF Destroy
    <2> QED BY <1>11, <2>1 DEF Destroy, CompletedMeansDone
  <1>12. ASSUME Pop PROVE CompletedMeansDone'
    <2>1. Outstanding' = Outstanding
      BY <1>12, OutstandingSame DEF Pop
    <2> QED BY <1>12, <2>1 DEF Pop, CompletedMeansDone
  <1>13. ASSUME Join PROVE CompletedMeansDone'
    <2>1. Outstanding' = Outstanding
      BY <1>13, OutstandingSame DEF Join
    <2> QED BY <1>13, <2>1 DEF Join, CompletedMeansDone
  <1>14. CASE UNCHANGED vars
    <2>1. Outstanding' = Outstanding
      BY <1>14, OutstandingSame DEF vars
    <2> QED BY <1>14, <2>1 DEF vars, CompletedMeansDone
  <1> QED BY <1>1, <1>2, <1>3, <1>4, <1>5, <1>6, <1>7, <1>8, <1>9, <1>10,
             <1>11, <1>12, <1>13, <1>14 DEF Next, IssuerStep, WorkerStep,
             DestroyStep, Terminated

\* The last one to leave sets the event.
LEMMA NextDoneMeansCompleted ==
  TypeOK /\ Progress /\ Event /\ CountsOutstanding /\ DoneMeansCompleted /\ [Next]_vars => DoneMeansCompleted'
  <1> SUFFICES ASSUME TypeOK, Progress, Event, CountsOutstanding, DoneMeansCompleted, [Next]_vars PROVE DoneMeansCompleted'
    OBVIOUS
  <1> USE DEF TypeOK, items, pool, issuer, ends
  <1>1. ASSUME NEW n \in 1 .. MaxItems, Issue(n) PROVE DoneMeansCompleted'
    BY <1>1 DEF Issue, DoneMeansCompleted
  <1>2. ASSUME Write PROVE DoneMeansCompleted'
    <2>1. <<batch, i>> \in Items /\ place[<<batch, i>>] = "new" /\ place' = [place EXCEPT ![<<batch, i>>] = "queued"]
      BY <1>2, WrittenItem DEF Write
    <2>2. Outstanding' = Outstanding \cup {<<batch, i>>} /\ Cardinality(Outstanding') = Cardinality(Outstanding) + 1
      BY <2>1, OutstandingGrows
    <2> QED BY <1>2 DEF Write, Event, DoneMeansCompleted
  <1>3. ASSUME WriteFails PROVE DoneMeansCompleted'
    BY <1>3 DEF WriteFails, Event, DoneMeansCompleted
  <1>4. ASSUME EndIssue PROVE DoneMeansCompleted'
    <2>1. Outstanding' = Outstanding
      BY <1>4, OutstandingSame DEF EndIssue
    <2> QED BY <1>4, <2>1, ZeroIsNone DEF EndIssue, EventAtEnd, CountsOutstanding, DoneMeansCompleted
  <1>5. ASSUME Complete PROVE DoneMeansCompleted'
    <2>1. Outstanding' = Outstanding
      BY <1>5, OutstandingSame DEF Complete
    <2> QED BY <1>5, <2>1 DEF Complete, DoneMeansCompleted
  <1>6. ASSUME Collect PROVE DoneMeansCompleted'
    <2>1. Outstanding' = Outstanding
      BY <1>6, OutstandingSame DEF Collect
    <2> QED BY <1>6, <2>1 DEF Collect, DoneMeansCompleted
  <1>7. ASSUME NEW w \in Workers, Read(w) PROVE DoneMeansCompleted'
    <2>1. PICK x \in Outstanding, p \in {"running", "ran"} : place' = [place EXCEPT ![x] = p]
      BY <1>7 DEF Read, Queued, InHand, Outstanding
    <2>2. Outstanding' = Outstanding
      BY <2>1, OutstandingMoves
    <2> QED BY <1>7, <2>2 DEF Read, DoneMeansCompleted
  <1>8. ASSUME NEW w \in Workers, Run(w) PROVE DoneMeansCompleted'
    <2>1. PICK x \in Outstanding, p \in {"running", "ran"} : place' = [place EXCEPT ![x] = p]
      BY <1>8 DEF Run, Queued, InHand, Outstanding
    <2>2. Outstanding' = Outstanding
      BY <2>1, OutstandingMoves
    <2> QED BY <1>8, <2>2 DEF Run, DoneMeansCompleted
  <1>9. ASSUME NEW w \in Workers, Finish(w) PROVE DoneMeansCompleted'
    <2>1. PICK x \in Outstanding : place' = [place EXCEPT ![x] = "done"]
      BY <1>9 DEF Finish, InHand, Outstanding
    <2>2. Outstanding' = Outstanding \ {x} /\ Cardinality(Outstanding') = Cardinality(Outstanding) - 1
      BY <2>1, OutstandingShrinks
    <2>3. Outstanding' = {} => Cardinality(Outstanding') = 0
      BY FS_EmptySet
    <2>4. Outstanding' = {} => IsLast
      BY <2>2, <2>3 DEF IsLast, CountsOutstanding, PoolTypeOK
    <2> QED BY <1>9, <2>4 DEF Finish, DoneMeansCompleted
  <1>10. ASSUME NEW w \in Workers, Exit(w) PROVE DoneMeansCompleted'
    <2>1. Outstanding' = Outstanding
      BY <1>10, OutstandingSame DEF Exit
    <2> QED BY <1>10, <2>1 DEF Exit, DoneMeansCompleted
  <1>11. ASSUME Destroy PROVE DoneMeansCompleted'
    <2>1. Outstanding' = Outstanding
      BY <1>11, OutstandingSame DEF Destroy
    <2> QED BY <1>11, <2>1 DEF Destroy, DoneMeansCompleted
  <1>12. ASSUME Pop PROVE DoneMeansCompleted'
    <2>1. Outstanding' = Outstanding
      BY <1>12, OutstandingSame DEF Pop
    <2> QED BY <1>12, <2>1 DEF Pop, DoneMeansCompleted
  <1>13. ASSUME Join PROVE DoneMeansCompleted'
    <2>1. Outstanding' = Outstanding
      BY <1>13, OutstandingSame DEF Join
    <2> QED BY <1>13, <2>1 DEF Join, DoneMeansCompleted
  <1>14. CASE UNCHANGED vars
    <2>1. Outstanding' = Outstanding
      BY <1>14, OutstandingSame DEF vars
    <2> QED BY <1>14, <2>1 DEF vars, DoneMeansCompleted
  <1> QED BY <1>1, <1>2, <1>3, <1>4, <1>5, <1>6, <1>7, <1>8, <1>9, <1>10,
             <1>11, <1>12, <1>13, <1>14 DEF Next, IssuerStep, WorkerStep,
             DestroyStep, Terminated

-----------------------------------------------------------------------------
(* The theorems.                                                           *)

LEMMA InitIInv == Init => IInv
  <1> SUFFICES ASSUME Init PROVE IInv
    OBVIOUS
  <1> USE ThreadpoolAssumption DEF Init
  <1>0. 0 \in Workers
    BY DEF Workers
  <1>1. ItemTypeOK /\ PoolTypeOK
    <2>1. ItemTypeOK
      BY <1>0 DEF ItemTypeOK
    <2>2. numCurrentItems \in Int /\ nextWorkerIndex \in Workers
      BY <1>0
    <2>3. semFree \in BOOLEAN /\ completed \in BOOLEAN
      BY Zenon
    <2> QED BY <2>1, <2>2, <2>3 DEF PoolTypeOK
  <1>2. IssuerTypeOK /\ EndTypeOK
    <2>1. IssuerTypeOK
      <3>1. batch \in 0 .. MaxBatches /\ size \in 0 .. MaxItems /\ i \in 1 .. MaxItems + 1
        OBVIOUS
      <3>2. pc = "idle" /\ count \in Nat
        OBVIOUS
      <3>3. abandoned \in BOOLEAN
        BY Zenon
      <3> QED BY <3>1, <3>2, <3>3 DEF IssuerTypeOK
    <2>2. EndTypeOK
      BY <1>0 DEF EndTypeOK
    <2> QED BY <2>1, <2>2
  <1>3. Progress
    BY DEF Progress, Items
  <1>4. Event
    BY DEF Event
  <1>5. Outstanding = {}
    BY DEF Outstanding
  <1>6. CountsOutstanding /\ CompletedMeansDone /\ DoneMeansCompleted
    BY <1>5, ZeroIsNone DEF CountsOutstanding, CompletedMeansDone, DoneMeansCompleted
  <1> QED BY <1>1, <1>2, <1>3, <1>4, <1>6 DEF IInv, TypeOK

\* The inductive invariant of the threadpool holds in every reachable state.
THEOREM Inductive == Spec => []IInv
  <1>1. IInv /\ [Next]_vars => IInv'
    BY NextItemType, NextPoolType, NextIssuerType, NextEndType, NextProgress,
       NextEvent, NextCounts, NextCompletedMeansDone, NextDoneMeansCompleted, Zenon
       DEF IInv, TypeOK
  <1> QED BY InitIInv, <1>1, PTL DEF Spec

\* Every variable of the threadpool keeps its type (vx_threadpool_t).
THEOREM TypeCorrect == Spec => []TypeOK
  <1>1. IInv => TypeOK
    BY DEF IInv
  <1> QED BY Inductive, <1>1, PTL

\* The counter that decides when a wave is over is exact, whichever writes
\* of vxIssueThreadpool fail.
THEOREM CountsOutstandingHolds == Spec => []CountsOutstanding
  <1>1. IInv => CountsOutstanding
    BY DEF IInv
  <1> QED BY Inductive, <1>1, PTL

\* vxCompleteThreadpool is not released while an item is outstanding ...
THEOREM CompletedMeansDoneHolds == Spec => []CompletedMeansDone
  <1>1. IInv => CompletedMeansDone
    BY DEF IInv
  <1> QED BY Inductive, <1>1, PTL

\* ... and is released when none is.
THEOREM DoneMeansCompletedHolds == Spec => []DoneMeansCompleted
  <1>1. IInv => DoneMeansCompleted
    BY DEF IInv
  <1> QED BY Inductive, <1>1, PTL

-----------------------------------------------------------------------------
(* The orderly case.                                                       *)

\* Without spurious wake-ups a write fails only on a popped queue, and a wave
\* is looked at only with the event set.
LEMMA NextOrderly ==
  ~Spurious /\ TypeOK /\ Progress /\ Orderly /\ [Next]_vars => Orderly'
  <1> SUFFICES ASSUME ~Spurious, TypeOK, Progress, Orderly, [Next]_vars PROVE Orderly'
    OBVIOUS
  <1> USE DEF TypeOK, items, pool, issuer, ends
  <1>1. ASSUME NEW n \in 1 .. MaxItems, Issue(n) PROVE Orderly'
    <2>1. batch' > 0
      BY <1>1 DEF Issue, IssuerTypeOK
    <2> QED BY <1>1, <2>1 DEF Issue, Orderly, EventAtIssue
  <1>2. ASSUME Write PROVE Orderly'
    <2>1. batch > 0
      BY <1>2 DEF Write, Progress
    <2> QED BY <1>2, <2>1 DEF Write, Orderly
  <1>3. ASSUME WriteFails PROVE Orderly'
    <2>1. popped[nextWorkerIndex]
      BY <1>3 DEF WriteFails
    <2>2. release # "none"
      BY <2>1 DEF Orderly, PoolTypeOK
    <2>3. Outstanding' = Outstanding
      BY <1>3, OutstandingSame DEF WriteFails
    <2>4. release' # "none" /\ pc' # "collect" /\ batch' = batch
      BY <1>3, <2>2, Zenon DEF WriteFails
    <2> QED BY <2>3, <2>4 DEF Orderly
  <1>4. ASSUME EndIssue PROVE Orderly'
    <2>1. Outstanding' = Outstanding
      BY <1>4, OutstandingSame DEF EndIssue
    <2> QED BY <1>4, <2>1 DEF EndIssue, Orderly, EventAtEnd
  <1>5. ASSUME Complete PROVE Orderly'
    <2>1. Outstanding' = Outstanding
      BY <1>5, OutstandingSame DEF Complete
    <2> QED BY <1>5, <2>1 DEF Complete, Orderly
  <1>6. ASSUME Collect PROVE Orderly'
    <2>1. Outstanding' = Outstanding
      BY <1>6, OutstandingSame DEF Collect
    <2> QED BY <1>6, <2>1 DEF Collect, Orderly
  <1>7. ASSUME NEW w \in Workers, Read(w) PROVE Orderly'
    <2>1. PICK x \in Outstanding, p \in {"running", "ran"} : place' = [place EXCEPT ![x] = p]
      BY <1>7 DEF Read, Queued, InHand, Outstanding
    <2>2. Outstanding' = Outstanding
      BY <2>1, OutstandingMoves
    <2> QED BY <1>7, <2>2 DEF Read, Orderly
  <1>8. ASSUME NEW w \in Workers, Run(w) PROVE Orderly'
    <2>1. PICK x \in Outstanding, p \in {"running", "ran"} : place' = [place EXCEPT ![x] = p]
      BY <1>8 DEF Run, Queued, InHand, Outstanding
    <2>2. Outstanding' = Outstanding
      BY <2>1, OutstandingMoves
    <2> QED BY <1>8, <2>2 DEF Run, Orderly
  <1>9. ASSUME NEW w \in Workers, Finish(w) PROVE Orderly'
    <2>1. PICK x \in Outstanding : place' = [place EXCEPT ![x] = "done"]
      BY <1>9 DEF Finish, InHand, Outstanding
    <2>2. Outstanding' = Outstanding \ {x} /\ Cardinality(Outstanding') = Cardinality(Outstanding) - 1
      BY <2>1, OutstandingShrinks
    <2>3. batch # 0
      BY <2>1 DEF Orderly
    <2> QED BY <1>9, <2>3 DEF Finish, Orderly
  <1>10. ASSUME NEW w \in Workers, Exit(w) PROVE Orderly'
    <2>1. Outstanding' = Outstanding
      BY <1>10, OutstandingSame DEF Exit
    <2> QED BY <1>10, <2>1 DEF Exit, Orderly
  <1>11. ASSUME Destroy PROVE Orderly'
    <2>1. Outstanding' = Outstanding
      BY <1>11, OutstandingSame DEF Destroy
    <2> QED BY <1>11, <2>1 DEF Destroy, Orderly
  <1>12. ASSUME Pop PROVE Orderly'
    <2>1. Outstanding' = Outstanding
      BY <1>12, OutstandingSame DEF Pop
    <2> QED BY <1>12, <2>1 DEF Pop, Orderly
  <1>13. ASSUME Join PROVE Orderly'
    <2>1. Outstanding' = Outstanding
      BY <1>13, OutstandingSame DEF Join
    <2> QED BY <1>13, <2>1 DEF Join, Orderly
  <1>14. CASE UNCHANGED vars
    <2>1. Outstanding' = Outstanding
      BY <1>14, OutstandingSame DEF vars
    <2> QED BY <1>14, <2>1 DEF vars, Orderly
  <1> QED BY <1>1, <1>2, <1>3, <1>4, <1>5, <1>6, <1>7, <1>8, <1>9, <1>10,
             <1>11, <1>12, <1>13, <1>14 DEF Next, IssuerStep, WorkerStep,
             DestroyStep, Terminated

LEMMA OrderlyHolds ==
  ASSUME ~Spurious PROVE Spec => [](IInv /\ Orderly)
  <1>1. Init => Orderly
    BY DEF Init, Orderly, Outstanding
  <1>2. IInv /\ Orderly /\ [Next]_vars => Orderly'
    BY NextOrderly, Zenon DEF IInv
  <1> QED BY Inductive, <1>1, <1>2, PTL DEF Spec

\* When vxExecuteGraph looks at the items of a wave or reuses their array, no
\* worker has any of them: the array may live on its stack.
THEOREM NoReuseHolds ==
  ASSUME ~Spurious PROVE Spec => []NoReuse
  <1>1. IInv /\ Orderly => NoReuse
    <2> SUFFICES ASSUME IInv, Orderly, pc = "collect" \/ (pc = "idle" /\ release = "none")
                 PROVE Outstanding = {}
      BY DEF NoReuse
    <2>1. CASE batch > 0
      BY <2>1 DEF Orderly, IInv, CompletedMeansDone
    <2>2. CASE ~(batch > 0)
      BY <2>2 DEF Orderly, IInv, TypeOK, IssuerTypeOK
    <2> QED BY <2>1, <2>2
  <1> QED BY OrderlyHolds, <1>1, PTL

\* Every node of a wave has run when vxExecuteGraph goes on to the next one.
THEOREM WaveIsCompleteHolds ==
  ASSUME ~Spurious PROVE Spec => []WaveIsComplete
  <1>1. IInv /\ Orderly => WaveIsComplete
    <2> SUFFICES ASSUME IInv, Orderly, pc = "collect", NEW k \in 1 .. size
                 PROVE place[<<batch, k>>] = "done"
      BY DEF WaveIsComplete
    <2>1. batch \in 1 .. MaxBatches /\ k \in 1 .. MaxItems /\ k < i
      BY ThreadpoolAssumption DEF IInv, Progress, TypeOK, IssuerTypeOK
    <2>2. <<batch, k>> \in Items /\ place[<<batch, k>>] # "new"
      BY <2>1 DEF IInv, Progress, Items
    <2>3. Outstanding = {}
      BY <2>1 DEF Orderly, IInv, CompletedMeansDone
    <2> QED BY <2>2, <2>3 DEF IInv, TypeOK, ItemTypeOK, Outstanding
  <1> QED BY OrderlyHolds, <1>1, PTL

\* Nothing changes what the workers left in the items of a wave once
\* vxExecuteGraph has looked at them: no node is still running then.
LEMMA NextAbandonSeen ==
  ASSUME TypeOK, Orderly, NoReuse, AbandonSeen, [Next]_vars PROVE AbandonSeen'
  <1> SUFFICES ASSUME pc' = "idle", release' = "none"
               PROVE  abandoned' <=> \E k \in 1 .. size' : action'[<<batch', k>>] = "abandon"
    BY DEF AbandonSeen
  <1>1. CASE UNCHANGED <<pc, release, abandoned, size, batch, action>>
    BY <1>1 DEF AbandonSeen
  <1>2. ASSUME NEW n \in 1 .. MaxItems, Issue(n) PROVE FALSE
    BY <1>2 DEF Issue
  <1>3. CASE Write \/ WriteFails \/ Complete
    BY <1>3 DEF Write, WriteFails, Complete
  <1>4. CASE EndIssue
    <2>1. release = "none" /\ pc = "overflow"
      BY <1>4 DEF EndIssue, ends
    <2> QED BY <2>1 DEF Orderly
  <1>5. CASE Collect
    <2>1. UNCHANGED <<size, batch, action>>
      BY <1>5 DEF Collect, items
    <2>2. abandoned' <=> \E x \in Collected : action[x] = "abandon"
      BY <1>5 DEF Collect, TypeOK, IssuerTypeOK
    <2>3. (\E x \in Collected : action[x] = "abandon")
            <=> \E k \in 1 .. size : action[<<batch, k>>] = "abandon"
      BY Zenon DEF Collected
    <2> QED BY <2>1, <2>2, <2>3
  <1>6. ASSUME NEW w \in Workers, Read(w) \/ Finish(w) \/ Exit(w)
        PROVE  UNCHANGED <<pc, release, abandoned, size, batch, action>>
    BY <1>6 DEF Read, Finish, Exit, items, issuer, ends
  <1>7. ASSUME NEW w \in Workers, Run(w) PROVE FALSE
    <2>1. pc = "idle" /\ release = "none"
      BY <1>7 DEF Run, issuer, ends
    <2>2. PICK x \in InHand(w) : place[x] = "running"
      BY <1>7 DEF Run
    <2> QED BY <2>1, <2>2 DEF NoReuse, InHand, Outstanding
  <1>8. CASE Destroy \/ DestroyStep
    BY <1>8 DEF Destroy, DestroyStep, Pop, Join
  <1>9. CASE Terminated \/ UNCHANGED vars
    BY <1>9, <1>1 DEF Terminated, vars, items, issuer, ends
  <1> QED BY <1>1, <1>2, <1>3, <1>4, <1>5, <1>6, <1>7, <1>8, <1>9
             DEF Next, IssuerStep, WorkerStep

\* A node that gave up is reported by vxExecuteGraph, and only such a node,
\* whichever worker ran it and however late.
THEOREM AbandonSeenHolds ==
  ASSUME ~Spurious PROVE Spec => []AbandonSeen
  <1>1. Init => AbandonSeen
    BY DEF Init, AbandonSeen
  <1>2. IInv => TypeOK
    BY DEF IInv
  <1> QED BY <1>1, <1>2, OrderlyHolds, NoReuseHolds, NextAbandonSeen, PTL DEF Spec

-----------------------------------------------------------------------------
(* The calls of vxProcessGraph around the pool.                            *)

\* The pool of the composition is the pool of Threadpool: whatever the calls
\* around it do, its theorems hold of it.
THEOREM PooledIsPool == PooledSpec => Spec
  <1>1. PooledInit => Init
    BY DEF PooledInit
  <1>2. [PooledNext]_allVars => [Next]_vars
    <2> SUFFICES ASSUME [PooledNext]_allVars PROVE [Next]_vars
      OBVIOUS
    <2>1. ASSUME NEW t \in Callers, Call(t) \/ Return(t) PROVE UNCHANGED vars
      BY <2>1, Zenon DEF Call, Return
    <2>2. ASSUME NEW t \in Callers, IssueWave(t) PROVE Next
      BY <2>2, Zenon DEF IssueWave, Next
    <2>3. ASSUME InWave PROVE Next
      BY <2>3, Zenon DEF InWave, Next
    <2>4. ASSUME NEW w \in Workers, Work(w) PROVE Next
      BY <2>4, Zenon DEF Work, Next
    <2>5. ASSUME Release PROVE Next
      BY <2>5, Zenon DEF Release, Next
    <2>6. ASSUME Over \/ UNCHANGED allVars PROVE UNCHANGED vars
      BY <2>6, Zenon DEF Over, allVars
    <2> QED BY <2>1, <2>2, <2>3, <2>4, <2>5, <2>6, Zenon DEF PooledNext
  <1> QED BY <1>1, <1>2, PTL DEF PooledSpec, Spec

-----------------------------------------------------------------------------
(* The counter of vxProcessGraph.                                          *)

InsideCalls == {t \in Callers : at[t] # "out"}

CounterInv ==
  /\ at \in [Callers -> {"out", "entered", "executing"}]
  /\ depth \in [Callers -> Int]
  /\ calls = Cardinality(InsideCalls)
  /\ OnePoolUser

LEMMA InsideFinite ==
  IsFiniteSet(InsideCalls) /\ Cardinality(InsideCalls) \in 0 .. Cardinality(Callers)
  <1>1. InsideCalls \in SUBSET Callers
    BY DEF InsideCalls
  <1>2. IsFiniteSet(InsideCalls) /\ Cardinality(InsideCalls) <= Cardinality(Callers)
    BY <1>1, PooledGraphsAssumption, FS_Subset
  <1> QED BY <1>2, PooledGraphsAssumption, FS_CardinalityType

LEMMA CounterInit == PooledInit => CounterInv
  <1> SUFFICES ASSUME PooledInit PROVE CounterInv
    OBVIOUS
  <1>1. InsideCalls = {}
    BY DEF PooledInit, G!Init, InsideCalls
  <1>2. calls = Cardinality(InsideCalls)
    BY <1>1, FS_EmptySet DEF PooledInit, G!Init
  <1>3. OnePoolUser
    BY DEF PooledInit, G!Init, OnePoolUser, G!OnePoolUser, G!OnPool
  <1> QED BY <1>2, <1>3 DEF PooledInit, G!Init, CounterInv

LEMMA EnterKeeps ==
  ASSUME CounterInv, NEW t \in Callers, G!Enter(t) PROVE CounterInv'
  <1> USE DEF CounterInv
  <1>1. InsideCalls' = InsideCalls \cup {t} /\ t \notin InsideCalls
    BY DEF G!Enter, G!Goto, InsideCalls
  <1>2. Cardinality(InsideCalls') = Cardinality(InsideCalls) + 1
    BY <1>1, InsideFinite, FS_AddElement
  <1>3. calls' = Cardinality(InsideCalls')
    BY <1>2 DEF G!Enter
  <1>4. OnePoolUser'
    BY DEF G!Enter, G!Goto, OnePoolUser, G!OnePoolUser, G!OnPool
  <1> QED BY <1>3, <1>4 DEF G!Enter, G!Goto

\* A call that reads one finds only itself inside.
LEMMA ReadCountKeeps ==
  ASSUME CounterInv, NEW t \in Callers, G!ReadCount(t) PROVE CounterInv'
  <1> USE DEF CounterInv
  <1>1. InsideCalls' = InsideCalls /\ t \in InsideCalls
    BY DEF G!ReadCount, G!Goto, InsideCalls
  <1>2. calls' = Cardinality(InsideCalls') /\ calls \in Int
    BY <1>1, InsideFinite DEF G!ReadCount
  <1>3. CASE calls = 1
    <2>1. PICK alone : InsideCalls = {alone}
      BY <1>3, InsideFinite, FS_Singleton
    <2>2. InsideCalls = {t}
      BY <1>1, <2>1
    <2>3. \A u \in Callers : G!OnPool(u)' => u = t
      BY <1>1, <2>2 DEF G!OnPool, InsideCalls
    <2>4. OnePoolUser'
      BY <2>3 DEF OnePoolUser, G!OnePoolUser
    <2> QED BY <1>2, <2>4 DEF G!ReadCount, G!Goto
  <1>4. CASE calls # 1
    <2>1. \A u \in Callers : G!OnPool(u)' => G!OnPool(u)
      BY <1>4 DEF G!ReadCount, G!Goto, G!OnPool
    <2>2. OnePoolUser'
      BY <2>1 DEF OnePoolUser, G!OnePoolUser
    <2> QED BY <1>2, <2>2 DEF G!ReadCount, G!Goto
  <1> QED BY <1>3, <1>4

LEMMA LeaveKeeps ==
  ASSUME CounterInv, NEW t \in Callers, G!Leave(t) PROVE CounterInv'
  <1> USE DEF CounterInv
  <1>1. InsideCalls' = InsideCalls \ {t} /\ t \in InsideCalls
    BY DEF G!Leave, G!Goto, InsideCalls
  <1>2. Cardinality(InsideCalls') = Cardinality(InsideCalls) - 1
    BY <1>1, InsideFinite, FS_RemoveElement
  <1>3. calls' = Cardinality(InsideCalls')
    BY <1>2 DEF G!Leave, G!CountAfterCall
  <1>4. OnePoolUser'
    BY DEF G!Leave, G!Goto, OnePoolUser, G!OnePoolUser, G!OnPool
  <1> QED BY <1>3, <1>4 DEF G!Leave, G!Goto

LEMMA CounterSame ==
  ASSUME CounterInv, UNCHANGED callVars PROVE CounterInv'
  BY DEF CounterInv, callVars, InsideCalls, OnePoolUser, G!OnePoolUser, G!OnPool

LEMMA CounterNext == CounterInv /\ [PooledNext]_allVars => CounterInv'
  <1> SUFFICES ASSUME CounterInv, [PooledNext]_allVars PROVE CounterInv'
    OBVIOUS
  <1>1. ASSUME NEW t \in Callers, Call(t) PROVE CounterInv'
    BY <1>1, EnterKeeps, ReadCountKeeps, Zenon DEF Call
  <1>2. ASSUME NEW t \in Callers, Return(t) PROVE CounterInv'
    BY <1>2, LeaveKeeps, Zenon DEF Return
  <1>3. ASSUME NEW t \in Callers, IssueWave(t) PROVE UNCHANGED callVars
    BY <1>3, Zenon DEF IssueWave
  <1>4. ASSUME NEW w \in Workers, Work(w) PROVE UNCHANGED callVars
    BY <1>4, Zenon DEF Work
  <1>5. InWave \/ Release \/ Over \/ UNCHANGED allVars => UNCHANGED callVars
    BY Zenon DEF InWave, Release, Over, allVars
  <1> QED BY <1>1, <1>2, <1>3, <1>4, <1>5, CounterSame, Zenon DEF PooledNext

\* The counter is the number of calls of vxProcessGraph in progress, and at most
\* one of them found itself alone: inductive.
THEOREM CounterExact == PooledSpec => []CounterInv
  BY CounterInit, CounterNext, PTL DEF PooledSpec

\* Of all the threads that process graphs at most one uses the threadpool.
THEOREM OnePoolUserHolds == PooledSpec => []OnePoolUser
  <1>1. CounterInv => OnePoolUser
    BY DEF CounterInv
  <1> QED BY <1>1, CounterExact, PTL

-----------------------------------------------------------------------------
(* Whose work items are in the pool.                                       *)

OwnerInv ==
  /\ owner \in Callers \cup {"nobody"}
  /\ owner = "nobody" <=> pc = "idle"
  /\ owner # "nobody" => G!OnPool(owner)

\* The outstanding items are those of the wave that is issued.
WaveInv == release = "none" => \A x \in Outstanding : x[1] = batch

LEMMA OwnerNext ==
  CounterInv /\ OwnerInv /\ [PooledNext]_allVars => OwnerInv'
  <1> SUFFICES ASSUME CounterInv, OwnerInv, [PooledNext]_allVars PROVE OwnerInv'
    OBVIOUS
  <1> USE DEF OwnerInv, G!OnPool
  <1>1. ASSUME NEW t \in Callers, Call(t) PROVE OwnerInv'
    <2>1. UNCHANGED <<pc, owner>>
      BY <1>1 DEF Call, vars, issuer
    <2>2. at[t] # "executing"
      BY <1>1 DEF Call, G!Enter, G!ReadCount, G!Goto
    <2>3. ASSUME owner # "nobody"
          PROVE  at'[owner] = at[owner] /\ depth'[owner] = depth[owner]
      BY <1>1, <2>2, <2>3 DEF Call, G!Enter, G!ReadCount, G!Goto, CounterInv
    <2> QED BY <2>1, <2>3
  <1>2. ASSUME NEW t \in Callers, Return(t) PROVE OwnerInv'
    <2>1. UNCHANGED <<pc, owner, depth>> /\ owner # t
      BY <1>2 DEF Return, G!Leave, vars, issuer
    <2>2. ASSUME owner # "nobody" PROVE at'[owner] = at[owner]
      BY <1>2, <2>1, <2>2 DEF Return, G!Leave, G!Goto, CounterInv
    <2> QED BY <2>1, <2>2
  <1>3. ASSUME NEW t \in Callers, IssueWave(t) PROVE OwnerInv'
    BY <1>3, PooledGraphsAssumption DEF IssueWave, Issue, callVars
  <1>4. ASSUME InWave PROVE OwnerInv'
    <2>1. pc # "idle"
      BY <1>4 DEF InWave, IssuerStep, Write, WriteFails, EndIssue, Complete, Collect
    <2> QED BY <1>4, <2>1 DEF InWave, callVars
  <1>5. ASSUME NEW w \in Workers, Work(w) PROVE OwnerInv'
    BY <1>5 DEF Work, callVars, WorkerStep, Read, Run, Finish, Exit, issuer
  <1>6. ASSUME Release PROVE OwnerInv'
    BY <1>6 DEF Release, callVars, Destroy, DestroyStep, Pop, Join, issuer
  <1>7. ASSUME Over \/ UNCHANGED allVars PROVE OwnerInv'
    BY <1>7 DEF Over, allVars, callVars, vars, issuer
  <1> QED BY <1>1, <1>2, <1>3, <1>4, <1>5, <1>6, <1>7 DEF PooledNext

LEMMA WaveNext ==
  IInv /\ NoReuse /\ WaveInv /\ [Next]_vars => WaveInv'
  <1> SUFFICES ASSUME IInv, NoReuse, WaveInv, [Next]_vars, release' = "none"
               PROVE  \A x \in Outstanding' : x[1] = batch'
    BY DEF WaveInv
  <1> USE DEF items, pool, issuer, ends
  <1>1. release = "none"
    BY DEF Next, Issue, IssuerStep, Write, WriteFails, EndIssue, Complete, Collect, WorkerStep,
           Read, Run, Finish, Exit, Destroy, DestroyStep, Pop, Join, Terminated, vars
  <1>2. \A x \in Outstanding : x[1] = batch
    BY <1>1 DEF WaveInv
  <1>3. ItemTypeOK
    BY DEF IInv, TypeOK
  <1>4. ASSUME NEW n \in 1 .. MaxItems, Issue(n) PROVE Outstanding' = {}
    BY <1>1, <1>4, OutstandingSame DEF Issue, NoReuse
  <1>5. ASSUME Write PROVE Outstanding' \subseteq Outstanding \cup {<<batch, i>>} /\ batch' = batch
    BY <1>3, <1>5 DEF Write, Outstanding, ItemTypeOK
  <1>6. ASSUME WriteFails \/ EndIssue \/ Complete \/ Collect \/ Terminated \/ UNCHANGED vars
        PROVE  Outstanding' = Outstanding /\ batch' = batch
    BY <1>6, OutstandingSame DEF WriteFails, EndIssue, Complete, Collect, Terminated, vars
  <1>7. ASSUME NEW w \in Workers, WorkerStep(w)
        PROVE  Outstanding' \subseteq Outstanding /\ batch' = batch
    BY <1>3, <1>7 DEF WorkerStep, Read, Run, Finish, Exit, Outstanding, Queued, InHand, ItemTypeOK
  <1>8. ASSUME Destroy \/ DestroyStep PROVE Outstanding' = Outstanding /\ batch' = batch
    BY <1>8, OutstandingSame DEF Destroy, DestroyStep, Pop, Join
  <1> QED BY <1>2, <1>4, <1>5, <1>6, <1>7, <1>8 DEF Next, IssuerStep

\* Without spurious wake-ups, what a worker may still touch is on the stack of
\* the one call that is on the pool, for any number of callers, workers and
\* waves: no call returns over items that are still in use.
THEOREM WorkHasCallerHolds ==
  ASSUME ~Spurious PROVE PooledSpec => []WorkHasCaller
  <1>1. PooledInit => OwnerInv /\ WaveInv
    BY DEF PooledInit, Init, OwnerInv, WaveInv, Outstanding
  <1>2. PooledSpec => []IInv /\ []NoReuse
    BY PooledIsPool, Inductive, NoReuseHolds, PTL
  <1>3. PooledSpec => [][Next]_vars
    BY PooledIsPool, PTL DEF Spec
  <1>4. PooledSpec => []OwnerInv
    BY <1>1, CounterExact, OwnerNext, PTL DEF PooledSpec
  <1>5. PooledSpec => []WaveInv
    BY <1>1, <1>2, <1>3, WaveNext, PTL DEF PooledSpec
  <1>6. OwnerInv /\ WaveInv /\ NoReuse => WorkHasCaller
    BY DEF OwnerInv, WaveInv, NoReuse, WorkHasCaller
  <1> QED BY <1>2, <1>4, <1>5, <1>6, PTL
=============================================================================

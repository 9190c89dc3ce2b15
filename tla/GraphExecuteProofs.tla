------------------------- MODULE GraphExecuteProofs -------------------------
(***************************************************************************)
(* The waves of vxExecuteGraph are right for every set of nodes, objects   *)
(* and parameters, if parameters are set with discipline.                  *)
(*                                                                         *)
(* IInv relates the heads of a verified graph to its dependences, and the  *)
(* lists of the loop to what was executed: a wave only has nodes all of    *)
(* whose writers were executed in earlier waves, an executed node is       *)
(* either a head or has its flag visited, and no candidate is a head.      *)
(***************************************************************************)
EXTENDS GraphExecute, FiniteSetTheorems, WellFoundedInduction, TLAPS

Types ==
  /\ nodes \in SUBSET Nodes /\ heads \in SUBSET Nodes
  /\ in \in [Nodes -> SUBSET Refs] /\ out \in [Nodes -> SUBSET Refs]
  /\ status \in Statuses
  /\ pc \in {"idle", "wave"}
  /\ next \in SUBSET Nodes /\ todo \in SUBSET next /\ left \in SUBSET Nodes
  /\ visited \in SUBSET Nodes /\ executed \in SUBSET Nodes

Flags == verified \in BOOLEAN /\ pooled \in BOOLEAN /\ abandoned \in BOOLEAN

Clean == pc = "idle" => next = {} /\ left = {} /\ visited = {} /\ ~abandoned

\* The heads of a verified graph depend on no node, not even on themselves.
Fresh == verified => heads = {n \in nodes : Writers(n) = {}}

Running ==
  pc = "wave" =>
    /\ verified
    /\ next \subseteq nodes /\ executed \subseteq nodes
    /\ \A n \in executed : Writers(n) \subseteq executed
    /\ \A n \in next : Writers(n) \subseteq executed /\ Writers(n) \cap next = {}
    /\ todo \cap executed = {}
    /\ executed \cup next \subseteq visited \cup heads
    /\ \A n \in left : n \in nodes /\ Writers(n) # {}

IInv == Types /\ Flags /\ Clean /\ Fresh /\ Running

-----------------------------------------------------------------------------
\* Two nodes that read and write the same objects before and after a step
\* depend on each other as before.
LEMMA WritersUnchanged ==
  ASSUME UNCHANGED bindings
  PROVE  \A n : Writers(n)' = Writers(n)
  BY DEF Writers, bindings, Overlap

LEMMA ReadersAndWriters ==
  ASSUME NEW m \in nodes, NEW n \in nodes
  PROVE  n \in Readers(m) <=> m \in Writers(n)
  BY DEF Readers, Writers, Overlap

\* Aging replaces objects so that those that overlap still do.
LEMMA AgingKeepsWriters ==
  ASSUME Types, AgeDelays
  PROVE  \A n \in nodes : Writers(n)' = Writers(n)
<1> SUFFICES ASSUME NEW n \in nodes, NEW m \in nodes
             PROVE  (m \in Writers(n)') <=> (m \in Writers(n))
  BY DEF Writers, AgeDelays
<1>1. /\ in'[n] = {Aged[r] : r \in in[n]} /\ out'[m] = {Aged[r] : r \in out[m]}
      /\ in[n] \subseteq Refs /\ out[m] \subseteq Refs /\ nodes' = nodes
  BY DEF AgeDelays, Types
<1>2. \A r \in in[n], s \in out[m] : Overlap(Aged[r], Aged[s]) <=> Overlap(r, s)
  BY <1>1, GraphExecuteAssumption
<1>3. (\E r \in in'[n], s \in out'[m] : Overlap(r, s))
        <=> (\E r \in in[n], s \in out[m] : Overlap(r, s))
  BY <1>1, <1>2
<1> QED
  BY <1>1, <1>3 DEF Writers, Overlap

\* A buffer that only one parameter uses makes no node depend on another.
LEMMA ReplacingKeepsWriters ==
  ASSUME Types, Disciplined, NEW k \in nodes, NEW old \in Refs, NEW new \in Refs,
         MayReplace(k, old, new), Replace(k, old, new)
  PROVE  \A n \in nodes : Writers(n)' = Writers(n)
<1>1. \A m \in nodes : \A s \in in[m] \cup out[m] :
        Overlap(old, s) \/ Overlap(new, s)
          => m = k /\ s = old /\ s \notin in[k] \cap out[k]
  BY DEF MayReplace, PrivateBuffer
<1>2. /\ nodes \subseteq Nodes /\ nodes' = nodes
      /\ old \in in[k] \cup out[k]
      /\ \A m \in nodes : m # k => in'[m] = in[m] /\ out'[m] = out[m]
      /\ in'[k] = IF old \in in[k] THEN (in[k] \ {old}) \cup {new} ELSE in[k]
      /\ out'[k] = IF old \in out[k] THEN (out[k] \ {old}) \cup {new} ELSE out[k]
  BY DEF Replace, Types
<1>3. /\ \A r, s : Overlap(r, s) <=> Overlap(s, r)
      /\ Overlap(old, old)
  BY GraphExecuteAssumption DEF Overlap
<1>4. ~(old \in in[k] /\ old \in out[k])
  BY <1>1, <1>2, <1>3
<1> SUFFICES ASSUME NEW n \in nodes, NEW m \in nodes
             PROVE  (\E r \in in'[n], s \in out'[m] : Overlap(r, s))
                      <=> (\E r \in in[n], s \in out[m] : Overlap(r, s))
  BY <1>2 DEF Writers, Overlap
<1>5. ASSUME NEW r \in in[n], NEW s \in out[m], Overlap(r, s)
      PROVE  r \in in'[n] /\ s \in out'[m]
  <2>1. ~(n = k /\ r = old)
    BY <1>1, <1>4, <1>5
  <2>2. ~(m = k /\ s = old)
    BY <1>1, <1>3, <1>4, <1>5
  <2> QED
    BY <1>2, <2>1, <2>2
<1>6. ASSUME NEW r \in in'[n], NEW s \in out'[m], Overlap(r, s)
      PROVE  r \in in[n] /\ s \in out[m]
  <2>1. r \in in[n] \/ (n = k /\ r = new /\ old \in in[k])
    BY <1>2
  <2>2. s \in out[m] \/ (m = k /\ s = new /\ old \in out[k])
    BY <1>2
  <2>3. CASE r \in in[n] /\ s \notin out[m]
    <3>1. m = k /\ s = new /\ old \in out[k]
      BY <2>2, <2>3
    <3>2. n = k /\ r = old
      BY <1>1, <1>3, <1>6, <2>3, <3>1
    <3> QED
      BY <1>4, <2>3, <3>1, <3>2
  <2>4. CASE r \notin in[n] /\ s \in out[m]
    <3>1. n = k /\ r = new /\ old \in in[k]
      BY <2>1, <2>4
    <3>2. m = k /\ s = old
      BY <1>1, <1>6, <2>4, <3>1
    <3> QED
      BY <1>4, <2>4, <3>1, <3>2
  <2>5. CASE r \notin in[n] /\ s \notin out[m]
    BY <1>4, <2>1, <2>2, <2>5
  <2> QED
    BY <2>3, <2>4, <2>5
<1> QED
  BY <1>5, <1>6

\* A head that vxVerifyGraph accepts does not read its own output.
LEMMA AcceptedHeads ==
  ASSUME Topology = "verified"
  PROVE  HeadNodes = {n \in nodes : Writers(n) = {}}
<1>1. ~InvalidTopology
  BY DEF Topology
<1>2. ASSUME NEW n \in HeadNodes PROVE Writers(n) = {}
  <2>1. n \in nodes /\ Writers(n) \subseteq {n}
    BY <1>2 DEF HeadNodes
  <2>2. n \in Reached(n)
    BY <2>1 DEF Reached
  <2>3. ~CycleFrom(n)
    BY <1>1, <1>2 DEF InvalidTopology
  <2>4. n \notin Readers(n)
    BY <2>2, <2>3 DEF CycleFrom
  <2> QED
    BY <2>1, <2>4, ReadersAndWriters
<1> QED
  BY <1>2 DEF HeadNodes
\* Verification makes the heads fresh, or leaves the graph unverified.
LEMMA VerifyMakesFresh ==
  ASSUME Types, VerifyGraph
  PROVE  /\ heads' \in SUBSET nodes /\ nodes' = nodes /\ in' = in /\ out' = out
         /\ status' \in Statuses
         /\ verified' \in BOOLEAN
         /\ Fresh'
<1> DEFINE topology == Topology
<1>1. PICK validated \in BOOLEAN, initialized \in BOOLEAN :
        /\ status' = IF ~validated THEN "invalid_parameters"
                     ELSE IF topology # "verified" THEN topology
                     ELSE IF ~initialized THEN "failure" ELSE "verified"
        /\ verified' = (status' = "verified")
        /\ heads' = IF status' \in {"invalid_parameters", "multiple_writers"}
                    THEN {} ELSE HeadNodes
        /\ UNCHANGED bindings
  BY DEF VerifyGraph
<1>2. topology \in {"multiple_writers", "invalid_graph", "verified"}
  BY DEF Topology
<1>3. status' \in Statuses
  BY <1>1, <1>2 DEF Statuses
<1>4. HeadNodes \subseteq nodes
  BY DEF HeadNodes
<1>5. nodes' = nodes /\ in' = in /\ out' = out
  BY <1>1 DEF bindings
<1>6. ASSUME verified' PROVE heads' = {n \in nodes : Writers(n) = {}}
  <2>1. status' = "verified"
    BY <1>1, <1>6
  <2>2. topology = "verified"
    BY <1>1, <2>1
  <2> QED
    BY <1>1, <2>1, <2>2, AcceptedHeads
<1>7. Fresh'
  BY <1>1, <1>5, <1>6, WritersUnchanged DEF Fresh
<1>8. verified' \in BOOLEAN
  BY <1>1, Zenon
<1> QED
  BY <1>1, <1>3, <1>4, <1>5, <1>7, <1>8

\* A wave of fresh heads.
LEMMA BeginRuns ==
  ASSUME NEW first, Begin(first), first \subseteq nodes', nodes' \subseteq Nodes,
         verified', first = heads',
         \A n \in first : Writers(n)' = {}
  PROVE  /\ Running' /\ Clean'
         /\ pc' \in {"idle", "wave"} /\ pooled' \in BOOLEAN /\ abandoned' \in BOOLEAN
         /\ next' \in SUBSET Nodes /\ todo' \in SUBSET next' /\ left' \in SUBSET Nodes
         /\ visited' \in SUBSET Nodes /\ executed' \in SUBSET Nodes
<1>1. /\ next' = first /\ todo' = first /\ left' = {} /\ visited' = {} /\ executed' = {}
      /\ pc' = "wave"
  BY DEF Begin
<1>2. pooled' \in BOOLEAN /\ abandoned' \in BOOLEAN
  BY GraphExecuteAssumption DEF Begin
<1> QED
  BY <1>1, <1>2 DEF Running, Clean

LEMMA InitIInv == Init => IInv
<1> SUFFICES ASSUME Init PROVE IInv
  OBVIOUS
<1>1. Types /\ Clean /\ Fresh /\ Running
  BY DEF Init, Types, Statuses, Clean, Fresh, Running
<1>2. Flags
  BY DEF Init, Flags
<1> QED
  BY <1>1, <1>2 DEF IInv

LEMMA ProcessStep == IInv /\ Process => IInv'
<1> SUFFICES ASSUME IInv, Process PROVE IInv'
  OBVIOUS
<1> USE DEF IInv
<1>1. pc = "idle"
  BY DEF Process
<1>2. CASE verified
  <2>1. Begin(heads) /\ status' = "none" /\ UNCHANGED <<bindings, verified, heads>>
    BY <1>2 DEF Process
  <2>2. \A n : Writers(n)' = Writers(n)
    BY <2>1, WritersUnchanged
  <2>3. heads = {n \in nodes : Writers(n) = {}} /\ nodes' = nodes /\ in' = in /\ out' = out
    BY <1>2, <2>1 DEF Fresh, bindings
  <2>4. Fresh'
    BY <2>1, <2>2, <2>3 DEF Fresh
  <2>5. heads' = heads /\ heads \subseteq nodes' /\ nodes' \subseteq Nodes /\ verified'
    BY <1>2, <2>1, <2>3 DEF Types
  <2>6. \A n \in heads : Writers(n)' = {}
    BY <2>2, <2>3
  <2>7. /\ Running' /\ Clean'
        /\ pc' \in {"idle", "wave"} /\ pooled' \in BOOLEAN /\ abandoned' \in BOOLEAN
        /\ next' \in SUBSET Nodes /\ todo' \in SUBSET next' /\ left' \in SUBSET Nodes
        /\ visited' \in SUBSET Nodes /\ executed' \in SUBSET Nodes
    BY <2>1, <2>5, <2>6, BeginRuns
  <2>8. Types'
    BY <2>1, <2>3, <2>5, <2>7 DEF Types, Statuses
  <2>9. Flags'
    BY <2>1, <2>7 DEF Flags
  <2> QED
    BY <2>4, <2>7, <2>8, <2>9
<1>3. CASE ~verified
  <2>1. VerifyGraph /\ IF verified' THEN Begin(heads') ELSE UNCHANGED <<pc, loop>>
    BY <1>3 DEF Process
  <2>2. /\ heads' \in SUBSET nodes /\ nodes' = nodes /\ in' = in /\ out' = out
        /\ status' \in Statuses /\ verified' \in BOOLEAN /\ Fresh'
    BY <2>1, VerifyMakesFresh
  <2>3. CASE verified'
    <3>1. Begin(heads')
      BY <2>1, <2>3
    <3>2. \A n \in heads' : Writers(n)' = {}
      BY <2>2, <2>3 DEF Fresh
    <3>3. heads' \subseteq nodes' /\ nodes' \subseteq Nodes
      BY <2>2 DEF Types
    <3>4. /\ Running' /\ Clean'
          /\ pc' \in {"idle", "wave"} /\ pooled' \in BOOLEAN /\ abandoned' \in BOOLEAN
          /\ next' \in SUBSET Nodes /\ todo' \in SUBSET next' /\ left' \in SUBSET Nodes
          /\ visited' \in SUBSET Nodes /\ executed' \in SUBSET Nodes
      BY <2>3, <3>1, <3>2, <3>3, BeginRuns
    <3>5. Types'
      BY <2>2, <3>3, <3>4 DEF Types
    <3>6. Flags'
      BY <2>2, <3>4 DEF Flags
    <3> QED
      BY <2>2, <3>4, <3>5, <3>6
  <2>4. CASE ~verified'
    <3>1. UNCHANGED <<pc, loop>>
      BY <2>1, <2>4
    <3>2. Types'
      BY <2>2, <3>1 DEF Types, loop
    <3>3. Flags'
      BY <2>2, <3>1 DEF Flags, loop
    <3>4. Clean'
      BY <1>1, <3>1 DEF Clean, loop
    <3>5. Running'
      BY <1>1, <3>1 DEF Running
    <3> QED
      BY <2>2, <3>2, <3>3, <3>4, <3>5
  <2> QED
    BY <2>3, <2>4
<1> QED
  BY <1>2, <1>3

LEMMA ExecuteStep == ASSUME NEW n \in Nodes PROVE IInv /\ Execute(n) => IInv'
<1> SUFFICES ASSUME IInv, Execute(n) PROVE IInv'
  OBVIOUS
<1> USE DEF IInv
<1>1. /\ pc = "wave" /\ pc' = "wave" /\ n \in todo
      /\ nodes' = nodes /\ in' = in /\ out' = out /\ verified' = verified
      /\ heads' = heads /\ status' = status /\ pooled' = pooled
      /\ next' = next /\ left' = left /\ visited' = visited
  BY DEF Execute, bindings
<1>2. \A k : Writers(k)' = Writers(k)
  BY <1>1, WritersUnchanged DEF bindings
<1>3. n \in next /\ n \notin executed /\ todo \subseteq next
  BY <1>1 DEF Running, Types
<1>4. PICK action \in Actions :
        /\ executed' = executed \cup {n}
        /\ abandoned' = (abandoned \/ action = "abandon")
        /\ todo' = IF action = "abandon" /\ ~pooled THEN {} ELSE todo \ {n}
  BY <1>3 DEF Execute
<1>5. todo' \subseteq todo \ {n}
  BY <1>4
<1>6. Types'
  BY <1>1, <1>3, <1>4, <1>5 DEF Types
<1>7. abandoned' \in BOOLEAN
  BY <1>4, Zenon
<1>8. Flags'
  BY <1>1, <1>7 DEF Flags
<1>9. Clean' /\ Fresh'
  BY <1>1, <1>2 DEF Clean, Fresh
<1>10. Running'
  BY <1>1, <1>2, <1>3, <1>4, <1>5 DEF Running
<1> QED
  BY <1>6, <1>8, <1>9, <1>10

\* A node of the new wave depends on executed nodes only, and was not executed:
\* it has a writer, so it is no head, and its flag visited is not set.
LEMMA WaveStep ==
  ASSUME IInv, pc = "wave", ~(abandoned \/ NextWave = {}), EndWave
  PROVE  IInv'
<1> USE DEF IInv
<1>1. /\ next' = NextWave /\ todo' = NextWave
      /\ left' = {n \in Candidates : ~Ready(n)}
      /\ visited' = visited \cup NextWave
      /\ pc' = pc /\ status' = status /\ pooled' = pooled /\ abandoned' = abandoned
      /\ nodes' = nodes /\ in' = in /\ out' = out
      /\ verified' = verified /\ heads' = heads /\ executed' = executed
  BY DEF EndWave, bindings
<1>2. \A n : Writers(n)' = Writers(n)
  BY <1>1, WritersUnchanged DEF bindings
<1>3. \A n \in Candidates : n \in nodes /\ Writers(n) # {}
  <2>1. ASSUME NEW m \in next, NEW n \in Readers(m)
        PROVE  n \in nodes /\ m \in Writers(n)
    <3>1. m \in nodes /\ n \in nodes
      BY <2>1 DEF Running, Readers
    <3> QED
      BY <2>1, <3>1, ReadersAndWriters
  <2>2. \A n \in left : n \in nodes /\ Writers(n) # {}
    BY DEF Running
  <2>3. ASSUME NEW n \in Candidates, n \notin left PROVE n \in nodes /\ Writers(n) # {}
    <3>1. PICK m \in next : n \in Readers(m)
      BY <2>3 DEF Candidates
    <3> QED
      BY <2>1, <3>1
  <2> QED
    BY <2>2, <2>3
<1>4. \A n \in NextWave : /\ n \in Candidates /\ n \notin visited
                          /\ Writers(n) \subseteq executed
  BY DEF NextWave, Ready
<1>5. \A n \in NextWave : n \notin executed
  <2>1. heads = {n \in nodes : Writers(n) = {}} /\ executed \subseteq visited \cup heads
    BY DEF Fresh, Running
  <2> QED
    BY <1>3, <1>4, <2>1
<1>6. NextWave \subseteq nodes /\ NextWave \subseteq Nodes /\ Candidates \subseteq Nodes
  BY <1>3, <1>4 DEF Types
<1>7. Types'
  BY <1>1, <1>6 DEF Types
<1>8. Flags' /\ Clean' /\ Fresh'
  BY <1>1, <1>2 DEF Flags, Clean, Fresh
<1>9. \A n \in NextWave : Writers(n) \cap NextWave = {}
  BY <1>4, <1>5
<1>10. Running'
  BY <1>1, <1>2, <1>3, <1>4, <1>5, <1>6, <1>9 DEF Running
<1> QED
  BY <1>7, <1>8, <1>10

\* Aging as a step: everything the invariant says of the graph stays.
LEMMA AgingStep ==
  ASSUME Types, Fresh, AgeDelays, verified' = verified, heads' = heads
  PROVE  /\ nodes' = nodes /\ Fresh'
         /\ in' \in [Nodes -> SUBSET Refs] /\ out' \in [Nodes -> SUBSET Refs]
<1>1. nodes' = nodes
  BY DEF AgeDelays
<1>2. Fresh'
  BY <1>1, AgingKeepsWriters DEF Fresh
<1>3. \A r \in Refs : Aged[r] \in Refs
  BY GraphExecuteAssumption
<1>4. /\ \A n \in Nodes : {Aged[r] : r \in in[n]} \in SUBSET Refs
      /\ \A n \in Nodes : {Aged[r] : r \in out[n]} \in SUBSET Refs
  BY <1>3 DEF Types
<1>5. in' \in [Nodes -> SUBSET Refs] /\ out' \in [Nodes -> SUBSET Refs]
  BY <1>4 DEF AgeDelays
<1> QED
  BY <1>1, <1>2, <1>5

LEMMA EndWaveStep == IInv /\ EndWave => IInv'
<1> SUFFICES ASSUME IInv, EndWave PROVE IInv'
  OBVIOUS
<1>1. pc = "wave"
  BY DEF EndWave
<1>2. CASE abandoned \/ NextWave = {}
  <2> USE DEF IInv
  <2>1. /\ Finish /\ todo' = todo /\ verified' = verified /\ heads' = heads
        /\ executed' = executed /\ todo = {}
    BY <1>2 DEF EndWave
  <2>2. /\ pc' = "idle" /\ visited' = {} /\ next' = {} /\ left' = {}
        /\ pooled' = FALSE /\ abandoned' = FALSE /\ AgeDelays
        /\ status' \in Statuses
    BY <2>1 DEF Finish, Statuses
  <2>3. /\ nodes' = nodes /\ Fresh'
        /\ in' \in [Nodes -> SUBSET Refs] /\ out' \in [Nodes -> SUBSET Refs]
    BY <2>1, <2>2, AgingStep
  <2>4. Types'
    BY <2>1, <2>2, <2>3 DEF Types
  <2>5. Flags' /\ Clean' /\ Running'
    BY <2>1, <2>2 DEF Flags, Clean, Running
  <2> QED
    BY <2>3, <2>4, <2>5
<1> QED
  BY <1>1, <1>2, WaveStep

\* A change of the graph between executions, of which only what it does to
\* the parameters and to the heads matters.
LEMMA IdleStep ==
  ASSUME IInv, pc = "idle", pc' = pc, UNCHANGED loop, Fresh',
         nodes' \in SUBSET Nodes, heads' \in SUBSET Nodes, status' \in Statuses,
         in' \in [Nodes -> SUBSET Refs], out' \in [Nodes -> SUBSET Refs],
         verified' \in BOOLEAN
  PROVE  IInv'
<1>1. Types' /\ Clean' /\ Running'
  BY DEF IInv, Types, Clean, Running, loop
<1>2. Flags'
  BY DEF IInv, Flags, loop
<1> QED
  BY <1>1, <1>2 DEF IInv

LEMMA ChangeStep == ASSUME Disciplined PROVE IInv /\ Change => IInv'
<1> SUFFICES ASSUME IInv, Change PROVE IInv'
  OBVIOUS
<1>1. ASSUME Verify PROVE IInv'
  <2>1. /\ heads' \in SUBSET nodes /\ nodes' = nodes /\ in' = in /\ out' = out
        /\ status' \in Statuses /\ verified' \in BOOLEAN /\ Fresh'
    BY <1>1, VerifyMakesFresh DEF Verify, IInv
  <2>2. pc = "idle" /\ pc' = pc /\ UNCHANGED loop
    BY <1>1 DEF Verify, IInv, Clean, loop
  <2> QED
    BY <2>1, <2>2, IdleStep DEF IInv, Types
<1>2. ASSUME NEW n \in Nodes, RemoveNode(n) PROVE IInv'
  <2>1. /\ pc = "idle" /\ pc' = pc /\ UNCHANGED loop /\ Fresh' /\ verified' \in BOOLEAN
        /\ heads' \in SUBSET Nodes /\ status' \in Statuses
    BY <1>2 DEF RemoveNode, Fresh, Statuses, IInv, Types
  <2>2. /\ nodes' \in SUBSET Nodes
        /\ in' \in [Nodes -> SUBSET Refs] /\ out' \in [Nodes -> SUBSET Refs]
    BY <1>2 DEF RemoveNode, IInv, Types
  <2> QED
    BY <2>1, <2>2, IdleStep
<1>3. ASSUME NEW n \in Nodes, NEW b \in Bindings, AddNode(n, b) PROVE IInv'
  <2>1. /\ pc = "idle" /\ pc' = pc /\ UNCHANGED loop /\ Fresh' /\ verified' \in BOOLEAN
        /\ heads' \in SUBSET Nodes /\ status' \in Statuses
    BY <1>3 DEF AddNode, Fresh, Statuses, IInv, Types
  <2>2. b.in \in SUBSET Refs /\ b.out \in SUBSET Refs
    BY GraphExecuteAssumption
  <2>3. /\ nodes' \in SUBSET Nodes
        /\ in' \in [Nodes -> SUBSET Refs] /\ out' \in [Nodes -> SUBSET Refs]
    BY <1>3, <2>2 DEF AddNode, IInv, Types
  <2> QED
    BY <2>1, <2>3, IdleStep
<1>4. ASSUME NEW n \in Nodes, NEW old \in Buffers, NEW new \in Buffers,
             SetParameter(n, old, new) \/ SetGraphParameter(n, old, new)
      PROVE  IInv'
  <2>1. /\ pc = "idle" /\ pc' = pc /\ UNCHANGED loop /\ heads' = heads
        /\ MayReplace(n, old, new) /\ Replace(n, old, new) /\ n \in nodes
        /\ verified' = verified \/ (verified /\ verified' = TRUE)
        /\ status' \in Statuses /\ nodes' = nodes
    BY <1>4 DEF SetParameter, SetGraphParameter, Statuses, Replace
  <2>2. old \in Refs /\ new \in Refs
    BY GraphExecuteAssumption
  <2>3. \A k \in nodes : Writers(k)' = Writers(k)
    BY <2>1, <2>2, ReplacingKeepsWriters DEF IInv
  <2>4. Fresh'
    BY <2>1, <2>3 DEF Fresh, IInv
  <2>5. in' \in [Nodes -> SUBSET Refs] /\ out' \in [Nodes -> SUBSET Refs]
    BY <2>1, <2>2 DEF Replace, IInv, Types
  <2>6. verified' \in BOOLEAN
    BY <2>1, Zenon DEF IInv, Flags
  <2> QED
    BY <2>1, <2>4, <2>5, <2>6, IdleStep DEF IInv, Types
<1>5. ASSUME Age PROVE IInv'
  <2>1. /\ pc = "idle" /\ pc' = pc /\ UNCHANGED loop /\ heads' = heads
        /\ verified' = verified /\ AgeDelays /\ status' \in Statuses
    BY <1>5 DEF Age, Statuses
  <2>2. /\ nodes' = nodes /\ Fresh'
        /\ in' \in [Nodes -> SUBSET Refs] /\ out' \in [Nodes -> SUBSET Refs]
    BY <2>1, AgingStep DEF IInv
  <2>3. verified' \in BOOLEAN
    BY <2>1 DEF IInv, Flags
  <2> QED
    BY <2>1, <2>2, <2>3, IdleStep DEF IInv, Types
<1> QED
  BY <1>1, <1>2, <1>3, <1>4, <1>5 DEF Change

\* The strengthened invariant holds in every state, for every set of nodes.
THEOREM Inductive == ASSUME Disciplined PROVE Spec => []IInv
<1>1. IInv /\ UNCHANGED vars => IInv'
  <2> SUFFICES ASSUME IInv, UNCHANGED vars PROVE IInv'
    OBVIOUS
  <2>1. \A n : Writers(n)' = Writers(n)
    BY WritersUnchanged DEF vars
  <2>2. Types' /\ Flags' /\ Clean'
    BY DEF IInv, vars, bindings, loop, Types, Flags, Clean
  <2>3. Fresh' /\ Running'
    BY <2>1 DEF IInv, vars, bindings, loop, Fresh, Running
  <2> QED
    BY <2>2, <2>3 DEF IInv
<1>2. IInv /\ [Next]_vars => IInv'
  BY <1>1, ProcessStep, EndWaveStep, ExecuteStep, ChangeStep DEF Next, Step
<1> QED
  BY <1>2, InitIInv, PTL DEF Spec

\* Types, and nothing of a wave survives it.
THEOREM TypeCorrect == ASSUME Disciplined PROVE Spec => []TypeOK
<1>1. IInv => TypeOK
  BY DEF IInv, Types, Flags, Clean, TypeOK
<1> QED
  BY <1>1, Inductive, PTL

\* However nodes read each other's outputs, the branch "Multiple executions
\* attempted!" of vxExecuteGraph is not reached.
THEOREM NeverTwiceHolds == ASSUME Disciplined PROVE Spec => []NeverTwice
<1>1. IInv => NeverTwice
  BY DEF IInv, Types, Clean, Running, NeverTwice
<1> QED
  BY <1>1, Inductive, PTL

\* No node is executed before the nodes that write what it reads.
THEOREM ProducersFirstHolds == ASSUME Disciplined PROVE Spec => []ProducersFirst
<1>1. IInv => ProducersFirst
  BY DEF IInv, Running, ProducersFirst
<1> QED
  BY <1>1, Inductive, PTL

\* The nodes vxExecuteGraph gives to the pool together do not depend on each
\* other.
THEOREM WaveIsIndependentHolds == ASSUME Disciplined PROVE Spec => []WaveIsIndependent
<1>1. IInv => WaveIsIndependent
  BY DEF IInv, Running, WaveIsIndependent
<1> QED
  BY <1>1, Inductive, PTL

-----------------------------------------------------------------------------
(* Cycles: what the traversal of vxVerifyGraph finds, and the ranks of the *)
(* nodes of a graph that has none.                                         *)

LEMMA LeastNumber ==
  ASSUME NEW S \in SUBSET Nat, S # {}
  PROVE  \E x \in S : \A y \in S : x <= y
<1>1. PICK x \in S : \A y \in S : ~(<<y, x>> \in OpToRel(<, Nat))
  BY NatLessThanWellFounded, WFMin, Zenon
<1>2. \A y \in S : ~(y < x)
  BY <1>1 DEF OpToRel
<1> QED
  BY <1>2

Ranked(S) ==
  \E rank \in [S -> 1 .. Cardinality(S)] :
    \A m \in S : \A n \in S : n \in Readers(m) => rank[m] < rank[n]

\* A graph of which every part has a node that no node of that part follows
\* has ranks: such a node gets the highest one, the others follow by
\* induction over the size of the part.
LEMMA SinksGiveRanks ==
  ASSUME IsFiniteSet(nodes),
         \A S \in SUBSET nodes : S # {} => \E n \in S : \A m \in S : m \notin Readers(n)
  PROVE  Acyclic
<1> DEFINE bad == {k \in Nat : \E S \in SUBSET nodes : Cardinality(S) = k /\ ~Ranked(S)}
<1>1. bad = {}
  <2> SUFFICES ASSUME bad # {} PROVE FALSE
    OBVIOUS
  <2>1. PICK k \in bad : \A j \in bad : k <= j
    BY LeastNumber
  <2>2. PICK S \in SUBSET nodes : Cardinality(S) = k /\ ~Ranked(S)
    BY <2>1
  <2>3. IsFiniteSet(S) /\ k \in Nat
    BY <2>1, <2>2, FS_Subset
  <2>4. S # {}
    <3> SUFFICES ASSUME S = {} PROVE FALSE
      OBVIOUS
    <3>1. [n \in S |-> 1] \in [S -> 1 .. Cardinality(S)]
      OBVIOUS
    <3> QED
      BY <2>2, <3>1 DEF Ranked
  <2>5. PICK x \in S : \A m \in S : m \notin Readers(x)
    BY <2>4
  <2> DEFINE T == S \ {x}
  <2>6. Cardinality(T) = k - 1 /\ k - 1 \in Nat
    <3>1. Cardinality(T) = k - 1
      BY <2>2, <2>3, FS_RemoveElement
    <3>2. k # 0
      BY <2>2, <2>3, <2>4, FS_EmptySet
    <3> QED
      BY <2>3, <3>1, <3>2
  <2>7. Ranked(T)
    <3>1. k - 1 \notin bad
      BY <2>1, <2>3
    <3>2. T \in SUBSET nodes
      OBVIOUS
    <3> QED
      BY <2>6, <3>1, <3>2
  <2>8. PICK low \in [T -> 1 .. k - 1] :
          \A m \in T : \A n \in T : n \in Readers(m) => low[m] < low[n]
    BY <2>6, <2>7 DEF Ranked
  <2> DEFINE rank == [n \in S |-> IF n = x THEN k ELSE low[n]]
  <2>9. rank \in [S -> 1 .. k]
    <3>1. \A n \in T : low[n] \in 1 .. k
      BY <2>3, <2>6, <2>8
    <3>2. k \in 1 .. k
      BY <2>3, <2>6
    <3> QED
      BY <3>1, <3>2
  <2>10. ASSUME NEW m \in S, NEW n \in S, n \in Readers(m) PROVE rank[m] < rank[n]
    <3>1. m # x
      BY <2>5, <2>10
    <3>2. CASE n = x
      <4>1. low[m] \in 1 .. k - 1 /\ rank[m] = low[m] /\ rank[n] = k
        BY <2>8, <3>1, <3>2
      <4> QED
        BY <2>3, <4>1
    <3>3. CASE n # x
      BY <2>8, <2>10, <3>1, <3>3
    <3> QED
      BY <3>2, <3>3
  <2> QED
    BY <2>2, <2>9, <2>10 DEF Ranked
<1>2. Cardinality(nodes) \in Nat
  BY FS_CardinalityType
<1>3. Ranked(nodes)
  BY <1>1, <1>2
<1> QED
  BY <1>3 DEF Ranked, Acyclic, Readers

\* A part in which every node is followed by one of the part has, from a head
\* it is reached from, a walk of any length; that is what depth counts.
LEMMA NoEndlessPart ==
  ASSUME IsFiniteSet(nodes), ~InvalidTopology,
         NEW S \in SUBSET nodes, S # {}, \A n \in S : \E m \in S : m \in Readers(n)
  PROVE  FALSE
<1> DEFINE Endless(T) == \A n \in T : \E m \in T : m \in Readers(n)
<1> DEFINE E == UNION {T \in SUBSET nodes : Endless(T)}
<1>1. E \subseteq nodes /\ \A n \in E : \E m \in E : m \in Readers(n)
  OBVIOUS
<1>2. ASSUME NEW n \in nodes, NEW m \in E, m \in Readers(n) PROVE n \in E
  <2>1. PICK T \in SUBSET nodes : Endless(T) /\ m \in T
    BY <1>2
  <2>2. T \cup {n} \in SUBSET nodes /\ Endless(T \cup {n})
    BY <1>2, <2>1
  <2> QED
    BY <2>2
<1>3. S \subseteq E
  OBVIOUS
<1> HIDE DEF E
<1>4. PICK h \in HeadNodes : \E n \in S : n \in Reached(h)
  <2>1. nodes = UNION {Reached(h) : h \in HeadNodes}
    BY DEF InvalidTopology
  <2> QED
    BY <2>1
<1>5. h \in nodes /\ ~CycleFrom(h)
  BY DEF HeadNodes, InvalidTopology
<1>6. h \in E
  <2> SUFFICES ASSUME h \notin E PROVE FALSE
    OBVIOUS
  <2> DEFINE rest == nodes \ E
  <2>1. rest \in SUBSET nodes /\ h \in rest
    BY <1>5
  <2>2. \A m \in rest : Readers(m) \subseteq rest
    BY <1>2 DEF Readers
  <2>3. Reached(h) \subseteq rest
    BY <2>1, <2>2 DEF Reached
  <2> QED
    BY <1>3, <1>4, <2>3
<1> DEFINE Walk(w, k) == w[0] \in Readers(h) /\ \A d \in 1 .. k : w[d] \in Readers(w[d - 1])
<1> DEFINE short == {k \in Nat : ~ \E w \in [0 .. k -> E] : Walk(w, k)}
<1>7. short = {}
  <2> SUFFICES ASSUME short # {} PROVE FALSE
    OBVIOUS
  <2>1. PICK k \in short : \A j \in short : k <= j
    BY LeastNumber
  <2>2. k # 0
    <3> SUFFICES ASSUME k = 0 PROVE FALSE
      OBVIOUS
    <3>1. PICK m \in E : m \in Readers(h)
      BY <1>1, <1>6
    <3> DEFINE w == [d \in 0 .. 0 |-> m]
    <3>2. w \in [0 .. 0 -> E] /\ w[0] = m
      OBVIOUS
    <3>3. 1 .. 0 = {}
      OBVIOUS
    <3>4. Walk(w, 0)
      BY <3>1, <3>2, <3>3
    <3> QED
      BY <2>1, <3>2, <3>4
  <2>3. k \in Nat /\ k - 1 \in Nat /\ k - 1 \notin short
    <3>1. k \in Nat /\ k - 1 \in Nat /\ ~(k <= k - 1)
      BY <2>2
    <3> HIDE DEF short
    <3> QED
      BY <2>1, <3>1
  <2>4. PICK w \in [0 .. k - 1 -> E] : Walk(w, k - 1)
    BY <2>3
  <2>5. w[k - 1] \in E
    BY <2>3, <2>4
  <2>6. PICK m \in E : m \in Readers(w[k - 1])
    BY <1>1, <2>5
  <2> DEFINE longer == [d \in 0 .. k |-> IF d = k THEN m ELSE w[d]]
  <2>7. longer \in [0 .. k -> E]
    BY <2>3, <2>4, <2>6
  <2>8. longer[0] \in Readers(h)
    BY <2>2, <2>3, <2>4
  <2>9. ASSUME NEW d \in 1 .. k PROVE longer[d] \in Readers(longer[d - 1])
    <3>1. CASE d = k
      <4>1. longer[d] = m /\ longer[d - 1] = w[k - 1]
        BY <2>3, <3>1
      <4> QED
        BY <2>6, <4>1
    <3>2. CASE d # k
      <4>1. d \in 1 .. k - 1 /\ longer[d] = w[d] /\ longer[d - 1] = w[d - 1]
        BY <2>3, <3>2
      <4> QED
        BY <2>4, <4>1
    <3> QED
      BY <3>1, <3>2
  <2>10. Walk(longer, k)
    BY <2>8, <2>9
  <2> HIDE DEF longer, Walk
  <2> QED
    BY <2>1, <2>7, <2>10
<1>8. DepthLimit \in Nat
  BY FS_CardinalityType DEF DepthLimit
<1>9. PICK w \in [0 .. DepthLimit -> E] : Walk(w, DepthLimit)
  BY <1>7, <1>8
<1>10. w \in [0 .. DepthLimit -> nodes]
  BY <1>1
<1> QED
  BY <1>5, <1>9, <1>10 DEF CycleFrom

\* A topology that vxVerifyGraph accepts has ranks.
LEMMA AcceptedAcyclic ==
  ASSUME IsFiniteSet(nodes), ~InvalidTopology
  PROVE  Acyclic
<1>1. ASSUME NEW S \in SUBSET nodes, S # {}
      PROVE  \E n \in S : \A m \in S : m \notin Readers(n)
  BY <1>1, NoEndlessPart
<1> QED
  BY <1>1, SinksGiveRanks

\* Of any nodes of a graph with ranks there is one that none of the others
\* precedes.
LEMMA FirstOf ==
  ASSUME IsFiniteSet(nodes), Acyclic, NEW S \in SUBSET nodes, S # {}
  PROVE  \E n \in S : Writers(n) \cap S = {}
<1>1. PICK rank \in [nodes -> 1 .. Cardinality(nodes)] :
        \A m \in nodes : \A n \in Readers(m) : rank[m] < rank[n]
  BY DEF Acyclic
<1> DEFINE ranks == {rank[n] : n \in S}
<1>2. ranks \in SUBSET Nat /\ ranks # {}
  BY FS_CardinalityType
<1>3. PICK k \in ranks : \A j \in ranks : k <= j
  BY <1>2, LeastNumber
<1>4. PICK n \in S : rank[n] = k
  BY <1>3
<1>5. ASSUME NEW m \in S, m \in Writers(n) PROVE FALSE
  <2>1. rank[m] < rank[n]
    BY <1>1, <1>5, ReadersAndWriters
  <2>2. rank[n] <= rank[m] /\ rank[m] \in Nat /\ rank[n] \in Nat
    BY <1>2, <1>3, <1>4
  <2> QED
    BY <2>1, <2>2
<1> QED
  BY <1>5

\* vxVerifyGraph accepts every topology that has ranks: there is a head, each
\* node is reached from one, and no walk is longer than the graph.
LEMMA AcyclicAccepted ==
  ASSUME IsFiniteSet(nodes), Acyclic, nodes # {}
  PROVE  ~InvalidTopology
<1>1. PICK rank \in [nodes -> 1 .. Cardinality(nodes)] :
        \A m \in nodes : \A n \in Readers(m) : rank[m] < rank[n]
  BY DEF Acyclic
<1>2. Cardinality(nodes) \in Nat
  BY FS_CardinalityType
<1>3. HeadNodes # {}
  <2>1. PICK n \in nodes : Writers(n) \cap nodes = {}
    BY FirstOf
  <2> QED
    BY <2>1 DEF HeadNodes, Writers
<1>4. ASSUME NEW h \in HeadNodes PROVE ~CycleFrom(h)
  <2>1. \A n \in nodes : n \notin Readers(n)
    BY <1>1, <1>2
  <2>2. ASSUME NEW walk \in [0 .. DepthLimit -> nodes],
               \A d \in 1 .. DepthLimit : walk[d] \in Readers(walk[d - 1])
        PROVE  FALSE
    <3> DEFINE low == {d \in 0 .. DepthLimit : rank[walk[d]] < d + 1}
    <3>1. DepthLimit \in Nat
      BY <1>2 DEF DepthLimit
    <3>2. low = {}
      <4> SUFFICES ASSUME low # {} PROVE FALSE
        OBVIOUS
      <4>a. low \in SUBSET Nat
        BY <3>1
      <4>1. PICK d \in low : \A e \in low : d <= e
        <5> HIDE DEF low
        <5> QED
          BY <4>a, LeastNumber
      <4>2. d \in 0 .. DepthLimit /\ walk[d] \in nodes /\ rank[walk[d]] < d + 1
        BY <4>1
      <4>3. rank[walk[d]] \in Nat /\ rank[walk[d]] > 0
        BY <1>1, <1>2, <4>2
      <4>4. d # 0
        BY <4>2, <4>3
      <4>5. d - 1 \in 0 .. DepthLimit /\ d \in 1 .. DepthLimit /\ d - 1 \notin low
        BY <3>1, <4>1, <4>2, <4>4
      <4>6. walk[d - 1] \in nodes /\ rank[walk[d - 1]] < rank[walk[d]]
        BY <1>1, <2>2, <4>5
      <4>7. rank[walk[d - 1]] \in Nat
        BY <1>2, <4>6
      <4>8. ~(rank[walk[d - 1]] < (d - 1) + 1)
        BY <4>5
      <4> QED
        BY <3>1, <4>2, <4>3, <4>5, <4>6, <4>7, <4>8
    <3>3. walk[DepthLimit] \in nodes /\ ~(rank[walk[DepthLimit]] < DepthLimit + 1)
      BY <3>1, <3>2
    <3>4. rank[walk[DepthLimit]] \in 1 .. DepthLimit
      BY <3>3 DEF DepthLimit
    <3> QED
      BY <3>1, <3>3, <3>4
  <2>3. Reached(h) \subseteq nodes
    BY DEF Reached
  <2> QED
    BY <2>1, <2>2, <2>3 DEF CycleFrom
<1>5. nodes = UNION {Reached(h) : h \in HeadNodes}
  <2> DEFINE lost == {n \in nodes : \A h \in HeadNodes : n \notin Reached(h)}
  <2>1. lost = {}
    <3> SUFFICES ASSUME lost # {} PROVE FALSE
      OBVIOUS
    <3>1. PICK n \in lost : Writers(n) \cap lost = {}
      BY FirstOf
    <3>2. CASE Writers(n) = {}
      <4>1. n \in HeadNodes /\ n \in Reached(n)
        BY <3>2 DEF HeadNodes, Reached
      <4> QED
        BY <4>1
    <3>3. CASE Writers(n) # {}
      <4>1. PICK m \in nodes : m \in Writers(n)
        BY <3>3 DEF Writers
      <4>2. PICK h \in HeadNodes : m \in Reached(h)
        BY <3>1, <4>1
      <4>3. n \in Readers(m)
        BY <4>1, ReadersAndWriters
      <4>4. n \in Reached(h)
        BY <4>1, <4>2, <4>3 DEF Reached
      <4> QED
        BY <4>4
    <3> QED
      BY <3>2, <3>3
  <2>2. \A h \in HeadNodes : Reached(h) \subseteq nodes
    BY DEF Reached
  <2> QED
    BY <2>1, <2>2
<1> QED
  BY <1>3, <1>4, <1>5 DEF InvalidTopology

-----------------------------------------------------------------------------
(* A verified graph stays what vxVerifyGraph found.                        *)

Sound == verified => SingleWriter /\ Acyclic

LEMMA NodesFinite ==
  ASSUME nodes \in SUBSET Nodes PROVE IsFiniteSet(nodes)
  BY GraphExecuteAssumption, FS_Subset

LEMMA AcyclicKept ==
  ASSUME Acyclic, nodes' = nodes, \A n \in nodes : Writers(n)' = Writers(n)
  PROVE  Acyclic'
<1>1. \A m \in nodes' : Readers(m)' \subseteq nodes'
  BY DEF Readers
<1>2. \A m \in nodes' : \A n \in nodes' : n \in Readers(m)' <=> m \in Writers(n)'
  BY DEF Readers, Writers, Overlap
<1>3. \A m \in nodes : Readers(m)' \subseteq Readers(m)
  BY <1>1, <1>2, ReadersAndWriters
<1> QED
  BY <1>3 DEF Acyclic

LEMMA AcyclicUnchanged ==
  ASSUME UNCHANGED bindings
  PROVE  Acyclic' <=> Acyclic
  BY DEF bindings, Acyclic, Readers

LEMMA SoundUnchanged ==
  ASSUME Sound, UNCHANGED bindings, verified' => verified
  PROVE  Sound'
<1>1. SingleWriter => SingleWriter'
  BY DEF SingleWriter, bindings, Overlap
<1> QED
  BY <1>1, AcyclicUnchanged DEF Sound

\* Objects in other memory, but in the same relations, are written by as many.
LEMMA AgingKeepsSound ==
  ASSUME Types, Sound, AgeDelays, verified' = verified
  PROVE  Sound'
<1> SUFFICES ASSUME verified' PROVE SingleWriter' /\ Acyclic'
  BY DEF Sound
<1>1. SingleWriter /\ Acyclic /\ nodes' = nodes
  BY DEF Sound, AgeDelays
<1>2. Acyclic'
  BY <1>1, AgingKeepsWriters, AcyclicKept
<1>3. SingleWriter'
  <2> SUFFICES ASSUME NEW m \in nodes, NEW n \in nodes, m # n, NEW r \in out'[m], NEW s \in out'[n]
               PROVE  ~Overlap(r, s)
    BY <1>1 DEF SingleWriter, Overlap
  <2>1. /\ out'[m] = {Aged[q] : q \in out[m]} /\ out'[n] = {Aged[q] : q \in out[n]}
        /\ out[m] \subseteq Refs /\ out[n] \subseteq Refs
    BY DEF AgeDelays, Types
  <2>2. PICK q \in out[m], t \in out[n] : r = Aged[q] /\ s = Aged[t]
    BY <2>1
  <2>3. ~Overlap(q, t)
    BY <1>1 DEF SingleWriter
  <2> QED
    BY <2>1, <2>2, <2>3, GraphExecuteAssumption
<1> QED
  BY <1>2, <1>3

\* A buffer of its own gives no object a second writer.
LEMMA ReplacingKeepsSound ==
  ASSUME Types, Sound, Disciplined, NEW k \in nodes, NEW old \in Refs, NEW new \in Refs,
         MayReplace(k, old, new), Replace(k, old, new), verified' => verified
  PROVE  Sound'
<1> SUFFICES ASSUME verified' PROVE SingleWriter' /\ Acyclic'
  BY DEF Sound
<1>1. SingleWriter /\ Acyclic /\ nodes' = nodes
  BY DEF Sound, Replace
<1>2. Acyclic'
  BY <1>1, ReplacingKeepsWriters, AcyclicKept
<1>3. SingleWriter'
  <2> SUFFICES ASSUME NEW m \in nodes, NEW n \in nodes, m # n, NEW r \in out'[m], NEW s \in out'[n],
                      Overlap(r, s)
               PROVE  FALSE
    BY <1>1 DEF SingleWriter, Overlap
  <2>1. \A i \in nodes : \A t \in out[i] : Overlap(new, t) => i = k
    BY DEF MayReplace, PrivateBuffer
  <2>2. /\ \A i \in nodes : i # k => out'[i] = out[i]
        /\ out'[k] \subseteq out[k] \cup {new}
    BY DEF Replace, Types
  <2>3. Overlap(s, r)
    BY DEF Overlap
  <2>4. CASE r \in out[m] /\ s \in out[n]
    BY <1>1, <2>4 DEF SingleWriter
  <2>5. CASE r \notin out[m]
    <3>1. m = k /\ r = new /\ s \in out[n]
      BY <2>2, <2>5
    <3> QED
      BY <2>1, <3>1
  <2>6. CASE s \notin out[n]
    <3>1. n = k /\ s = new /\ r \in out[m]
      BY <2>2, <2>6
    <3> QED
      BY <2>1, <2>3, <3>1
  <2> QED
    BY <2>4, <2>5, <2>6
<1> QED
  BY <1>2, <1>3

\* What vxVerifyGraph accepts, and what it says of the rest.
LEMMA VerifyMakesSound ==
  ASSUME nodes \in SUBSET Nodes, VerifyGraph
  PROVE  /\ Sound' /\ RefusesOnlyCycles' /\ UNCHANGED bindings
         /\ status' \notin {"processed", "none"} /\ (verified' => status' = "verified")
<1> DEFINE topology == Topology
<1>1. PICK validated \in BOOLEAN, initialized \in BOOLEAN :
        /\ status' = IF ~validated THEN "invalid_parameters"
                     ELSE IF topology # "verified" THEN topology
                     ELSE IF ~initialized THEN "failure" ELSE "verified"
        /\ verified' = (status' = "verified")
        /\ UNCHANGED bindings
  BY DEF VerifyGraph
<1>2. /\ topology \in {"multiple_writers", "invalid_graph", "verified"}
      /\ topology = "verified" => SingleWriter /\ ~InvalidTopology
      /\ topology = "invalid_graph" => InvalidTopology
  BY DEF Topology
<1> HIDE DEF topology
<1>3. nodes' = nodes /\ IsFiniteSet(nodes)
  BY <1>1, NodesFinite DEF bindings
<1>4. verified' => status' = "verified" /\ topology = "verified"
  BY <1>1
<1>5. ASSUME topology = "verified" PROVE SingleWriter' /\ Acyclic'
  <2>1. SingleWriter'
    BY <1>1, <1>2, <1>5 DEF SingleWriter, bindings, Overlap
  <2>2. Acyclic'
    BY <1>1, <1>2, <1>3, <1>5, AcceptedAcyclic, AcyclicUnchanged
  <2> QED
    BY <2>1, <2>2
<1>6. ASSUME status' = "invalid_graph" PROVE nodes' = {} \/ ~Acyclic'
  <2>1. InvalidTopology
    BY <1>1, <1>2, <1>6
  <2> QED
    BY <1>1, <1>3, <2>1, AcyclicAccepted, AcyclicUnchanged
<1>7. status' \notin {"processed", "none"}
  BY <1>1, <1>2
<1> QED
  BY <1>1, <1>4, <1>5, <1>6, <1>7 DEF Sound, RefusesOnlyCycles

LEMMA SoundStep ==
  ASSUME Disciplined, IInv, Sound, [Next]_vars
  PROVE  Sound'
<1>1. Types /\ nodes \in SUBSET Nodes
  BY DEF IInv, Types
<1>2. CASE Process
  BY <1>1, <1>2, SoundUnchanged, VerifyMakesSound DEF Process
<1>3. ASSUME NEW n \in Nodes, Execute(n) PROVE Sound'
  BY <1>3, SoundUnchanged DEF Execute
<1>4. CASE EndWave
  BY <1>1, <1>4, SoundUnchanged, AgingKeepsSound DEF EndWave, Finish
<1>5. CASE Verify
  BY <1>1, <1>5, VerifyMakesSound DEF Verify
<1>6. ASSUME NEW n \in Nodes, NEW b \in Bindings, AddNode(n, b) PROVE Sound'
  BY <1>6 DEF AddNode, Sound
<1>7. ASSUME NEW n \in Nodes, NEW old \in Buffers, NEW new \in Buffers,
             SetParameter(n, old, new) \/ SetGraphParameter(n, old, new)
      PROVE  Sound'
  <2>1. /\ n \in nodes /\ MayReplace(n, old, new) /\ Replace(n, old, new)
        /\ verified' => verified
    BY <1>7 DEF SetParameter, SetGraphParameter
  <2>2. old \in Refs /\ new \in Refs
    BY GraphExecuteAssumption
  <2> QED
    BY <1>1, <2>1, <2>2, ReplacingKeepsSound
<1>8. CASE Age
  BY <1>1, <1>8, AgingKeepsSound DEF Age
<1>9. CASE UNCHANGED vars
  BY <1>9, SoundUnchanged DEF vars
<1>10. ASSUME NEW n \in Nodes, RemoveNode(n) PROVE Sound'
  BY <1>10 DEF RemoveNode, Sound
<1> QED
  BY <1>2, <1>3, <1>4, <1>5, <1>6, <1>7, <1>8, <1>9, <1>10 DEF Next, Step, Change

\* vxVerifyGraph finds a topology invalid only if it has a cycle, or nothing
\* in it; a change of the graph takes that verdict back.
LEMMA RefusalStep ==
  ASSUME nodes \in SUBSET Nodes, RefusesOnlyCycles, [Next]_vars
  PROVE  nodes' \in SUBSET Nodes /\ RefusesOnlyCycles'
<1> USE DEF bindings
<1> DEFINE Kept == nodes' \in SUBSET Nodes /\ RefusesOnlyCycles'
<1>1. ASSUME status' # "invalid_graph" PROVE RefusesOnlyCycles'
  BY <1>1 DEF RefusesOnlyCycles
<1>2. ASSUME status' = status, UNCHANGED bindings PROVE Kept
  BY <1>2, AcyclicUnchanged DEF RefusesOnlyCycles, bindings
<1>3. CASE Process
  BY <1>1, <1>3, VerifyMakesSound DEF Process
<1>4. ASSUME NEW n \in Nodes, Execute(n) PROVE Kept
  BY <1>2, <1>4 DEF Execute
<1>5. CASE EndWave
  BY <1>1, <1>2, <1>5 DEF EndWave, Finish, AgeDelays
<1>6. CASE Verify
  BY <1>6, VerifyMakesSound DEF Verify
<1>7. ASSUME NEW n \in Nodes, NEW b \in Bindings, AddNode(n, b) PROVE Kept
  BY <1>1, <1>7 DEF AddNode
<1>8. ASSUME NEW n \in Nodes, RemoveNode(n) PROVE Kept
  BY <1>1, <1>8 DEF RemoveNode
<1>9. ASSUME NEW n \in Nodes, NEW old \in Buffers, NEW new \in Buffers,
             SetParameter(n, old, new) \/ SetGraphParameter(n, old, new)
      PROVE  Kept
  BY <1>1, <1>9 DEF SetParameter, SetGraphParameter, Replace
<1>10. CASE Age
  BY <1>1, <1>10 DEF Age, AgeDelays
<1>11. CASE UNCHANGED vars
  BY <1>2, <1>11 DEF vars
<1> QED
  BY <1>3, <1>4, <1>5, <1>6, <1>7, <1>8, <1>9, <1>10, <1>11 DEF Next, Step, Change

-----------------------------------------------------------------------------
(* The waves come to every node.                                           *)

\* While nothing failed, what was found was executed or is about to be, and
\* the nodes that follow an earlier wave were found or are left for later.
Progress ==
  /\ pc = "wave" =>
       /\ status \in {"none", "verified"}
       /\ \A m \in executed \ next : Readers(m) \subseteq left \cup visited
       /\ ~abandoned => heads \cup visited \cup next \subseteq executed \cup todo
  /\ RunIsComplete

LEMMA BeginProgresses ==
  ASSUME Begin(heads'), status' \in {"none", "verified"}
  PROVE  Progress'
<1>1. /\ pc' = "wave" /\ next' = heads' /\ todo' = heads' /\ visited' = {} /\ executed' = {}
  BY DEF Begin
<1> QED
  BY <1>1 DEF Progress, RunIsComplete

\* A change between executions takes back what the last one returned.
LEMMA IdleProgresses ==
  ASSUME pc' = "idle", status' # "processed"
  PROVE  Progress'
  BY DEF Progress, RunIsComplete

LEMMA ExecuteProgresses ==
  ASSUME IInv, Progress, NEW n \in Nodes, Execute(n)
  PROVE  Progress'
<1>1. /\ pc = "wave" /\ pc' = "wave" /\ n \in todo /\ UNCHANGED bindings
      /\ nodes' = nodes /\ heads' = heads /\ status' = status
      /\ next' = next /\ left' = left /\ visited' = visited
  BY DEF Execute, bindings
<1>2. n \in next /\ n \notin executed
  BY <1>1 DEF IInv, Running, Types
<1>3. PICK action \in Actions :
        /\ executed' = executed \cup {n}
        /\ abandoned' = (abandoned \/ action = "abandon")
        /\ todo' = IF action = "abandon" /\ ~pooled THEN {} ELSE todo \ {n}
  BY <1>2 DEF Execute
<1>4. ~abandoned' => ~abandoned /\ todo' = todo \ {n}
  BY <1>3
<1>5. \A m : Readers(m)' = Readers(m)
  BY <1>1 DEF Readers, bindings
<1>6. ~abandoned' => heads' \cup visited' \cup next' \subseteq executed' \cup todo'
  BY <1>1, <1>3, <1>4 DEF Progress
<1>7. \A m \in executed' \ next' : Readers(m)' \subseteq left' \cup visited'
  BY <1>1, <1>2, <1>3, <1>5 DEF Progress
<1> QED
  BY <1>1, <1>6, <1>7 DEF Progress, RunIsComplete

LEMMA WaveProgresses ==
  ASSUME IInv, Progress, EndWave, ~(abandoned \/ NextWave = {})
  PROVE  Progress'
<1>1. /\ pc = "wave" /\ todo = {} /\ next' = NextWave /\ todo' = NextWave
      /\ left' = {n \in Candidates : ~Ready(n)}
      /\ visited' = visited \cup NextWave
      /\ pc' = pc /\ status' = status /\ UNCHANGED bindings /\ ~abandoned
      /\ heads' = heads /\ executed' = executed
  BY DEF EndWave
<1>2. \A m : Readers(m)' = Readers(m)
  BY <1>1 DEF Readers, bindings
<1>3. \A m \in executed : Readers(m) \subseteq Candidates \cup visited
  <2>1. \A m \in next : Readers(m) \subseteq Candidates
    BY DEF Candidates
  <2>2. \A m \in executed \ next : Readers(m) \subseteq Candidates \cup visited
    BY <1>1 DEF Progress, Candidates
  <2> QED
    BY <2>1, <2>2
<1>4. Candidates \subseteq left' \cup visited'
  BY <1>1 DEF NextWave
<1>5. heads' \cup visited' \cup next' \subseteq executed' \cup todo'
  BY <1>1 DEF Progress
<1>6. \A m \in executed' \ next' : Readers(m)' \subseteq left' \cup visited'
  BY <1>1, <1>2, <1>3, <1>4
<1> QED
  BY <1>1, <1>5, <1>6 DEF Progress, RunIsComplete

\* If there is no next wave, no node is left: of those left one would have
\* all its writers executed, and be a head or a candidate.
LEMMA NoneLeft ==
  ASSUME IInv, Sound, Progress, pc = "wave", todo = {}, ~abandoned, NextWave = {}
  PROVE  executed = nodes
<1>1. /\ executed \subseteq nodes /\ heads = {n \in nodes : Writers(n) = {}} /\ Acyclic
      /\ IsFiniteSet(nodes)
  BY NodesFinite DEF IInv, Types, Running, Fresh, Sound
<1>2. heads \cup visited \subseteq executed
  BY DEF Progress
<1> DEFINE missed == nodes \ executed
<1>3. missed = {}
  <2> SUFFICES ASSUME missed # {} PROVE FALSE
    OBVIOUS
  <2>1. PICK n \in missed : Writers(n) \cap missed = {}
    BY <1>1, FirstOf
  <2>2. Writers(n) \subseteq executed /\ Writers(n) # {}
    BY <1>1, <1>2, <2>1 DEF Writers
  <2>3. PICK m \in executed : m \in Writers(n)
    BY <2>2
  <2>4. n \in Readers(m)
    BY <1>1, <2>1, <2>3, ReadersAndWriters
  <2>5. n \notin visited
    BY <1>2, <2>1
  <2>6. n \in Candidates
    <3>1. CASE m \in next
      BY <2>4, <3>1 DEF Candidates
    <3>2. CASE m \notin next
      BY <2>3, <2>4, <2>5, <3>2 DEF Progress, Candidates
    <3> QED
      BY <3>1, <3>2
  <2>7. n \in NextWave
    BY <2>2, <2>5, <2>6 DEF NextWave, Ready
  <2> QED
    BY <2>7
<1> QED
  BY <1>1, <1>3

LEMMA ProgressStep ==
  ASSUME IInv, Sound, Progress, [Next]_vars
  PROVE  Progress'
<1>1. nodes \in SUBSET Nodes
  BY DEF IInv, Types
<1>2. CASE Process
  <2>1. pc = "idle"
    BY <1>2 DEF Process
  <2>2. CASE verified
    <3>1. Begin(heads) /\ status' = "none" /\ heads' = heads
      BY <1>2, <2>2 DEF Process
    <3> QED
      BY <3>1, BeginProgresses
  <2>3. CASE ~verified
    <3>1. VerifyGraph /\ IF verified' THEN Begin(heads') ELSE UNCHANGED <<pc, loop>>
      BY <1>2, <2>3 DEF Process
    <3>2. status' # "processed" /\ (verified' => status' = "verified")
      BY <1>1, <3>1, VerifyMakesSound
    <3> QED
      BY <2>1, <3>1, <3>2, BeginProgresses, IdleProgresses
  <2> QED
    BY <2>2, <2>3
<1>3. ASSUME NEW n \in Nodes, Execute(n) PROVE Progress'
  BY <1>3, ExecuteProgresses
<1>4. CASE EndWave
  <2>1. CASE ~(abandoned \/ NextWave = {})
    BY <1>4, <2>1, WaveProgresses
  <2>2. CASE abandoned \/ NextWave = {}
    <3>1. /\ pc = "wave" /\ todo = {} /\ pc' = "idle" /\ executed' = executed /\ nodes' = nodes
          /\ status' = IF abandoned THEN "abandoned" ELSE "processed"
      BY <1>4, <2>2 DEF EndWave, Finish, AgeDelays
    <3>2. CASE abandoned
      BY <3>1, <3>2, IdleProgresses
    <3>3. CASE ~abandoned
      BY <2>2, <3>1, <3>3, NoneLeft DEF Progress, RunIsComplete
    <3> QED
      BY <3>2, <3>3
  <2> QED
    BY <2>1, <2>2
<1>5. CASE Verify
  BY <1>1, <1>5, VerifyMakesSound, IdleProgresses DEF Verify
<1>6. ASSUME NEW n \in Nodes, NEW b \in Bindings, AddNode(n, b) PROVE Progress'
  BY <1>6, IdleProgresses DEF AddNode
<1>7. ASSUME NEW n \in Nodes, RemoveNode(n) PROVE Progress'
  BY <1>7, IdleProgresses DEF RemoveNode
<1>8. ASSUME NEW n \in Nodes, NEW old \in Buffers, NEW new \in Buffers,
             SetParameter(n, old, new) \/ SetGraphParameter(n, old, new)
      PROVE  Progress'
  BY <1>8, IdleProgresses DEF SetParameter, SetGraphParameter
<1>9. CASE Age
  BY <1>9, IdleProgresses DEF Age
<1>10. CASE UNCHANGED vars
  <2>1. \A m : Readers(m)' = Readers(m)
    BY <1>10 DEF Readers, vars, bindings
  <2> QED
    BY <1>10, <2>1 DEF Progress, RunIsComplete, vars, bindings, loop
<1> QED
  BY <1>2, <1>3, <1>4, <1>5, <1>6, <1>7, <1>8, <1>9, <1>10 DEF Next, Step, Change

LEMMA InitSound ==
  ASSUME Init PROVE Sound /\ Progress /\ RefusesOnlyCycles /\ nodes \in SUBSET Nodes
  BY DEF Init, Sound, Progress, RunIsComplete, RefusesOnlyCycles

LEMMA SoundAlways == ASSUME Disciplined PROVE Spec => []Sound
<1>1. IInv /\ Sound /\ [Next]_vars => Sound'
  BY SoundStep
<1> QED
  BY <1>1, Inductive, InitSound, PTL DEF Spec

\* A graph that counts as verified has no cycle and no object with two
\* writers, and its heads are the nodes that depend on no other, also after
\* parameters were replaced and delays aged without another vxVerifyGraph.
THEOREM VerifiedIsFreshHolds == ASSUME Disciplined PROVE Spec => []VerifiedIsFresh
<1>1. IInv /\ Sound => VerifiedIsFresh
  <2> SUFFICES ASSUME IInv, Sound, verified
               PROVE  /\ \A m, n \in nodes : m # n => MemoryWritten(m) \cap MemoryWritten(n) = {}
                      /\ Acyclic
                      /\ heads = {n \in nodes : Writers(n) = {}}
    BY DEF VerifiedIsFresh
  <2>1. SingleWriter /\ Acyclic /\ heads = {n \in nodes : Writers(n) = {}}
    BY DEF Sound, IInv, Fresh
  <2>2. ASSUME NEW m \in nodes, NEW n \in nodes, m # n
        PROVE  MemoryWritten(m) \cap MemoryWritten(n) = {}
    BY <2>1, <2>2 DEF SingleWriter, Overlap, MemoryWritten
  <2> QED
    BY <2>1, <2>2
<1> QED
  BY <1>1, Inductive, SoundAlways, PTL

\* vxVerifyGraph refuses a topology only for a cycle: its bound on the depth
\* of the traversal is right for graphs of any size and shape, however
\* parameters are set.
THEOREM RefusesOnlyCyclesHolds == Spec => []RefusesOnlyCycles
<1> DEFINE Inv == nodes \in SUBSET Nodes /\ RefusesOnlyCycles
<1>1. Init => Inv
  BY InitSound
<1>2. Inv /\ [Next]_vars => Inv'
  BY RefusalStep
<1>3. Inv => RefusesOnlyCycles
  OBVIOUS
<1> QED
  BY <1>1, <1>2, <1>3, PTL DEF Spec

\* An execution that returns VX_SUCCESS has executed every node, whatever the
\* shape of the graph and the order of the nodes in a wave.
THEOREM RunIsCompleteHolds == ASSUME Disciplined PROVE Spec => []RunIsComplete
<1>1. IInv /\ Sound /\ Progress /\ [Next]_vars => Progress'
  BY ProgressStep
<1>2. Progress => RunIsComplete
  BY DEF Progress
<1> QED
  BY <1>1, <1>2, Inductive, SoundAlways, InitSound, PTL DEF Spec
=============================================================================

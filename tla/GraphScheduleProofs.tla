------------------------ MODULE GraphScheduleProofs ------------------------
(***************************************************************************)
(* Proofs about GraphSchedule, for every set of graphs, every length of    *)
(* graph_queue and of the two queues, and any number of threads that wait  *)
(* for graphs.  They need that one thread only schedules: with a second    *)
(* one two graphs can be given the same position (run schedule_race).      *)
(***************************************************************************)
EXTENDS GraphSchedule, FiniteSetTheorems, SequenceTheorems, WellFoundedInduction, TLAPS

OneScheduler == \A t, u \in Schedulers : t = u

-----------------------------------------------------------------------------
(* The operators the model is built from.                                  *)

\* A non-empty set of numbers has a least one, which is Min of it.
LEMMA LeastOf ==
  ASSUME NEW S \in SUBSET Nat, S # {}
  PROVE  Min(S) \in S /\ \A y \in S : Min(S) <= y
  <1>1. PICK x \in S : \A y \in S : ~(<<y, x>> \in OpToRel(<, Nat))
    BY NatLessThanWellFounded, WFMin, Zenon
  <1>2. \A y \in S : ~(y < x)
    BY <1>1 DEF OpToRel
  <1>3. \E z \in S : \A y \in S : z <= y
    BY <1>2
  <1> QED BY <1>3, Zenon DEF Min

LEMMA FreeSlotFound ==
  ASSUME FreeSlots # {} PROVE Min(FreeSlots) \in Slots /\ v1[Min(FreeSlots)] = NoGraph
  <1>1. FreeSlots \in SUBSET Nat
    BY GraphScheduleAssumption DEF FreeSlots, Slots
  <1>2. Min(FreeSlots) \in FreeSlots
    BY <1>1, LeastOf
  <1> QED BY <1>2 DEF FreeSlots

\* What a write to a queue and a read from it do to the positions in it.
LEMMA AppendPosition ==
  ASSUME NEW s \in Seq(Slots), IsInjective(s), NEW q \in Slots, q \notin Range(s)
  PROVE  /\ Append(s, q) \in Seq(Slots)
         /\ IsInjective(Append(s, q))
         /\ Range(Append(s, q)) = Range(s) \cup {q}
  <1> DEFINE a == Append(s, q)
  <1>1. /\ a \in Seq(Slots) /\ Len(a) = Len(s) + 1 /\ Len(s) \in Nat
        /\ \A i \in 1 .. Len(s) : a[i] = s[i]
        /\ a[Len(s) + 1] = q
    BY AppendProperties, LenProperties
  <1>2. DOMAIN a = 1 .. Len(s) + 1 /\ DOMAIN s = 1 .. Len(s)
    BY <1>1, LenProperties
  <1> HIDE DEF a
  <1>3. \A i \in 1 .. Len(s) : a[i] # q
    BY <1>1, <1>2 DEF Range
  <1>4. \A i, j \in DOMAIN a : a[i] = a[j] => i = j
    BY <1>1, <1>2, <1>3 DEF IsInjective
  <1>5. \A x \in Range(a) : x \in Range(s) \cup {q}
    BY <1>1, <1>2 DEF Range
  <1>6. \A x \in Range(s) : x \in Range(a)
    BY <1>1, <1>2 DEF Range
  <1>7. q \in Range(a)
    BY <1>1, <1>2 DEF Range
  <1>8. Range(a) = Range(s) \cup {q} /\ IsInjective(a) /\ a \in Seq(Slots)
    BY <1>1, <1>4, <1>5, <1>6, <1>7 DEF IsInjective
  <1> QED BY <1>8 DEF a

LEMMA TailPositions ==
  ASSUME NEW s \in Seq(Slots), IsInjective(s), s # << >>
  PROVE  /\ Head(s) \in Slots /\ Head(s) \in Range(s)
         /\ Tail(s) \in Seq(Slots)
         /\ IsInjective(Tail(s))
         /\ Range(Tail(s)) = Range(s) \ {Head(s)}
  <1> DEFINE r == Tail(s)
  <1>1. /\ r \in Seq(Slots) /\ Len(r) = Len(s) - 1 /\ Len(s) \in Nat /\ Len(s) # 0
        /\ \A i \in 1 .. Len(r) : r[i] = s[i + 1]
        /\ Head(s) = s[1] /\ Head(s) \in Slots
    BY HeadTailProperties, LenProperties, EmptySeq
  <1>2. DOMAIN r = 1 .. Len(s) - 1 /\ DOMAIN s = 1 .. Len(s)
    BY <1>1, LenProperties
  <1> HIDE DEF r
  <1>3. \A i \in 1 .. Len(s) - 1 : r[i] = s[i + 1] /\ i + 1 \in DOMAIN s
    BY <1>1, <1>2
  <1>4. ASSUME NEW i \in DOMAIN r, NEW j \in DOMAIN r, r[i] = r[j] PROVE i = j
    <2>1. i + 1 = j + 1
      BY <1>2, <1>3, <1>4, Zenon DEF IsInjective
    <2> QED BY <2>1, <1>1, <1>2
  <1>5. \A x \in Range(r) : x \in Range(s) /\ x # Head(s)
    BY <1>1, <1>2, <1>3 DEF Range, IsInjective
  <1>6. ASSUME NEW x \in Range(s), x # Head(s) PROVE x \in Range(r)
    <2>1. PICK i \in 1 .. Len(s) : x = s[i]
      BY <1>2 DEF Range
    <2>2. i - 1 \in 1 .. Len(s) - 1 /\ (i - 1) + 1 = i
      BY <1>1, <1>6, <2>1
    <2> QED BY <1>2, <1>3, <2>1, <2>2 DEF Range
  <1>7. Head(s) \in Range(s)
    BY <1>1, <1>2 DEF Range
  <1>8. Range(r) = Range(s) \ {Head(s)} /\ IsInjective(r) /\ r \in Seq(Slots)
    BY <1>1, <1>4, <1>5, <1>6 DEF IsInjective
  <1> QED BY <1>1, <1>7, <1>8 DEF r

-----------------------------------------------------------------------------
(* The inductive invariant.                                                *)

LEMMA InitIInv == Init => IInv
  <1> SUFFICES ASSUME Init PROVE IInv
    OBVIOUS
  <1> USE GraphScheduleAssumption DEF Init
  <1>1. TypeOK
    BY EmptySeq DEF TypeOK, Slots, Statuses
  <1>2. Range(input) = {} /\ Range(output) = {}
    BY DEF Range
  <1>3. IsInjective(input) /\ IsInjective(output)
    BY DEF IsInjective
  <1>4. Control /\ LockTaken
    BY DEF Control, LockTaken, Holds
  <1>5. Placed
    BY <1>2, <1>3
       DEF Placed, WellPlaced, Somewhere, Queued, Written, InWork, InHand
  <1>6. Named /\ CarriesOutcome
    BY <1>2 DEF Named, CarriesOutcome, Written
  <1> QED BY <1>1, <1>4, <1>5, <1>6 DEF IInv


\* g is f but for the value b at a.
Put(f, g, S, a, b) == g[a] = b /\ \A x \in S \ {a} : g[x] = f[x]

LEMMA Domains ==
  ASSUME IInv
  PROVE  /\ DOMAIN lock = Graphs /\ DOMAIN outcome = Graphs /\ DOMAIN answer = Graphs
         /\ DOMAIN v1 = Slots /\ DOMAIN v2 = Slots
         /\ DOMAIN pc = Threads /\ DOMAIN graph = Threads
         /\ DOMAIN slot = Threads /\ DOMAIN result = Threads
  BY DEF IInv, TypeOK

LEMMA RangeSlots ==
  ASSUME NEW s \in Seq(Slots) PROVE Range(s) \subseteq Slots
  BY LenProperties, ElementOfSeq DEF Range

LEMMA Typed ==
  ASSUME TypeOK
  PROVE  /\ NoGraph \notin Graphs /\ gslot \in Slots
         /\ Range(input) \subseteq Slots /\ Range(output) \subseteq Slots
         /\ \A t \in Threads : slot[t] \in Slots /\ graph[t] \in Graphs \cup {NoGraph}
         /\ \A q \in Slots : v1[q] \in Graphs \cup {NoGraph}
  <1>1. Range(input) \subseteq Slots /\ Range(output) \subseteq Slots
    BY RangeSlots DEF TypeOK
  <1> QED BY <1>1, GraphScheduleAssumption DEF TypeOK

\* What each action does in the states of the invariant, without its nested
\* alternatives and with the queues as sets of positions.
ScheduleDoes(t, g) ==
  /\ t \in Schedulers /\ pc[t] = "idle"
  /\ Put(graph, graph', Threads, t, g)
  /\ \/ /\ lock[g] = 1 /\ Put(lock, lock', Graphs, g, 0)
        /\ Put(pc, pc', Threads, t, "claim")
        /\ Put(result, result', Threads, t, "none")
     \/ /\ lock[g] = 0 /\ lock' = lock /\ pc' = pc
        /\ Put(result, result', Threads, t, "already_scheduled")
  /\ UNCHANGED <<v1, v2, input, output, running, gpc, gslot, ggraph,
                 gstatus, slot, outcome, answer>>
ClaimDoes(t) ==
  /\ pc[t] = "claim"
  /\ \/ /\ FreeSlots = {} /\ slot' = slot
        /\ Put(pc, pc', Threads, t, "idle")
        /\ Put(result, result', Threads, t, "no_resources")
     \/ /\ \E q \in Slots : v1[q] = NoGraph /\ Put(slot, slot', Threads, t, q)
        /\ Put(pc, pc', Threads, t, "fill")
        /\ result' = result
  /\ UNCHANGED <<lock, v1, v2, input, output, running, gpc, gslot,
                 ggraph, gstatus, graph, outcome, answer>>
FillDoes(t) ==
  /\ pc[t] = "fill" /\ Put(pc, pc', Threads, t, "enqueue")
  /\ graph[t] \in Graphs /\ v1[slot[t]] = NoGraph
  /\ Put(v1, v1', Slots, slot[t], graph[t])
  /\ Put(v2, v2', Slots, slot[t], "success")
  /\ UNCHANGED <<lock, input, output, running, gpc, gslot, ggraph,
                 gstatus, graph, slot, result, outcome, answer>>
EnqueueDoes(t) ==
  /\ pc[t] = "enqueue" /\ Put(pc, pc', Threads, t, "idle")
  /\ input' \in Seq(Slots) /\ IsInjective(input')
  /\ Range(input') = Range(input) \cup {slot[t]}
  /\ Put(result, result', Threads, t, "success")
  /\ UNCHANGED <<lock, v1, v2, output, running, gpc, gslot, ggraph,
                 gstatus, graph, slot, outcome, answer>>
TakeDoes ==
  /\ gpc = "read" /\ gpc' = "process"
  /\ input' \in Seq(Slots) /\ IsInjective(input')
  /\ gslot' \in Slots /\ gslot' \in Range(input)
  /\ Range(input') = Range(input) \ {gslot'}
  /\ ggraph' = v1[gslot']
  /\ UNCHANGED <<lock, v1, v2, output, running, gstatus, pc, graph,
                 slot, result, outcome, answer>>
ProcessDoes ==
  /\ gpc = "process" /\ gpc' = "write"
  /\ ggraph \in Graphs /\ v1[gslot] = ggraph
  /\ gstatus' \in Statuses
  /\ Put(v2, v2', Slots, gslot, gstatus')
  /\ Put(outcome, outcome', Graphs, ggraph, gstatus')
  /\ UNCHANGED <<lock, v1, input, output, running, gslot, ggraph, pc,
                 graph, slot, result, answer>>
WriteDoes ==
  /\ gpc = "write" /\ gpc' = "read"
  /\ output' \in Seq(Slots) /\ IsInjective(output')
  /\ Range(output') = Range(output) \cup {gslot}
  /\ UNCHANGED <<lock, v1, v2, input, running, gslot, ggraph,
                 gstatus, pc, graph, slot, result, outcome, answer>>
StopDoes ==
  /\ gpc = "read" /\ gpc' = "stopped"
  /\ UNCHANGED <<lock, v1, v2, input, output, running, gslot, ggraph,
                 gstatus, pc, graph, slot, result, outcome, answer>>
WaitDoes(t, g) ==
  /\ pc[t] = "idle"
  /\ Put(graph, graph', Threads, t, g)
  /\ Put(result, result', Threads, t, "none")
  /\ \/ /\ lock[g] = 1 /\ Put(lock, lock', Graphs, g, 0)
        /\ Put(pc, pc', Threads, t, "give_back")
     \/ /\ lock' = lock /\ Put(pc, pc', Threads, t, "read")
  /\ UNCHANGED <<v1, v2, input, output, running, gpc, gslot, ggraph,
                 gstatus, slot, outcome, answer>>
GiveBackDoes(t) ==
  /\ pc[t] = "give_back" /\ Put(pc, pc', Threads, t, "idle")
  /\ graph[t] \in Graphs
  /\ Put(lock, lock', Graphs, graph[t], 1)
  /\ Put(result, result', Threads, t, "failure")
  /\ UNCHANGED <<v1, v2, input, output, running, gpc, gslot, ggraph,
                 gstatus, graph, slot, outcome, answer>>
ReadOutputDoes(t) ==
  /\ pc[t] = "read"
  /\ output' \in Seq(Slots) /\ IsInjective(output')
  /\ \E q \in Slots \cap Range(output) :
       /\ Range(output') = Range(output) \ {q}
       /\ Put(slot, slot', Threads, t, q)
       /\ Put(result, result', Threads, t, v2[q])
       /\ \/ v1[q] = graph[t] /\ Put(pc, pc', Threads, t, "free")
          \/ v1[q] # graph[t] /\ Put(pc, pc', Threads, t, "put_back")
  /\ UNCHANGED <<lock, v1, v2, input, running, gpc, gslot, ggraph,
                 gstatus, graph, outcome, answer>>
PutBackDoes(t) ==
  /\ pc[t] = "put_back" /\ Put(pc, pc', Threads, t, "read")
  /\ output' \in Seq(Slots) /\ IsInjective(output')
  /\ Range(output') = Range(output) \cup {slot[t]}
  /\ UNCHANGED <<lock, v1, v2, input, running, gpc, gslot, ggraph,
                 gstatus, graph, slot, result, outcome, answer>>
FreeDoes(t) ==
  /\ pc[t] = "free" /\ Put(pc, pc', Threads, t, "unlock")
  /\ graph[t] \in Graphs /\ v1[slot[t]] = graph[t]
  /\ Put(v1, v1', Slots, slot[t], NoGraph)
  /\ UNCHANGED <<lock, v2, input, output, running, gpc, gslot,
                 ggraph, gstatus, graph, slot, result, outcome,
                 answer>>
UnlockDoes(t) ==
  /\ pc[t] = "unlock" /\ Put(pc, pc', Threads, t, "idle")
  /\ graph[t] \in Graphs /\ result[t] = outcome[graph[t]]
  /\ Put(lock, lock', Graphs, graph[t], 1)
  /\ Put(answer, answer', Graphs, graph[t], outcome[graph[t]])
  /\ UNCHANGED <<v1, v2, input, output, running, gpc, gslot, ggraph,
                 gstatus, graph, slot, result, outcome>>
ReleaseDoes ==
  /\ \A t \in Threads : pc[t] = "idle"
  /\ UNCHANGED <<lock, v1, v2, input, output, gpc, gslot, ggraph,
                 gstatus, pc, graph, slot, result, outcome, answer>>
  /\ running' = FALSE

LEMMA ScheduleEffect ==
  ASSUME IInv, NEW t \in Threads, NEW g \in Graphs, Schedule(t, g) PROVE ScheduleDoes(t, g)
  <1>1. lock[g] \in 0 .. 1
    BY DEF IInv, TypeOK
  <1>2. CASE lock[g] > 0
    <2>1. lock[g] = 1 /\ lock[g] - 1 = 0
      BY <1>1, <1>2
    <2> QED BY Domains, <1>2, <2>1
            DEF Schedule, ScheduleDoes, Put, Goto, positions, queues, worker, history
  <1>3. CASE ~(lock[g] > 0)
    <2>0. lock[g] = 0
      BY <1>1, <1>3
    <2>1. pc' = [pc EXCEPT ![t] = "idle"] /\ pc[t] = "idle" /\ lock[g] = 0
      BY <2>0, <1>3 DEF Schedule, Return, Goto
    <2>2. pc' = pc
      BY <2>1 DEF IInv, TypeOK
    <2> QED BY Domains, <1>3, <2>1, <2>2
            DEF Schedule, ScheduleDoes, Put, Return, positions, queues, worker, history
  <1> QED BY <1>2, <1>3

LEMMA ClaimEffect ==
  ASSUME IInv, NEW t \in Threads, Claim(t) PROVE ClaimDoes(t)
  <1>1. CASE FreeSlots = {}
    BY Domains, <1>1 DEF Claim, ClaimDoes, Put, Return, Goto, queues, worker, history
  <1>2. CASE FreeSlots # {}
    <2>1. Min(FreeSlots) \in Slots /\ v1[Min(FreeSlots)] = NoGraph
      BY <1>2, FreeSlotFound
    <2> QED BY Domains, <1>2, <2>1 DEF Claim, ClaimDoes, Put, Goto, queues, worker, history
  <1> QED BY <1>1, <1>2

LEMMA FillEffect ==
  ASSUME IInv, NEW t \in Threads, Fill(t) PROVE FillDoes(t)
  <1>1. graph[t] \in Graphs /\ v1[slot[t]] = NoGraph /\ slot[t] \in Slots
    BY Typed DEF Fill, IInv, Control, Named
  <1> QED BY Domains, <1>1 DEF Fill, FillDoes, Put, Goto, queues, worker, history

LEMMA EnqueueEffect ==
  ASSUME IInv, NEW t \in Threads, Enqueue(t) PROVE EnqueueDoes(t)
  <1>1. input \in Seq(Slots) /\ IsInjective(input) /\ slot[t] \in Slots /\ slot[t] \notin Range(input)
    <2>1. input \in Seq(Slots) /\ IsInjective(input) /\ slot[t] \in Slots /\ InHand(t, slot[t])
      BY Typed DEF Enqueue, IInv, TypeOK, Placed, InHand
    <2> QED BY <2>1 DEF IInv, Placed, WellPlaced, Queued, Written
  <1>2. input' = Append(input, slot[t])
    BY DEF Enqueue
  <1>3. /\ input' \in Seq(Slots) /\ IsInjective(input')
        /\ Range(input') = Range(input) \cup {slot[t]}
    BY <1>1, <1>2, AppendPosition, Zenon
  <1> QED BY Domains, <1>3 DEF Enqueue, EnqueueDoes, Put, Return, Goto, positions, worker, history

LEMMA TakeEffect ==
  ASSUME IInv, Take PROVE TakeDoes
  <1>1. input \in Seq(Slots) /\ IsInjective(input) /\ input # << >> /\ input' = Tail(input)
    BY DEF Take, IInv, TypeOK, Placed
  <1>2. /\ input' \in Seq(Slots) /\ IsInjective(input')
        /\ Head(input) \in Slots /\ Head(input) \in Range(input)
        /\ Range(input') = Range(input) \ {Head(input)}
    BY <1>1, TailPositions, Zenon
  <1> QED BY Domains, <1>2 DEF Take, TakeDoes, Put, positions, app, history

LEMMA ProcessEffect ==
  ASSUME IInv, Process PROVE ProcessDoes
  <1>1. gslot \in Slots /\ v1[gslot] = ggraph
    BY Typed DEF Process, IInv, Named
  <1>2. ggraph \in Graphs
    <2>1. v1[gslot] # NoGraph
      BY <1>1 DEF Process, IInv, Placed, WellPlaced, Somewhere, InWork
    <2> QED BY <1>1, <2>1, Typed DEF IInv
  <1>3. v1' = v1
    BY <1>1 DEF Process, IInv, TypeOK
  <1> QED BY Domains, <1>1, <1>2, <1>3 DEF Process, ProcessDoes, Put, StatusStored, queues, app

LEMMA WriteEffect ==
  ASSUME IInv, Write PROVE WriteDoes
  <1>1. output \in Seq(Slots) /\ IsInjective(output) /\ gslot \in Slots /\ gslot \notin Range(output)
    <2>1. output \in Seq(Slots) /\ IsInjective(output) /\ gslot \in Slots /\ InWork(gslot)
      BY DEF Write, IInv, TypeOK, Placed, InWork
    <2> QED BY <2>1 DEF IInv, Placed, WellPlaced, Written
  <1>2. output' = Append(output, gslot)
    BY DEF Write
  <1>3. /\ output' \in Seq(Slots) /\ IsInjective(output')
        /\ Range(output') = Range(output) \cup {gslot}
    BY <1>1, <1>2, AppendPosition, Zenon
  <1> QED BY Domains, <1>3 DEF Write, WriteDoes, Put, positions, app, history

LEMMA StopEffect ==
  ASSUME IInv, Stop PROVE StopDoes
  BY DEF Stop, StopDoes, positions, queues, app, history

LEMMA WaitEffect ==
  ASSUME IInv, NEW t \in Threads, NEW g \in Graphs, Wait(t, g) PROVE WaitDoes(t, g)
  <1>1. lock[g] \in 0 .. 1
    BY DEF IInv, TypeOK
  <1>2. lock[g] # 0 => lock[g] = 1 /\ lock[g] - 1 = 0
    BY <1>1
  <1> QED BY Domains, <1>2 DEF Wait, WaitDoes, Put, Goto, positions, queues, worker, history

LEMMA GiveBackEffect ==
  ASSUME IInv, NEW t \in Threads, GiveBack(t) PROVE GiveBackDoes(t)
  <1>1. pc[t] = "give_back" /\ graph[t] \in Graphs /\ lock[graph[t]] = 0
    <2>1. pc[t] = "give_back" /\ graph[t] \in Graphs
      BY DEF GiveBack, IInv, Control
    <2> QED BY <2>1 DEF IInv, LockTaken, Holds
  <1>2. lock[graph[t]] + 1 = 1
    BY <1>1
  <1>3. lock' = [lock EXCEPT ![graph[t]] = 1]
    BY <1>2 DEF GiveBack
  <1> QED BY Domains, <1>1, <1>3
          DEF GiveBack, GiveBackDoes, Put, Return, Goto, positions, queues, worker, history

LEMMA ReadOutputEffect ==
  ASSUME IInv, NEW t \in Threads, ReadOutput(t) PROVE ReadOutputDoes(t)
  <1>1. output \in Seq(Slots) /\ IsInjective(output) /\ output # << >> /\ output' = Tail(output)
    BY DEF ReadOutput, IInv, TypeOK, Placed
  <1>2. /\ output' \in Seq(Slots) /\ IsInjective(output')
        /\ Head(output) \in Slots /\ Head(output) \in Range(output)
        /\ Range(output') = Range(output) \ {Head(output)}
    BY <1>1, TailPositions, Zenon
  <1>3. /\ slot' = [slot EXCEPT ![t] = Head(output)]
        /\ result' = [result EXCEPT ![t] = v2[Head(output)]]
        /\ \/ v1[Head(output)] = graph[t] /\ pc' = [pc EXCEPT ![t] = "free"]
           \/ v1[Head(output)] # graph[t] /\ pc' = [pc EXCEPT ![t] = "put_back"]
    BY DEF ReadOutput, Goto, Mine
  <1>4. /\ pc[t] = "read"
        /\ UNCHANGED <<lock, v1, v2, input, running, gpc, gslot, ggraph,
                    gstatus, graph, outcome, answer>>
    BY DEF ReadOutput, positions, worker, history
  <1>5. /\ Put(slot, slot', Threads, t, Head(output))
        /\ Put(result, result', Threads, t, v2[Head(output)])
        /\ \/ v1[Head(output)] = graph[t] /\ Put(pc, pc', Threads, t, "free")
           \/ v1[Head(output)] # graph[t] /\ Put(pc, pc', Threads, t, "put_back")
    BY <1>3, Domains DEF Put
  <1> QED BY <1>2, <1>4, <1>5, Zenon DEF ReadOutputDoes

LEMMA PutBackEffect ==
  ASSUME IInv, NEW t \in Threads, PutBack(t) PROVE PutBackDoes(t)
  <1>1. output \in Seq(Slots) /\ IsInjective(output) /\ slot[t] \in Slots /\ slot[t] \notin Range(output)
    <2>1. output \in Seq(Slots) /\ IsInjective(output) /\ slot[t] \in Slots /\ InHand(t, slot[t])
      BY Typed DEF PutBack, IInv, TypeOK, Placed, InHand
    <2> QED BY <2>1 DEF IInv, Placed, WellPlaced, Queued, Written
  <1>2. output' = Append(output, slot[t])
    BY DEF PutBack
  <1>3. /\ output' \in Seq(Slots) /\ IsInjective(output')
        /\ Range(output') = Range(output) \cup {slot[t]}
    BY <1>1, <1>2, AppendPosition, Zenon
  <1> QED BY Domains, <1>3 DEF PutBack, PutBackDoes, Put, Goto, positions, worker, history

LEMMA FreeEffect ==
  ASSUME IInv, NEW t \in Threads, Free(t) PROVE FreeDoes(t)
  <1>1. pc[t] = "free" /\ graph[t] \in Graphs /\ v1[slot[t]] = graph[t] /\ slot[t] \in Slots
    BY Typed DEF Free, IInv, Control, Named
  <1>2. \A q \in Slots : v1[q] = graph[t] => q = slot[t]
    BY <1>1, GraphScheduleAssumption DEF IInv, LockTaken
  <1>3. HoldsGraph(t) = {slot[t]}
    BY <1>1, <1>2 DEF HoldsGraph
  <1>4. Min({slot[t]}) = slot[t]
    <2>1. {slot[t]} \in SUBSET Nat
      BY <1>1, GraphScheduleAssumption DEF Slots
    <2> QED BY <2>1, LeastOf
  <1>5. v1' = [v1 EXCEPT ![slot[t]] = NoGraph]
    BY <1>3, <1>4 DEF Free, Emptied
  <1> QED BY Domains, <1>1, <1>5 DEF Free, FreeDoes, Put, Goto, queues, worker, history

LEMMA UnlockEffect ==
  ASSUME IInv, NEW t \in Threads, Unlock(t) PROVE UnlockDoes(t)
  <1>1. /\ pc[t] = "unlock" /\ graph[t] \in Graphs /\ lock[graph[t]] = 0
        /\ result[t] = outcome[graph[t]]
    <2>1. pc[t] = "unlock" /\ graph[t] \in Graphs
      BY DEF Unlock, IInv, Control
    <2> QED BY <2>1 DEF IInv, LockTaken, Holds, CarriesOutcome
  <1>2. lock[graph[t]] + 1 = 1
    BY <1>1
  <1> QED BY Domains, <1>1, <1>2 DEF Unlock, UnlockDoes, Put, Goto, positions, queues, worker

LEMMA ReleaseEffect ==
  ASSUME IInv, Release PROVE ReleaseDoes
  BY DEF Release, ReleaseDoes, positions, worker, app, history

LEMMA IdleEffect ==
  ASSUME Released \/ UNCHANGED vars
  PROVE  UNCHANGED <<lock, v1, v2, input, output, running, gpc, gslot,
                        ggraph, gstatus, pc, graph, slot, result, outcome,
                        answer>>
  BY DEF Released, vars, positions, queues, worker, app, history

\* Type correctness.
LEMMA NextTypeOK ==
  ASSUME IInv, [Next]_vars
  PROVE  TypeOK'
  <1>1. TypeOK
    BY DEF IInv
  <1> USE <1>1
  <1>2. ASSUME NEW t \in Threads, NEW g \in Graphs, Schedule(t, g) PROVE TypeOK'
    <2>2. lock' \in [Graphs -> 0 .. 1]
      <3>1. lock[g] \in 0 .. 1 /\ lock \in [Graphs -> 0 .. 1]
        BY DEF TypeOK
      <3>2. CASE lock[g] = 0
        BY <3>1, <3>2, <1>2 DEF Schedule
      <3>3. CASE lock[g] = 1
        BY <3>1, <3>3, <1>2 DEF Schedule
      <3> QED BY <3>1, <3>2, <3>3
    <2> QED BY <2>2, <1>2 DEF Schedule, Return, Goto, positions, queues,
       worker, history, TypeOK, Statuses
  <1>3. ASSUME NEW t \in Threads, Claim(t) PROVE TypeOK'
    <2>1. slot' \in [Threads -> Slots]
      <3>1. CASE FreeSlots = {}
        BY <3>1, <1>3 DEF Claim, TypeOK
      <3>2. CASE FreeSlots # {}
        BY <3>2, <1>3, FreeSlotFound DEF Claim, TypeOK
      <3> QED BY <3>1, <3>2
    <2> QED BY <2>1, <1>3 DEF Claim, Return, Goto, queues, worker, history, TypeOK
  <1>4. ASSUME NEW t \in Threads, Fill(t) PROVE TypeOK'
    <2>1. FillDoes(t)
      BY <1>4, FillEffect
    <2> QED BY <1>4, <2>1, GraphScheduleAssumption DEF FillDoes, Fill, Goto,
       queues, worker, history, TypeOK, Statuses
  <1>5. ASSUME NEW t \in Threads, Enqueue(t) PROVE TypeOK'
    <2>1. EnqueueDoes(t)
      BY <1>5, EnqueueEffect
    <2> QED BY <1>5, <2>1, GraphScheduleAssumption DEF EnqueueDoes, Enqueue,
       Return, Goto, positions, worker, history, TypeOK, Statuses
  <1>6. ASSUME Take PROVE TypeOK'
    <2>1. TakeDoes
      BY <1>6, TakeEffect
    <2>2. /\ lock' = lock /\ v1' = v1 /\ v2' = v2 /\ output' = output /\ gstatus' = gstatus
          /\ pc' = pc /\ graph' = graph /\ slot' = slot /\ result' = result
          /\ outcome' = outcome /\ answer' = answer /\ running' = running
      BY <1>6 DEF Take, positions, app, history
    <2>3. ggraph' \in Graphs \cup {NoGraph} /\ gpc' = "process" /\ gslot' \in Slots
          /\ input' \in Seq(Slots)
      BY <2>1, Typed DEF TakeDoes
    <2> QED BY <2>2, <2>3 DEF TypeOK
  <1>7. ASSUME Process PROVE TypeOK'
    <2>1. ProcessDoes
      BY <1>7, ProcessEffect
    <2> QED BY <1>7, <2>1, GraphScheduleAssumption DEF ProcessDoes, Process,
       StatusStored, queues, app, TypeOK, Statuses
  <1>8. ASSUME Write PROVE TypeOK'
    <2>1. WriteDoes
      BY <1>8, WriteEffect
    <2> QED BY <1>8, <2>1, GraphScheduleAssumption DEF WriteDoes, Write,
       positions, app, history, TypeOK, Statuses
  <1>9. ASSUME Stop PROVE TypeOK'
    <2>1. StopDoes
      BY <1>9, StopEffect
    <2> QED BY <1>9, <2>1, GraphScheduleAssumption DEF StopDoes, Stop,
       positions, queues, app, history, TypeOK, Statuses
  <1>10. ASSUME NEW t \in Threads, NEW g \in Graphs, Wait(t, g) PROVE TypeOK'
    <2>2. lock' \in [Graphs -> 0 .. 1]
      <3>1. lock[g] \in 0 .. 1 /\ lock \in [Graphs -> 0 .. 1]
        BY DEF TypeOK
      <3>2. CASE lock[g] = 0
        BY <3>1, <3>2, <1>10 DEF Wait
      <3>3. CASE lock[g] = 1
        BY <3>1, <3>3, <1>10 DEF Wait
      <3> QED BY <3>1, <3>2, <3>3
    <2> QED BY <2>2, <1>10 DEF Wait, Goto, positions, queues, worker, history,
       TypeOK, Statuses
  <1>11. ASSUME NEW t \in Threads, GiveBack(t) PROVE TypeOK'
    <2>1. GiveBackDoes(t)
      BY <1>11, GiveBackEffect
    <2>2. lock' \in [Graphs -> 0 .. 1]
      <3>1. lock \in [Graphs -> 0 .. 1] /\ lock' = [lock EXCEPT ![graph[t]] = @ + 1]
        BY <1>11 DEF TypeOK, GiveBack
      <3>2. lock'[graph[t]] = 1 /\ graph[t] \in Graphs
        BY <2>1 DEF GiveBackDoes, Put
      <3>3. lock' = [lock EXCEPT ![graph[t]] = 1]
        BY <3>1, <3>2
      <3> QED BY <3>1, <3>2, <3>3
    <2> QED BY <2>1, <2>2, <1>11 DEF GiveBack, Return, Goto, positions,
       queues, worker, history, TypeOK, Statuses, GiveBackDoes
  <1>12. ASSUME NEW t \in Threads, ReadOutput(t) PROVE TypeOK'
    <2>1. ReadOutputDoes(t)
      BY <1>12, ReadOutputEffect
    <2>2. output' \in Seq(Slots) /\ Head(output) \in Slots
      BY <2>1, <1>12, HeadTailProperties DEF ReadOutput, ReadOutputDoes, TypeOK
    <2>3. slot' \in [Threads -> Slots]
      BY <2>2, <1>12 DEF ReadOutput, TypeOK
    <2>4. result' \in [Threads -> Statuses \cup {"none", "already_scheduled", "no_resources"}]
      BY <2>2, <1>12 DEF ReadOutput, TypeOK
    <2>5. pc' \in [Threads -> {"idle", "claim", "fill", "enqueue",
                             "give_back", "read", "put_back", "free", "unlock"}]
      BY <2>2, <1>12 DEF ReadOutput, Goto, TypeOK
    <2> QED BY <2>2, <2>3, <2>4, <2>5, <1>12 DEF ReadOutput, positions, worker, history, TypeOK
  <1>13. ASSUME NEW t \in Threads, PutBack(t) PROVE TypeOK'
    <2>1. PutBackDoes(t)
      BY <1>13, PutBackEffect
    <2> QED BY <1>13, <2>1, GraphScheduleAssumption DEF PutBackDoes, PutBack,
       Goto, positions, worker, history, TypeOK, Statuses
  <1>14. ASSUME NEW t \in Threads, Free(t) PROVE TypeOK'
    <2>1. FreeDoes(t)
      BY <1>14, FreeEffect
    <2> QED BY <1>14, <2>1, GraphScheduleAssumption DEF FreeDoes, Free, Goto,
       Emptied, HoldsGraph, queues, worker, history, TypeOK, Statuses
  <1>15. ASSUME NEW t \in Threads, Unlock(t) PROVE TypeOK'
    <2>1. UnlockDoes(t)
      BY <1>15, UnlockEffect
    <2>2. lock' \in [Graphs -> 0 .. 1]
      <3>1. lock \in [Graphs -> 0 .. 1] /\ lock' = [lock EXCEPT ![graph[t]] = @ + 1]
        BY <1>15 DEF TypeOK, Unlock
      <3>2. lock'[graph[t]] = 1 /\ graph[t] \in Graphs
        BY <2>1 DEF UnlockDoes, Put
      <3>3. lock' = [lock EXCEPT ![graph[t]] = 1]
        BY <3>1, <3>2
      <3> QED BY <3>1, <3>2, <3>3
    <2> QED BY <2>1, <2>2, <1>15 DEF Unlock, Goto, positions, queues, worker,
       TypeOK, Statuses, UnlockDoes
  <1>16. ASSUME Release PROVE TypeOK'
    <2>1. ReleaseDoes
      BY <1>16, ReleaseEffect
    <2> QED BY <1>16, <2>1, GraphScheduleAssumption DEF ReleaseDoes, Release,
       positions, worker, app, history, TypeOK, Statuses
  <1>17. CASE Released \/ UNCHANGED vars
    BY <1>17, IdleEffect DEF TypeOK
  <1> QED BY <1>2, <1>3, <1>4, <1>5, <1>6, <1>7, <1>8, <1>9, <1>10, <1>11,
     <1>12, <1>13, <1>14, <1>15, <1>16, <1>17
          DEF Next, AppStep, WorkerStep

\* Which threads are where.
LEMMA NextControl ==
  ASSUME IInv, [Next]_vars
  PROVE  Control'
  <1>1. TypeOK /\ Control
    BY DEF IInv
  <1> USE <1>1
  <1>2. ASSUME NEW t \in Threads, NEW g \in Graphs, Schedule(t, g) PROVE Control'
    <2>1. ScheduleDoes(t, g)
      BY <1>2, ScheduleEffect
    <2> QED BY <2>1, Typed DEF ScheduleDoes, Put, Control
  <1>3. ASSUME NEW t \in Threads, Claim(t) PROVE Control'
    <2>1. ClaimDoes(t)
      BY <1>3, ClaimEffect
    <2> QED BY <2>1, Typed DEF ClaimDoes, Put, Control
  <1>4. ASSUME NEW t \in Threads, Fill(t) PROVE Control'
    <2>1. FillDoes(t)
      BY <1>4, FillEffect
    <2> QED BY <2>1, Typed DEF FillDoes, Put, Control
  <1>5. ASSUME NEW t \in Threads, Enqueue(t) PROVE Control'
    <2>1. EnqueueDoes(t)
      BY <1>5, EnqueueEffect
    <2> QED BY <2>1, Typed DEF EnqueueDoes, Put, Control
  <1>6. ASSUME Take PROVE Control'
    <2>1. TakeDoes
      BY <1>6, TakeEffect
    <2> QED BY <2>1, Typed DEF TakeDoes, Put, Control
  <1>7. ASSUME Process PROVE Control'
    <2>1. ProcessDoes
      BY <1>7, ProcessEffect
    <2> QED BY <2>1, Typed DEF ProcessDoes, Put, Control
  <1>8. ASSUME Write PROVE Control'
    <2>1. WriteDoes
      BY <1>8, WriteEffect
    <2> QED BY <2>1, Typed DEF WriteDoes, Put, Control
  <1>9. ASSUME Stop PROVE Control'
    <2>1. StopDoes
      BY <1>9, StopEffect
    <2> QED BY <2>1, Typed DEF StopDoes, Put, Control
  <1>10. ASSUME NEW t \in Threads, NEW g \in Graphs, Wait(t, g) PROVE Control'
    <2>1. WaitDoes(t, g)
      BY <1>10, WaitEffect
    <2> QED BY <2>1, Typed DEF WaitDoes, Put, Control
  <1>11. ASSUME NEW t \in Threads, GiveBack(t) PROVE Control'
    <2>1. GiveBackDoes(t)
      BY <1>11, GiveBackEffect
    <2> QED BY <2>1, Typed DEF GiveBackDoes, Put, Control
  <1>12. ASSUME NEW t \in Threads, ReadOutput(t) PROVE Control'
    <2>1. ReadOutputDoes(t)
      BY <1>12, ReadOutputEffect
    <2> QED BY <2>1, Typed DEF ReadOutputDoes, Put, Control
  <1>13. ASSUME NEW t \in Threads, PutBack(t) PROVE Control'
    <2>1. PutBackDoes(t)
      BY <1>13, PutBackEffect
    <2> QED BY <2>1, Typed DEF PutBackDoes, Put, Control
  <1>14. ASSUME NEW t \in Threads, Free(t) PROVE Control'
    <2>1. FreeDoes(t)
      BY <1>14, FreeEffect
    <2> QED BY <2>1, Typed DEF FreeDoes, Put, Control
  <1>15. ASSUME NEW t \in Threads, Unlock(t) PROVE Control'
    <2>1. UnlockDoes(t)
      BY <1>15, UnlockEffect
    <2> QED BY <2>1, Typed DEF UnlockDoes, Put, Control
  <1>16. ASSUME Release PROVE Control'
    <2>1. ReleaseDoes
      BY <1>16, ReleaseEffect
    <2> QED BY <2>1, Typed DEF ReleaseDoes, Put, Control
  <1>17. CASE Released \/ UNCHANGED vars
    BY <1>17, IdleEffect DEF Control
  <1> QED BY <1>2, <1>3, <1>4, <1>5, <1>6, <1>7, <1>8, <1>9, <1>10, <1>11,
     <1>12, <1>13, <1>14, <1>15, <1>16, <1>17
          DEF Next, AppStep, WorkerStep

\* Five ways the lock of a graph and its position may change hands.
LEMMA LockKept ==
  ASSUME LockTaken, v1' = v1, lock' = lock,
         \A u \in Threads, h \in Graphs : Holds(u, h)' => Holds(u, h),
         \A q \in Slots : v1[q] \in Graphs \cup {NoGraph}
  PROVE  LockTaken'
  BY DEF LockTaken

LEMMA LockAcquired ==
  ASSUME LockTaken, v1' = v1, NEW t \in Threads, NEW g \in Graphs,
         lock[g] = 1, Put(lock, lock', Graphs, g, 0),
         \A u \in Threads, h \in Graphs : Holds(u, h)' => Holds(u, h) \/ (u = t /\ h = g),
         \A q \in Slots : v1[q] \in Graphs \cup {NoGraph}
  PROVE  LockTaken'
  <1>1. \A u \in Threads : ~Holds(u, g)
    BY DEF LockTaken
  <1>2. \A q \in Slots : v1[q] # NoGraph => v1[q] # g
    BY DEF LockTaken
  <1>3. lock'[g] = 0 /\ \A h \in Graphs : h # g => lock'[h] = lock[h]
    BY DEF Put
  <1>4. \A u, w \in Threads : \A h \in Graphs : Holds(u, h)' /\ Holds(w, h)' => u = w
    BY <1>1 DEF LockTaken
  <1>5. \A u \in Threads, q \in Slots : ~(v1'[q] # NoGraph /\ Holds(u, v1[q])')
    BY <1>1, <1>2 DEF LockTaken
  <1>6. \A u \in Threads, h \in Graphs : Holds(u, h)' => lock'[h] = 0
    BY <1>3 DEF LockTaken
  <1>7. \A q \in Slots : v1'[q] # NoGraph => lock'[v1'[q]] = 0
    BY <1>3 DEF LockTaken
  <1> QED BY <1>4, <1>5, <1>6, <1>7 DEF LockTaken

LEMMA LockGivenUp ==
  ASSUME LockTaken, v1' = v1, NEW t \in Threads, NEW g \in Graphs,
         Holds(t, g), Put(lock, lock', Graphs, g, 1),
         \A u \in Threads, h \in Graphs : Holds(u, h)' => Holds(u, h) /\ u # t,
         \A q \in Slots : v1[q] \in Graphs \cup {NoGraph}
  PROVE  LockTaken'
  <1>1. \A u \in Threads : u # t => ~Holds(u, g)
    BY DEF LockTaken
  <1>2. \A q \in Slots : v1[q] # NoGraph => v1[q] # g
    BY DEF LockTaken
  <1>3. \A h \in Graphs : h # g => lock'[h] = lock[h]
    BY DEF Put
  <1>4. \A u \in Threads, h \in Graphs : Holds(u, h)' => lock'[h] = 0
    BY <1>1, <1>3 DEF LockTaken
  <1>5. \A q \in Slots : v1'[q] # NoGraph => lock'[v1'[q]] = 0
    BY <1>2, <1>3 DEF LockTaken
  <1> QED BY <1>4, <1>5 DEF LockTaken

LEMMA LockToPosition ==
  ASSUME LockTaken, lock' = lock, NEW t \in Threads, NEW g \in Graphs, NEW p \in Slots,
         Holds(t, g), Put(v1, v1', Slots, p, g),
         \A u \in Threads, h \in Graphs : Holds(u, h)' => Holds(u, h) /\ u # t,
         \A q \in Slots : v1[q] \in Graphs \cup {NoGraph}
  PROVE  LockTaken'
  <1>1. \A u \in Threads : u # t => ~Holds(u, g)
    BY DEF LockTaken
  <1>2. \A q \in Slots : v1[q] # NoGraph => v1[q] # g
    BY DEF LockTaken
  <1>3. v1'[p] = g /\ \A q \in Slots : q # p => v1'[q] = v1[q]
    BY DEF Put
  <1>4. lock[g] = 0
    BY DEF LockTaken
  <1>5. \A q, r \in Slots : v1'[q] # NoGraph /\ v1'[q] = v1'[r] => q = r
    BY <1>2, <1>3 DEF LockTaken
  <1>6. \A u \in Threads, q \in Slots : ~(v1'[q] # NoGraph /\ Holds(u, v1[q])')
    <2> SUFFICES ASSUME NEW u \in Threads, NEW q \in Slots, v1'[q] # NoGraph
                 PROVE  ~Holds(u, v1[q])'
      OBVIOUS
    <2>1. v1'[q] \in Graphs
      BY <1>3
    <2>2. CASE q = p
      BY <1>1, <1>3, <2>2
    <2>3. CASE q # p
      BY <1>3, <2>1, <2>3 DEF LockTaken
    <2> QED BY <2>2, <2>3
  <1>7. \A q \in Slots : v1'[q] # NoGraph => lock'[v1'[q]] = 0
    BY <1>3, <1>4 DEF LockTaken
  <1>8. \A u, w \in Threads : \A h \in Graphs : Holds(u, h)' /\ Holds(w, h)' => u = w
    BY DEF LockTaken
  <1>9. \A u \in Threads, h \in Graphs : Holds(u, h)' => lock'[h] = 0
    BY DEF LockTaken
  <1> QED BY <1>5, <1>6, <1>7, <1>8, <1>9 DEF LockTaken

LEMMA LockFromPosition ==
  ASSUME LockTaken, lock' = lock, NEW t \in Threads, NEW g \in Graphs, NEW p \in Slots,
         v1[p] = g, Put(v1, v1', Slots, p, NoGraph), NoGraph \notin Graphs,
         \A u \in Threads, h \in Graphs : Holds(u, h)' => Holds(u, h) \/ (u = t /\ h = g),
         \A q \in Slots : v1[q] \in Graphs \cup {NoGraph}
  PROVE  LockTaken'
  <1>1. \A u \in Threads : ~Holds(u, g)
    BY DEF LockTaken
  <1>2. \A q \in Slots : q # p => v1[q] # g
    BY DEF LockTaken
  <1>3. v1'[p] = NoGraph /\ \A q \in Slots : q # p => v1'[q] = v1[q]
    BY DEF Put
  <1>4. lock[g] = 0
    BY DEF LockTaken
  <1>5. \A q, r \in Slots : v1'[q] # NoGraph /\ v1'[q] = v1'[r] => q = r
    BY <1>3 DEF LockTaken
  <1>6. \A u \in Threads, q \in Slots : ~(v1'[q] # NoGraph /\ Holds(u, v1[q])')
    <2> SUFFICES ASSUME NEW u \in Threads, NEW q \in Slots, v1'[q] # NoGraph
                 PROVE  ~Holds(u, v1[q])'
      OBVIOUS
    <2>1. v1'[q] = v1[q] /\ v1[q] \in Graphs /\ v1[q] # g
      BY <1>2, <1>3
    <2> QED BY <2>1 DEF LockTaken
  <1>7. \A q \in Slots : v1'[q] # NoGraph => lock'[v1'[q]] = 0
    BY <1>3 DEF LockTaken
  <1>8. \A u, w \in Threads : \A h \in Graphs : Holds(u, h)' /\ Holds(w, h)' => u = w
    BY <1>1 DEF LockTaken
  <1>9. \A u \in Threads, h \in Graphs : Holds(u, h)' => lock'[h] = 0
    BY <1>4 DEF LockTaken
  <1> QED BY <1>5, <1>6, <1>7, <1>8, <1>9 DEF LockTaken

\* The lock of a graph has one owner.
LEMMA NextLockTaken ==
  ASSUME IInv, [Next]_vars
  PROVE  LockTaken'
  <1>1. TypeOK /\ LockTaken
    BY DEF IInv
  <1> USE <1>1
  <1>2. ASSUME NEW t \in Threads, NEW g \in Graphs, Schedule(t, g) PROVE LockTaken'
    <2>1. ScheduleDoes(t, g)
      BY <1>2, ScheduleEffect
    <2>2. CASE lock[g] = 1 /\ Put(lock, lock', Graphs, g, 0)
      <3>1. v1' = v1 /\ Put(graph, graph', Threads, t, g) /\ \A u \in Threads \ {t} : pc'[u] = pc[u]
        BY <2>1, <2>2 DEF ScheduleDoes, Put
      <3>2. \A u \in Threads, h \in Graphs : Holds(u, h)' => Holds(u, h) \/ (u = t /\ h = g)
        BY <3>1 DEF Holds, Put
      <3> QED BY <2>2, <3>1, <3>2, LockAcquired, Typed
    <2>3. CASE lock' = lock
      <3>1. pc'[t] \in {"idle", "read"} /\ v1' = v1
        <4>1. lock[g] = 0
          BY <2>1, <2>3 DEF ScheduleDoes, Put
        <4> QED BY <2>1, <4>1 DEF ScheduleDoes
      <3>2. \A u \in Threads \ {t} : pc'[u] = pc[u] /\ graph'[u] = graph[u]
        BY <2>1, <2>3 DEF ScheduleDoes, Put
      <3>3. \A u \in Threads, h \in Graphs : Holds(u, h)' => Holds(u, h)
        BY <3>1, <3>2 DEF Holds
      <3> QED BY <2>3, <3>1, <3>3, LockKept, Typed
    <2> QED BY <2>1, <2>2, <2>3 DEF ScheduleDoes
  <1>3. ASSUME NEW t \in Threads, Claim(t) PROVE LockTaken'
    <2>1. ClaimDoes(t)
      BY <1>3, ClaimEffect
    <2>2. \A u \in Threads, h \in Graphs : Holds(u, h)' => Holds(u, h)
      BY <2>1 DEF ClaimDoes, Put, Holds
    <2> QED BY <2>1, <2>2, LockKept, Typed DEF ClaimDoes
  <1>4. ASSUME NEW t \in Threads, Fill(t) PROVE LockTaken'
    <2>1. FillDoes(t)
      BY <1>4, FillEffect
    <2>2. \A u \in Threads, h \in Graphs : Holds(u, h)' => Holds(u, h) /\ u # t
      BY <2>1 DEF FillDoes, Put, Holds
    <2>3. Holds(t, graph[t])
      BY <2>1 DEF FillDoes, Holds
    <2> QED BY <2>1, <2>2, <2>3, LockToPosition, Typed DEF FillDoes
  <1>5. ASSUME NEW t \in Threads, Enqueue(t) PROVE LockTaken'
    <2>1. EnqueueDoes(t)
      BY <1>5, EnqueueEffect
    <2>2. \A u \in Threads, h \in Graphs : Holds(u, h)' => Holds(u, h)
      BY <2>1 DEF EnqueueDoes, Put, Holds
    <2> QED BY <2>1, <2>2, LockKept, Typed DEF EnqueueDoes
  <1>6. ASSUME Take PROVE LockTaken'
    <2>1. TakeDoes
      BY <1>6, TakeEffect
    <2>2. \A u \in Threads, h \in Graphs : Holds(u, h)' => Holds(u, h)
      BY <2>1 DEF TakeDoes, Put, Holds
    <2> QED BY <2>1, <2>2, LockKept, Typed DEF TakeDoes
  <1>7. ASSUME Process PROVE LockTaken'
    <2>1. ProcessDoes
      BY <1>7, ProcessEffect
    <2>2. \A u \in Threads, h \in Graphs : Holds(u, h)' => Holds(u, h)
      BY <2>1 DEF ProcessDoes, Put, Holds
    <2> QED BY <2>1, <2>2, LockKept, Typed DEF ProcessDoes
  <1>8. ASSUME Write PROVE LockTaken'
    <2>1. WriteDoes
      BY <1>8, WriteEffect
    <2>2. \A u \in Threads, h \in Graphs : Holds(u, h)' => Holds(u, h)
      BY <2>1 DEF WriteDoes, Put, Holds
    <2> QED BY <2>1, <2>2, LockKept, Typed DEF WriteDoes
  <1>9. ASSUME Stop PROVE LockTaken'
    <2>1. StopDoes
      BY <1>9, StopEffect
    <2>2. \A u \in Threads, h \in Graphs : Holds(u, h)' => Holds(u, h)
      BY <2>1 DEF StopDoes, Put, Holds
    <2> QED BY <2>1, <2>2, LockKept, Typed DEF StopDoes
  <1>10. ASSUME NEW t \in Threads, NEW g \in Graphs, Wait(t, g) PROVE LockTaken'
    <2>1. WaitDoes(t, g)
      BY <1>10, WaitEffect
    <2>2. CASE lock[g] = 1 /\ Put(lock, lock', Graphs, g, 0)
      <3>1. v1' = v1 /\ Put(graph, graph', Threads, t, g) /\ \A u \in Threads \ {t} : pc'[u] = pc[u]
        BY <2>1, <2>2 DEF WaitDoes, Put
      <3>2. \A u \in Threads, h \in Graphs : Holds(u, h)' => Holds(u, h) \/ (u = t /\ h = g)
        BY <3>1 DEF Holds, Put
      <3> QED BY <2>2, <3>1, <3>2, LockAcquired, Typed
    <2>3. CASE lock' = lock
      <3>1. pc'[t] \in {"idle", "read"} /\ v1' = v1
        <4>1. lock[g] = 0 \/ pc'[t] = "read"
          BY <2>1, <2>3 DEF WaitDoes, Put
        <4> QED BY <2>1, <2>3, <4>1 DEF WaitDoes, Put
      <3>2. \A u \in Threads \ {t} : pc'[u] = pc[u] /\ graph'[u] = graph[u]
        BY <2>1, <2>3 DEF WaitDoes, Put
      <3>3. \A u \in Threads, h \in Graphs : Holds(u, h)' => Holds(u, h)
        BY <3>1, <3>2 DEF Holds
      <3> QED BY <2>3, <3>1, <3>3, LockKept, Typed
    <2> QED BY <2>1, <2>2, <2>3 DEF WaitDoes
  <1>11. ASSUME NEW t \in Threads, GiveBack(t) PROVE LockTaken'
    <2>1. GiveBackDoes(t)
      BY <1>11, GiveBackEffect
    <2>2. \A u \in Threads, h \in Graphs : Holds(u, h)' => Holds(u, h) /\ u # t
      BY <2>1 DEF GiveBackDoes, Put, Holds
    <2>3. Holds(t, graph[t])
      BY <2>1 DEF GiveBackDoes, Holds
    <2> QED BY <2>1, <2>2, <2>3, LockGivenUp, Typed DEF GiveBackDoes
  <1>12. ASSUME NEW t \in Threads, ReadOutput(t) PROVE LockTaken'
    <2>1. ReadOutputDoes(t)
      BY <1>12, ReadOutputEffect
    <2>2. \A u \in Threads, h \in Graphs : Holds(u, h)' => Holds(u, h)
      BY <2>1 DEF ReadOutputDoes, Put, Holds
    <2> QED BY <2>1, <2>2, LockKept, Typed DEF ReadOutputDoes
  <1>13. ASSUME NEW t \in Threads, PutBack(t) PROVE LockTaken'
    <2>1. PutBackDoes(t)
      BY <1>13, PutBackEffect
    <2>2. \A u \in Threads, h \in Graphs : Holds(u, h)' => Holds(u, h)
      BY <2>1 DEF PutBackDoes, Put, Holds
    <2> QED BY <2>1, <2>2, LockKept, Typed DEF PutBackDoes
  <1>14. ASSUME NEW t \in Threads, Free(t) PROVE LockTaken'
    <2>1. FreeDoes(t)
      BY <1>14, FreeEffect
    <2>2. \A u \in Threads, h \in Graphs : Holds(u, h)' => Holds(u, h) \/ (u = t /\ h = graph[t])
      BY <2>1 DEF FreeDoes, Put, Holds
    <2> QED BY <2>1, <2>2, LockFromPosition, Typed DEF FreeDoes
  <1>15. ASSUME NEW t \in Threads, Unlock(t) PROVE LockTaken'
    <2>1. UnlockDoes(t)
      BY <1>15, UnlockEffect
    <2>2. \A u \in Threads, h \in Graphs : Holds(u, h)' => Holds(u, h) /\ u # t
      BY <2>1 DEF UnlockDoes, Put, Holds
    <2>3. Holds(t, graph[t])
      BY <2>1 DEF UnlockDoes, Holds
    <2> QED BY <2>1, <2>2, <2>3, LockGivenUp, Typed DEF UnlockDoes
  <1>16. ASSUME Release PROVE LockTaken'
    <2>1. ReleaseDoes
      BY <1>16, ReleaseEffect
    <2>2. \A u \in Threads, h \in Graphs : Holds(u, h)' => Holds(u, h)
      BY <2>1 DEF ReleaseDoes, Put, Holds
    <2> QED BY <2>1, <2>2, LockKept, Typed DEF ReleaseDoes
  <1>17. CASE Released \/ UNCHANGED vars
    BY <1>17, IdleEffect DEF LockTaken, Holds
  <1> QED BY <1>2, <1>3, <1>4, <1>5, <1>6, <1>7, <1>8, <1>9, <1>10, <1>11,
     <1>12, <1>13, <1>14, <1>15, <1>16, <1>17
          DEF Next, AppStep, WorkerStep

\* Every position but p is where it was.
Stays(q) ==
  /\ v1'[q] = v1[q]
  /\ Queued(q)' <=> Queued(q)
  /\ Written(q)' <=> Written(q)
  /\ InWork(q)' <=> InWork(q)
  /\ \A t \in Threads : InHand(t, q)' <=> InHand(t, q)

LEMMA StaysPlaced ==
  ASSUME NEW q, Stays(q), WellPlaced(q) PROVE WellPlaced(q)'
  <1>1. Somewhere(q)' <=> Somewhere(q)
    BY DEF Stays, Somewhere
  <1> QED BY <1>1 DEF Stays, WellPlaced

LEMMA Moved ==
  ASSUME Placed, NEW p \in Slots, \A q \in Slots \ {p} : Stays(q), WellPlaced(p)',
         IsInjective(input'), IsInjective(output')
  PROVE  Placed'
  BY StaysPlaced DEF Placed

LEMMA NoneMoved ==
  ASSUME Placed, \A q \in Slots : Stays(q), input' = input, output' = output
  PROVE  Placed'
  BY StaysPlaced DEF Placed

\* A position is in one place, if it holds a graph.
LEMMA NextPlaced ==
  ASSUME IInv, [Next]_vars
  PROVE  Placed'
  <1>1. TypeOK /\ Placed
    BY DEF IInv
  <1> USE <1>1
  <1>2. ASSUME NEW t \in Threads, NEW g \in Graphs, Schedule(t, g) PROVE Placed'
    <2>1. ScheduleDoes(t, g)
      BY <1>2, ScheduleEffect
    <2>2. \A q \in Slots : \A u \in Threads : InHand(u, q)' <=> InHand(u, q)
      BY <2>1 DEF ScheduleDoes, Put, InHand
    <2>3. \A q \in Slots : Stays(q)
      BY <2>1, <2>2 DEF ScheduleDoes, Stays, Queued, Written, InWork
    <2> QED BY <2>1, <2>3, NoneMoved DEF ScheduleDoes
  <1>3. ASSUME NEW t \in Threads, Claim(t) PROVE Placed'
    <2>1. ClaimDoes(t)
      BY <1>3, ClaimEffect
    <2>2. \A q \in Slots : \A u \in Threads : InHand(u, q)' <=> InHand(u, q)
      BY <2>1 DEF ClaimDoes, Put, InHand
    <2>3. \A q \in Slots : Stays(q)
      BY <2>1, <2>2 DEF ClaimDoes, Stays, Queued, Written, InWork
    <2> QED BY <2>1, <2>3, NoneMoved DEF ClaimDoes
  <1>4. ASSUME NEW t \in Threads, Fill(t) PROVE Placed'
    <2>0. PICK p : p = slot[t]
      OBVIOUS
    <2>1. FillDoes(t)
      BY <1>4, FillEffect
    <2>2. p \in Slots /\ WellPlaced(p)
      BY <2>0, <2>1, Typed DEF FillDoes, Placed
    <2>3. v1[p] = NoGraph
      BY <2>0, <2>1 DEF FillDoes, InHand
    <2>4. \A q \in Slots : \A u \in Threads : InHand(u, q)' <=> InHand(u, q) \/ (u = t /\ q = p)
      BY <2>0, <2>1 DEF FillDoes, Put, InHand
    <2>5. \A q \in Slots : /\ Queued(q)' <=> Queued(q)
                           /\ Written(q)' <=> Written(q)
                           /\ InWork(q)' <=> InWork(q)
      BY <2>0, <2>1 DEF FillDoes, Queued, Written, InWork
    <2>6. v1'[p] # NoGraph /\ \A q \in Slots \ {p} : v1'[q] = v1[q]
      BY <2>0, <2>1, Typed DEF FillDoes, Put
    <2>7. IsInjective(input') /\ IsInjective(output')
      BY <2>1 DEF FillDoes, Placed
    <2>8. \A q \in Slots : ~InHand(t, q)
      BY <2>1 DEF FillDoes, InHand
    <2>9. WellPlaced(p)'
      BY <2>2, <2>3, <2>4, <2>5, <2>6, <2>8 DEF WellPlaced, Somewhere
    <2>10. \A q \in Slots \ {p} : Stays(q)
      BY <2>4, <2>5, <2>6, <2>8 DEF Stays
    <2> QED BY <2>2, <2>7, <2>9, <2>10, Moved
  <1>5. ASSUME NEW t \in Threads, Enqueue(t) PROVE Placed'
    <2>0. PICK p : p = slot[t]
      OBVIOUS
    <2>1. EnqueueDoes(t)
      BY <1>5, EnqueueEffect
    <2>2. p \in Slots /\ WellPlaced(p)
      BY <2>0, <2>1, Typed DEF EnqueueDoes, Placed
    <2>3. InHand(t, p)
      BY <2>0, <2>1 DEF EnqueueDoes, InHand
    <2>4. \A q \in Slots : \A u \in Threads : InHand(u, q)' <=> InHand(u, q) /\ u # t
      BY <2>0, <2>1 DEF EnqueueDoes, Put, InHand
    <2>5. \A q \in Slots : /\ Queued(q)' <=> Queued(q) \/ q = p
                           /\ Written(q)' <=> Written(q)
                           /\ InWork(q)' <=> InWork(q)
      BY <2>0, <2>1 DEF EnqueueDoes, Queued, Written, InWork
    <2>6. v1' = v1
      BY <2>0, <2>1, Typed DEF EnqueueDoes, Put
    <2>7. IsInjective(input') /\ IsInjective(output')
      BY <2>1 DEF EnqueueDoes, Placed
    <2>8. \A q \in Slots : InHand(t, q) => q = p
      BY <2>0 DEF InHand
    <2>9. WellPlaced(p)'
      BY <2>2, <2>3, <2>4, <2>5, <2>6, <2>8 DEF WellPlaced, Somewhere
    <2>10. \A q \in Slots \ {p} : Stays(q)
      BY <2>4, <2>5, <2>6, <2>8 DEF Stays
    <2> QED BY <2>2, <2>7, <2>9, <2>10, Moved
  <1>6. ASSUME Take PROVE Placed'
    <2>0. PICK p : p = gslot'
      OBVIOUS
    <2>1. TakeDoes
      BY <1>6, TakeEffect
    <2>2. p \in Slots /\ WellPlaced(p)
      BY <2>0, <2>1, Typed DEF TakeDoes, Placed
    <2>3. Queued(p)
      BY <2>0, <2>1 DEF TakeDoes, Queued
    <2>4. \A q \in Slots : \A u \in Threads : InHand(u, q)' <=> InHand(u, q)
      BY <2>0, <2>1 DEF TakeDoes, Put, InHand
    <2>5. \A q \in Slots : /\ Queued(q)' <=> Queued(q) /\ q # p
                           /\ Written(q)' <=> Written(q)
                           /\ InWork(q)' <=> q = p
      BY <2>0, <2>1 DEF TakeDoes, Queued, Written, InWork
    <2>6. v1' = v1
      BY <2>0, <2>1, Typed DEF TakeDoes, Put
    <2>7. IsInjective(input') /\ IsInjective(output')
      BY <2>1 DEF TakeDoes, Placed
    <2>8. \A q \in Slots : ~InWork(q)
      BY <2>1 DEF TakeDoes, InWork
    <2>9. WellPlaced(p)'
      BY <2>2, <2>3, <2>4, <2>5, <2>6, <2>8 DEF WellPlaced, Somewhere
    <2>10. \A q \in Slots \ {p} : Stays(q)
      BY <2>4, <2>5, <2>6, <2>8 DEF Stays
    <2> QED BY <2>2, <2>7, <2>9, <2>10, Moved
  <1>7. ASSUME Process PROVE Placed'
    <2>1. ProcessDoes
      BY <1>7, ProcessEffect
    <2>2. \A q \in Slots : \A u \in Threads : InHand(u, q)' <=> InHand(u, q)
      BY <2>1 DEF ProcessDoes, Put, InHand
    <2>3. \A q \in Slots : Stays(q)
      BY <2>1, <2>2 DEF ProcessDoes, Stays, Queued, Written, InWork
    <2> QED BY <2>1, <2>3, NoneMoved DEF ProcessDoes
  <1>8. ASSUME Write PROVE Placed'
    <2>0. PICK p : p = gslot
      OBVIOUS
    <2>1. WriteDoes
      BY <1>8, WriteEffect
    <2>2. p \in Slots /\ WellPlaced(p)
      BY <2>0, <2>1, Typed DEF WriteDoes, Placed
    <2>3. InWork(p)
      BY <2>0, <2>1 DEF WriteDoes, InWork
    <2>4. \A q \in Slots : \A u \in Threads : InHand(u, q)' <=> InHand(u, q)
      BY <2>0, <2>1 DEF WriteDoes, Put, InHand
    <2>5. \A q \in Slots : /\ Queued(q)' <=> Queued(q)
                           /\ Written(q)' <=> Written(q) \/ q = p
                           /\ InWork(q)' <=> FALSE
      BY <2>0, <2>1 DEF WriteDoes, Queued, Written, InWork
    <2>6. v1' = v1
      BY <2>0, <2>1, Typed DEF WriteDoes, Put
    <2>7. IsInjective(input') /\ IsInjective(output')
      BY <2>1 DEF WriteDoes, Placed
    <2>8. \A q \in Slots : InWork(q) => q = p
      BY <2>0 DEF InWork
    <2>9. WellPlaced(p)'
      BY <2>2, <2>3, <2>4, <2>5, <2>6, <2>8 DEF WellPlaced, Somewhere
    <2>10. \A q \in Slots \ {p} : Stays(q)
      BY <2>4, <2>5, <2>6, <2>8 DEF Stays
    <2> QED BY <2>2, <2>7, <2>9, <2>10, Moved
  <1>9. ASSUME Stop PROVE Placed'
    <2>1. StopDoes
      BY <1>9, StopEffect
    <2>2. \A q \in Slots : \A u \in Threads : InHand(u, q)' <=> InHand(u, q)
      BY <2>1 DEF StopDoes, Put, InHand
    <2>3. \A q \in Slots : Stays(q)
      BY <2>1, <2>2 DEF StopDoes, Stays, Queued, Written, InWork
    <2> QED BY <2>1, <2>3, NoneMoved DEF StopDoes
  <1>10. ASSUME NEW t \in Threads, NEW g \in Graphs, Wait(t, g) PROVE Placed'
    <2>1. WaitDoes(t, g)
      BY <1>10, WaitEffect
    <2>2. \A q \in Slots : \A u \in Threads : InHand(u, q)' <=> InHand(u, q)
      BY <2>1 DEF WaitDoes, Put, InHand
    <2>3. \A q \in Slots : Stays(q)
      BY <2>1, <2>2 DEF WaitDoes, Stays, Queued, Written, InWork
    <2> QED BY <2>1, <2>3, NoneMoved DEF WaitDoes
  <1>11. ASSUME NEW t \in Threads, GiveBack(t) PROVE Placed'
    <2>1. GiveBackDoes(t)
      BY <1>11, GiveBackEffect
    <2>2. \A q \in Slots : \A u \in Threads : InHand(u, q)' <=> InHand(u, q)
      BY <2>1 DEF GiveBackDoes, Put, InHand
    <2>3. \A q \in Slots : Stays(q)
      BY <2>1, <2>2 DEF GiveBackDoes, Stays, Queued, Written, InWork
    <2> QED BY <2>1, <2>3, NoneMoved DEF GiveBackDoes
  <1>12. ASSUME NEW t \in Threads, ReadOutput(t) PROVE Placed'
    <2>1. ReadOutputDoes(t)
      BY <1>12, ReadOutputEffect
    <2>2. PICK p \in Slots : p = slot'[t] /\ p \in Range(output) /\ Range(output') = Range(output) \ {p}
      BY <2>1 DEF ReadOutputDoes, Put
    <2>3. /\ pc[t] = "read" /\ pc'[t] \in {"free", "put_back"}
          /\ \A u \in Threads \ {t} : pc'[u] = pc[u] /\ slot'[u] = slot[u]
          /\ UNCHANGED <<v1, input, gpc, gslot>> /\ IsInjective(output')
      BY <2>1 DEF ReadOutputDoes, Put
    <2>4. \A q \in Slots : \A u \in Threads :
            InHand(u, q)' <=> InHand(u, q) \/ (u = t /\ q = p)
      BY <2>2, <2>3 DEF InHand
    <2>5. \A q \in Slots : /\ Written(q)' <=> Written(q) /\ q # p
                           /\ Queued(q)' <=> Queued(q)
                           /\ InWork(q)' <=> InWork(q)
      BY <2>2, <2>3 DEF Written, Queued, InWork
    <2>6. WellPlaced(p) /\ Written(p)
      BY <2>2 DEF Placed, Written
    <2>7. WellPlaced(p)'
      BY <2>2, <2>3, <2>4, <2>5, <2>6 DEF WellPlaced, Somewhere
    <2>8. \A q \in Slots \ {p} : Stays(q)
      BY <2>3, <2>4, <2>5 DEF Stays
    <2> QED BY <2>3, <2>7, <2>8, Moved DEF Placed
  <1>13. ASSUME NEW t \in Threads, PutBack(t) PROVE Placed'
    <2>0. PICK p : p = slot[t]
      OBVIOUS
    <2>1. PutBackDoes(t)
      BY <1>13, PutBackEffect
    <2>2. p \in Slots /\ WellPlaced(p)
      BY <2>0, <2>1, Typed DEF PutBackDoes, Placed
    <2>3. InHand(t, p)
      BY <2>0, <2>1 DEF PutBackDoes, InHand
    <2>4. \A q \in Slots : \A u \in Threads : InHand(u, q)' <=> InHand(u, q) /\ u # t
      BY <2>0, <2>1 DEF PutBackDoes, Put, InHand
    <2>5. \A q \in Slots : /\ Queued(q)' <=> Queued(q)
                           /\ Written(q)' <=> Written(q) \/ q = p
                           /\ InWork(q)' <=> InWork(q)
      BY <2>0, <2>1 DEF PutBackDoes, Queued, Written, InWork
    <2>6. v1' = v1
      BY <2>0, <2>1, Typed DEF PutBackDoes, Put
    <2>7. IsInjective(input') /\ IsInjective(output')
      BY <2>1 DEF PutBackDoes, Placed
    <2>8. \A q \in Slots : InHand(t, q) => q = p
      BY <2>0 DEF InHand
    <2>9. WellPlaced(p)'
      BY <2>2, <2>3, <2>4, <2>5, <2>6, <2>8 DEF WellPlaced, Somewhere
    <2>10. \A q \in Slots \ {p} : Stays(q)
      BY <2>4, <2>5, <2>6, <2>8 DEF Stays
    <2> QED BY <2>2, <2>7, <2>9, <2>10, Moved
  <1>14. ASSUME NEW t \in Threads, Free(t) PROVE Placed'
    <2>0. PICK p : p = slot[t]
      OBVIOUS
    <2>1. FreeDoes(t)
      BY <1>14, FreeEffect
    <2>2. p \in Slots /\ WellPlaced(p)
      BY <2>0, <2>1, Typed DEF FreeDoes, Placed
    <2>3. InHand(t, p)
      BY <2>0, <2>1 DEF FreeDoes, InHand
    <2>4. \A q \in Slots : \A u \in Threads : InHand(u, q)' <=> InHand(u, q) /\ u # t
      BY <2>0, <2>1 DEF FreeDoes, Put, InHand
    <2>5. \A q \in Slots : /\ Queued(q)' <=> Queued(q)
                           /\ Written(q)' <=> Written(q)
                           /\ InWork(q)' <=> InWork(q)
      BY <2>0, <2>1 DEF FreeDoes, Queued, Written, InWork
    <2>6. v1'[p] = NoGraph /\ \A q \in Slots \ {p} : v1'[q] = v1[q]
      BY <2>0, <2>1, Typed DEF FreeDoes, Put
    <2>7. IsInjective(input') /\ IsInjective(output')
      BY <2>1 DEF FreeDoes, Placed
    <2>8. \A q \in Slots : InHand(t, q) => q = p
      BY <2>0 DEF InHand
    <2>9. WellPlaced(p)'
      BY <2>2, <2>3, <2>4, <2>5, <2>6, <2>8 DEF WellPlaced, Somewhere
    <2>10. \A q \in Slots \ {p} : Stays(q)
      BY <2>4, <2>5, <2>6, <2>8 DEF Stays
    <2> QED BY <2>2, <2>7, <2>9, <2>10, Moved
  <1>15. ASSUME NEW t \in Threads, Unlock(t) PROVE Placed'
    <2>1. UnlockDoes(t)
      BY <1>15, UnlockEffect
    <2>2. \A q \in Slots : \A u \in Threads : InHand(u, q)' <=> InHand(u, q)
      BY <2>1 DEF UnlockDoes, Put, InHand
    <2>3. \A q \in Slots : Stays(q)
      BY <2>1, <2>2 DEF UnlockDoes, Stays, Queued, Written, InWork
    <2> QED BY <2>1, <2>3, NoneMoved DEF UnlockDoes
  <1>16. ASSUME Release PROVE Placed'
    <2>1. ReleaseDoes
      BY <1>16, ReleaseEffect
    <2>2. \A q \in Slots : \A u \in Threads : InHand(u, q)' <=> InHand(u, q)
      BY <2>1 DEF ReleaseDoes, Put, InHand
    <2>3. \A q \in Slots : Stays(q)
      BY <2>1, <2>2 DEF ReleaseDoes, Stays, Queued, Written, InWork
    <2> QED BY <2>1, <2>3, NoneMoved DEF ReleaseDoes
  <1>17. CASE Released \/ UNCHANGED vars
    BY <1>17, IdleEffect DEF Placed, WellPlaced, Somewhere, Queued, Written, InWork, InHand
  <1> QED BY <1>2, <1>3, <1>4, <1>5, <1>6, <1>7, <1>8, <1>9, <1>10, <1>11,
     <1>12, <1>13, <1>14, <1>15, <1>16, <1>17
          DEF Next, AppStep, WorkerStep

\* A position is for the graph of the thread that has it.
LEMMA NextNamed ==
  ASSUME OneScheduler, IInv, [Next]_vars
  PROVE  Named'
  <1>1. TypeOK /\ Control /\ Placed /\ Named
    BY DEF IInv
  <1> USE <1>1
  <1>2. ASSUME NEW t \in Threads, NEW g \in Graphs, Schedule(t, g) PROVE Named'
    <2>1. ScheduleDoes(t, g)
      BY <1>2, ScheduleEffect
    <2> QED BY <2>1, Typed DEF ScheduleDoes, Put, Named
  <1>3. ASSUME NEW t \in Threads, Claim(t) PROVE Named'
    <2>1. ClaimDoes(t)
      BY <1>3, ClaimEffect
    <2> QED BY <2>1, Typed DEF ClaimDoes, Put, Named
  <1>4. ASSUME NEW t \in Threads, Fill(t) PROVE Named'
    <2>1. FillDoes(t)
      BY <1>4, FillEffect
    <2>2. /\ gpc \in {"process", "write"} => InWork(gslot)
          /\ \A u \in Threads : pc[u] \in {"enqueue", "free"} => InHand(u, slot[u])
      BY DEF InWork, InHand
    <2>3. ~Somewhere(slot[t])
      BY <2>1, Typed DEF FillDoes, Placed, WellPlaced
    <2>4. /\ gpc \in {"process", "write"} => gslot # slot[t]
          /\ \A u \in Threads : pc[u] \in {"enqueue", "free"} => slot[u] # slot[t]
      BY <2>2, <2>3 DEF Somewhere
    <2>5. \A u \in Threads : pc[u] = "fill" => u = t
      BY <2>1 DEF FillDoes, Control, OneScheduler
    <2>6. (gpc \in {"process", "write"} => v1[gslot] = ggraph)'
      BY <2>1, <2>4, Typed DEF FillDoes, Put, Named
    <2>7. ASSUME NEW u \in Threads, pc'[u] = "fill" PROVE v1'[slot'[u]] = NoGraph
      BY <2>1, <2>5, <2>7, Typed DEF FillDoes, Put, Named
    <2>8. ASSUME NEW u \in Threads, pc'[u] \in {"enqueue", "free"} PROVE v1'[slot'[u]] = graph'[u]
      BY <2>1, <2>4, <2>8, Typed DEF FillDoes, Put, Named
    <2> QED BY <2>6, <2>7, <2>8 DEF Named
  <1>5. ASSUME NEW t \in Threads, Enqueue(t) PROVE Named'
    <2>1. EnqueueDoes(t)
      BY <1>5, EnqueueEffect
    <2> QED BY <2>1, Typed DEF EnqueueDoes, Put, Named
  <1>6. ASSUME Take PROVE Named'
    <2>1. TakeDoes
      BY <1>6, TakeEffect
    <2> QED BY <2>1, Typed DEF TakeDoes, Put, Named
  <1>7. ASSUME Process PROVE Named'
    <2>1. ProcessDoes
      BY <1>7, ProcessEffect
    <2> QED BY <2>1, Typed DEF ProcessDoes, Put, Named
  <1>8. ASSUME Write PROVE Named'
    <2>1. WriteDoes
      BY <1>8, WriteEffect
    <2> QED BY <2>1, Typed DEF WriteDoes, Put, Named
  <1>9. ASSUME Stop PROVE Named'
    <2>1. StopDoes
      BY <1>9, StopEffect
    <2> QED BY <2>1, Typed DEF StopDoes, Put, Named
  <1>10. ASSUME NEW t \in Threads, NEW g \in Graphs, Wait(t, g) PROVE Named'
    <2>1. WaitDoes(t, g)
      BY <1>10, WaitEffect
    <2> QED BY <2>1, Typed DEF WaitDoes, Put, Named
  <1>11. ASSUME NEW t \in Threads, GiveBack(t) PROVE Named'
    <2>1. GiveBackDoes(t)
      BY <1>11, GiveBackEffect
    <2> QED BY <2>1, Typed DEF GiveBackDoes, Put, Named
  <1>12. ASSUME NEW t \in Threads, ReadOutput(t) PROVE Named'
    <2>1. ReadOutputDoes(t)
      BY <1>12, ReadOutputEffect
    <2> QED BY <2>1, Typed DEF ReadOutputDoes, Put, Named
  <1>13. ASSUME NEW t \in Threads, PutBack(t) PROVE Named'
    <2>1. PutBackDoes(t)
      BY <1>13, PutBackEffect
    <2> QED BY <2>1, Typed DEF PutBackDoes, Put, Named
  <1>14. ASSUME NEW t \in Threads, Free(t) PROVE Named'
    <2>1. FreeDoes(t)
      BY <1>14, FreeEffect
    <2>2. /\ gpc \in {"process", "write"} => InWork(gslot)
          /\ \A u \in Threads : pc[u] \in {"enqueue", "free"} => InHand(u, slot[u])
      BY DEF InWork, InHand
    <2>3. InHand(t, slot[t]) /\ WellPlaced(slot[t])
      BY <2>1, Typed DEF FreeDoes, InHand, Placed
    <2>4. /\ gpc \in {"process", "write"} => gslot # slot[t]
          /\ \A u \in Threads : pc[u] \in {"enqueue", "free"} /\ u # t => slot[u] # slot[t]
      BY <2>2, <2>3 DEF WellPlaced
    <2>5. TRUE
      OBVIOUS
    <2>6. (gpc \in {"process", "write"} => v1[gslot] = ggraph)'
      BY <2>1, <2>4, Typed DEF FreeDoes, Put, Named
    <2>7. ASSUME NEW u \in Threads, pc'[u] = "fill" PROVE v1'[slot'[u]] = NoGraph
      BY <2>1, <2>7, Typed DEF FreeDoes, Put, Named
    <2>8. ASSUME NEW u \in Threads, pc'[u] \in {"enqueue", "free"} PROVE v1'[slot'[u]] = graph'[u]
      BY <2>1, <2>4, <2>8, Typed DEF FreeDoes, Put, Named
    <2> QED BY <2>6, <2>7, <2>8 DEF Named
  <1>15. ASSUME NEW t \in Threads, Unlock(t) PROVE Named'
    <2>1. UnlockDoes(t)
      BY <1>15, UnlockEffect
    <2> QED BY <2>1, Typed DEF UnlockDoes, Put, Named
  <1>16. ASSUME Release PROVE Named'
    <2>1. ReleaseDoes
      BY <1>16, ReleaseEffect
    <2> QED BY <2>1, Typed DEF ReleaseDoes, Put, Named
  <1>17. CASE Released \/ UNCHANGED vars
    BY <1>17, IdleEffect DEF Named
  <1> QED BY <1>2, <1>3, <1>4, <1>5, <1>6, <1>7, <1>8, <1>9, <1>10, <1>11,
     <1>12, <1>13, <1>14, <1>15, <1>16, <1>17
          DEF Next, AppStep, WorkerStep

\* Results are those of the last execution.
LEMMA NextCarriesOutcome ==
  ASSUME IInv, [Next]_vars
  PROVE  CarriesOutcome'
  <1>1. TypeOK /\ Control /\ LockTaken /\ Placed /\ Named /\ CarriesOutcome
    BY DEF IInv
  <1> USE <1>1
  <1>2. ASSUME NEW t \in Threads, NEW g \in Graphs, Schedule(t, g) PROVE CarriesOutcome'
    <2>1. ScheduleDoes(t, g)
      BY <1>2, ScheduleEffect
    <2> QED BY <2>1, Typed DEF ScheduleDoes, Put, CarriesOutcome, Written
  <1>3. ASSUME NEW t \in Threads, Claim(t) PROVE CarriesOutcome'
    <2>1. ClaimDoes(t)
      BY <1>3, ClaimEffect
    <2> QED BY <2>1, Typed DEF ClaimDoes, Put, CarriesOutcome, Written
  <1>4. ASSUME NEW t \in Threads, Fill(t) PROVE CarriesOutcome'
    <2>1. FillDoes(t)
      BY <1>4, FillEffect
    <2>2. ~Somewhere(slot[t])
      BY <2>1, Typed DEF FillDoes, Placed, WellPlaced
    <2>3. /\ gpc = "write" => gslot # slot[t]
          /\ \A q \in Slots : Written(q) => q # slot[t]
          /\ \A u \in Threads : pc[u] = "put_back" => slot[u] # slot[t]
      BY <2>2 DEF Somewhere, InWork, InHand
    <2>4. (gpc = "write" => v2[gslot] = outcome[v1[gslot]])'
      BY <2>1, <2>3, Typed DEF FillDoes, Put, CarriesOutcome
    <2>5. ASSUME NEW q \in Slots, Written(q)' PROVE v2'[q] = outcome'[v1'[q]]
      BY <2>1, <2>3, <2>5, Typed DEF FillDoes, Put, CarriesOutcome, Written
    <2>6. ASSUME NEW u \in Threads, pc'[u] = "put_back"
          PROVE  v2'[slot'[u]] = outcome'[v1'[slot'[u]]]
      BY <2>1, <2>3, <2>6, Typed DEF FillDoes, Put, CarriesOutcome
    <2>7. ASSUME NEW u \in Threads, pc'[u] \in {"free", "unlock"}
          PROVE  result'[u] = outcome'[graph'[u]]
      BY <2>1, <2>7, Typed DEF FillDoes, Put, CarriesOutcome
    <2> QED BY <2>4, <2>5, <2>6, <2>7 DEF CarriesOutcome
  <1>5. ASSUME NEW t \in Threads, Enqueue(t) PROVE CarriesOutcome'
    <2>1. EnqueueDoes(t)
      BY <1>5, EnqueueEffect
    <2> QED BY <2>1, Typed DEF EnqueueDoes, Put, CarriesOutcome, Written
  <1>6. ASSUME Take PROVE CarriesOutcome'
    <2>1. TakeDoes
      BY <1>6, TakeEffect
    <2> QED BY <2>1, Typed DEF TakeDoes, Put, CarriesOutcome, Written
  <1>7. ASSUME Process PROVE CarriesOutcome'
    <2>1. ProcessDoes
      BY <1>7, ProcessEffect
    <2>2. /\ gslot \in Slots /\ v1[gslot] = ggraph /\ ggraph \in Graphs /\ ggraph # NoGraph
          /\ InWork(gslot) /\ WellPlaced(gslot)
      BY <2>1, Typed DEF ProcessDoes, InWork, Placed
    <2>3. \A q \in Slots : q # gslot => v1[q] # ggraph
      BY <2>2 DEF LockTaken
    <2>4. \A q \in Slots : Written(q) => q # gslot
      BY <2>2 DEF WellPlaced
    <2>5. \A u \in Threads : pc[u] \in {"put_back", "free"} => slot[u] # gslot
      BY <2>2 DEF WellPlaced, InHand
    <2>6. \A u \in Threads : pc[u] \in {"free", "unlock"} => graph[u] # ggraph
      <3>1. \A u \in Threads : pc[u] = "free" => graph[u] = v1[slot[u]] /\ slot[u] \in Slots
        BY Typed DEF Named
      <3>2. \A u \in Threads : pc[u] = "unlock" => ~(graph[u] = ggraph)
        BY <2>2 DEF LockTaken, Holds
      <3> QED BY <2>3, <2>5, <3>1, <3>2
    <2>7. /\ v2'[gslot] = outcome'[ggraph] /\ v1' = v1 /\ gslot' = gslot
          /\ UNCHANGED <<output, pc, slot, graph, result>>
          /\ \A q \in Slots \ {gslot} : v2'[q] = v2[q]
          /\ \A g \in Graphs \ {ggraph} : outcome'[g] = outcome[g]
      BY <2>1, <2>2 DEF ProcessDoes, Put
    <2>8. ASSUME NEW q \in Slots, Written(q)' PROVE v2'[q] = outcome'[v1'[q]]
      <3>1. Written(q) /\ v1[q] # NoGraph
        BY <2>7, <2>8 DEF Written, Placed, WellPlaced, Somewhere
      <3> QED BY <2>3, <2>4, <2>7, <3>1, Typed DEF CarriesOutcome
    <2>9. ASSUME NEW u \in Threads, pc'[u] = "put_back"
          PROVE  v2'[slot'[u]] = outcome'[v1'[slot'[u]]]
      <3>1. pc[u] = "put_back" /\ slot[u] \in Slots /\ v1[slot[u]] # NoGraph
        BY <2>7, <2>9, Typed DEF Placed, WellPlaced, Somewhere, InHand
      <3> QED BY <2>3, <2>5, <2>7, <3>1, Typed DEF CarriesOutcome
    <2>10. ASSUME NEW u \in Threads, pc'[u] \in {"free", "unlock"}
           PROVE  result'[u] = outcome'[graph'[u]]
      <3>1. graph[u] \in Graphs
        BY <2>7, <2>10 DEF Control
      <3> QED BY <2>6, <2>7, <2>10, <3>1 DEF CarriesOutcome
    <2> QED BY <2>2, <2>7, <2>8, <2>9, <2>10 DEF CarriesOutcome
  <1>8. ASSUME Write PROVE CarriesOutcome'
    <2>1. WriteDoes
      BY <1>8, WriteEffect
    <2> QED BY <2>1, Typed DEF WriteDoes, Put, CarriesOutcome, Written
  <1>9. ASSUME Stop PROVE CarriesOutcome'
    <2>1. StopDoes
      BY <1>9, StopEffect
    <2> QED BY <2>1, Typed DEF StopDoes, Put, CarriesOutcome, Written
  <1>10. ASSUME NEW t \in Threads, NEW g \in Graphs, Wait(t, g) PROVE CarriesOutcome'
    <2>1. WaitDoes(t, g)
      BY <1>10, WaitEffect
    <2> QED BY <2>1, Typed DEF WaitDoes, Put, CarriesOutcome, Written
  <1>11. ASSUME NEW t \in Threads, GiveBack(t) PROVE CarriesOutcome'
    <2>1. GiveBackDoes(t)
      BY <1>11, GiveBackEffect
    <2> QED BY <2>1, Typed DEF GiveBackDoes, Put, CarriesOutcome, Written
  <1>12. ASSUME NEW t \in Threads, ReadOutput(t) PROVE CarriesOutcome'
    <2>1. ReadOutputDoes(t)
      BY <1>12, ReadOutputEffect
    <2> QED BY <2>1, Typed DEF ReadOutputDoes, Put, CarriesOutcome, Written
  <1>13. ASSUME NEW t \in Threads, PutBack(t) PROVE CarriesOutcome'
    <2>1. PutBackDoes(t)
      BY <1>13, PutBackEffect
    <2> QED BY <2>1, Typed DEF PutBackDoes, Put, CarriesOutcome, Written
  <1>14. ASSUME NEW t \in Threads, Free(t) PROVE CarriesOutcome'
    <2>1. FreeDoes(t)
      BY <1>14, FreeEffect
    <2>2. InHand(t, slot[t]) /\ WellPlaced(slot[t])
      BY <2>1, Typed DEF FreeDoes, InHand, Placed
    <2>3. /\ gpc = "write" => gslot # slot[t]
          /\ \A q \in Slots : Written(q) => q # slot[t]
          /\ \A u \in Threads : pc[u] = "put_back" => slot[u] # slot[t]
      <3>1. pc[t] = "free"
        BY <2>1 DEF FreeDoes
      <3> QED BY <2>2, <3>1 DEF WellPlaced, InWork, InHand
    <2>4. (gpc = "write" => v2[gslot] = outcome[v1[gslot]])'
      BY <2>1, <2>3, Typed DEF FreeDoes, Put, CarriesOutcome
    <2>5. ASSUME NEW q \in Slots, Written(q)' PROVE v2'[q] = outcome'[v1'[q]]
      BY <2>1, <2>3, <2>5, Typed DEF FreeDoes, Put, CarriesOutcome, Written
    <2>6. ASSUME NEW u \in Threads, pc'[u] = "put_back"
          PROVE  v2'[slot'[u]] = outcome'[v1'[slot'[u]]]
      BY <2>1, <2>3, <2>6, Typed DEF FreeDoes, Put, CarriesOutcome
    <2>7. ASSUME NEW u \in Threads, pc'[u] \in {"free", "unlock"}
          PROVE  result'[u] = outcome'[graph'[u]]
      BY <2>1, <2>7, Typed DEF FreeDoes, Put, CarriesOutcome
    <2> QED BY <2>4, <2>5, <2>6, <2>7 DEF CarriesOutcome
  <1>15. ASSUME NEW t \in Threads, Unlock(t) PROVE CarriesOutcome'
    <2>1. UnlockDoes(t)
      BY <1>15, UnlockEffect
    <2> QED BY <2>1, Typed DEF UnlockDoes, Put, CarriesOutcome, Written
  <1>16. ASSUME Release PROVE CarriesOutcome'
    <2>1. ReleaseDoes
      BY <1>16, ReleaseEffect
    <2> QED BY <2>1, Typed DEF ReleaseDoes, Put, CarriesOutcome, Written
  <1>17. CASE Released \/ UNCHANGED vars
    BY <1>17, IdleEffect DEF CarriesOutcome, Written
  <1> QED BY <1>2, <1>3, <1>4, <1>5, <1>6, <1>7, <1>8, <1>9, <1>10, <1>11,
     <1>12, <1>13, <1>14, <1>15, <1>16, <1>17
          DEF Next, AppStep, WorkerStep

THEOREM Inductive == ASSUME OneScheduler PROVE Spec => []IInv
  <1>1. IInv /\ [Next]_vars => IInv'
    BY NextTypeOK, NextControl, NextLockTaken, NextPlaced, NextNamed, NextCarriesOutcome
       DEF IInv
  <1> QED BY <1>1, InitIInv, PTL DEF Spec

-----------------------------------------------------------------------------
(* The theorems.                                                           *)

\* The variables of the program have the types of the code.
THEOREM TypeCorrect == ASSUME OneScheduler PROVE Spec => []TypeOK
  <1>1. IInv => TypeOK
    BY DEF IInv
  <1> QED BY <1>1, Inductive, PTL

LEMMA CountInQueue ==
  ASSUME NEW s \in Seq(Slots), IsInjective(s), NEW q
  PROVE  Cardinality({i \in DOMAIN s : s[i] = q}) = IF q \in Range(s) THEN 1 ELSE 0
  <1> DEFINE S == {i \in DOMAIN s : s[i] = q}
  <1>1. CASE q \in Range(s)
    <2>1. PICK i \in DOMAIN s : s[i] = q
      BY <1>1 DEF Range
    <2>2. \A j \in DOMAIN s : s[j] = q => j = i
      BY <2>1, Zenon DEF IsInjective
    <2>3. S = {i}
      BY <2>1, <2>2
    <2> QED BY <1>1, <2>3, FS_Singleton
  <1>2. CASE q \notin Range(s)
    <2>1. S = {}
      BY <1>2 DEF Range
    <2> QED BY <1>2, <2>1, FS_EmptySet
  <1> QED BY <1>1, <1>2

\* A position of graph_queue is in exactly one of the two queues, the graph
\* thread's or an application thread's hands while it holds a graph, and in
\* none when it is free: no pointer to it is lost, doubled or left behind.
THEOREM PositionsTravelOnceHolds ==
  ASSUME OneScheduler PROVE Spec => []PositionsTravelOnce
  <1>1. ASSUME IInv PROVE PositionsTravelOnce
    <2> SUFFICES ASSUME NEW q \in Slots
                 PROVE  Travelling(q) = IF v1[q] = NoGraph THEN 0 ELSE 1
      BY DEF PositionsTravelOnce
    <2> DEFINE H == {t \in Threads : pc[t] \in {"enqueue", "put_back", "free"} /\ slot[t] = q}
               I == Cardinality({i \in DOMAIN input : input[i] = q})
               O == Cardinality({i \in DOMAIN output : output[i] = q})
               W == IF gpc \in {"process", "write"} /\ gslot = q THEN 1 ELSE 0
               C == Cardinality(H)
    <2>1. WellPlaced(q)
      BY <1>1 DEF IInv, Placed
    <2>2. I = IF Queued(q) THEN 1 ELSE 0
      BY <1>1, CountInQueue DEF IInv, TypeOK, Placed, Queued
    <2>3. O = IF Written(q) THEN 1 ELSE 0
      BY <1>1, CountInQueue DEF IInv, TypeOK, Placed, Written
    <2>4. W = IF InWork(q) THEN 1 ELSE 0
      BY DEF InWork
    <2>5. C = IF \E t \in Threads : InHand(t, q) THEN 1 ELSE 0
      <3>1. CASE \E t \in Threads : InHand(t, q)
        <4>1. PICK t \in Threads : InHand(t, q)
          BY <3>1
        <4>2. \A u \in Threads : InHand(u, q) => u = t
          BY <2>1, <4>1 DEF WellPlaced
        <4>3. H = {t}
          BY <4>1, <4>2 DEF InHand
        <4> QED BY <3>1, <4>3, FS_Singleton
      <3>2. CASE ~ \E t \in Threads : InHand(t, q)
        <4>1. H = {}
          BY <3>2 DEF InHand
        <4> QED BY <3>2, <4>1, FS_EmptySet
      <3> QED BY <3>1, <3>2
    <2>6. Travelling(q) = I + O + W + C
      BY DEF Travelling
    <2> HIDE DEF I, O, W, C
    <2>7. CASE Queued(q)
      BY <2>1, <2>2, <2>3, <2>4, <2>5, <2>6, <2>7 DEF WellPlaced, Somewhere
    <2>8. CASE Written(q)
      BY <2>1, <2>2, <2>3, <2>4, <2>5, <2>6, <2>8 DEF WellPlaced, Somewhere
    <2>9. CASE InWork(q)
      BY <2>1, <2>2, <2>3, <2>4, <2>5, <2>6, <2>9 DEF WellPlaced, Somewhere
    <2>10. CASE ~Queued(q) /\ ~Written(q) /\ ~InWork(q)
      BY <2>1, <2>2, <2>3, <2>4, <2>5, <2>6, <2>10 DEF WellPlaced, Somewhere
    <2> QED BY <2>7, <2>8, <2>9, <2>10
  <1> QED BY <1>1, Inductive, PTL

\* What is scheduled and what has been executed, by the positions of the queues.
Places(g) ==
  /\ Scheduled(g) <=> \/ \E q \in Range(input) : v1[q] = g
                      \/ gpc = "process" /\ ggraph = g
  /\ Executed(g) <=> \/ gpc = "write" /\ ggraph = g
                     \/ \E q \in Range(output) : v1[q] = g
                     \/ \E t \in Threads : pc[t] = "put_back" /\ v1[slot[t]] = g
                     \/ \E t \in Threads : graph[t] = g /\ pc[t] \in {"free", "unlock"}

LEMMA PlacesHold == ASSUME NEW g PROVE Places(g) /\ Places(g)'
  <1>1. IsIn(g, input) <=> \E q \in Range(input) : v1[q] = g
    BY DEF IsIn, Range
  <1>2. IsIn(g, output) <=> \E q \in Range(output) : v1[q] = g
    BY DEF IsIn, Range
  <1>3. (IsIn(g, input) <=> \E q \in Range(input) : v1[q] = g)'
    BY DEF IsIn, Range
  <1>4. (IsIn(g, output) <=> \E q \in Range(output) : v1[q] = g)'
    BY DEF IsIn, Range
  <1>5. Places(g)
    BY <1>1, <1>2 DEF Places, Scheduled, Executed, InHands
  <1>6. Places(g)'
    BY <1>3, <1>4 DEF Places, Scheduled, Executed, InHands
  <1> QED BY <1>5, <1>6

\* Nothing is known to change of graph g.
Keeps(g) == (Scheduled(g)' <=> Scheduled(g)) /\ (Executed(g)' <=> Executed(g))

LEMMA StateStays ==
  ASSUME \A g \in Graphs : Keeps(g)
  PROVE  State' = State
  <1>1. \A g \in Graphs : StateOf(g)' = StateOf(g)
    BY DEF StateOf, Keeps
  <1> QED BY <1>1 DEF State

LEMMA StateChanges ==
  ASSUME NEW g \in Graphs, \A h \in Graphs \ {g} : Keeps(h)
  PROVE  /\ Scheduled(g)' => State' = [State EXCEPT ![g] = "scheduled"]
         /\ ~Scheduled(g)' /\ Executed(g)' => State' = [State EXCEPT ![g] = "executed"]
         /\ ~Scheduled(g)' /\ ~Executed(g)' => State' = [State EXCEPT ![g] = "free"]
  <1>1. \A h \in Graphs \ {g} : StateOf(h)' = StateOf(h)
    BY DEF StateOf, Keeps
  <1>2. /\ Scheduled(g)' => StateOf(g)' = "scheduled"
        /\ ~Scheduled(g)' /\ Executed(g)' => StateOf(g)' = "executed"
        /\ ~Scheduled(g)' /\ ~Executed(g)' => StateOf(g)' = "free"
    BY DEF StateOf
  <1>3. ASSUME NEW x, StateOf(g)' = x PROVE State' = [State EXCEPT ![g] = x]
    BY <1>1, <1>3 DEF State
  <1> QED BY <1>2, <1>3

\* What the steps that other threads can see do to the graphs.
LEMMA EnqueueKeeps ==
  ASSUME IInv, NEW t \in Threads, Enqueue(t), NEW g \in Graphs, g = graph[t]
  PROVE  /\ ~Scheduled(g) /\ ~Executed(g) /\ Scheduled(g)'
         /\ \A h \in Graphs \ {g} : Keeps(h)
  <1> DEFINE p == slot[t]
  <1>1. EnqueueDoes(t)
    BY EnqueueEffect
  <1>2. /\ pc[t] = "enqueue" /\ g \in Graphs /\ p \in Slots /\ v1[p] = g /\ g # NoGraph
        /\ InHand(t, p) /\ WellPlaced(p)
    BY <1>1, Typed DEF IInv, EnqueueDoes, Control, Named, InHand, Placed
  <1>3. \A q \in Slots : v1[q] = g => q = p
    BY <1>2 DEF IInv, LockTaken
  <1>4. p \notin Range(input) /\ p \notin Range(output) /\ ~InWork(p)
    BY <1>2 DEF WellPlaced, Queued, Written
  <1>5. \A u \in Threads : InHand(u, p) => u = t
    BY <1>2 DEF WellPlaced
  <1>6. gpc \in {"process", "write"} => ggraph # g
    BY <1>3, <1>4, Typed DEF IInv, Named, InWork
  <1>7. \A u \in Threads : pc[u] = "put_back" => v1[slot[u]] # g
    BY <1>2, <1>3, <1>5, Typed DEF IInv, InHand
  <1>8. \A u \in Threads : graph[u] = g => pc[u] \notin {"free", "unlock"}
    <2>1. \A u \in Threads : pc[u] = "free" => graph[u] # g
      BY <1>2, <1>3, <1>5, Typed DEF IInv, InHand, Named
    <2>2. \A u \in Threads : pc[u] = "unlock" => graph[u] # g
      BY <1>2 DEF IInv, LockTaken, Holds
    <2> QED BY <2>1, <2>2
  <1>9. ~Scheduled(g) /\ ~Executed(g)
    BY <1>3, <1>4, <1>6, <1>7, <1>8, PlacesHold, Typed DEF Places, IInv
  <1>10. Scheduled(g)'
    BY <1>1, <1>2, PlacesHold DEF EnqueueDoes, Places
  <1>11. ASSUME NEW h \in Graphs \ {g} PROVE Keeps(h)
    <2>1. \A u \in Threads : /\ pc'[u] = "put_back" <=> pc[u] = "put_back"
                             /\ pc'[u] \in {"free", "unlock"} <=> pc[u] \in {"free", "unlock"}
      BY <1>1 DEF EnqueueDoes, Put
    <2>2. Scheduled(h)' <=> Scheduled(h)
      BY <1>1, <1>2, PlacesHold DEF EnqueueDoes, Places
    <2>3. Executed(h)' <=> Executed(h)
      BY <1>1, <2>1, PlacesHold DEF EnqueueDoes, Places
    <2> QED BY <2>2, <2>3 DEF Keeps
  <1> QED BY <1>2, <1>9, <1>10, <1>11

LEMMA ProcessKeeps ==
  ASSUME IInv, Process, NEW g \in Graphs, g = ggraph
  PROVE  /\ Scheduled(g) /\ ~Scheduled(g)' /\ Executed(g)'
         /\ \A h \in Graphs \ {g} : Keeps(h)
  <1>1. ProcessDoes
    BY ProcessEffect
  <1>2. /\ gslot \in Slots /\ v1[gslot] = ggraph /\ ggraph \in Graphs /\ ggraph # NoGraph
        /\ InWork(gslot) /\ WellPlaced(gslot)
    BY <1>1, Typed DEF IInv, ProcessDoes, InWork, Placed
  <1>3. \A q \in Slots : v1[q] = ggraph => q = gslot
    BY <1>2 DEF IInv, LockTaken
  <1>4. gslot \notin Range(input)
    BY <1>2 DEF WellPlaced, Queued
  <1>5. Scheduled(g) /\ ~Scheduled(g)' /\ Executed(g)'
    BY <1>1, <1>3, <1>4, PlacesHold, Typed DEF IInv, ProcessDoes, Places
  <1>6. \A h \in Graphs \ {g} : Keeps(h)
    BY <1>1, PlacesHold DEF ProcessDoes, Places, Keeps
  <1> QED BY <1>2, <1>5, <1>6

LEMMA UnlockKeeps ==
  ASSUME IInv, NEW t \in Threads, Unlock(t), NEW g \in Graphs, g = graph[t]
  PROVE  /\ ~Scheduled(g) /\ Executed(g) /\ ~Scheduled(g)' /\ ~Executed(g)'
         /\ \A h \in Graphs \ {g} : Keeps(h)
  <1>1. UnlockDoes(t)
    BY UnlockEffect
  <1>2. pc[t] = "unlock" /\ g \in Graphs /\ g # NoGraph /\ Holds(t, g)
    BY <1>1, Typed DEF IInv, UnlockDoes, Holds
  <1>3. \A q \in Slots : v1[q] # g
    BY <1>2 DEF IInv, LockTaken
  <1>4. gpc \in {"process", "write"} => ggraph # g
    BY <1>3, Typed DEF IInv, Named
  <1>5. \A u \in Threads : pc[u] = "put_back" => v1[slot[u]] # g
    BY <1>3, Typed DEF IInv
  <1>6. \A u \in Threads : pc[u] = "free" => graph[u] # g
    BY <1>3, Typed DEF IInv, Named
  <1>7. \A u \in Threads : pc[u] = "unlock" /\ graph[u] = g => u = t
    BY <1>2 DEF IInv, LockTaken, Holds
  <1>8. ~Scheduled(g) /\ Executed(g)
    BY <1>2, <1>3, <1>4, PlacesHold, Typed DEF IInv, Places
  <1>9. ~Scheduled(g)'
    BY <1>1, <1>3, <1>4, PlacesHold, Typed DEF IInv, Places, UnlockDoes
  <1>10. \A u \in Threads \ {t} : pc'[u] = pc[u]
    BY <1>1 DEF UnlockDoes, Put
  <1>11. pc'[t] = "idle"
    BY <1>1 DEF UnlockDoes, Put
  <1>12. ~Executed(g)'
    BY <1>1, <1>3, <1>4, <1>5, <1>6, <1>7, <1>10, <1>11, PlacesHold, Typed
       DEF IInv, Places, UnlockDoes
  <1>13. ASSUME NEW h \in Graphs \ {g} PROVE Keeps(h)
    <2>1. Scheduled(h)' <=> Scheduled(h)
      BY <1>1, PlacesHold DEF Places, UnlockDoes
    <2>2. Executed(h)' <=> Executed(h)
      BY <1>1, <1>2, <1>10, <1>11, PlacesHold DEF Places, UnlockDoes
    <2> QED BY <2>1, <2>2 DEF Keeps
  <1> QED BY <1>2, <1>8, <1>9, <1>12, <1>13

\* The steps between those change nothing that the application knows.
Quiet ==
  \/ \E t \in Threads, g \in Graphs : Schedule(t, g) \/ Wait(t, g)
  \/ \E t \in Threads : \/ Claim(t) \/ Fill(t) \/ GiveBack(t)
                        \/ ReadOutput(t) \/ PutBack(t) \/ Free(t)
  \/ Take \/ Write \/ Stop \/ Release \/ Released \/ UNCHANGED vars

LEMMA QuietKeeps ==
  ASSUME IInv, Quiet
  PROVE  outcome' = outcome /\ answer' = answer /\ \A g \in Graphs : Keeps(g)
  <1> DEFINE Same == outcome' = outcome /\ answer' = answer /\ \A g \in Graphs : Keeps(g)
  <1>1. ASSUME NEW t \in Threads, NEW g \in Graphs, Schedule(t, g) PROVE Same
    <2>1. ScheduleDoes(t, g)
      BY <1>1, ScheduleEffect
    <2> QED BY <2>1, PlacesHold DEF ScheduleDoes, Put, Places, Keeps
  <1>2. ASSUME NEW t \in Threads, NEW g \in Graphs, Wait(t, g) PROVE Same
    <2>1. WaitDoes(t, g)
      BY <1>2, WaitEffect
    <2> QED BY <2>1, PlacesHold DEF WaitDoes, Put, Places, Keeps
  <1>3. ASSUME NEW t \in Threads, Claim(t) PROVE Same
    <2>1. ClaimDoes(t)
      BY <1>3, ClaimEffect
    <2> QED BY <2>1, PlacesHold DEF ClaimDoes, Put, Places, Keeps
  <1>4. ASSUME NEW t \in Threads, Fill(t) PROVE Same
    <2>1. FillDoes(t)
      BY <1>4, FillEffect
    <2>2. slot[t] \in Slots /\ v1[slot[t]] = NoGraph /\ ~Somewhere(slot[t])
      BY <2>1, Typed DEF IInv, FillDoes, Placed, WellPlaced
    <2>3. slot[t] \notin Range(input) /\ slot[t] \notin Range(output)
      BY <2>2 DEF Somewhere, Queued, Written
    <2>4. \A u \in Threads : pc[u] = "put_back" => slot[u] # slot[t]
      BY <2>2 DEF Somewhere, InHand
    <2>5. pc[t] = "fill" /\ pc'[t] = "enqueue" /\ \A u \in Threads \ {t} : pc'[u] = pc[u]
      BY <2>1 DEF FillDoes, Put
    <2>6. \A q \in Slots \ {slot[t]} : v1'[q] = v1[q]
      BY <2>1 DEF FillDoes, Put
    <2>7. ASSUME NEW h \in Graphs PROVE Keeps(h)
      <3>1. \A u \in Threads : pc'[u] = "put_back" /\ v1'[slot[u]] = h
                               <=> pc[u] = "put_back" /\ v1[slot[u]] = h
        BY <2>4, <2>5, <2>6, Typed DEF IInv
      <3>2. Scheduled(h)' <=> Scheduled(h)
        BY <2>1, <2>3, <2>6, PlacesHold, Typed DEF IInv, FillDoes, Places
      <3>3. Executed(h)' <=> Executed(h)
        BY <2>1, <2>3, <2>5, <2>6, <3>1, PlacesHold, Typed DEF IInv, FillDoes, Places
      <3> QED BY <3>2, <3>3 DEF Keeps
    <2> QED BY <2>1, <2>7 DEF FillDoes
  <1>5. ASSUME NEW t \in Threads, GiveBack(t) PROVE Same
    <2>1. GiveBackDoes(t)
      BY <1>5, GiveBackEffect
    <2> QED BY <2>1, PlacesHold DEF GiveBackDoes, Put, Places, Keeps
  <1>6. ASSUME NEW t \in Threads, ReadOutput(t) PROVE Same
    <2>1. ReadOutputDoes(t)
      BY <1>6, ReadOutputEffect
    <2>2. PICK p \in Slots \cap Range(output) :
            /\ Range(output') = Range(output) \ {p} /\ slot'[t] = p
            /\ \/ v1[p] = graph[t] /\ pc'[t] = "free"
               \/ v1[p] # graph[t] /\ pc'[t] = "put_back"
      BY <2>1 DEF ReadOutputDoes, Put
    <2>3. /\ pc[t] = "read"
          /\ \A u \in Threads \ {t} : pc'[u] = pc[u] /\ slot'[u] = slot[u]
      BY <2>1 DEF ReadOutputDoes, Put
    <2>4. ASSUME NEW h \in Graphs PROVE Keeps(h)
      <3>1. Scheduled(h)' <=> Scheduled(h)
        BY <2>1, PlacesHold DEF ReadOutputDoes, Places
      <3>2. Executed(h) => Executed(h)'
        BY <2>1, <2>2, <2>3, PlacesHold DEF ReadOutputDoes, Places
      <3>3. Executed(h)' => Executed(h)
        BY <2>1, <2>2, <2>3, PlacesHold DEF ReadOutputDoes, Places
      <3> QED BY <3>1, <3>2, <3>3 DEF Keeps
    <2> QED BY <2>1, <2>4 DEF ReadOutputDoes
  <1>7. ASSUME NEW t \in Threads, PutBack(t) PROVE Same
    <2>1. PutBackDoes(t)
      BY <1>7, PutBackEffect
    <2>2. /\ pc[t] = "put_back" /\ pc'[t] = "read"
          /\ \A u \in Threads \ {t} : pc'[u] = pc[u]
      BY <2>1 DEF PutBackDoes, Put
    <2>3. ASSUME NEW h \in Graphs PROVE Keeps(h)
      <3>1. Scheduled(h)' <=> Scheduled(h)
        BY <2>1, PlacesHold DEF PutBackDoes, Places
      <3>2. Executed(h)' <=> Executed(h)
        BY <2>1, <2>2, PlacesHold DEF PutBackDoes, Places
      <3> QED BY <3>1, <3>2 DEF Keeps
    <2> QED BY <2>1, <2>3 DEF PutBackDoes
  <1>8. ASSUME NEW t \in Threads, Free(t) PROVE Same
    <2>1. FreeDoes(t)
      BY <1>8, FreeEffect
    <2>2. slot[t] \in Slots /\ InHand(t, slot[t]) /\ WellPlaced(slot[t])
      BY <2>1, Typed DEF IInv, FreeDoes, InHand, Placed
    <2>3. slot[t] \notin Range(input) /\ slot[t] \notin Range(output)
      BY <2>2 DEF WellPlaced, Queued, Written
    <2>4. \A u \in Threads : pc[u] = "put_back" => slot[u] # slot[t]
      <3>1. pc[t] = "free"
        BY <2>1 DEF FreeDoes
      <3> QED BY <2>2, <3>1 DEF WellPlaced, InHand
    <2>5. pc[t] = "free" /\ pc'[t] = "unlock" /\ \A u \in Threads \ {t} : pc'[u] = pc[u]
      BY <2>1 DEF FreeDoes, Put
    <2>6. \A q \in Slots \ {slot[t]} : v1'[q] = v1[q]
      BY <2>1 DEF FreeDoes, Put
    <2>7. ASSUME NEW h \in Graphs PROVE Keeps(h)
      <3>1. \A u \in Threads : pc'[u] = "put_back" /\ v1'[slot[u]] = h
                               <=> pc[u] = "put_back" /\ v1[slot[u]] = h
        BY <2>4, <2>5, <2>6, Typed DEF IInv
      <3>2. Scheduled(h)' <=> Scheduled(h)
        BY <2>1, <2>3, <2>6, PlacesHold, Typed DEF IInv, FreeDoes, Places
      <3>3. Executed(h)' <=> Executed(h)
        BY <2>1, <2>3, <2>5, <2>6, <3>1, PlacesHold, Typed DEF IInv, FreeDoes, Places
      <3> QED BY <3>2, <3>3 DEF Keeps
    <2> QED BY <2>1, <2>7 DEF FreeDoes
  <1>9. ASSUME Take PROVE Same
    <2>1. TakeDoes
      BY <1>9, TakeEffect
    <2> QED BY <2>1, PlacesHold DEF TakeDoes, Places, Keeps
  <1>10. ASSUME Write PROVE Same
    <2>1. WriteDoes
      BY <1>10, WriteEffect
    <2>2. v1[gslot] = ggraph
      BY <2>1 DEF WriteDoes, IInv, Named
    <2> QED BY <2>1, <2>2, PlacesHold DEF WriteDoes, Places, Keeps
  <1>11. ASSUME Stop PROVE Same
    <2>1. StopDoes
      BY <1>11, StopEffect
    <2> QED BY <2>1, PlacesHold DEF StopDoes, Places, Keeps
  <1>12. ASSUME Release PROVE Same
    <2>1. ReleaseDoes
      BY <1>12, ReleaseEffect
    <2> QED BY <2>1, PlacesHold DEF ReleaseDoes, Places, Keeps
  <1>13. CASE Released \/ UNCHANGED vars
    BY <1>13, IdleEffect, PlacesHold DEF Places, Keeps
  <1> QED BY <1>1, <1>2, <1>3, <1>4, <1>5, <1>6, <1>7, <1>8, <1>9, <1>10, <1>11,
             <1>12, <1>13 DEF Quiet

LEMMA StepKeepsPromise ==
  ASSUME IInv, [Next]_vars
  PROVE  [Promise!Next]_Promise!vars
  <1> USE DEF Promise!Next, Promise!vars
  <1>1. ASSUME NEW t \in Threads, Enqueue(t) PROVE Promise!Next
    <2>1. PICK g \in Graphs : g = graph[t]
      BY <1>1, EnqueueEffect DEF EnqueueDoes, IInv, Control
    <2>2. ~Scheduled(g) /\ ~Executed(g) /\ Scheduled(g)' /\ \A h \in Graphs \ {g} : Keeps(h)
      BY <1>1, <2>1, EnqueueKeeps
    <2>3. State[g] = "free"
      BY <2>2 DEF State, StateOf
    <2>4. State' = [State EXCEPT ![g] = "scheduled"]
      BY <2>2, StateChanges, Zenon
    <2>5. outcome' = outcome /\ answer' = answer
      BY <1>1 DEF Enqueue, history
    <2> QED BY <2>3, <2>4, <2>5 DEF Promise!Schedule
  <1>2. ASSUME Process PROVE Promise!Next
    <2>1. PICK g \in Graphs : g = ggraph
      BY <1>2, ProcessEffect DEF ProcessDoes
    <2>2. Scheduled(g) /\ ~Scheduled(g)' /\ Executed(g)' /\ \A h \in Graphs \ {g} : Keeps(h)
      BY <1>2, <2>1, ProcessKeeps
    <2>3. State[g] = "scheduled"
      BY <2>2 DEF State, StateOf
    <2>4. State' = [State EXCEPT ![g] = "executed"]
      BY <2>2, StateChanges, Zenon
    <2>5. answer' = answer /\ \E s \in Statuses : outcome' = [outcome EXCEPT ![g] = s]
      BY <1>2, <2>1 DEF Process
    <2> QED BY <2>3, <2>4, <2>5 DEF Promise!Execute
  <1>3. ASSUME NEW t \in Threads, Unlock(t) PROVE Promise!Next
    <2>1. PICK g \in Graphs : g = graph[t]
      BY <1>3, UnlockEffect DEF UnlockDoes, IInv, Control
    <2>2. ~Scheduled(g) /\ Executed(g) /\ ~Scheduled(g)' /\ ~Executed(g)' /\ \A h \in Graphs \ {g} : Keeps(h)
      BY <1>3, <2>1, UnlockKeeps
    <2>3. State[g] = "executed"
      BY <2>2 DEF State, StateOf
    <2>4. State' = [State EXCEPT ![g] = "free"]
      BY <2>2, StateChanges, Zenon
    <2>5. outcome' = outcome /\ answer' = [answer EXCEPT ![g] = outcome[g]]
      <3>1. outcome' = outcome /\ result[t] = outcome[g]
        BY <1>3, <2>1, UnlockEffect DEF UnlockDoes
      <3> QED BY <1>3, <2>1, <3>1 DEF Unlock
    <2> QED BY <2>3, <2>4, <2>5 DEF Promise!Wait
  <1>4. ASSUME Quiet PROVE UNCHANGED Promise!vars
    BY <1>4, QuietKeeps, StateStays
  <1> QED BY <1>1, <1>2, <1>3, <1>4 DEF Quiet, Next, AppStep, WorkerStep

\* The asynchronous execution implements the promise of vxScheduleGraph and
\* vxWaitGraph: a graph that was scheduled is executed once, and vxWaitGraph
\* returns, after that, the status of that execution.
THEOREM RefinesPromise == ASSUME OneScheduler PROVE Spec => KeepsPromise
  <1>1. Init => Promise!Init
    <2> SUFFICES ASSUME Init PROVE Promise!Init
      OBVIOUS
    <2>1. \A g \in Graphs : ~Scheduled(g) /\ ~Executed(g)
      BY DEF Init, Scheduled, Executed, IsIn, InHands
    <2>2. State = [g \in Graphs |-> "free"]
      BY <2>1 DEF State, StateOf
    <2>3. outcome \in [Graphs -> Statuses] /\ answer \in [Graphs -> Statuses]
      BY DEF Init, Statuses
    <2> QED BY <2>2, <2>3 DEF Promise!Init
  <1>2. IInv /\ [Next]_vars => [Promise!Next]_Promise!vars
    BY StepKeepsPromise
  <1> QED BY <1>1, <1>2, Inductive, PTL DEF Spec, KeepsPromise, Promise!Spec

-----------------------------------------------------------------------------
(* When there is a position for each graph, a lock is taken for a reason.  *)

EnoughSlots == IsFiniteSet(Graphs) /\ Cardinality(Graphs) <= NumSlots

LockedFor ==
  \A g \in Graphs :
    lock[g] = 0 => (\E t \in Threads : Holds(t, g)) \/ \E q \in Slots : v1[q] = g

\* A graph that is about to have a position leaves one free.
LEMMA ClaimFinds ==
  ASSUME EnoughSlots, IInv, NEW t \in Threads, pc[t] = "claim"
  PROVE  FreeSlots # {}
  <1> SUFFICES ASSUME FreeSlots = {} PROVE FALSE
    OBVIOUS
  <1> DEFINE Others == Graphs \ {graph[t]}
  <1>1. graph[t] \in Graphs /\ Holds(t, graph[t])
    BY DEF IInv, Control, Holds
  <1>2. \A q \in Slots : v1[q] \in Others
    BY <1>1, Typed DEF FreeSlots, IInv, LockTaken
  <1>3. v1 \in [Slots -> Others]
    BY <1>2 DEF IInv, TypeOK
  <1>4. /\ IsFiniteSet(Others) /\ Cardinality(Others) = Cardinality(Graphs) - 1
        /\ Cardinality(Graphs) \in Nat
    BY <1>1, FS_RemoveElement, FS_CardinalityType DEF EnoughSlots
  <1>5. IsFiniteSet(Slots) /\ Cardinality(Slots) = NumSlots /\ NumSlots \in Nat
    <2>1. NumSlots \in Nat /\ NumSlots >= 1
      BY GraphScheduleAssumption
    <2> QED BY <2>1, FS_Interval DEF Slots
  <1>6. Cardinality(Others) < Cardinality(Slots)
    BY <1>4, <1>5 DEF EnoughSlots
  <1>7. \E p, q \in Slots : p # q /\ v1[p] = v1[q]
    BY <1>3, <1>4, <1>5, <1>6, FS_PigeonHole
  <1> QED BY <1>2, <1>7, Typed DEF IInv, LockTaken

LEMMA NextLockedFor ==
  ASSUME OneScheduler, EnoughSlots, IInv, LockedFor, [Next]_vars
  PROVE  LockedFor'
  <1>1. ASSUME NEW t \in Threads, NEW g \in Graphs, Schedule(t, g) PROVE LockedFor'
    <2>1. ScheduleDoes(t, g)
      BY <1>1, ScheduleEffect
    <2> QED BY <2>1, Typed DEF ScheduleDoes, Put, LockedFor, Holds, IInv
  <1>2. ASSUME NEW t \in Threads, Claim(t) PROVE LockedFor'
    <2>1. ClaimDoes(t)
      BY <1>2, ClaimEffect
    <2>2. FreeSlots # {}
      BY <2>1, ClaimFinds DEF ClaimDoes
    <2> QED BY <2>1, <2>2, Typed DEF ClaimDoes, Put, LockedFor, Holds, IInv
  <1>3. ASSUME NEW t \in Threads, Fill(t) PROVE LockedFor'
    <2>1. FillDoes(t)
      BY <1>3, FillEffect
    <2> QED BY <2>1, Typed DEF FillDoes, Put, LockedFor, Holds, IInv
  <1>4. ASSUME NEW t \in Threads, Enqueue(t) PROVE LockedFor'
    <2>1. EnqueueDoes(t)
      BY <1>4, EnqueueEffect
    <2> QED BY <2>1, Typed DEF EnqueueDoes, Put, LockedFor, Holds, IInv
  <1>5. ASSUME Take PROVE LockedFor'
    <2>1. TakeDoes
      BY <1>5, TakeEffect
    <2> QED BY <2>1, Typed DEF TakeDoes, Put, LockedFor, Holds, IInv
  <1>6. ASSUME Process PROVE LockedFor'
    <2>1. ProcessDoes
      BY <1>6, ProcessEffect
    <2> QED BY <2>1, Typed DEF ProcessDoes, Put, LockedFor, Holds, IInv
  <1>7. ASSUME Write PROVE LockedFor'
    <2>1. WriteDoes
      BY <1>7, WriteEffect
    <2> QED BY <2>1, Typed DEF WriteDoes, Put, LockedFor, Holds, IInv
  <1>8. ASSUME Stop PROVE LockedFor'
    <2>1. StopDoes
      BY <1>8, StopEffect
    <2> QED BY <2>1, Typed DEF StopDoes, Put, LockedFor, Holds, IInv
  <1>9. ASSUME NEW t \in Threads, NEW g \in Graphs, Wait(t, g) PROVE LockedFor'
    <2>1. WaitDoes(t, g)
      BY <1>9, WaitEffect
    <2> QED BY <2>1, Typed DEF WaitDoes, Put, LockedFor, Holds, IInv
  <1>10. ASSUME NEW t \in Threads, GiveBack(t) PROVE LockedFor'
    <2>1. GiveBackDoes(t)
      BY <1>10, GiveBackEffect
    <2> QED BY <2>1, Typed DEF GiveBackDoes, Put, LockedFor, Holds, IInv
  <1>11. ASSUME NEW t \in Threads, ReadOutput(t) PROVE LockedFor'
    <2>1. ReadOutputDoes(t)
      BY <1>11, ReadOutputEffect
    <2> QED BY <2>1, Typed DEF ReadOutputDoes, Put, LockedFor, Holds, IInv
  <1>12. ASSUME NEW t \in Threads, PutBack(t) PROVE LockedFor'
    <2>1. PutBackDoes(t)
      BY <1>12, PutBackEffect
    <2> QED BY <2>1, Typed DEF PutBackDoes, Put, LockedFor, Holds, IInv
  <1>13. ASSUME NEW t \in Threads, Free(t) PROVE LockedFor'
    <2>1. FreeDoes(t)
      BY <1>13, FreeEffect
    <2> QED BY <2>1, Typed DEF FreeDoes, Put, LockedFor, Holds, IInv
  <1>14. ASSUME NEW t \in Threads, Unlock(t) PROVE LockedFor'
    <2>1. UnlockDoes(t)
      BY <1>14, UnlockEffect
    <2> QED BY <2>1, Typed DEF UnlockDoes, Put, LockedFor, Holds, IInv
  <1>15. ASSUME Release PROVE LockedFor'
    <2>1. ReleaseDoes
      BY <1>15, ReleaseEffect
    <2> QED BY <2>1, Typed DEF ReleaseDoes, Put, LockedFor, Holds, IInv
  <1>16. CASE Released \/ UNCHANGED vars
    BY <1>16, IdleEffect DEF LockedFor, Holds
  <1> QED BY <1>1, <1>2, <1>3, <1>4, <1>5, <1>6, <1>7, <1>8, <1>9, <1>10,
         <1>11, <1>12, <1>13, <1>14, <1>15, <1>16
          DEF Next, AppStep, WorkerStep

LEMMA RefusalHasReason ==
  ASSUME OneScheduler, IInv, LockedFor,
         NEW t \in Schedulers, NEW g \in Graphs, Refused(t, g)
  PROVE  State[g] # "free" \/ InHands(g, {"give_back"})
  <1>1. pc[t] = "idle" /\ lock[g] = 0
    <2>1. ScheduleDoes(t, g) /\ t \in Threads
      BY ScheduleEffect DEF Refused, Threads
    <2>2. lock[g] = 1 => result'[t] = "none"
      BY <2>1 DEF ScheduleDoes, Put
    <2> QED BY <2>1, <2>2 DEF ScheduleDoes, Refused
  <1>2. \A u \in Threads : pc[u] \notin {"claim", "fill", "enqueue"}
    BY <1>1 DEF IInv, Control, OneScheduler
  <1>3. CASE \E u \in Threads : Holds(u, g)
    <2>1. PICK u \in Threads : Holds(u, g)
      BY <1>3
    <2>2. graph[u] = g /\ pc[u] \in {"give_back", "unlock"}
      BY <1>2, <2>1 DEF Holds
    <2>3. CASE pc[u] = "give_back"
      BY <2>2, <2>3 DEF InHands
    <2>4. CASE pc[u] = "unlock"
      BY <2>2, <2>4 DEF State, StateOf, Executed, InHands
    <2> QED BY <2>2, <2>3, <2>4
  <1>4. CASE \E q \in Slots : v1[q] = g
    <2>1. PICK q \in Slots : v1[q] = g
      BY <1>4
    <2>2. Somewhere(q)
      BY <2>1, Typed DEF IInv, Placed, WellPlaced
    <2>3. Scheduled(g) \/ Executed(g)
      <3>1. CASE Queued(q) \/ Written(q)
        BY <2>1, <3>1, PlacesHold DEF Places, Queued, Written
      <3>2. CASE InWork(q)
        BY <2>1, <3>2, PlacesHold DEF Places, InWork, IInv, Named
      <3>3. CASE \E u \in Threads : InHand(u, q)
        BY <1>2, <2>1, <3>3, PlacesHold DEF Places, InHand, IInv, Named
      <3> QED BY <2>2, <3>1, <3>2, <3>3 DEF Somewhere
    <2> QED BY <2>3 DEF State, StateOf
  <1> QED BY <1>1, <1>3, <1>4 DEF LockedFor

\* vxScheduleGraph says "already scheduled" only of a graph that is, that has
\* not been waited for, or that a vxWaitGraph is just finding not scheduled;
\* unless there are more graphs than positions: then the lock of a graph for
\* which there was none stays taken.
THEOREM RefusedIfScheduledHolds ==
  ASSUME OneScheduler, EnoughSlots PROVE Spec => RefusedIfScheduled
  <1>1. Init => LockedFor
    BY DEF Init, LockedFor
  <1>2. IInv /\ LockedFor /\ [Next]_vars => LockedFor'
    BY NextLockedFor
  <1>3. IInv /\ LockedFor /\ [Next]_vars =>
          [\A t \in Schedulers, g \in Graphs :
             Refused(t, g) => State[g] # "free" \/ InHands(g, {"give_back"})]_vars
    BY RefusalHasReason
  <1> QED BY <1>1, <1>2, <1>3, Inductive, PTL DEF Spec, RefusedIfScheduled
=============================================================================

---------------------------- MODULE QueueProofs ----------------------------
(***************************************************************************)
(* Proofs about Queue, for every depth, every set of threads and values,   *)
(* with and without spurious wake-ups.                                     *)
(***************************************************************************)
EXTENDS Queue, SequenceTheorems, TLAPS

\* The successor of a slot, without the remainder (Depth is positive).
LEMMA NextSlotWraps ==
  ASSUME NEW s \in Slots
  PROVE  NextSlot(s) = IF s = Depth - 1 THEN 0 ELSE s + 1
  <1> USE QueueAssumption DEF Slots, NextSlot
  <1>1. CASE s = Depth - 1
    BY <1>1
  <1>2. CASE s # Depth - 1
    BY <1>2
  <1> QED BY <1>1, <1>2

LEMMA SlotFacts ==
  /\ Slots \subseteq Nat
  /\ \A s \in Slots : NextSlot(s) \in Slots
  /\ 0 \in Slots /\ -1 \notin Slots
  <1>1. \A s \in Slots : NextSlot(s) \in Slots
    BY NextSlotWraps, QueueAssumption DEF Slots
  <1> QED BY <1>1, QueueAssumption DEF Slots

LEMMA InitIInv == Init => IInv
  <1> SUFFICES ASSUME Init PROVE IInv
    OBVIOUS
  <1> USE DEF Init
  <1>1. TypeOK
    <2>1. QueueTypeOK
      BY SlotFacts DEF QueueTypeOK
    <2>2. ThreadTypeOK
      BY DEF ThreadTypeOK, PCs
    <2>3. CallTypeOK
      BY QueueAssumption DEF CallTypeOK
    <2> QED BY <2>1, <2>2, <2>3 DEF TypeOK
  <1>2. Control
    BY QueueAssumption DEF Control, Locked
  <1>3. RingShape
    BY DEF RingShape, InWindow, Empty
  <1>4. EventsInProgress
    <2>1. event["read"] = FALSE /\ event["write"] = TRUE
      BY DEF Events
    <2>2. Empty /\ ~Full /\ ~popped
      BY DEF Empty, Full
    <2>3. \A t \in Threads : pc[t] = "idle" /\ op[t] = "none"
      OBVIOUS
    <2>4. ~ \E calling, at : Holder(calling, at)
      BY QueueAssumption DEF Holder
    <2> QED BY <2>1, <2>2, <2>3, <2>4, Zenon
            DEF EventsInProgress, EventsNotEarly, EventsNotLost, HolderKnows,
                PopTellsAll, Sleepers
  <1> QED BY <1>1, <1>2, <1>3, <1>4 DEF IInv

\* The three parts of the type invariant, one action at a time.
LEMMA NextQueueType ==
  QueueTypeOK /\ ThreadTypeOK /\ [Next]_vars
  => QueueTypeOK'
  <1> SUFFICES ASSUME QueueTypeOK, ThreadTypeOK, [Next]_vars PROVE QueueTypeOK'
    OBVIOUS
  <1> USE DEF QueueTypeOK, ring, locals, Goto
  <1>1. ASSUME NEW t \in Threads, CallWrite(t) PROVE QueueTypeOK'
    BY <1>1 DEF CallWrite, Call
  <1>2. ASSUME NEW t \in Threads, CallRead(t) PROVE QueueTypeOK'
    BY <1>2 DEF CallRead, Call
  <1>3. ASSUME NEW t \in Threads, CallPop(t) PROVE QueueTypeOK'
    BY <1>3 DEF CallPop, Call
  <1>4. ASSUME NEW t \in Threads, SpuriousWake(t) PROVE QueueTypeOK'
    BY <1>4 DEF SpuriousWake
  <1>5. ASSUME NEW t \in Threads, WaitEvent(t) PROVE QueueTypeOK'
    BY <1>5 DEF WaitEvent
  <1>6. ASSUME NEW t \in Threads, Recheck(t) PROVE QueueTypeOK'
    BY <1>6 DEF Recheck, Return
  <1>7. ASSUME NEW t \in Threads, Acquire(t) PROVE QueueTypeOK'
    BY <1>7 DEF Acquire
  <1>8. ASSUME NEW t \in Threads, BodyPopped(t) PROVE QueueTypeOK'
    BY <1>8 DEF BodyPopped
  <1>9. ASSUME NEW t \in Threads, BodyWrite(t) PROVE QueueTypeOK'
    BY <1>9, SlotFacts DEF BodyWrite, ThreadTypeOK, WriteSlot, Empty, Events
  <1>10. ASSUME NEW t \in Threads, BodyRead(t) PROVE QueueTypeOK'
    BY <1>10, SlotFacts DEF BodyRead, Events
  <1>11. ASSUME NEW t \in Threads, BodyPop(t) PROVE QueueTypeOK'
    BY <1>11 DEF BodyPop
  <1>12. ASSUME NEW t \in Threads, SignalWrite(t) PROVE QueueTypeOK'
    BY <1>12 DEF SignalWrite, SetEvent, Events
  <1>13. ASSUME NEW t \in Threads, SignalRead(t) PROVE QueueTypeOK'
    BY <1>13 DEF SignalRead, SetEvent, Events
  <1>14. ASSUME NEW t \in Threads, Post(t) PROVE QueueTypeOK'
    BY <1>14 DEF Post, Return
  <1>15. ASSUME NEW t \in Threads, Check(t) PROVE QueueTypeOK'
    BY <1>15 DEF Check, Return
  <1>16. CASE UNCHANGED vars
    BY <1>16 DEF vars
  <1> QED BY <1>1, <1>2, <1>3, <1>4, <1>5, <1>6, <1>7, <1>8, <1>9, <1>10, <1>11,
             <1>12, <1>13, <1>14, <1>15, <1>16
             DEF Next, Step

\* No action takes a thread to an undefined place or value.
LEMMA NextThreadType ==
  QueueTypeOK /\ ThreadTypeOK /\ [Next]_vars
  => ThreadTypeOK'
  <1> SUFFICES ASSUME QueueTypeOK, ThreadTypeOK, [Next]_vars PROVE ThreadTypeOK'
    OBVIOUS
  <1> USE DEF ThreadTypeOK, PCs, ring, locals, Goto
  <1>1. ASSUME NEW t \in Threads, CallWrite(t) PROVE ThreadTypeOK'
    <2>1. PICK v \in Items : Call(t, "write", v, "wait")
      BY <1>1 DEF CallWrite
    <2> QED BY <2>1 DEF Call
  <1>2. ASSUME NEW t \in Threads, CallRead(t) PROVE ThreadTypeOK'
    BY <1>2 DEF CallRead, Call
  <1>3. ASSUME NEW t \in Threads, CallPop(t) PROVE ThreadTypeOK'
    BY <1>3 DEF CallPop, Call
  <1>4. ASSUME NEW t \in Threads, SpuriousWake(t) PROVE ThreadTypeOK'
    BY <1>4 DEF SpuriousWake
  <1>5. ASSUME NEW t \in Threads, WaitEvent(t) PROVE ThreadTypeOK'
    BY <1>5 DEF WaitEvent
  <1>6. ASSUME NEW t \in Threads, Recheck(t) PROVE ThreadTypeOK'
    BY <1>6 DEF Recheck, Return
  <1>7. ASSUME NEW t \in Threads, Acquire(t) PROVE ThreadTypeOK'
    BY <1>7 DEF Acquire
  <1>8. ASSUME NEW t \in Threads, BodyPopped(t) PROVE ThreadTypeOK'
    BY <1>8 DEF BodyPopped
  <1>9. ASSUME NEW t \in Threads, BodyWrite(t) PROVE ThreadTypeOK'
    BY <1>9 DEF BodyWrite
  <1>10. ASSUME NEW t \in Threads, BodyRead(t) PROVE ThreadTypeOK'
    BY <1>10 DEF BodyRead, QueueTypeOK
  <1>11. ASSUME NEW t \in Threads, BodyPop(t) PROVE ThreadTypeOK'
    BY <1>11 DEF BodyPop
  <1>12. ASSUME NEW t \in Threads, SignalWrite(t) PROVE ThreadTypeOK'
    BY <1>12 DEF SignalWrite, SetEvent
  <1>13. ASSUME NEW t \in Threads, SignalRead(t) PROVE ThreadTypeOK'
    BY <1>13 DEF SignalRead, SetEvent
  <1>14. ASSUME NEW t \in Threads, Post(t) PROVE ThreadTypeOK'
    BY <1>14 DEF Post, Return
  <1>15. ASSUME NEW t \in Threads, Check(t) PROVE ThreadTypeOK'
    BY <1>15 DEF Check, Return
  <1>16. CASE UNCHANGED vars
    BY <1>16 DEF vars
  <1> QED BY <1>1, <1>2, <1>3, <1>4, <1>5, <1>6, <1>7, <1>8, <1>9, <1>10, <1>11,
             <1>12, <1>13, <1>14, <1>15, <1>16
             DEF Next, Step

\* The results and the number of calls stay in their range.
LEMMA NextCallType == CallTypeOK /\ [Next]_vars => CallTypeOK'
  <1> SUFFICES ASSUME CallTypeOK, [Next]_vars PROVE CallTypeOK'
    OBVIOUS
  <1> USE DEF CallTypeOK, ring, locals, Goto
  <1>1. ASSUME NEW t \in Threads, CallWrite(t) PROVE CallTypeOK'
    BY <1>1, QueueAssumption DEF CallWrite, Call
  <1>2. ASSUME NEW t \in Threads, CallRead(t) PROVE CallTypeOK'
    BY <1>2, QueueAssumption DEF CallRead, Call
  <1>3. ASSUME NEW t \in Threads, CallPop(t) PROVE CallTypeOK'
    BY <1>3, QueueAssumption DEF CallPop, Call
  <1>4. ASSUME NEW t \in Threads, SpuriousWake(t) PROVE CallTypeOK'
    BY <1>4 DEF SpuriousWake
  <1>5. ASSUME NEW t \in Threads, WaitEvent(t) PROVE CallTypeOK'
    BY <1>5 DEF WaitEvent
  <1>6. ASSUME NEW t \in Threads, Recheck(t) PROVE CallTypeOK'
    BY <1>6 DEF Recheck, Return
  <1>7. ASSUME NEW t \in Threads, Acquire(t) PROVE CallTypeOK'
    BY <1>7 DEF Acquire
  <1>8. ASSUME NEW t \in Threads, BodyPopped(t) PROVE CallTypeOK'
    BY <1>8 DEF BodyPopped
  <1>9. ASSUME NEW t \in Threads, BodyWrite(t) PROVE CallTypeOK'
    BY <1>9 DEF BodyWrite
  <1>10. ASSUME NEW t \in Threads, BodyRead(t) PROVE CallTypeOK'
    BY <1>10 DEF BodyRead
  <1>11. ASSUME NEW t \in Threads, BodyPop(t) PROVE CallTypeOK'
    BY <1>11 DEF BodyPop
  <1>12. ASSUME NEW t \in Threads, SignalWrite(t) PROVE CallTypeOK'
    BY <1>12 DEF SignalWrite, SetEvent
  <1>13. ASSUME NEW t \in Threads, SignalRead(t) PROVE CallTypeOK'
    BY <1>13 DEF SignalRead, SetEvent
  <1>14. ASSUME NEW t \in Threads, Post(t) PROVE CallTypeOK'
    BY <1>14 DEF Post, Return
  <1>15. ASSUME NEW t \in Threads, Check(t) PROVE CallTypeOK'
    BY <1>15 DEF Check, Return
  <1>16. CASE UNCHANGED vars
    BY <1>16 DEF vars
  <1> QED BY <1>1, <1>2, <1>3, <1>4, <1>5, <1>6, <1>7, <1>8, <1>9, <1>10, <1>11,
             <1>12, <1>13, <1>14, <1>15, <1>16
             DEF Next, Step

\* Control is kept: only the holder of the lock is under it.
LEMMA NextControl ==
  QueueTypeOK /\ ThreadTypeOK /\ Control /\ [Next]_vars
  => Control'
  <1> SUFFICES ASSUME QueueTypeOK, ThreadTypeOK, Control, [Next]_vars
               PROVE Control'
    OBVIOUS
  <1> USE DEF Control, Locked, QueueTypeOK, ThreadTypeOK, PCs, ring, locals, Goto
  <1>1. ASSUME NEW t \in Threads, CallWrite(t) PROVE Control'
    <2>1. PICK v \in Items : Call(t, "write", v, "wait")
      BY <1>1 DEF CallWrite
    <2> QED BY <2>1 DEF Call
  <1>2. ASSUME NEW t \in Threads, CallRead(t) PROVE Control'
    BY <1>2 DEF CallRead, Call
  <1>3. ASSUME NEW t \in Threads, CallPop(t) PROVE Control'
    BY <1>3 DEF CallPop, Call
  <1>4. ASSUME NEW t \in Threads, SpuriousWake(t) PROVE Control'
    BY <1>4 DEF SpuriousWake
  <1>5. ASSUME NEW t \in Threads, WaitEvent(t) PROVE Control'
    BY <1>5 DEF WaitEvent
  <1>6. ASSUME NEW t \in Threads, Recheck(t) PROVE Control'
    BY <1>6 DEF Recheck, Return
  <1>7. ASSUME NEW t \in Threads, Acquire(t) PROVE Control'
    BY <1>7, QueueAssumption DEF Acquire
  <1>8. ASSUME NEW t \in Threads, BodyPopped(t) PROVE Control'
    BY <1>8 DEF BodyPopped
  <1>9. ASSUME NEW t \in Threads, BodyWrite(t) PROVE Control'
    BY <1>9 DEF BodyWrite
  <1>10. ASSUME NEW t \in Threads, BodyRead(t) PROVE Control'
    BY <1>10, QueueAssumption DEF BodyRead
  <1>11. ASSUME NEW t \in Threads, BodyPop(t) PROVE Control'
    BY <1>11 DEF BodyPop
  <1>12. ASSUME NEW t \in Threads, SignalWrite(t) PROVE Control'
    <2> DEFINE where == IF op[t] = "write" THEN "signal read" ELSE "post"
    <2> DEFINE woken == [u \in Threads |->
                          IF u = t THEN where
                          ELSE IF pc[u] = "asleep" /\ op[u] = "write" THEN "woken"
                          ELSE pc[u]]
    <2>0. pc' = woken \/ pc' = [pc EXCEPT ![t] = where]
      BY <1>12 DEF SignalWrite, SetEvent
    <2>1. /\ pc'[t] = where
          /\ \A u \in Threads \ {t} : pc'[u] \in {pc[u], IF pc[u] = "asleep" THEN "woken" ELSE pc[u]}
      <3> HIDE DEF where
      <3> QED BY <2>0
    <2>2. pc[t] \in Locked /\ where \in Locked /\ op' = op /\ item' = item /\ lock' = lock
      BY <1>12 DEF SignalWrite
    <2>3. \A u \in Threads : pc'[u] \in Locked <=> pc[u] \in Locked
      BY <2>1, <2>2
    <2>4. where = "signal read" => op[t] = "write"
      OBVIOUS
    <2> QED BY <2>1, <2>2, <2>3, <2>4, <1>12 DEF SignalWrite
  <1>13. ASSUME NEW t \in Threads, SignalRead(t) PROVE Control'
    <2> DEFINE where == IF op[t] = "pop" THEN "signal write" ELSE "post"
    <2> DEFINE woken == [u \in Threads |->
                          IF u = t THEN where
                          ELSE IF pc[u] = "asleep" /\ op[u] = "read" THEN "woken"
                          ELSE pc[u]]
    <2>0. pc' = woken \/ pc' = [pc EXCEPT ![t] = where]
      BY <1>13 DEF SignalRead, SetEvent
    <2>1. /\ pc'[t] = where
          /\ \A u \in Threads \ {t} : pc'[u] \in {pc[u], IF pc[u] = "asleep" THEN "woken" ELSE pc[u]}
      <3> HIDE DEF where
      <3> QED BY <2>0
    <2>2. pc[t] \in Locked /\ where \in Locked /\ op' = op /\ item' = item /\ lock' = lock
      BY <1>13 DEF SignalRead
    <2>3. \A u \in Threads : pc'[u] \in Locked <=> pc[u] \in Locked
      BY <2>1, <2>2
    <2>4. where = "signal read" => op[t] = "write"
      OBVIOUS
    <2> QED BY <2>1, <2>2, <2>3, <2>4, <1>13 DEF SignalRead
  <1>14. ASSUME NEW t \in Threads, Post(t) PROVE Control'
    <2>1. NoThread \notin Threads
      BY QueueAssumption
    <2> QED BY <1>14, <2>1 DEF Post, Return
  <1>15. ASSUME NEW t \in Threads, Check(t) PROVE Control'
    BY <1>15 DEF Check, Return
  <1>16. CASE UNCHANGED vars
    BY <1>16 DEF vars
  <1> QED BY <1>1, <1>2, <1>3, <1>4, <1>5, <1>6, <1>7, <1>8, <1>9, <1>10, <1>11,
             <1>12, <1>13, <1>14, <1>15, <1>16
             DEF Next, Step

\* RingShape is kept; only the two steps that move a value disturb it.
LEMMA NextRingShape ==
  QueueTypeOK /\ ThreadTypeOK /\ Control /\ RingShape /\ [Next]_vars
  => RingShape'
  <1> SUFFICES ASSUME QueueTypeOK, ThreadTypeOK, Control, RingShape, [Next]_vars
               PROVE RingShape'
    OBVIOUS
  <1> USE DEF RingShape, InWindow, Empty, ring, locals, Goto
  <1>1. ASSUME NEW t \in Threads, CallWrite(t) PROVE RingShape'
    BY <1>1 DEF CallWrite, Call
  <1>2. ASSUME NEW t \in Threads, CallRead(t) PROVE RingShape'
    BY <1>2 DEF CallRead, Call
  <1>3. ASSUME NEW t \in Threads, CallPop(t) PROVE RingShape'
    BY <1>3 DEF CallPop, Call
  <1>4. ASSUME NEW t \in Threads, SpuriousWake(t) PROVE RingShape'
    BY <1>4 DEF SpuriousWake
  <1>5. ASSUME NEW t \in Threads, WaitEvent(t) PROVE RingShape'
    BY <1>5 DEF WaitEvent
  <1>6. ASSUME NEW t \in Threads, Recheck(t) PROVE RingShape'
    BY <1>6 DEF Recheck, Return
  <1>7. ASSUME NEW t \in Threads, Acquire(t) PROVE RingShape'
    BY <1>7 DEF Acquire
  <1>8. ASSUME NEW t \in Threads, BodyPopped(t) PROVE RingShape'
    BY <1>8 DEF BodyPopped
  <1>9. ASSUME NEW t \in Threads, BodyWrite(t) PROVE RingShape'
    <2>1. WriteSlot \in Slots /\ lock = t /\ item[t] # NoItem
      BY <1>9, QueueAssumption
         DEF BodyWrite, WriteSlot, QueueTypeOK, Control, Locked
    <2>2. CASE Full
      BY <1>9, <2>2 DEF BodyWrite
    <2>3. CASE ~Full
      <3>1. data' = [data EXCEPT ![WriteSlot] = item[t]] /\ end_index' = NextSlot(WriteSlot)
            /\ start_index' = start_index
        BY <1>9, <2>3 DEF BodyWrite
      <3>2. end_index' = IF WriteSlot = Depth - 1 THEN 0 ELSE WriteSlot + 1
        BY <2>1, <3>1, NextSlotWraps
      <3> QED BY <2>1, <2>3, <3>1, <3>2, QueueAssumption
              DEF QueueTypeOK, WriteSlot, Full, Slots
    <2> QED BY <2>2, <2>3
  <1>10. ASSUME NEW t \in Threads, BodyRead(t) PROVE RingShape'
    <2>1. CASE Empty
      BY <1>10, <2>1 DEF BodyRead, Empty
    <2>2. CASE ~Empty
      <3>1. /\ data' = [data EXCEPT ![start_index] = NoItem]
            /\ start_index' = NextSlot(start_index)
            /\ end_index' = IF NextSlot(start_index) = end_index THEN -1 ELSE end_index
        BY <1>10, <2>2 DEF BodyRead, Empty
      <3>2. NextSlot(start_index) = IF start_index = Depth - 1 THEN 0 ELSE start_index + 1
        BY NextSlotWraps DEF QueueTypeOK
      <3> QED BY <2>2, <3>1, <3>2, QueueAssumption DEF QueueTypeOK, Slots, Empty
    <2> QED BY <2>1, <2>2
  <1>11. ASSUME NEW t \in Threads, BodyPop(t) PROVE RingShape'
    BY <1>11 DEF BodyPop
  <1>12. ASSUME NEW t \in Threads, SignalWrite(t) PROVE RingShape'
    BY <1>12 DEF SignalWrite, SetEvent
  <1>13. ASSUME NEW t \in Threads, SignalRead(t) PROVE RingShape'
    BY <1>13 DEF SignalRead, SetEvent
  <1>14. ASSUME NEW t \in Threads, Post(t) PROVE RingShape'
    BY <1>14 DEF Post, Return
  <1>15. ASSUME NEW t \in Threads, Check(t) PROVE RingShape'
    BY <1>15 DEF Check, Return
  <1>16. CASE UNCHANGED vars
    BY <1>16 DEF vars
  <1> QED BY <1>1, <1>2, <1>3, <1>4, <1>5, <1>6, <1>7, <1>8, <1>9, <1>10, <1>11,
             <1>12, <1>13, <1>14, <1>15, <1>16
             DEF Next, Step

\* A step of a thread that is not under the lock moves no other thread and no
\* event, so what the events tell stays true.
LEMMA OutsideLock ==
  ASSUME EventsInProgress, NEW t \in Threads, t # lock,
         UNCHANGED <<ring, popped, lock, event>>,
         \A u \in Threads \ {t} : pc'[u] = pc[u] /\ op'[u] = op[u] /\ done'[u] = done[u]
  PROVE  EventsNotEarly' /\ EventsNotLost' /\ HolderKnows' /\ PopTellsAll'
  <1>1. Empty' = Empty /\ Full' = Full
    BY DEF Empty, Full, ring
  <1>2. \A calling, at : Holder(calling, at)' = Holder(calling, at)
    BY DEF Holder
  <1>3. lock \in Threads => done'[lock'] = done[lock]
    OBVIOUS
  <1>4. EventsNotEarly' /\ EventsNotLost' /\ PopTellsAll'
    BY <1>1, <1>2
       DEF EventsInProgress, EventsNotEarly, EventsNotLost, PopTellsAll
  <1>5. HolderKnows'
    BY <1>1, <1>2, <1>3 DEF EventsInProgress, HolderKnows, Holder
  <1> QED BY <1>4, <1>5

\* EventsInProgress is kept.
LEMMA NextEvents ==
  QueueTypeOK /\ ThreadTypeOK /\ CallTypeOK /\ Control /\ EventsInProgress /\
  [Next]_vars
  => EventsInProgress'
  <1> SUFFICES ASSUME QueueTypeOK, ThreadTypeOK, CallTypeOK, Control, EventsInProgress, [Next]_vars
               PROVE EventsInProgress'
    OBVIOUS
  <1> USE DEF EventsInProgress, ring, locals, Goto
  <1>1. ASSUME NEW t \in Threads, CallWrite(t) PROVE EventsInProgress'
    <2>1. t # lock /\ UNCHANGED <<ring, popped, lock, event>>
      BY <1>1 DEF CallWrite, Call, Control, Locked
    <2>2. \A u \in Threads \ {t} : pc'[u] = pc[u] /\ op'[u] = op[u] /\ done'[u] = done[u]
      BY <1>1 DEF CallWrite, Call, ThreadTypeOK, CallTypeOK
    <2>3. Sleepers'
      BY <1>1 DEF CallWrite, Call, Sleepers, ThreadTypeOK
    <2> QED BY <2>1, <2>2, <2>3, OutsideLock
  <1>2. ASSUME NEW t \in Threads, CallRead(t) PROVE EventsInProgress'
    <2>1. t # lock /\ UNCHANGED <<ring, popped, lock, event>>
      BY <1>2 DEF CallRead, Call, Control, Locked
    <2>2. \A u \in Threads \ {t} : pc'[u] = pc[u] /\ op'[u] = op[u] /\ done'[u] = done[u]
      BY <1>2 DEF CallRead, Call, ThreadTypeOK, CallTypeOK
    <2>3. Sleepers'
      BY <1>2 DEF CallRead, Call, Sleepers, ThreadTypeOK
    <2> QED BY <2>1, <2>2, <2>3, OutsideLock
  <1>3. ASSUME NEW t \in Threads, CallPop(t) PROVE EventsInProgress'
    <2>1. t # lock /\ UNCHANGED <<ring, popped, lock, event>>
      BY <1>3 DEF CallPop, Call, Control, Locked
    <2>2. \A u \in Threads \ {t} : pc'[u] = pc[u] /\ op'[u] = op[u] /\ done'[u] = done[u]
      BY <1>3 DEF CallPop, Call, ThreadTypeOK, CallTypeOK
    <2>3. Sleepers'
      BY <1>3 DEF CallPop, Call, Sleepers, ThreadTypeOK
    <2> QED BY <2>1, <2>2, <2>3, OutsideLock
  <1>4. ASSUME NEW t \in Threads, SpuriousWake(t) PROVE EventsInProgress'
    <2>1. t # lock /\ UNCHANGED <<ring, popped, lock, event>>
      BY <1>4 DEF SpuriousWake, Control, Locked
    <2>2. \A u \in Threads \ {t} : pc'[u] = pc[u] /\ op'[u] = op[u] /\ done'[u] = done[u]
      BY <1>4 DEF SpuriousWake, ThreadTypeOK, CallTypeOK
    <2>3. Sleepers'
      BY <1>4 DEF SpuriousWake, Sleepers, ThreadTypeOK
    <2> QED BY <2>1, <2>2, <2>3, OutsideLock
  <1>5. ASSUME NEW t \in Threads, WaitEvent(t) PROVE EventsInProgress'
    <2>1. t # lock /\ UNCHANGED <<ring, popped, lock, event>>
      BY <1>5 DEF WaitEvent, Control, Locked
    <2>2. \A u \in Threads \ {t} : pc'[u] = pc[u] /\ op'[u] = op[u] /\ done'[u] = done[u]
      BY <1>5 DEF WaitEvent, ThreadTypeOK, CallTypeOK
    <2>3. Sleepers'
      BY <1>5 DEF WaitEvent, Sleepers, ThreadTypeOK
    <2> QED BY <2>1, <2>2, <2>3, OutsideLock
  <1>6. ASSUME NEW t \in Threads, Recheck(t) PROVE EventsInProgress'
    <2>1. t # lock /\ UNCHANGED <<ring, popped, lock, event>>
      BY <1>6 DEF Recheck, Return, Control, Locked
    <2>2. \A u \in Threads \ {t} : pc'[u] = pc[u] /\ op'[u] = op[u] /\ done'[u] = done[u]
      BY <1>6 DEF Recheck, Return, ThreadTypeOK, CallTypeOK
    <2>3. Sleepers'
      BY <1>6 DEF Recheck, Return, Sleepers, ThreadTypeOK
    <2> QED BY <2>1, <2>2, <2>3, OutsideLock
  <1>7. ASSUME NEW t \in Threads, Acquire(t) PROVE EventsInProgress'
    <2>1. EventsNotEarly'
      BY <1>7, QueueAssumption
         DEF Acquire, EventsNotEarly, EventsNotLost, HolderKnows, PopTellsAll,
             Holder, Control, Locked, Empty, Full, QueueTypeOK, CallTypeOK,
             Events, ThreadTypeOK
    <2>2. EventsNotLost'
      BY <1>7, QueueAssumption
         DEF Acquire, EventsNotEarly, EventsNotLost, HolderKnows, PopTellsAll,
             Holder, Control, Locked, Empty, Full, QueueTypeOK, CallTypeOK,
             Events, ThreadTypeOK
    <2>3. HolderKnows'
      BY <1>7, QueueAssumption
         DEF Acquire, EventsNotEarly, EventsNotLost, HolderKnows, PopTellsAll,
             Holder, Control, Locked, Empty, Full, QueueTypeOK, CallTypeOK,
             Events, ThreadTypeOK
    <2>4. PopTellsAll'
      BY <1>7, QueueAssumption
         DEF Acquire, EventsNotEarly, EventsNotLost, HolderKnows, PopTellsAll,
             Holder, Control, Locked, Empty, Full, QueueTypeOK, CallTypeOK,
             Events, ThreadTypeOK
    <2>5. Sleepers'
      BY <1>7, QueueAssumption
         DEF Acquire, Sleepers, Control, QueueTypeOK, Events, ThreadTypeOK
    <2> QED BY <2>1, <2>2, <2>3, <2>4, <2>5
  <1>8. ASSUME NEW t \in Threads, BodyPopped(t) PROVE EventsInProgress'
    <2>1. EventsNotEarly'
      BY <1>8, QueueAssumption
         DEF BodyPopped, EventsNotEarly, EventsNotLost, HolderKnows,
             PopTellsAll, Holder, Control, Locked, Empty, Full, QueueTypeOK,
             CallTypeOK, Events, ThreadTypeOK
    <2>2. EventsNotLost'
      BY <1>8, QueueAssumption
         DEF BodyPopped, EventsNotEarly, EventsNotLost, HolderKnows,
             PopTellsAll, Holder, Control, Locked, Empty, Full, QueueTypeOK,
             CallTypeOK, Events, ThreadTypeOK
    <2>3. HolderKnows'
      BY <1>8, QueueAssumption
         DEF BodyPopped, EventsNotEarly, EventsNotLost, HolderKnows,
             PopTellsAll, Holder, Control, Locked, Empty, Full, QueueTypeOK,
             CallTypeOK, Events, ThreadTypeOK
    <2>4. PopTellsAll'
      BY <1>8, QueueAssumption
         DEF BodyPopped, EventsNotEarly, EventsNotLost, HolderKnows,
             PopTellsAll, Holder, Control, Locked, Empty, Full, QueueTypeOK,
             CallTypeOK, Events, ThreadTypeOK
    <2>5. Sleepers'
      BY <1>8, QueueAssumption
         DEF BodyPopped, Sleepers, Control, QueueTypeOK, Events, ThreadTypeOK
    <2> QED BY <2>1, <2>2, <2>3, <2>4, <2>5
  <1>9. ASSUME NEW t \in Threads, BodyWrite(t) PROVE EventsInProgress'
    <2>1. /\ lock = t /\ lock' = t /\ op' = op /\ op[t] = "write"
          /\ pc'[t] = "signal write" /\ ~popped'
      BY <1>9, QueueAssumption DEF BodyWrite, Control, Locked, ThreadTypeOK
    <2>2. event'["write"] = FALSE
      BY <1>9 DEF BodyWrite, QueueTypeOK, Events
    <2>3. ~Empty' /\ (done'[t] \/ Full')
      <3>1. CASE Full
        <4>1. UNCHANGED <<start_index, end_index>>
          BY <1>9, <3>1 DEF BodyWrite
        <4> QED BY <3>1, <4>1, SlotFacts DEF Full, Empty, QueueTypeOK
      <3>2. CASE ~Full
        <4>1. end_index' = NextSlot(WriteSlot) /\ done'[t]
          BY <1>9, <3>2 DEF BodyWrite, CallTypeOK
        <4>2. WriteSlot \in Slots
          BY DEF WriteSlot, Empty, QueueTypeOK
        <4> QED BY <4>1, <4>2, SlotFacts DEF Empty
      <3> QED BY <3>1, <3>2
    <2>4. EventsNotEarly' /\ EventsNotLost' /\ HolderKnows' /\ PopTellsAll'
      BY <2>1, <2>2, <2>3
         DEF EventsNotEarly, EventsNotLost, HolderKnows, PopTellsAll, Holder
    <2>5. Sleepers'
      BY <1>9
         DEF BodyWrite, Sleepers, Control, QueueTypeOK, ThreadTypeOK, Events
    <2> QED BY <2>4, <2>5
  <1>10. ASSUME NEW t \in Threads, BodyRead(t) PROVE EventsInProgress'
    <2>1. /\ lock = t /\ lock' = t /\ op' = op /\ op[t] = "read"
          /\ pc[t] = "body" /\ pc'[t] = "signal write" /\ ~popped /\ ~popped'
      BY <1>10, QueueAssumption DEF BodyRead, Control, Locked, ThreadTypeOK
    <2>2. ~Full' /\ event'["write"] = event["write"]
      <3>1. event'["write"] = event["write"]
        BY <1>10 DEF BodyRead, QueueTypeOK, Events
      <3>2. CASE Empty
        BY <1>10, <3>2, SlotFacts DEF BodyRead, Full, Empty, QueueTypeOK
      <3>3. CASE ~Empty
        <4>1. /\ start_index' = NextSlot(start_index)
              /\ end_index' = IF NextSlot(start_index) = end_index THEN -1 ELSE end_index
          BY <1>10, <3>3 DEF BodyRead, Empty
        <4>2. NextSlot(start_index) # -1
          BY SlotFacts DEF QueueTypeOK
        <4> QED BY <3>1, <4>1, <4>2 DEF Full
      <3> QED BY <3>1, <3>2, <3>3
    <2>3. event'["read"] <=> ~Empty'
      <3>1. event["read"] <=> ~Empty
        BY <2>1 DEF EventsNotEarly, EventsNotLost, Holder
      <3> QED BY <1>10, <3>1, SlotFacts DEF BodyRead, Empty, QueueTypeOK, Events
    <2>4. EventsNotEarly' /\ EventsNotLost' /\ HolderKnows' /\ PopTellsAll'
      BY <2>1, <2>2, <2>3
         DEF EventsNotEarly, EventsNotLost, HolderKnows, PopTellsAll, Holder
    <2>5. Sleepers'
      BY <1>10
         DEF BodyRead, Sleepers, Control, QueueTypeOK, ThreadTypeOK, Events
    <2> QED BY <2>4, <2>5
  <1>11. ASSUME NEW t \in Threads, BodyPop(t) PROVE EventsInProgress'
    <2>1. EventsNotEarly'
      BY <1>11, QueueAssumption
         DEF BodyPop, EventsNotEarly, EventsNotLost, HolderKnows, PopTellsAll,
             Holder, Control, Locked, Empty, Full, QueueTypeOK, CallTypeOK,
             Events, ThreadTypeOK
    <2>2. EventsNotLost'
      BY <1>11, QueueAssumption
         DEF BodyPop, EventsNotEarly, EventsNotLost, HolderKnows, PopTellsAll,
             Holder, Control, Locked, Empty, Full, QueueTypeOK, CallTypeOK,
             Events, ThreadTypeOK
    <2>3. HolderKnows'
      BY <1>11, QueueAssumption
         DEF BodyPop, EventsNotEarly, EventsNotLost, HolderKnows, PopTellsAll,
             Holder, Control, Locked, Empty, Full, QueueTypeOK, CallTypeOK,
             Events, ThreadTypeOK
    <2>4. PopTellsAll'
      BY <1>11, QueueAssumption
         DEF BodyPop, EventsNotEarly, EventsNotLost, HolderKnows, PopTellsAll,
             Holder, Control, Locked, Empty, Full, QueueTypeOK, CallTypeOK,
             Events, ThreadTypeOK
    <2>5. Sleepers'
      BY <1>11, QueueAssumption
         DEF BodyPop, Sleepers, Control, QueueTypeOK, Events, ThreadTypeOK
    <2> QED BY <2>1, <2>2, <2>3, <2>4, <2>5
  <1>12. ASSUME NEW t \in Threads, SignalWrite(t) PROVE EventsInProgress'
    <2>1. /\ lock = t /\ lock' = t /\ op' = op /\ done' = done /\ popped' = popped
          /\ pc[t] = "signal write" /\ op[t] \in {"read", "write", "pop"}
          /\ Empty' = Empty /\ Full' = Full
      BY <1>12 DEF SignalWrite, Control, Locked, Empty, Full, ThreadTypeOK
    <2>2. pc'[t] = IF op[t] = "write" THEN "signal read" ELSE "post"
      BY <1>12 DEF SignalWrite, SetEvent, ThreadTypeOK
    <2>3. /\ event'["read"] = event["read"]
          /\ event'["write"] = (AnnouncesRoom(t) \/ event["write"])
      BY <1>12 DEF SignalWrite, SetEvent, QueueTypeOK, Events
    <2>4. EventsNotEarly' /\ EventsNotLost' /\ HolderKnows' /\ PopTellsAll'
      BY <2>1, <2>2, <2>3
         DEF EventsNotEarly, EventsNotLost, HolderKnows, PopTellsAll, Holder, AnnouncesRoom
    <2>5. Sleepers'
      <3>1. CASE AnnouncesRoom(t)
        <4>1. /\ event' = [event EXCEPT !["write"] = TRUE]
              /\ \A u \in Threads \ {t} :
                   pc'[u] = IF pc[u] = "asleep" /\ op[u] = "write" THEN "woken" ELSE pc[u]
          BY <1>12, <3>1 DEF SignalWrite, SetEvent
        <4> QED BY <4>1, <2>1, <2>2 DEF Sleepers, Control, QueueTypeOK, Events
      <3>2. CASE ~AnnouncesRoom(t)
        BY <1>12, <3>2, <2>1, <2>2 DEF SignalWrite, Sleepers, ThreadTypeOK
      <3> QED BY <3>1, <3>2
    <2> QED BY <2>4, <2>5
  <1>13. ASSUME NEW t \in Threads, SignalRead(t) PROVE EventsInProgress'
    <2>1. /\ lock = t /\ lock' = t /\ op' = op /\ done' = done /\ popped' = popped
          /\ pc[t] = "signal read" /\ op[t] \in {"write", "pop"}
          /\ Empty' = Empty /\ Full' = Full
      BY <1>13 DEF SignalRead, Control, Locked, Empty, Full, ThreadTypeOK
    <2>2. pc'[t] = IF op[t] = "pop" THEN "signal write" ELSE "post"
      BY <1>13 DEF SignalRead, SetEvent, ThreadTypeOK
    <2>3. /\ event'["write"] = event["write"]
          /\ event'["read"] = ((op[t] = "write" => ~Empty) \/ event["read"])
      BY <1>13 DEF SignalRead, SetEvent, QueueTypeOK, Events
    <2>4. EventsNotEarly' /\ EventsNotLost' /\ HolderKnows' /\ PopTellsAll'
      BY <2>1, <2>2, <2>3
         DEF EventsNotEarly, EventsNotLost, HolderKnows, PopTellsAll, Holder
    <2>5. Sleepers'
      <3>1. CASE op[t] = "write" => ~Empty
        <4>1. /\ event' = [event EXCEPT !["read"] = TRUE]
              /\ \A u \in Threads \ {t} :
                   pc'[u] = IF pc[u] = "asleep" /\ op[u] = "read" THEN "woken" ELSE pc[u]
          BY <1>13, <3>1 DEF SignalRead, SetEvent
        <4> QED BY <4>1, <2>1, <2>2 DEF Sleepers, Control, QueueTypeOK, Events
      <3>2. CASE ~(op[t] = "write" => ~Empty)
        BY <1>13, <3>2, <2>1, <2>2 DEF SignalRead, Sleepers, ThreadTypeOK
      <3> QED BY <3>1, <3>2
    <2> QED BY <2>4, <2>5
  <1>14. ASSUME NEW t \in Threads, Post(t) PROVE EventsInProgress'
    <2>1. EventsNotEarly'
      BY <1>14, QueueAssumption
         DEF Post, Return, EventsNotEarly, EventsNotLost, HolderKnows,
             PopTellsAll, Holder, Control, Locked, Empty, Full, QueueTypeOK,
             CallTypeOK, Events, ThreadTypeOK
    <2>2. EventsNotLost'
      BY <1>14, QueueAssumption
         DEF Post, Return, EventsNotEarly, EventsNotLost, HolderKnows,
             PopTellsAll, Holder, Control, Locked, Empty, Full, QueueTypeOK,
             CallTypeOK, Events, ThreadTypeOK
    <2>3. HolderKnows'
      BY <1>14, QueueAssumption
         DEF Post, Return, EventsNotEarly, EventsNotLost, HolderKnows,
             PopTellsAll, Holder, Control, Locked, Empty, Full, QueueTypeOK,
             CallTypeOK, Events, ThreadTypeOK
    <2>4. PopTellsAll'
      BY <1>14, QueueAssumption
         DEF Post, Return, EventsNotEarly, EventsNotLost, HolderKnows,
             PopTellsAll, Holder, Control, Locked, Empty, Full, QueueTypeOK,
             CallTypeOK, Events, ThreadTypeOK
    <2>5. Sleepers'
      BY <1>14, QueueAssumption
         DEF Post, Return, Sleepers, Control, QueueTypeOK, Events, ThreadTypeOK
    <2> QED BY <2>1, <2>2, <2>3, <2>4, <2>5
  <1>15. ASSUME NEW t \in Threads, Check(t) PROVE EventsInProgress'
    <2>1. t # lock /\ UNCHANGED <<ring, popped, lock, event>>
      BY <1>15 DEF Check, Return, Control, Locked
    <2>2. \A u \in Threads \ {t} : pc'[u] = pc[u] /\ op'[u] = op[u] /\ done'[u] = done[u]
      BY <1>15 DEF Check, Return, ThreadTypeOK, CallTypeOK
    <2>3. Sleepers'
      BY <1>15 DEF Check, Return, Sleepers, ThreadTypeOK
    <2> QED BY <2>1, <2>2, <2>3, OutsideLock
  <1>16. CASE UNCHANGED vars
    BY <1>16
       DEF vars, EventsNotEarly, EventsNotLost, HolderKnows, PopTellsAll,
           Sleepers, Holder, Empty, Full
  <1> QED BY <1>1, <1>2, <1>3, <1>4, <1>5, <1>6, <1>7, <1>8, <1>9, <1>10, <1>11,
             <1>12, <1>13, <1>14, <1>15, <1>16
             DEF Next, Step

\* The inductive invariant holds in every behaviour.
THEOREM Inductive == Spec => []IInv
  <1>1. IInv /\ [Next]_vars => IInv'
    BY NextQueueType, NextThreadType, NextCallType, NextControl, NextRingShape,
       NextEvents
       DEF IInv, TypeOK
  <1> QED BY <1>1, InitIInv, PTL DEF Spec

\* Type correctness of the queue and of the calls on it.
THEOREM TypeCorrect == Spec => []TypeOK
  <1>1. IInv => TypeOK
    BY DEF IInv
  <1> QED BY <1>1, Inductive, PTL

\* However the ring wraps and whoever races, the slots that hold a value are
\* exactly those between start_index and end_index.
THEOREM RingShapeHolds == Spec => []RingShape
  <1>1. IInv => RingShape
    BY DEF IInv
  <1> QED BY <1>1, Inductive, PTL

\* With the lock free the two events of a live queue tell its fill.
THEOREM EventsTellFillHolds == Spec => []EventsTellFill
  <1>1. IInv => EventsTellFill
    BY QueueAssumption
       DEF IInv, EventsInProgress, EventsNotEarly, EventsNotLost, EventsTellFill, Holder
  <1> QED BY <1>1, Inductive, PTL

\* No thread sleeps through the event it waits for, spurious wake-ups or not.
THEOREM NoLostWakeupHolds == Spec => []NoLostWakeup
  <1>1. IInv => NoLostWakeup
    <2> SUFFICES ASSUME IInv, NEW t \in Threads, pc[t] = "asleep", lock = NoThread
                 PROVE  /\ ~popped
                        /\ op[t] = "read" => Empty
                        /\ op[t] = "write" => Full
      BY DEF NoLostWakeup
    <2>1. op[t] \in {"read", "write"} /\ ~event[op[t]]
      BY DEF IInv, Control, EventsInProgress, Sleepers
    <2>2. ~ \E calling, at : Holder(calling, at)
      BY QueueAssumption DEF Holder
    <2> QED BY <2>1, <2>2 DEF IInv, EventsInProgress, EventsNotLost, PopTellsAll
  <1> QED BY <1>1, Inductive, PTL

-----------------------------------------------------------------------------
(* Calls that fail.                                                        *)

\* What vxSetEvent, or going on without it, does to the events and to the
\* places of the threads.
Announced(t, e) ==
  /\ \A x \in Events : event[x] => event'[x]
  /\ pc'[t] \notin {"idle", "woken"}
  /\ \A u \in Threads \ {t} :
       pc'[u] = pc[u] \/ (pc[u] = "asleep" /\ op[u] = e /\ event'[e])

LEMMA SetEventEffect ==
  ASSUME QueueTypeOK, ThreadTypeOK, NEW t \in Threads, NEW e \in Events,
         NEW where \in {"signal write", "signal read", "post"},
         SetEvent(t, e, where) \/ (Goto(t, where) /\ UNCHANGED event)
  PROVE  Announced(t, e)
  <1>1. CASE SetEvent(t, e, where)
    <2>1. \A x \in Events : event'[x] = (x = e \/ event[x])
      BY <1>1 DEF SetEvent, QueueTypeOK
    <2>2. pc'[t] = where
      BY <1>1 DEF SetEvent
    <2>3. \A u \in Threads \ {t} :
            pc'[u] = IF pc[u] = "asleep" /\ op[u] = e THEN "woken" ELSE pc[u]
      BY <1>1 DEF SetEvent
    <2> QED BY <2>1, <2>2, <2>3 DEF Announced
  <1>2. CASE Goto(t, where) /\ UNCHANGED event
    <2>1. pc'[t] = where /\ \A u \in Threads \ {t} : pc'[u] = pc[u]
      BY <1>2 DEF Goto, ThreadTypeOK
    <2> QED BY <1>2, <2>1 DEF Announced
  <1> QED BY <1>1, <1>2

LEMMA NextWokenInTime ==
  ASSUME QueueTypeOK, ThreadTypeOK, Control, WokenInTime, [Next]_vars
  PROVE  WokenInTime'
  <1> USE DEF WokenInTime, QueueTypeOK, ThreadTypeOK, Events, Control, Goto, ring, locals
  <1>1. ASSUME NEW t \in Threads, CallWrite(t) PROVE WokenInTime'
    <2>1. PICK v \in Items : Call(t, "write", v, "wait")
      BY <1>1 DEF CallWrite
    <2> QED BY <2>1, <1>1 DEF CallWrite, Call
  <1>2. ASSUME NEW t \in Threads, CallRead(t) PROVE WokenInTime'
    BY <1>2 DEF CallRead, Call
  <1>3. ASSUME NEW t \in Threads, CallPop(t) PROVE WokenInTime'
    BY <1>3 DEF CallPop, Call
  <1>4. ASSUME NEW t \in Threads, SpuriousWake(t) PROVE WokenInTime'
    BY <1>4 DEF SpuriousWake, Alone
  <1>5. ASSUME NEW t \in Threads, WaitEvent(t) PROVE WokenInTime'
    BY <1>5 DEF WaitEvent
  <1>6. ASSUME NEW t \in Threads, Recheck(t) PROVE WokenInTime'
    BY <1>6 DEF Recheck, Return
  <1>7. ASSUME NEW t \in Threads, Acquire(t) PROVE WokenInTime'
    BY <1>7 DEF Acquire
  <1>8. ASSUME NEW t \in Threads, BodyPopped(t) PROVE WokenInTime'
    BY <1>8 DEF BodyPopped
  <1>9. ASSUME NEW t \in Threads, BodyWrite(t) PROVE WokenInTime'
    <2>1. /\ op' = op /\ pc' = [pc EXCEPT ![t] = "signal write"]
          /\ op[t] = "write" /\ pc[t] = "body"
          /\ event' = [event EXCEPT !["write"] = FALSE] /\ popped' = popped
      BY <1>9 DEF BodyWrite
    <2>2. ASSUME NEW u \in Threads, Alone(u), pc[u] = "woken", op[u] = "write"
          PROVE  FALSE
      BY <2>1, <2>2 DEF Alone
    <2> QED BY <2>1, <2>2 DEF Alone
  <1>10. ASSUME NEW t \in Threads, BodyRead(t) PROVE WokenInTime'
    <2>1. /\ op' = op /\ pc' = [pc EXCEPT ![t] = "signal write"]
          /\ op[t] = "read" /\ pc[t] = "body" /\ popped' = popped
          /\ event' = event \/ event' = [event EXCEPT !["read"] = FALSE]
      BY <1>10 DEF BodyRead
    <2>2. ASSUME NEW u \in Threads, Alone(u), pc[u] = "woken", op[u] = "read"
          PROVE  FALSE
      BY <2>1, <2>2 DEF Alone
    <2> QED BY <2>1, <2>2 DEF Alone
  <1>11. ASSUME NEW t \in Threads, BodyPop(t) PROVE WokenInTime'
    BY <1>11 DEF BodyPop
  <1>12. ASSUME NEW t \in Threads, SignalWrite(t) PROVE WokenInTime'
    <2>1. op' = op /\ popped' = popped /\ pc[t] \notin {"idle", "woken"}
      BY <1>12 DEF SignalWrite
    <2>2. Announced(t, "write")
      BY <1>12, SetEventEffect DEF SignalWrite
    <2>3. \A u \in Threads : pc[u] = "woken" => op[u] \in {"read", "write"}
      OBVIOUS
    <2> QED BY <2>1, <2>2, <2>3 DEF Announced
  <1>13. ASSUME NEW t \in Threads, SignalRead(t) PROVE WokenInTime'
    <2>1. op' = op /\ popped' = popped /\ pc[t] \notin {"idle", "woken"}
      BY <1>13 DEF SignalRead
    <2>2. Announced(t, "read")
      BY <1>13, SetEventEffect DEF SignalRead
    <2>3. \A u \in Threads : pc[u] = "woken" => op[u] \in {"read", "write"}
      OBVIOUS
    <2> QED BY <2>1, <2>2, <2>3 DEF Announced
  <1>14. ASSUME NEW t \in Threads, Post(t) PROVE WokenInTime'
    BY <1>14 DEF Post, Return
  <1>15. ASSUME NEW t \in Threads, Check(t) PROVE WokenInTime'
    BY <1>15 DEF Check, Return
  <1>16. CASE UNCHANGED vars
    BY <1>16 DEF vars, Alone
  <1> QED BY <1>1, <1>2, <1>3, <1>4, <1>5, <1>6, <1>7, <1>8, <1>9, <1>10, <1>11,
             <1>12, <1>13, <1>14, <1>15, <1>16
             DEF Next, Step

LEMMA NextFailOnlyIfPopped ==
  ASSUME CallTypeOK, ThreadTypeOK, WokenInTime, FailOnlyIfPopped, [Next]_vars
  PROVE  FailOnlyIfPopped'
  <1> SUFFICES ASSUME NEW u \in Threads, Alone(u), failed'[u] PROVE popped'
    BY DEF FailOnlyIfPopped, Alone
  <1>1. popped => popped'
    BY DEF Next, Step, vars, CallWrite, CallRead, CallPop, Call, SpuriousWake,
       WaitEvent, Recheck, Acquire, BodyPopped, BodyWrite, BodyRead, BodyPop,
       SignalWrite, SignalRead, Post, Check
  <1>2. CASE failed[u]
    BY <1>1, <1>2 DEF FailOnlyIfPopped
  <1>3. CASE ~failed[u]
    <2>1. ASSUME NEW t \in Threads, Recheck(t) PROVE popped'
      <3>1. u = t /\ pc[t] = "woken" /\ ~event[op[t]]
        BY <1>3, <2>1 DEF Recheck, Return, CallTypeOK, locals
      <3> QED BY <1>1, <3>1 DEF WokenInTime
    <2>2. ASSUME NEW t \in Threads, Check(t) PROVE popped'
      <3>1. u = t /\ (popped \/ done[t]) /\ ~done[t]
        BY <1>3, <2>2 DEF Check, Return, CallTypeOK, locals
      <3> QED BY <1>1, <3>1
    <2>3. ASSUME NEW t \in Threads, Post(t) PROVE FALSE
      BY <1>3, <2>3 DEF Post, Return, CallTypeOK, locals
    <2>4. ASSUME NEW t \in Threads,
                 \/ CallWrite(t) \/ CallRead(t) \/ CallPop(t)
          PROVE  FALSE
      BY <1>3, <2>4 DEF CallWrite, CallRead, CallPop, Call, CallTypeOK
    <2>5. ASSUME NEW t \in Threads,
                 \/ SpuriousWake(t) \/ WaitEvent(t) \/ Acquire(t) \/ BodyPopped(t)
                 \/ BodyWrite(t) \/ BodyRead(t) \/ BodyPop(t)
                 \/ SignalWrite(t) \/ SignalRead(t)
          PROVE  FALSE
      BY <1>3, <2>5 DEF SpuriousWake, WaitEvent, Acquire, BodyPopped, BodyWrite,
         BodyRead, BodyPop, SignalWrite, SignalRead, locals
    <2>6. CASE UNCHANGED vars
      BY <1>3, <2>6 DEF vars, locals
    <2> QED BY <2>1, <2>2, <2>3, <2>4, <2>5, <2>6 DEF Next, Step
  <1> QED BY <1>2, <1>3

\* A call of a thread that competes with nobody for its event and does not
\* wake up for nothing fails only once the queue is popped.
THEOREM FailOnlyIfPoppedHolds == Spec => []FailOnlyIfPopped
  <1>1. Init => WokenInTime /\ FailOnlyIfPopped
    BY DEF Init, WokenInTime, FailOnlyIfPopped
  <1>2. IInv /\ WokenInTime /\ [Next]_vars => WokenInTime'
    BY NextWokenInTime DEF IInv, TypeOK
  <1>3. IInv /\ WokenInTime /\ FailOnlyIfPopped /\ [Next]_vars => FailOnlyIfPopped'
    BY NextFailOnlyIfPopped DEF IInv, TypeOK
  <1> QED BY <1>1, <1>2, <1>3, Inductive, PTL DEF Spec

-----------------------------------------------------------------------------
(* The ring is a bounded FIFO.                                             *)

\* Remainders of the numbers that occur, without the remainder.
LEMMA Remainder ==
  /\ \A n \in 0 .. 2 * Depth - 1 : n % Depth = IF n < Depth THEN n ELSE n - Depth
  /\ \A n \in -Depth .. -1 : n % Depth = n + Depth
  <1> USE QueueAssumption
  <1>1. ASSUME NEW n \in 0 .. 2 * Depth - 1
        PROVE  n % Depth = IF n < Depth THEN n ELSE n - Depth
    <2>1. CASE n < Depth
      BY <2>1
    <2>2. CASE ~(n < Depth)
      <3>1. n - Depth \in 0 .. Depth - 1
        BY <2>2
      <3>2. n = Depth * 1 + (n - Depth)
        OBVIOUS
      <3> QED BY <2>2, <3>1, <3>2
    <2> QED BY <2>1, <2>2
  <1>2. ASSUME NEW n \in -Depth .. -1 PROVE n % Depth = n + Depth
    <2>1. n + Depth \in 0 .. Depth - 1
      OBVIOUS
    <2>2. n = Depth * (-1) + (n + Depth)
      OBVIOUS
    <2> QED BY <2>1, <2>2
  <1> QED BY <1>1, <1>2

\* The number of values between s and e, and the slot k places after s,
\* without the remainder.
Distance(s, e) == IF e = -1 THEN 0 ELSE IF s < e THEN e - s ELSE e - s + Depth
After(s, k) == IF s + k < Depth THEN s + k ELSE s + k - Depth

\* What the sequence of the values in the ring is.
ContentsAre ==
  /\ Length = Distance(start_index, end_index)
  /\ Length \in 0 .. Depth
  /\ Contents \in Seq(Items)
  /\ Len(Contents) = Length
  /\ \A k \in 1 .. Length : Contents[k] = data[After(start_index, k - 1)]

LEMMA ContentsFacts == QueueTypeOK /\ RingShape => ContentsAre
  <1> SUFFICES ASSUME QueueTypeOK, RingShape PROVE ContentsAre
    OBVIOUS
  <1> USE QueueAssumption
  <1>1. Length = Distance(start_index, end_index)
    <2>1. CASE Empty
      <3>1. ~Full
        BY <2>1 DEF Empty, Full, QueueTypeOK, Slots
      <3>2. Length = 0
        BY <2>1, <3>1, Zenon DEF Length
      <3> QED BY <2>1, <3>2 DEF Empty, Distance
    <2>2. CASE ~Empty /\ Full
      BY <2>2 DEF Empty, Full, Length, Distance, QueueTypeOK, Slots
    <2>3. CASE ~Empty /\ ~Full
      <3>1. end_index \in Slots /\ start_index \in Slots /\ start_index # end_index
        BY <2>3 DEF Empty, Full, QueueTypeOK
      <3>2. (end_index - start_index) % Depth
              = IF start_index < end_index THEN end_index - start_index
                                           ELSE end_index - start_index + Depth
        <4>1. CASE start_index < end_index
          <5>1. end_index - start_index \in 0 .. 2 * Depth - 1 /\ end_index - start_index < Depth
            BY <4>1, <3>1 DEF Slots
          <5> QED BY <5>1, <4>1, Remainder
        <4>2. CASE ~(start_index < end_index)
          <5>1. end_index - start_index \in -Depth .. -1
            BY <4>2, <3>1 DEF Slots
          <5> QED BY <5>1, <4>2, Remainder
        <4> QED BY <4>1, <4>2
      <3> QED BY <2>3, <3>1, <3>2 DEF Length, Distance, Empty, Full
    <2> QED BY <2>1, <2>2, <2>3
  <1>2. Length \in 0 .. Depth
    BY <1>1 DEF Distance, QueueTypeOK, Slots
  <1>3. \A k \in 1 .. Length :
          /\ (start_index + k - 1) % Depth = After(start_index, k - 1)
          /\ data[After(start_index, k - 1)] \in Items
    <2> SUFFICES ASSUME NEW k \in 1 .. Length
                 PROVE  /\ (start_index + k - 1) % Depth = After(start_index, k - 1)
                        /\ data[After(start_index, k - 1)] \in Items
      OBVIOUS
    <2>1. start_index + k - 1 \in 0 .. 2 * Depth - 1
      BY <1>2 DEF QueueTypeOK, Slots
    <2>2. (start_index + k - 1) % Depth = After(start_index, k - 1)
      <3>1. start_index + k - 1 = start_index + (k - 1)
        BY DEF QueueTypeOK, Slots
      <3>2. (start_index + k - 1) % Depth
              = IF start_index + k - 1 < Depth THEN start_index + k - 1
                                               ELSE start_index + k - 1 - Depth
        <4>1. PICK n \in 0 .. 2 * Depth - 1 : n = start_index + k - 1
          BY <2>1
        <4>2. n % Depth = IF n < Depth THEN n ELSE n - Depth
          BY Remainder, Zenon
        <4>3. n % Depth = (start_index + k - 1) % Depth
          BY <4>1, Zenon
        <4>4. n < Depth <=> start_index + k - 1 < Depth
          BY <4>1, Zenon
        <4>5. n - Depth = start_index + k - 1 - Depth
          BY <4>1 DEF QueueTypeOK, Slots
        <4> QED BY <4>1, <4>2, <4>3, <4>4, <4>5, Zenon
      <3> QED BY <3>1, <3>2, Zenon DEF After
    <2>3. After(start_index, k - 1) \in Slots
      BY <1>2 DEF After, QueueTypeOK, Slots
    <2>4. InWindow(After(start_index, k - 1))
      BY <1>1, <2>3 DEF InWindow, Distance, After, Empty, QueueTypeOK, Slots
    <2> QED BY <2>2, <2>3, <2>4 DEF RingShape, QueueTypeOK
  <1>4. Contents = [k \in 1 .. Length |-> data[After(start_index, k - 1)]]
    BY <1>3 DEF Contents
  <1>5. Contents \in [1 .. Length -> Items]
    BY <1>3, <1>4
  <1>6. Contents \in Seq(Items)
    BY <1>2, <1>5, SeqDef
  <1>7. Len(Contents) = Length
    <2>1. DOMAIN Contents = 1 .. Len(Contents) /\ Len(Contents) \in Nat
      BY <1>6, LenProperties
    <2>2. \A k \in Nat : k \in 1 .. Len(Contents) <=> k \in 1 .. Length
      BY <2>1, <1>5
    <2>3. Length \in Nat
      BY <1>2
    <2>4. Len(Contents) \in 1 .. Len(Contents) <=> Len(Contents) \in 1 .. Length
      BY <2>1, <2>2, Zenon
    <2>5. Length \in 1 .. Len(Contents) <=> Length \in 1 .. Length
      BY <2>2, <2>3, Zenon
    <2>6. \A m, n \in Nat :
            /\ m \in 1 .. m <=> m \in 1 .. n
            /\ n \in 1 .. m <=> n \in 1 .. n
            => m = n
      OBVIOUS
    <2> QED BY <2>1, <2>3, <2>4, <2>5, <2>6, Zenon
  <1> QED BY <1>1, <1>2, <1>4, <1>6, <1>7 DEF ContentsAre

\* vxWriteQueue appends its value, vxReadQueue takes the oldest one.
LEMMA WritePuts ==
  ASSUME QueueTypeOK, ThreadTypeOK, Control, ContentsAre, ContentsAre',
         NEW t \in Threads, BodyWrite(t), ~Full
  PROVE  Fifo!Put(t)
  <1> USE QueueAssumption
  <1>1. item[t] \in Items /\ ~popped /\ UNCHANGED <<popped, item>>
    BY DEF BodyWrite, Control
  <1>2. /\ data' = [data EXCEPT ![WriteSlot] = item[t]]
        /\ end_index' = NextSlot(WriteSlot)
        /\ start_index' = start_index
    BY DEF BodyWrite
  <1>3. WriteSlot \in Slots
    BY DEF WriteSlot, Empty, QueueTypeOK
  <1>4. end_index' = IF WriteSlot = Depth - 1 THEN 0 ELSE WriteSlot + 1
    BY <1>2, <1>3, NextSlotWraps
  <1>5. Length < Depth /\ Length' = Length + 1
    <2>1. /\ Length = Distance(start_index, end_index)
          /\ Length' = Distance(start_index', end_index')
          /\ start_index \in 0 .. Depth - 1 /\ end_index \in -1 .. Depth - 1
      BY DEF ContentsAre, QueueTypeOK, Slots
    <2>2. CASE Empty
      BY <1>2, <1>4, <2>1, <2>2 DEF Distance, WriteSlot, Empty, Full
    <2>3. CASE ~Empty
      BY <1>2, <1>4, <2>1, <2>3 DEF Distance, WriteSlot, Empty, Full
    <2> QED BY <2>2, <2>3
  <1>6. After(start_index, Length) = WriteSlot
    BY <1>5 DEF ContentsAre, Distance, After, WriteSlot, Empty, Full, QueueTypeOK, Slots
  <1>7. \A k \in 1 .. Length :
          After(start_index, k - 1) \in Slots /\ After(start_index, k - 1) # WriteSlot
    BY <1>5, <1>6 DEF After, ContentsAre, QueueTypeOK, Slots
  <1>8. Contents' = Append(Contents, item[t])
    <2>1. /\ Append(Contents, item[t]) \in Seq(Items)
          /\ Len(Append(Contents, item[t])) = Length + 1
          /\ \A k \in 1 .. Length : Append(Contents, item[t])[k] = Contents[k]
          /\ Append(Contents, item[t])[Length + 1] = item[t]
      BY <1>1, AppendProperties DEF ContentsAre
    <2>2. \A k \in 1 .. Length : Contents'[k] = Contents[k]
      BY <1>2, <1>5, <1>7 DEF ContentsAre, QueueTypeOK
    <2>3. Contents'[Length + 1] = item[t]
      BY <1>2, <1>3, <1>5, <1>6 DEF ContentsAre, QueueTypeOK
    <2>4. \A k \in 1 .. Len(Contents') : Contents'[k] = Append(Contents, item[t])[k]
      BY <2>1, <2>2, <2>3, <1>5 DEF ContentsAre
    <2> QED BY <2>1, <2>4, <1>5, SeqEqual DEF ContentsAre
  <1> QED BY <1>1, <1>5, <1>8 DEF Fifo!Put, ContentsAre

LEMMA ReadGets ==
  ASSUME QueueTypeOK, ThreadTypeOK, ContentsAre, ContentsAre',
         NEW t \in Threads, BodyRead(t), ~Empty
  PROVE  Fifo!Get(t)
  <1> USE QueueAssumption
  <1>1. ~popped /\ popped' = popped /\ item' = [item EXCEPT ![t] = data[start_index]]
    BY DEF BodyRead
  <1>2. /\ data' = [data EXCEPT ![start_index] = NoItem]
        /\ start_index' = NextSlot(start_index)
        /\ end_index' = IF NextSlot(start_index) = end_index THEN -1 ELSE end_index
    BY DEF BodyRead
  <1>3. start_index \in Slots /\ end_index \in Slots
    BY DEF Empty, QueueTypeOK
  <1>4. start_index' = IF start_index = Depth - 1 THEN 0 ELSE start_index + 1
    BY <1>2, <1>3, NextSlotWraps
  <1>5. 0 < Length /\ Length' = Length - 1
    <2>1. /\ Length = Distance(start_index, end_index)
          /\ Length' = Distance(start_index', end_index')
          /\ start_index \in 0 .. Depth - 1 /\ end_index \in 0 .. Depth - 1
      BY <1>3 DEF ContentsAre, Slots
    <2>2. end_index' = IF start_index' = end_index THEN -1 ELSE end_index
      BY <1>2
    <2>3. start_index' \in 0 .. Depth - 1
      BY <1>4, <2>1
    <2>4. CASE start_index = Depth - 1
      BY <1>4, <2>1, <2>2, <2>3, <2>4 DEF Distance
    <2>5. CASE start_index # Depth - 1
      BY <1>4, <2>1, <2>2, <2>3, <2>5 DEF Distance
    <2> QED BY <2>4, <2>5
  <1>6. \A k \in 1 .. Length' :
          /\ After(start_index', k - 1) = After(start_index, k)
          /\ After(start_index, k) \in Slots \ {start_index}
    <2> SUFFICES ASSUME NEW k \in 1 .. Length'
                 PROVE  /\ After(start_index', k - 1) = After(start_index, k)
                        /\ After(start_index, k) \in Slots \ {start_index}
      BY Zenon
    <2>1. k \in 1 .. Depth - 1 /\ start_index \in 0 .. Depth - 1 /\ Depth \in Nat \ {0}
      BY <1>3, <1>5 DEF ContentsAre, Slots
    <2>2. CASE start_index = Depth - 1
      BY <1>4, <2>1, <2>2 DEF After, Slots
    <2>3. CASE start_index # Depth - 1
      BY <1>4, <2>1, <2>3 DEF After, Slots
    <2> QED BY <2>2, <2>3
  <1>7. Contents # << >> /\ Head(Contents) = data[start_index]
    <2>1. Contents[1] = data[After(start_index, 0)] /\ After(start_index, 0) = start_index
      BY <1>3, <1>5 DEF ContentsAre, After, Slots
    <2> QED BY <1>5, <2>1, EmptySeq DEF ContentsAre
  <1>8. Contents' = Tail(Contents)
    <2>1. /\ Tail(Contents) \in Seq(Items)
          /\ Len(Tail(Contents)) = Length - 1
          /\ \A k \in 1 .. Length - 1 : Tail(Contents)[k] = Contents[k + 1]
      BY <1>7, HeadTailProperties DEF ContentsAre
    <2>2. \A k \in 1 .. Length - 1 : Contents'[k] = Contents[k + 1]
      <3> SUFFICES ASSUME NEW k \in 1 .. Length - 1 PROVE Contents'[k] = Contents[k + 1]
        OBVIOUS
      <3>1. Contents'[k] = data'[After(start_index', k - 1)]
        BY <1>5 DEF ContentsAre
      <3>2. k + 1 \in 1 .. Length /\ (k + 1) - 1 = k
        BY <1>5 DEF ContentsAre
      <3>3. Contents[k + 1] = data[After(start_index, k)]
        BY <3>2, Zenon DEF ContentsAre
      <3> QED BY <3>1, <3>3, <1>2, <1>5, <1>6 DEF QueueTypeOK
    <2> QED BY <2>1, <2>2, <1>5, SeqEqual DEF ContentsAre
  <1> QED BY <1>1, <1>7, <1>8 DEF Fifo!Get

LEMMA StepRefines ==
  ASSUME IInv, ContentsAre, ContentsAre', [Next]_vars
  PROVE  [Fifo!Next]_Fifo!fifoVars
  <1>1. \/ UNCHANGED <<ring, popped, item>>
        \/ \E t \in Threads :
             \/ BodyWrite(t) /\ ~Full
             \/ BodyRead(t) /\ ~Empty
             \/ BodyPop(t)
             \/ /\ \E v \in Items \cup {NoItem} : item' = [item EXCEPT ![t] = v]
                /\ UNCHANGED <<ring, popped>>
    <2>1. ASSUME NEW t \in Threads, CallWrite(t)
          PROVE  /\ \E v \in Items \cup {NoItem} : item' = [item EXCEPT ![t] = v]
                 /\ UNCHANGED <<ring, popped>>
      BY <2>1, Zenon DEF CallWrite, Call
    <2>2. ASSUME NEW t \in Threads, CallRead(t) \/ CallPop(t)
          PROVE  /\ \E v \in Items \cup {NoItem} : item' = [item EXCEPT ![t] = v]
                 /\ UNCHANGED <<ring, popped>>
      BY <2>2 DEF CallRead, CallPop, Call
    <2>3. ASSUME NEW t \in Threads,
                 \/ SpuriousWake(t) \/ WaitEvent(t) \/ Recheck(t) \/ Acquire(t)
                 \/ BodyPopped(t) \/ SignalWrite(t) \/ SignalRead(t)
                 \/ Post(t) \/ Check(t)
          PROVE  UNCHANGED <<ring, popped, item>>
      BY <2>3 DEF SpuriousWake, WaitEvent, Recheck, Acquire, BodyPopped,
         SignalWrite, SignalRead, Post, Check, Return, locals
    <2>4. ASSUME NEW t \in Threads, BodyWrite(t), Full
          PROVE  UNCHANGED <<ring, popped, item>>
      BY <2>4 DEF BodyWrite
    <2>5. ASSUME NEW t \in Threads, BodyRead(t), Empty
          PROVE  UNCHANGED <<ring, popped, item>>
      BY <2>5 DEF BodyRead
    <2>6. CASE UNCHANGED vars
      BY <2>6 DEF vars, locals
    <2> QED BY <2>1, <2>2, <2>3, <2>4, <2>5, <2>6 DEF Next, Step
  <1>2. ASSUME UNCHANGED ring PROVE UNCHANGED Contents
    BY <1>2 DEF ring, Contents, Length, Empty, Full
  <1>3. CASE UNCHANGED <<ring, popped, item>>
    BY <1>2, <1>3 DEF Fifo!fifoVars
  <1>4. ASSUME NEW t \in Threads, BodyWrite(t), ~Full PROVE Fifo!Next
    BY <1>4, WritePuts DEF IInv, TypeOK, Fifo!Next
  <1>5. ASSUME NEW t \in Threads, BodyRead(t), ~Empty PROVE Fifo!Next
    BY <1>5, ReadGets DEF IInv, TypeOK, Fifo!Next
  <1>6. ASSUME NEW t \in Threads, BodyPop(t) PROVE Fifo!Next
    <2>1. UNCHANGED <<ring, item>> /\ popped'
      BY <1>6 DEF BodyPop, locals
    <2> QED BY <2>1, <1>2 DEF Fifo!Next, Fifo!Close
  <1>7. ASSUME NEW t \in Threads, NEW v \in Items \cup {NoItem},
               item' = [item EXCEPT ![t] = v], UNCHANGED <<ring, popped>>
        PROVE  Fifo!Next
    BY <1>2, <1>7, Zenon DEF Fifo!Next, Fifo!Hold
  <1> QED BY <1>1, <1>3, <1>4, <1>5, <1>6, <1>7

\* The ring with its two indices, its lock and its two events is a bounded
\* FIFO: no value is lost, invented, delivered twice or out of order, and
\* nothing moves once the queue is popped.
THEOREM RefinesFifo == Spec => IsFifo
  <1>1. Init => Fifo!Init
    <2> SUFFICES ASSUME Init PROVE Fifo!Init
      OBVIOUS
    <2>1. Length = 0
      <3>1. Empty /\ ~Full
        BY DEF Init, Empty, Full
      <3> QED BY <3>1, Zenon DEF Length
    <2>2. Contents = << >>
      BY <2>1 DEF Contents
    <2> QED BY <2>2 DEF Init, Fifo!Init
  <1>2. IInv => ContentsAre
    BY ContentsFacts DEF IInv, TypeOK
  <1>3. IInv /\ ContentsAre /\ ContentsAre' /\ [Next]_vars => [Fifo!Next]_Fifo!fifoVars
    BY StepRefines
  <1> QED BY <1>1, <1>2, <1>3, Inductive, PTL DEF Spec, IsFifo, Fifo!Spec
=============================================================================

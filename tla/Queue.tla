------------------------------- MODULE Queue -------------------------------
(***************************************************************************)
(* The bounded queue of sample/framework/vx_osal.c: vxWriteQueue,          *)
(* vxReadQueue and vxPopQueue, run by any number of threads, on top of the *)
(* pthread event (mutex, condition variable, sticky flag) and the lock     *)
(* semaphore of the queue.  The graph queues proc.input and proc.output    *)
(* and the work queue of every threadpool worker are such queues.          *)
(*                                                                         *)
(* The lock makes the accesses to data, start_index and end_index atomic,  *)
(* so each is one step.  The two events are not protected by it: a thread  *)
(* that waits reads an event while another is between two of the calls it  *)
(* makes under the lock, so every vxSetEvent and vxResetEvent that matters *)
(* is a step of its own.                                                   *)
(***************************************************************************)
EXTENDS Integers, Sequences, FiniteSets

CONSTANTS
  Depth,      \* VX_INT_MAX_QUEUE_DEPTH
  Writers,    \* threads that call vxWriteQueue
  Readers,    \* threads that call vxReadQueue
  Poppers,    \* threads that call vxPopQueue
  Items,      \* the value sets that are queued
  NoItem,     \* the NULL pointer
  NoThread,   \* nobody holds the lock
  MaxCalls,   \* bound: calls a thread makes
  Spurious    \* threads pthread_cond_wait may return to without a broadcast

Threads == Writers \cup Readers \cup Poppers

ASSUME QueueAssumption ==
  /\ Depth \in Nat \ {0}
  /\ MaxCalls \in Nat
  /\ NoItem \notin Items
  /\ NoThread \notin Threads
  /\ Spurious \subseteq Threads

VARIABLES
  data,         \* q->data
  start_index,  \* q->start_index
  end_index,    \* q->end_index, -1 when the queue is empty
  popped,       \* q->popped
  lock,         \* holder of the semaphore q->lock
  event,        \* the flag `set' of q->readEvent and q->writeEvent
  pc,           \* where each thread is
  op,           \* the call it is in
  item,         \* its argument of vxWriteQueue, or what vxReadQueue gave it
  done,         \* its local variable `wrote' or `red'
  failed,       \* its last call returned vx_false_e
  calls         \* calls it has started

ring == <<data, start_index, end_index>>
locals == <<op, item, done, failed, calls>>
vars == <<ring, popped, lock, event, pc, locals>>

Slots == 0 .. Depth - 1
Events == {"read", "write"}
Empty == end_index = -1
Full == start_index = end_index

Init ==
  /\ data = [s \in Slots |-> NoItem]
  /\ start_index = 0
  /\ end_index = -1
  /\ popped = FALSE
  /\ lock = NoThread
  /\ event = [e \in Events |-> e = "write"]
  /\ pc = [t \in Threads |-> "idle"]
  /\ op = [t \in Threads |-> "none"]
  /\ item = [t \in Threads |-> NoItem]
  /\ done = [t \in Threads |-> FALSE]
  /\ failed = [t \in Threads |-> FALSE]
  /\ calls = [t \in Threads |-> 0]

-----------------------------------------------------------------------------
(* Calls and returns.                                                      *)

Goto(t, where) == pc' = [pc EXCEPT ![t] = where]

Call(t, what, v, where) ==
  /\ pc[t] = "idle"
  /\ calls[t] < MaxCalls
  /\ op' = [op EXCEPT ![t] = what]
  /\ item' = [item EXCEPT ![t] = v]
  /\ done' = [done EXCEPT ![t] = FALSE]
  /\ failed' = [failed EXCEPT ![t] = FALSE]
  /\ calls' = [calls EXCEPT ![t] = @ + 1]
  /\ Goto(t, where)
  /\ UNCHANGED <<ring, popped, lock, event>>

Return(t, ok) ==
  /\ Goto(t, "idle")
  /\ op' = [op EXCEPT ![t] = "none"]
  /\ done' = [done EXCEPT ![t] = FALSE]
  /\ failed' = [failed EXCEPT ![t] = ~ok]
  /\ UNCHANGED <<item, calls>>

CallWrite(t) == t \in Writers /\ \E v \in Items : Call(t, "write", v, "wait")
CallRead(t) == t \in Readers /\ Call(t, "read", NoItem, "wait")
CallPop(t) == t \in Poppers /\ Call(t, "pop", NoItem, "acquire")

\* vxWaitEvent on an event that does not reset itself: a set event lets the
\* thread through, otherwise it waits on the condition variable.
WaitEvent(t) ==
  /\ pc[t] = "wait"
  /\ Goto(t, IF event[op[t]] THEN "acquire" ELSE "asleep")
  /\ UNCHANGED <<ring, popped, lock, event, locals>>

\* pthread_cond_wait may return although nobody called the broadcast.
SpuriousWake(t) ==
  /\ t \in Spurious
  /\ pc[t] = "asleep"
  /\ Goto(t, "woken")
  /\ UNCHANGED <<ring, popped, lock, event, locals>>

\* Back from pthread_cond_wait with the mutex of the event: the flag is read
\* once more, and if it is not set the wait, and with it the call, fails.
Recheck(t) ==
  /\ pc[t] = "woken"
  /\ IF event[op[t]] THEN Goto(t, "acquire") /\ UNCHANGED locals
                     ELSE Return(t, FALSE)
  /\ UNCHANGED <<ring, popped, lock, event>>

\* vxSetEvent: the flag, and the broadcast that wakes the waiting threads.
SetEvent_NoBroadcast(t, e, where) ==
  event' = [event EXCEPT ![e] = TRUE] /\ Goto(t, where)
SetEvent_NoFlag(t, e, where) ==
  /\ pc' = [u \in Threads |->
              IF u = t THEN where
              ELSE IF pc[u] = "asleep" /\ op[u] = e THEN "woken"
              ELSE pc[u]]
  /\ UNCHANGED event
SetEvent(t, e, where) ==
  /\ event' = [event EXCEPT ![e] = TRUE]
  /\ pc' = [u \in Threads |->
              IF u = t THEN where
              ELSE IF pc[u] = "asleep" /\ op[u] = e THEN "woken"
              ELSE pc[u]]

-----------------------------------------------------------------------------
(* Under the lock.                                                         *)

Acquire(t) ==
  /\ pc[t] = "acquire"
  /\ lock = NoThread
  /\ lock' = t
  /\ Goto(t, "body")
  /\ UNCHANGED <<ring, popped, event, locals>>

NextSlot(s) == (s + 1) % Depth

\* Where the next value goes: an empty ring starts again at start_index.
WriteSlot_FromZero == IF Empty THEN 0 ELSE end_index
WriteSlot == IF Empty THEN start_index ELSE end_index

\* A popped queue is left as it is by readers and writers.
BodyPopped(t) ==
  /\ pc[t] = "body"
  /\ op[t] \in {"read", "write"}
  /\ popped
  /\ Goto(t, "post")
  /\ UNCHANGED <<ring, popped, lock, event, locals>>

BodyWrite(t) ==
  /\ pc[t] = "body"
  /\ op[t] = "write"
  /\ ~popped
  /\ event' = [event EXCEPT !["write"] = FALSE]
  /\ IF Full
     THEN UNCHANGED <<ring, done>>
     ELSE /\ data' = [data EXCEPT ![WriteSlot] = item[t]]
          /\ end_index' = NextSlot(WriteSlot)
          /\ done' = [done EXCEPT ![t] = TRUE]
          /\ UNCHANGED start_index
  /\ Goto(t, "signal write")
  /\ UNCHANGED <<popped, lock, op, item, failed, calls>>

BodyRead(t) ==
  /\ pc[t] = "body"
  /\ op[t] = "read"
  /\ ~popped
  /\ IF Empty
     THEN UNCHANGED <<ring, event, item, done>>
     ELSE /\ item' = [item EXCEPT ![t] = data[start_index]]
          /\ data' = [data EXCEPT ![start_index] = NoItem]
          /\ start_index' = NextSlot(start_index)
          /\ done' = [done EXCEPT ![t] = TRUE]
          /\ IF NextSlot(start_index) = end_index
             THEN /\ event' = [event EXCEPT !["read"] = FALSE]
                  /\ end_index' = -1
             ELSE UNCHANGED <<event, end_index>>
  /\ Goto(t, "signal write")
  /\ UNCHANGED <<popped, lock, op, failed, calls>>

BodyPop(t) ==
  /\ pc[t] = "body"
  /\ op[t] = "pop"
  /\ popped' = TRUE
  /\ Goto(t, "signal read")
  /\ UNCHANGED <<ring, lock, event, locals>>

\* A reader and vxPopQueue always set writeEvent; a writer only if it wrote
\* and left some room.
AnnouncesRoom_ReaderForgets(t) == op[t] = "pop" \/ (done[t] /\ op[t] = "write" /\ ~Full)
AnnouncesRoom_PopForgets(t) == op[t] = "read" \/ (done[t] /\ op[t] = "write" /\ ~Full)
AnnouncesRoom(t) == op[t] = "write" => done[t] /\ ~Full

SignalWrite(t) ==
  /\ pc[t] = "signal write"
  /\ LET where == IF op[t] = "write" THEN "signal read" ELSE "post" IN
     IF AnnouncesRoom(t) THEN SetEvent(t, "write", where)
                         ELSE Goto(t, where) /\ UNCHANGED event
  /\ UNCHANGED <<ring, popped, lock, locals>>

\* A writer sets readEvent if there is something to read; vxPopQueue always.
SignalRead(t) ==
  /\ pc[t] = "signal read"
  /\ LET where == IF op[t] = "pop" THEN "signal write" ELSE "post" IN
     IF op[t] = "write" => ~Empty THEN SetEvent(t, "read", where)
                                  ELSE Goto(t, where) /\ UNCHANGED event
  /\ UNCHANGED <<ring, popped, lock, locals>>

Post(t) ==
  /\ pc[t] = "post"
  /\ lock' = NoThread
  /\ IF op[t] = "pop" THEN Return(t, TRUE)
                      ELSE Goto(t, "check") /\ UNCHANGED locals
  /\ UNCHANGED <<ring, popped, event>>

\* q->popped is read again after the lock has been released.
Check(t) ==
  /\ pc[t] = "check"
  /\ IF popped \/ done[t] THEN Return(t, done[t])
                          ELSE Goto(t, "wait") /\ UNCHANGED locals
  /\ UNCHANGED <<ring, popped, lock, event>>

-----------------------------------------------------------------------------
\* The steps a thread takes once it has made a call.
Step(t) ==
  \/ WaitEvent(t) \/ Recheck(t) \/ Acquire(t)
  \/ BodyPopped(t) \/ BodyWrite(t) \/ BodyRead(t) \/ BodyPop(t)
  \/ SignalWrite(t) \/ SignalRead(t) \/ Post(t) \/ Check(t)

Next == \E t \in Threads :
          CallWrite(t) \/ CallRead(t) \/ CallPop(t) \/ SpuriousWake(t) \/ Step(t)

Spec == Init /\ [][Next]_vars

\* Threads run: none stays forever before a step it can take.
FairSpec == Spec /\ \A t \in Threads : WF_vars(Step(t))

-----------------------------------------------------------------------------
(* Properties.                                                             *)

PCs == {"idle", "wait", "asleep", "woken", "acquire", "body",
        "signal write", "signal read", "post", "check"}
Locked == {"body", "signal write", "signal read", "post"}

QueueTypeOK ==
  /\ data \in [Slots -> Items \cup {NoItem}]
  /\ start_index \in Slots
  /\ end_index \in Slots \cup {-1}
  /\ popped \in BOOLEAN
  /\ lock \in Threads \cup {NoThread}
  /\ event \in [Events -> BOOLEAN]
ThreadTypeOK ==
  /\ pc \in [Threads -> PCs]
  /\ op \in [Threads -> {"none", "read", "write", "pop"}]
  /\ item \in [Threads -> Items \cup {NoItem}]
CallTypeOK ==
  /\ done \in [Threads -> BOOLEAN]
  /\ failed \in [Threads -> BOOLEAN]
  /\ calls \in [Threads -> 0 .. MaxCalls]
TypeOK == QueueTypeOK /\ ThreadTypeOK /\ CallTypeOK

\* Where a thread can be in each call, and that only the holder of the lock
\* is under it.
Control ==
  \A t \in Threads :
    /\ pc[t] \in Locked <=> lock = t
    /\ pc[t] # "idle" => op[t] # "none"
    /\ pc[t] \in {"wait", "asleep", "woken", "check"} => op[t] \in {"read", "write"}
    /\ pc[t] = "signal read" => op[t] \in {"write", "pop"}
    /\ op[t] = "write" => item[t] \in Items

\* The slots from start_index up to end_index, cyclically, hold a value and
\* the others are NULL: a value is neither overwritten nor left behind when
\* the ring wraps (vxWriteQueue, vxReadQueue).
InWindow(s) ==
  /\ ~Empty
  /\ IF start_index < end_index
     THEN start_index <= s /\ s < end_index
     ELSE s >= start_index \/ s < end_index
RingShape == \A s \in Slots : data[s] # NoItem <=> InWindow(s)

\* Whenever nobody is inside the lock of a live queue, readEvent is set
\* exactly if there is something to read and writeEvent exactly if there is
\* room (the set and reset calls of vxWriteQueue and vxReadQueue).
EventsTellFill ==
  lock = NoThread /\ ~popped => /\ event["read"] <=> ~Empty
                                /\ event["write"] <=> ~Full

\* The holder of the lock is in one of these calls, at one of these places.
Holder(calling, at) == lock \in Threads /\ op[lock] \in calling /\ pc[lock] \in at

\* What the events tell while the holder is between its calls: none is set
\* too early, and only those the holder has yet to set may be missing.
EventsNotEarly ==
  ~popped => /\ event["read"] => ~Empty
             /\ event["write"] => ~Full
EventsNotLost ==
  ~popped =>
    /\ Empty \/ event["read"] \/ Holder({"write"}, {"signal write", "signal read"})
    /\ Full \/ event["write"] \/ Holder({"read", "write"}, {"signal write"})
HolderKnows ==
  ~popped =>
    /\ Holder({"write"}, {"signal write", "signal read"}) => ~Empty
    /\ Holder({"write"}, {"signal write"}) => done[lock] \/ Full
    /\ Holder({"read"}, {"signal write"}) => ~Full
    /\ ~Holder({"pop"}, {"signal read", "signal write", "post"})
PopTellsAll ==
  popped => /\ event["read"] \/ Holder({"pop"}, {"signal read"})
            /\ event["write"] \/ Holder({"pop"}, {"signal read", "signal write"})
Sleepers == \A t \in Threads : pc[t] = "asleep" => ~event[op[t]]
EventsInProgress ==
  EventsNotEarly /\ EventsNotLost /\ HolderKnows /\ PopTellsAll /\ Sleepers

\* The inductive invariant behind the theorems of QueueProofs.
IInv == TypeOK /\ Control /\ RingShape /\ EventsInProgress

\* No lost wake-up: a thread sleeps on the condition variable only if there
\* is nothing for it to do, or a thread inside the lock will still wake it.
NoLostWakeup ==
  \A t \in Threads :
    pc[t] = "asleep" /\ lock = NoThread =>
      /\ ~popped
      /\ op[t] = "read" => Empty
      /\ op[t] = "write" => Full

\* A call gives up only on a popped queue: vxWriteQueue waits for room and
\* vxReadQueue for data (the loops around vxWaitEvent).  This is so for a
\* thread that is the only one to write if it writes and the only one to read
\* if it reads, and that does not wake up for nothing; any other may find the
\* event reset again when it looks at it once more, although there is room or
\* data.
Alone(t) ==
  /\ t \notin Spurious
  /\ t \in Writers => Writers = {t}
  /\ t \in Readers => Readers = {t}
FailOnlyIfPopped == \A t \in Threads : Alone(t) /\ failed[t] => popped

\* What keeps it so: the event that woke such a thread is still set when the
\* thread looks at it again.
WokenInTime ==
  \A t \in Threads :
    /\ pc[t] # "idle" /\ op[t] = "write" => t \in Writers
    /\ pc[t] # "idle" /\ op[t] = "read" => t \in Readers
    /\ Alone(t) /\ pc[t] = "woken" => popped \/ event[op[t]]

\* Refinement: the ring with its two events is a bounded FIFO.
Length == CASE Empty -> 0
            [] Full -> Depth
            [] OTHER -> (end_index - start_index) % Depth
Contents == [i \in 1 .. Length |-> data[(start_index + i - 1) % Depth]]
Fifo == INSTANCE BoundedFifo WITH queue <- Contents, hand <- item
IsFifo == Fifo!Spec

\* With the queue popped, every thread that is in a call returns from it:
\* vxPopQueue wakes readers and writers alike (threads are joined after it).
PopReleasesAll == popped ~> \A t \in Threads : pc[t] = "idle"

\* A reader and a writer never both sleep for good: a call that could be
\* served is served, so a thread rests in a call only with the queue empty
\* (a reader) or full (a writer).
Settles ==
  <>[](\A t \in Threads : \/ pc[t] = "idle"
                          \/ pc[t] = "asleep" /\ op[t] = "read" /\ Empty
                          \/ pc[t] = "asleep" /\ op[t] = "write" /\ Full)
=============================================================================

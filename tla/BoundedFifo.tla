---------------------------- MODULE BoundedFifo ----------------------------
(***************************************************************************)
(* What a vx_queue_t promises its users: values come out in the order they *)
(* went in, none is lost, invented or delivered twice, at most Depth are   *)
(* held, and once the queue is popped nothing moves any more.              *)
(* hand[t] is the value thread t passes to vxWriteQueue or has been given  *)
(* by vxReadQueue.                                                         *)
(***************************************************************************)
EXTENDS Naturals, Sequences

CONSTANTS Depth, Threads, Items, NoItem

VARIABLES queue, popped, hand

fifoVars == <<queue, popped, hand>>

Init ==
  /\ queue = <<>>
  /\ popped = FALSE
  /\ hand = [t \in Threads |-> NoItem]

\* A thread takes a value in hand, or drops it, before or after a call.
Hold(t) ==
  /\ \E v \in Items \cup {NoItem} : hand' = [hand EXCEPT ![t] = v]
  /\ UNCHANGED <<queue, popped>>

Put(t) ==
  /\ ~popped
  /\ hand[t] \in Items
  /\ Len(queue) < Depth
  /\ queue' = Append(queue, hand[t])
  /\ UNCHANGED <<popped, hand>>

Get(t) ==
  /\ ~popped
  /\ queue # <<>>
  /\ hand' = [hand EXCEPT ![t] = Head(queue)]
  /\ queue' = Tail(queue)
  /\ UNCHANGED popped

Close ==
  /\ popped' = TRUE
  /\ UNCHANGED <<queue, hand>>

Next == (\E t \in Threads : Hold(t) \/ Put(t) \/ Get(t)) \/ Close

Spec == Init /\ [][Next]_fifoVars
=============================================================================

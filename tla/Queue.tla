--------------------------------- MODULE Queue ---------------------------------
(***************************************************************************)
(* The ring buffer of libs/queue.c, under every queue of the OS (os.h casts *)
(* a process_queue to it).  `items' is an array of `capacity' pointers, the *)
(* queue is the `count' slots from `current' on, modulo the capacity.       *)
(***************************************************************************)
EXTENDS Integers, Sequences

CONSTANTS
  Item,       \* the pointers callers put in
  Capacity,   \* max_processes, for every queue of the OS
  Unset       \* a slot malloc has returned and nobody has written

ASSUME QueueAssumption ==
  /\ Capacity \in Nat \ {0}
  /\ Unset \notin Item

VARIABLES items, current, count, result

vars == <<items, current, count, result>>

Slots == 0 .. Capacity - 1

Ok       == [code |-> "OK"]
Got(x)   == [code |-> "OK", out |-> x]
Error(c) == [code |-> c]

\* Mutant: the position is not taken modulo the capacity.
SlotClipped(start, k) == IF start + k < Capacity THEN start + k ELSE Capacity - 1

\* The slot k places on from slot `start'.
Slot(start, k) == (start + k) % Capacity

\* Mutant: the index is not brought back into the array.
SlotBelowZero == current - 1

\* The slot before the first item.
SlotBefore == IF current - 1 < 0 THEN current - 1 + Capacity ELSE current - 1

\* queue_init
Init ==
  /\ items = [s \in Slots |-> Unset]
  /\ current = 0
  /\ count = 0
  /\ result = Ok

Refuse(c) == result' = Error(c) /\ UNCHANGED <<items, current, count>>

Enqueue(x) ==
  \/ count = Capacity /\ Refuse("ERR_QUEUE_FULL")
  \/ /\ count # Capacity
     /\ items' = [items EXCEPT ![Slot(current, count)] = x]
     /\ count' = count + 1
     /\ result' = Ok
     /\ UNCHANGED current

Dequeue ==
  \/ count = 0 /\ Refuse("ERR_QUEUE_EMPTY")
  \/ /\ count # 0
     /\ result' = Got(items[current])
     /\ count' = count - 1
     /\ current' = Slot(current, 1)
     /\ UNCHANGED items

Get(i) ==
  \/ (i < 0 \/ i >= count) /\ Refuse("ERR_OUT_OF_BOUNDS")
  \/ /\ 0 <= i /\ i < count
     /\ result' = Got(items[Slot(current, i)])
     /\ UNCHANGED <<items, current, count>>

RevDequeue(x) ==
  \/ count = Capacity /\ Refuse("ERR_QUEUE_FULL")
  \/ /\ count # Capacity
     /\ items' = [items EXCEPT ![SlotBefore] = x]
     /\ current' = SlotBefore
     /\ count' = count + 1
     /\ result' = Ok

\* The index is never below zero when the queue is not empty.
RevEnqueue ==
  \/ count = 0 /\ Refuse("ERR_QUEUE_EMPTY")
  \/ /\ count # 0
     /\ result' = Got(items[Slot(current, count - 1)])
     /\ count' = count - 1
     /\ UNCHANGED <<items, current>>

Next ==
  \/ \E x \in Item : Enqueue(x)
  \/ Dequeue
  \/ \E i \in -1 .. Capacity : Get(i)
  \/ \E x \in Item : RevDequeue(x)
  \/ RevEnqueue

Spec == Init /\ [][Next]_vars

--------------------------------------------------------------------------------
\* The array has its slots, the two counters stay within it, and the slots that
\* hold the queue have been written: no call gives out an unset pointer
\* (queue.c:38, 49, 74).
TypeOK ==
  /\ items \in [Slots -> Item \cup {Unset}]
  /\ current \in Slots
  /\ count \in 0 .. Capacity
  /\ \A k \in 0 .. count - 1 : items[Slot(current, k)] \in Item

\* The queue the array stands for.
Contents == [k \in 1 .. count |-> items[Slot(current, k - 1)]]

D == INSTANCE Deque WITH seq <- Contents

\* Every call does to the contents, and answers, what the abstract queue does:
\* the items wrap around the end of the array without one being overwritten,
\* lost or given out of order (queue.c:21-78).
ImplementsDeque == D!Spec

================================================================================

--------------------------------- MODULE Deque ---------------------------------
(***************************************************************************)
(* What libs/queue.h promises: a bounded queue.  The two rev_ calls undo   *)
(* the others: rev_dequeue puts an item back at the front, rev_enqueue     *)
(* takes the newest one out again.                                         *)
(***************************************************************************)
EXTENDS Integers, Sequences

CONSTANTS Item, Capacity

VARIABLES
  seq,      \* the items, oldest first
  result    \* what the last call returned: its code, and the item given out

Ok        == [code |-> "OK"]
Got(x)    == [code |-> "OK", out |-> x]
Error(c)  == [code |-> c]

Init == seq = <<>> /\ result = Ok

Full  == Len(seq) = Capacity
Empty == seq = <<>>
Refuse(c) == result' = Error(c) /\ UNCHANGED seq

Enqueue(x) ==
  \/ Full /\ Refuse("ERR_QUEUE_FULL")
  \/ ~Full /\ seq' = Append(seq, x) /\ result' = Ok

Dequeue ==
  \/ Empty /\ Refuse("ERR_QUEUE_EMPTY")
  \/ ~Empty /\ seq' = Tail(seq) /\ result' = Got(Head(seq))

Get(i) ==
  \/ i \notin 0 .. Len(seq) - 1 /\ Refuse("ERR_OUT_OF_BOUNDS")
  \/ i \in 0 .. Len(seq) - 1 /\ result' = Got(seq[i + 1]) /\ UNCHANGED seq

RevDequeue(x) ==
  \/ Full /\ Refuse("ERR_QUEUE_FULL")
  \/ ~Full /\ seq' = <<x>> \o seq /\ result' = Ok

RevEnqueue ==
  \/ Empty /\ Refuse("ERR_QUEUE_EMPTY")
  \/ /\ ~Empty
     /\ seq' = SubSeq(seq, 1, Len(seq) - 1)
     /\ result' = Got(seq[Len(seq)])

Next ==
  \/ \E x \in Item : Enqueue(x) \/ RevDequeue(x)
  \/ \E i \in -1 .. Capacity : Get(i)
  \/ Dequeue
  \/ RevEnqueue

Spec == Init /\ [][Next]_<<seq, result>>

================================================================================

------------------------------ MODULE QueueProofs ------------------------------
(***************************************************************************)
(* The ring buffer implements the bounded queue, for every capacity and    *)
(* every set of items.                                                     *)
(***************************************************************************)
EXTENDS Queue, SequenceTheorems, TLAPS

\* The only arithmetic needed: two turns of the array are enough.
LEMMA Wrap ==
  ASSUME NEW n \in Nat \ {0}, NEW a \in 0 .. 2 * n - 1
  PROVE  a % n = IF a < n THEN a ELSE a - n
<1>1. CASE a < n
  BY <1>1, SMT
<1>2. CASE a >= n
  BY <1>2, SMT
<1> QED BY <1>1, <1>2

\* What a slot number is, and that it is one: the last use of the modulo.
LEMMA SlotValue ==
  ASSUME NEW c \in Slots, NEW k \in 0 .. Capacity
  PROVE  /\ Slot(c, k) = IF c + k < Capacity THEN c + k ELSE c + k - Capacity
         /\ Slot(c, k) \in Slots
<1> DEFINE a == c + k
<1>1. Capacity \in Nat \ {0}
  BY QueueAssumption
<1>2. a \in 0 .. 2 * Capacity - 1
  BY <1>1 DEF Slots
<1>3. Slot(c, k) = a % Capacity
  BY DEF Slot
<1> HIDE DEF a
<1>4. a % Capacity = IF a < Capacity THEN a ELSE a - Capacity
  BY <1>1, <1>2, Wrap
<1>5. Slot(c, k) = IF a < Capacity THEN a ELSE a - Capacity
  BY <1>3, <1>4
<1>6. Slot(c, k) \in Slots
  BY <1>1, <1>2, <1>5 DEF Slots
<1> QED BY <1>1, <1>5, <1>6 DEF a, Slots

\* Different positions of the queue are in different slots.
LEMMA SlotInjective ==
  ASSUME NEW c \in Slots, NEW j \in 0 .. Capacity - 1, NEW k \in 0 .. Capacity - 1,
         Slot(c, j) = Slot(c, k)
  PROVE  j = k
<1>1. Capacity \in Nat \ {0} /\ j \in 0 .. Capacity /\ k \in 0 .. Capacity
  BY QueueAssumption
<1>2. Slot(c, j) = IF c + j < Capacity THEN c + j ELSE c + j - Capacity
  BY <1>1, SlotValue
<1>3. Slot(c, k) = IF c + k < Capacity THEN c + k ELSE c + k - Capacity
  BY <1>1, SlotValue
<1>4. (IF c + j < Capacity THEN c + j ELSE c + j - Capacity)
        = (IF c + k < Capacity THEN c + k ELSE c + k - Capacity)
  BY <1>2, <1>3
<1> QED BY <1>1, <1>4 DEF Slots

\* Counting from the second slot on.
LEMMA SlotNext ==
  ASSUME NEW c \in Slots, NEW k \in 0 .. Capacity - 1
  PROVE  Slot(Slot(c, 1), k) = Slot(c, k + 1)
<1>1. Capacity \in Nat \ {0}
  BY QueueAssumption
<1> DEFINE c2 == Slot(c, 1)
<1>2. 1 \in 0 .. Capacity /\ k \in 0 .. Capacity /\ k + 1 \in 0 .. Capacity
  BY <1>1
<1>3. /\ c2 \in Slots
      /\ c2 = IF c + 1 < Capacity THEN c + 1 ELSE c + 1 - Capacity
  BY <1>2, SlotValue
<1> HIDE DEF c2
<1>4. Slot(c2, k) = IF c2 + k < Capacity THEN c2 + k ELSE c2 + k - Capacity
  BY <1>2, <1>3, SlotValue
<1>5. Slot(c, k + 1) = IF c + (k + 1) < Capacity THEN c + (k + 1) ELSE c + (k + 1) - Capacity
  BY <1>2, SlotValue
<1>6. Slot(c2, k) = Slot(c, k + 1)
  BY <1>1, <1>3, <1>4, <1>5 DEF Slots
<1> QED BY <1>6 DEF c2

\* The slot rev_dequeue writes is the one whose next slot is `current'.
LEMMA SlotBeforeFirst ==
  ASSUME current \in Slots
  PROVE  SlotBefore \in Slots /\ Slot(SlotBefore, 1) = current
<1>1. Capacity \in Nat \ {0} /\ 1 \in 0 .. Capacity
  BY QueueAssumption
<1>2. SlotBefore \in Slots
  BY <1>1 DEF SlotBefore, Slots
<1>3. Slot(SlotBefore, 1) =
        IF SlotBefore + 1 < Capacity THEN SlotBefore + 1 ELSE SlotBefore + 1 - Capacity
  BY <1>1, <1>2, SlotValue
<1> QED BY <1>1, <1>2, <1>3 DEF SlotBefore, Slots

--------------------------------------------------------------------------------
LEMMA InitTypeOK == Init => TypeOK
BY QueueAssumption DEF Init, TypeOK, Slots

LEMMA NextTypeOK == TypeOK /\ [Next]_vars => TypeOK'
<1> SUFFICES ASSUME TypeOK, [Next]_vars PROVE TypeOK'
  OBVIOUS
<1> USE QueueAssumption
<1>1. /\ items \in [Slots -> Item \cup {Unset}] /\ current \in Slots
      /\ count \in 0 .. Capacity
      /\ \A k \in 0 .. count - 1 : items[Slot(current, k)] \in Item
  BY DEF TypeOK
<1>2. \A k \in 0 .. Capacity : Slot(current, k) \in Slots
  BY <1>1, SlotValue
<1>3. SUFFICES /\ items' \in [Slots -> Item \cup {Unset}] /\ current' \in Slots
               /\ count' \in 0 .. Capacity
               /\ \A k \in 0 .. count' - 1 : items'[Slot(current', k)] \in Item
  BY DEF TypeOK, Slots
<1>4. CASE UNCHANGED <<items, current, count>>
  BY <1>1, <1>4
<1>5. ASSUME NEW x \in Item, Enqueue(x), count # Capacity
      PROVE  /\ items' \in [Slots -> Item \cup {Unset}] /\ current' \in Slots
             /\ count' \in 0 .. Capacity
             /\ \A k \in 0 .. count' - 1 : items'[Slot(current', k)] \in Item
  <2>1. items' = [items EXCEPT ![Slot(current, count)] = x] /\ count' = count + 1
        /\ current' = current
    BY <1>5 DEF Enqueue
  <2>2. Slot(current, count) \in Slots
    BY <1>1, <1>2
  <2> QED BY <1>1, <1>2, <1>5, <2>1, <2>2
<1>6. ASSUME Dequeue, count # 0
      PROVE  /\ items' \in [Slots -> Item \cup {Unset}] /\ current' \in Slots
             /\ count' \in 0 .. Capacity
             /\ \A k \in 0 .. count' - 1 : items'[Slot(current', k)] \in Item
  <2>1. items' = items /\ count' = count - 1 /\ current' = Slot(current, 1)
    BY <1>6 DEF Dequeue
  <2>2. \A k \in 0 .. count' - 1 : Slot(current', k) = Slot(current, k + 1)
    BY <1>1, <2>1, SlotNext
  <2> QED BY <1>1, <1>2, <1>6, <2>1, <2>2
<1>7. ASSUME NEW x \in Item, RevDequeue(x), count # Capacity
      PROVE  /\ items' \in [Slots -> Item \cup {Unset}] /\ current' \in Slots
             /\ count' \in 0 .. Capacity
             /\ \A k \in 0 .. count' - 1 : items'[Slot(current', k)] \in Item
  <2>1. /\ items' = [items EXCEPT ![SlotBefore] = x] /\ count' = count + 1
        /\ current' = SlotBefore
    BY <1>7 DEF RevDequeue
  <2>2. SlotBefore \in Slots /\ Slot(SlotBefore, 1) = current
    BY <1>1, SlotBeforeFirst
  <2>3. ASSUME NEW k \in 0 .. count' - 1
        PROVE  items'[Slot(current', k)] \in Item
    <3>1. CASE k = 0
      <4>1. Slot(SlotBefore, 0) = SlotBefore
        BY <2>2, SlotValue DEF Slots
      <4> QED BY <1>1, <2>1, <2>2, <3>1, <4>1
    <3>2. CASE k # 0
      <4>1. k - 1 \in 0 .. Capacity - 1 /\ k - 1 \in 0 .. count - 1
            /\ k - 1 \in 0 .. Capacity
        BY <1>1, <1>7, <2>1, <3>2
      <4>2. Slot(SlotBefore, (k - 1) + 1) = Slot(current, k - 1)
        BY <2>2, <4>1, SlotNext
      <4>3. Slot(SlotBefore, k) = Slot(current, k - 1)
        BY <1>1, <2>1, <4>2
      <4> QED BY <1>1, <1>2, <2>1, <2>2, <4>1, <4>3
    <3> QED BY <3>1, <3>2
  <2> QED BY <1>1, <1>7, <2>1, <2>2, <2>3
<1>8. ASSUME RevEnqueue, count # 0
      PROVE  /\ items' \in [Slots -> Item \cup {Unset}] /\ current' \in Slots
             /\ count' \in 0 .. Capacity
             /\ \A k \in 0 .. count' - 1 : items'[Slot(current', k)] \in Item
  BY <1>1, <1>8 DEF RevEnqueue
<1>9. \/ UNCHANGED <<items, current, count>>
      \/ \E x \in Item : Enqueue(x) /\ count # Capacity
      \/ Dequeue /\ count # 0
      \/ \E x \in Item : RevDequeue(x) /\ count # Capacity
      \/ RevEnqueue /\ count # 0
  BY DEF Next, vars, Enqueue, Dequeue, Get, RevDequeue, RevEnqueue, Refuse
<1> QED BY <1>4, <1>5, <1>6, <1>7, <1>8, <1>9

\* Whatever is called in whatever order, the counters stay within the array and
\* every item given out is one that was put in (queue.c).
THEOREM TypeCorrect == Spec => []TypeOK
<1>1. Init => TypeOK
  BY InitTypeOK
<1>2. TypeOK /\ [Next]_vars => TypeOK'
  BY NextTypeOK
<1> QED BY <1>1, <1>2, PTL DEF Spec

--------------------------------------------------------------------------------
(***************************************************************************)
(* Refinement.  Every step is compared with the abstract one item by item: *)
(* the contents are determined by their length and by the slots.           *)
(***************************************************************************)
Value == Item \cup {Unset}

LEMMA SeqOfSlots ==
  ASSUME NEW arr, NEW c, NEW n \in Nat,
         \A k \in 0 .. n - 1 : arr[Slot(c, k)] \in Item
  PROVE  /\ [k \in 1 .. n |-> arr[Slot(c, k - 1)]] \in Seq(Value)
         /\ Len([k \in 1 .. n |-> arr[Slot(c, k - 1)]]) = n
<1>1. \A k \in 1 .. n : arr[Slot(c, k - 1)] \in Value
  BY DEF Value
<1> QED BY <1>1

\* The contents, item by item.
ContentsItems ==
  /\ Contents \in Seq(Value)
  /\ Len(Contents) = count
  /\ \A k \in 1 .. count : Contents[k] = items[Slot(current, k - 1)]

LEMMA ContentsSeq == TypeOK => ContentsItems
<1> SUFFICES ASSUME TypeOK PROVE ContentsItems
  OBVIOUS
<1>1. count \in Nat /\ \A k \in 0 .. count - 1 : items[Slot(current, k)] \in Item
  BY QueueAssumption DEF TypeOK
<1> QED BY <1>1, SeqOfSlots, SMTT(30) DEF Contents, ContentsItems

LEMMA ContentsSeqNext == TypeOK' => ContentsItems'
BY ContentsSeq, PTL

LEMMA EnqueueAppends ==
  ASSUME TypeOK, TypeOK', NEW x \in Item, Enqueue(x), count # Capacity
  PROVE  Contents' = Append(Contents, x)
<1> USE QueueAssumption
<1>1. /\ items' = [items EXCEPT ![Slot(current, count)] = x] /\ count' = count + 1
      /\ current' = current
      /\ items \in [Slots -> Value] /\ current \in Slots /\ count \in 0 .. Capacity - 1
  BY DEF Enqueue, TypeOK, Value
<1> DEFINE app == Append(Contents, x)
<1>2. /\ app \in Seq(Value) /\ Len(app) = count + 1
      /\ \A k \in 1 .. count : app[k] = Contents[k]
      /\ app[count + 1] = x
  BY <1>1, ContentsSeq, AppendProperties DEF Value, ContentsItems
<1> HIDE DEF app
<1>3. ASSUME NEW k \in 1 .. count + 1
      PROVE  Contents'[k] = app[k]
  <2>1. k \in 1 .. count' /\ k - 1 \in 0 .. Capacity - 1 /\ k - 1 \in 0 .. Capacity
        /\ count \in 0 .. Capacity
    BY <1>1
  <2>2. Slot(current, k - 1) \in Slots /\ Slot(current, count) \in Slots
    BY <1>1, <2>1, SlotValue
  <2>3. Contents'[k] = items'[Slot(current, k - 1)]
    BY <1>1, <2>1, ContentsSeqNext DEF ContentsItems
  <2>4. CASE k = count + 1
    <3>1. Slot(current, k - 1) = Slot(current, count)
      BY <1>1, <2>4
    <3> QED BY <1>1, <1>2, <2>2, <2>3, <2>4, <3>1
  <2>5. CASE k # count + 1
    <3>1. Slot(current, k - 1) # Slot(current, count)
      BY <1>1, <2>1, <2>5, SlotInjective
    <3>2. k \in 1 .. count
      BY <1>1, <2>5
    <3>3. app[k] = items[Slot(current, k - 1)]
      BY <1>2, <3>2, ContentsSeq DEF ContentsItems
    <3> QED BY <1>1, <2>2, <2>3, <3>1, <3>3
  <2> QED BY <2>4, <2>5
<1>4. Contents' \in Seq(Value) /\ Len(Contents') = count + 1
  BY <1>1, ContentsSeqNext DEF ContentsItems
<1>5. Contents' = app
  BY <1>2, <1>3, <1>4, SeqEqual
<1> QED BY <1>5 DEF app

LEMMA DequeueTakesHead ==
  ASSUME TypeOK, TypeOK', Dequeue, count # 0
  PROVE  /\ Contents # <<>>
         /\ Contents' = Tail(Contents)
         /\ Head(Contents) = items[current]
<1> USE QueueAssumption
<1>1. /\ items' = items /\ count' = count - 1 /\ current' = Slot(current, 1)
      /\ current \in Slots /\ count \in 1 .. Capacity
  BY DEF Dequeue, TypeOK
<1>2. Contents \in Seq(Value) /\ Len(Contents) = count /\ Contents # <<>>
  BY <1>1, ContentsSeq DEF ContentsItems
<1> DEFINE tl == Tail(Contents)
<1>3. /\ tl \in Seq(Value) /\ Len(tl) = count - 1
      /\ \A k \in 1 .. count - 1 : tl[k] = Contents[k + 1]
  BY <1>2, HeadTailProperties
<1> HIDE DEF tl
<1>4. ASSUME NEW k \in 1 .. count - 1
      PROVE  Contents'[k] = tl[k]
  <2>1. k \in 1 .. count' /\ k + 1 \in 1 .. count /\ k - 1 \in 0 .. Capacity - 1
    BY <1>1
  <2>2. Contents'[k] = items[Slot(Slot(current, 1), k - 1)]
    BY <1>1, <2>1, ContentsSeqNext DEF ContentsItems
  <2>3. Contents[k + 1] = items[Slot(current, (k + 1) - 1)]
    BY <2>1, ContentsSeq DEF ContentsItems
  <2>4. Slot(Slot(current, 1), k - 1) = Slot(current, (k - 1) + 1)
    BY <1>1, <2>1, SlotNext
  <2>5. (k + 1) - 1 = (k - 1) + 1
    OBVIOUS
  <2> QED BY <1>3, <2>2, <2>3, <2>4, <2>5
<1>5. Contents' \in Seq(Value) /\ Len(Contents') = count - 1
  BY <1>1, ContentsSeqNext DEF ContentsItems
<1>6. Contents' = tl
  BY <1>3, <1>4, <1>5, SeqEqual
<1>7. Head(Contents) = items[current]
  <2>1. Head(Contents) = Contents[1]
    BY <1>2
  <2>2. Contents[1] = items[Slot(current, 1 - 1)]
    BY <1>1, ContentsSeq DEF ContentsItems
  <2>3. Slot(current, 1 - 1) = current
    BY <1>1, SlotValue DEF Slots
  <2> QED BY <2>1, <2>2, <2>3
<1> QED BY <1>2, <1>6, <1>7 DEF tl

LEMMA RevDequeuePrepends ==
  ASSUME TypeOK, TypeOK', NEW x \in Item, RevDequeue(x), count # Capacity
  PROVE  Contents' = <<x>> \o Contents
<1> USE QueueAssumption
<1>1. /\ items' = [items EXCEPT ![SlotBefore] = x] /\ count' = count + 1
      /\ current' = SlotBefore
      /\ items \in [Slots -> Value] /\ current \in Slots /\ count \in 0 .. Capacity - 1
  BY DEF RevDequeue, TypeOK, Value
<1>2. SlotBefore \in Slots /\ Slot(SlotBefore, 1) = current
  BY <1>1, SlotBeforeFirst
<1> DEFINE con == <<x>> \o Contents
<1>3. /\ con \in Seq(Value) /\ Len(con) = count + 1
      /\ \A k \in 1 .. count + 1 : con[k] = IF k <= 1 THEN <<x>>[k] ELSE Contents[k - 1]
  <2>1. <<x>> \in Seq(Value) /\ Len(<<x>>) = 1
    BY DEF Value
  <2> HIDE DEF con
  <2>2. Contents \in Seq(Value) /\ Len(Contents) = count
    BY ContentsSeq DEF ContentsItems
  <2>3. count \in Nat
    BY <1>1
  <2> QED BY <2>1, <2>2, <2>3, ConcatProperties DEF con
<1> HIDE DEF con
<1>4. ASSUME NEW k \in 1 .. count + 1
      PROVE  Contents'[k] = con[k]
  <2>1. k \in 1 .. count' /\ k - 1 \in 0 .. Capacity - 1 /\ k - 1 \in 0 .. Capacity
    BY <1>1
  <2>2. Contents'[k] = items'[Slot(SlotBefore, k - 1)]
    BY <1>1, <2>1, ContentsSeqNext DEF ContentsItems
  <2>3. Slot(SlotBefore, k - 1) \in Slots
    BY <1>2, <2>1, SlotValue
  <2>4. CASE k = 1
    <3>1. Slot(SlotBefore, 0) = SlotBefore
      BY <1>2, SlotValue DEF Slots
    <3>2. con[k] = x
      BY <1>1, <1>3, <2>4
    <3> QED BY <1>1, <1>2, <2>2, <2>4, <3>1, <3>2
  <2>5. CASE k # 1
    <3>1. k - 1 \in 1 .. count /\ k - 2 \in 0 .. Capacity - 1 /\ (k - 2) + 1 = k - 1
          /\ (k - 1) - 1 = k - 2 /\ 0 \in 0 .. Capacity - 1 /\ 0 \in 0 .. Capacity
      BY <1>1, <2>1, <2>5
    <3>2. Slot(SlotBefore, k - 1) = Slot(current, k - 2)
      <4>1. Slot(Slot(SlotBefore, 1), k - 2) = Slot(SlotBefore, (k - 2) + 1)
        BY <1>2, <3>1, SlotNext
      <4> QED BY <1>2, <3>1, <4>1
    <3>3. Slot(SlotBefore, k - 1) # SlotBefore
      <4>1. Slot(SlotBefore, 0) = SlotBefore
        BY <1>2, SlotValue DEF Slots
      <4>2. Slot(SlotBefore, k - 1) # Slot(SlotBefore, 0)
        BY <1>2, <2>1, <2>5, <3>1, SlotInjective
      <4> QED BY <4>1, <4>2
    <3>4. con[k] = Contents[k - 1]
      BY <1>1, <1>3, <2>5
    <3>5. Contents[k - 1] = items[Slot(current, (k - 1) - 1)]
      BY <3>1, ContentsSeq DEF ContentsItems
    <3> QED BY <1>1, <1>2, <2>2, <2>3, <3>1, <3>2, <3>3, <3>4, <3>5
  <2> QED BY <2>4, <2>5
<1>5. Contents' \in Seq(Value) /\ Len(Contents') = count + 1
  BY <1>1, ContentsSeqNext DEF ContentsItems
<1>6. Contents' = con
  BY <1>3, <1>4, <1>5, SeqEqual
<1> QED BY <1>6 DEF con

LEMMA RevEnqueueTakesLast ==
  ASSUME TypeOK, TypeOK', RevEnqueue, count # 0
  PROVE  /\ Contents # <<>>
         /\ Contents' = SubSeq(Contents, 1, Len(Contents) - 1)
         /\ Contents[Len(Contents)] = items[Slot(current, count - 1)]
<1>1. /\ items' = items /\ count' = count - 1 /\ current' = current
      /\ count \in Nat \ {0}
  BY QueueAssumption DEF RevEnqueue, TypeOK
<1>2. /\ Contents \in Seq(Value) /\ Len(Contents) = count /\ Contents # <<>>
      /\ \A k \in 1 .. count : Contents[k] = items[Slot(current, k - 1)]
  BY <1>1, ContentsSeq DEF ContentsItems
<1> DEFINE sub == SubSeq(Contents, 1, count - 1)
<1>3. /\ sub \in Seq(Value) /\ Len(sub) = count - 1
      /\ \A k \in 1 .. count - 1 : sub[k] = Contents[k]
  <2>1. \A k \in 1 .. count - 1 : Contents[k] \in Value
    BY <1>1, <1>2, ElementOfSeq
  <2> QED BY <1>1, <2>1, SubSeqProperties
<1> HIDE DEF sub
<1>4. /\ Contents' \in Seq(Value) /\ Len(Contents') = count - 1
      /\ \A k \in 1 .. count - 1 : Contents'[k] = items[Slot(current, k - 1)]
  BY <1>1, ContentsSeqNext DEF ContentsItems
<1>5. ASSUME NEW k \in 1 .. count - 1
      PROVE  Contents'[k] = sub[k]
  <2>1. k \in 1 .. count
    BY <1>1
  <2> QED BY <1>2, <1>3, <1>4, <2>1
<1>6. Contents' = sub
  BY <1>3, <1>4, <1>5, SeqEqual
<1> QED BY <1>1, <1>2, <1>6 DEF sub

--------------------------------------------------------------------------------
LEMMA InitRefines == Init => D!Init
BY DEF Init, D!Init, Ok, D!Ok, Contents

\* One step of the ring buffer is a step of the bounded queue, or changes
\* neither the contents nor the answer.
LEMMA StepRefines ==
  TypeOK /\ TypeOK' /\ [Next]_vars => [D!Next]_<<Contents, result>>
<1> SUFFICES ASSUME TypeOK, TypeOK', [Next]_vars
             PROVE  [D!Next]_<<Contents, result>>
  OBVIOUS
<1>1. /\ Contents \in Seq(Value) /\ Len(Contents) = count
      /\ \A k \in 1 .. count : Contents[k] = items[Slot(current, k - 1)]
      /\ count \in Nat
  BY QueueAssumption, ContentsSeq DEF ContentsItems, TypeOK
<1>2. /\ D!Full <=> count = Capacity
      /\ D!Empty <=> count = 0
  BY <1>1 DEF D!Full, D!Empty
<1>3. ASSUME NEW c, Refuse(c)
      PROVE  D!Refuse(c)
  BY <1>3 DEF Refuse, D!Refuse, Error, D!Error, Contents
<1>4. ASSUME NEW x \in Item, Enqueue(x)
      PROVE  D!Enqueue(x)
  BY <1>2, <1>3, <1>4, EnqueueAppends DEF Enqueue, D!Enqueue, Ok, D!Ok
<1>5. ASSUME Dequeue
      PROVE  D!Dequeue
  BY <1>2, <1>3, <1>5, DequeueTakesHead DEF Dequeue, D!Dequeue, Got, D!Got
<1>6. ASSUME NEW i \in -1 .. Capacity, Get(i)
      PROVE  D!Get(i)
  <2>1. CASE i < 0 \/ i >= count
    BY <1>1, <1>3, <1>6, <2>1 DEF Get, D!Get
  <2>2. CASE 0 <= i /\ i < count
    <3>1. i + 1 \in 1 .. count /\ (i + 1) - 1 = i /\ i \in 0 .. Len(Contents) - 1
      BY <1>1, <2>2
    <3>2. Contents[i + 1] = items[Slot(current, i)]
      BY <1>1, <3>1
    <3>3. UNCHANGED Contents /\ result' = Got(items[Slot(current, i)])
      BY <1>1, <1>6, <2>2 DEF Get, Contents
    <3> QED BY <3>1, <3>2, <3>3 DEF D!Get, Got, D!Got
  <2> QED BY <1>1, <2>1, <2>2
<1>7. ASSUME NEW x \in Item, RevDequeue(x)
      PROVE  D!RevDequeue(x)
  BY <1>2, <1>3, <1>7, RevDequeuePrepends DEF RevDequeue, D!RevDequeue, Ok, D!Ok
<1>8. ASSUME RevEnqueue
      PROVE  D!RevEnqueue
  BY <1>2, <1>3, <1>8, RevEnqueueTakesLast DEF RevEnqueue, D!RevEnqueue, Got, D!Got
<1>9. ASSUME UNCHANGED vars
      PROVE  UNCHANGED <<Contents, result>>
  BY <1>9 DEF vars, Contents
<1>10. D!Next \/ UNCHANGED <<Contents, result>>
  <2>1. CASE Next
    BY <1>4, <1>5, <1>6, <1>7, <1>8, <2>1 DEF Next, D!Next
  <2> QED BY <1>9, <2>1
<1> QED BY <1>10

\* The ring buffer of libs/queue.c is a bounded queue: through wrap-around, and
\* through calls from both ends, nothing is overwritten, lost or reordered.
THEOREM Refinement == Spec => ImplementsDeque
<1>1. Init => D!Init
  BY InitRefines
<1>2. TypeOK /\ TypeOK' /\ [Next]_vars => [D!Next]_<<Contents, result>>
  BY StepRefines
<1> QED BY <1>1, <1>2, TypeCorrect, PTL DEF Spec, ImplementsDeque, D!Spec

================================================================================

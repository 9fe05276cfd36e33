------------------------------ MODULE PlaceProofs ------------------------------
(***************************************************************************)
(* OnePlace: while memory suffices a live process is in exactly one of the *)
(* places where the OS keeps pointers to processes, and a disposed one in  *)
(* none.  Every handler moves a process from the head of one container to  *)
(* the end of another, so the argument is made once for such a move        *)
(* (MoveKeeps) and each action is shown to be one, or two, of them.        *)
(***************************************************************************)
EXTENDS OSProofs, FiniteSetTheorems

-------------------------------------------------------------------------------
(***************************************************************************)
(* Queues without repetition                                               *)
(***************************************************************************)

Distinct(q) == \A i, j \in 1 .. Len(q) : q[i] = q[j] => i = j

LEMMA ItemsType ==
  ASSUME NEW q \in Seq(Pids)
  PROVE  Items(q) \subseteq Pids
BY DEF Items

LEMMA ItemsEmpty == Items(<<>>) = {} /\ Distinct(<<>>)
BY DEF Items, Distinct

LEMMA ItemsSingle ==
  ASSUME NEW p \in Pids \cup {None}
  PROVE  /\ Single(p) \in Seq(Pids) /\ Distinct(Single(p))
         /\ Items(Single(p)) = {p} \ {None}
         /\ p \in Pids => Single(p) # <<>> /\ Head(Single(p)) = p /\ Tail(Single(p)) = <<>>
                          /\ Single(p) = Append(<<>>, p)
BY PidsType DEF Single, Items, Distinct

LEMMA ItemsTail ==
  ASSUME NEW q \in Seq(Pids), q # <<>>, Distinct(q)
  PROVE  /\ Head(q) \in Items(q) /\ Tail(q) \in Seq(Pids)
         /\ Items(Tail(q)) = Items(q) \ {Head(q)} /\ Distinct(Tail(q))
<1>1. /\ Len(q) \in Nat /\ Len(q) >= 1 /\ Head(q) = q[1] /\ Tail(q) \in Seq(Pids)
      /\ Len(Tail(q)) = Len(q) - 1
      /\ \A i \in 1 .. Len(q) - 1 : Tail(q)[i] = q[i + 1]
  BY HeadTailProperties, LenProperties, EmptySeq
<1>2. Items(Tail(q)) = {q[i] : i \in 2 .. Len(q)}
  <2>1. \A i \in 2 .. Len(q) : i - 1 \in 1 .. Len(q) - 1 /\ Tail(q)[i - 1] = q[i]
    BY <1>1
  <2>2. \A i \in 1 .. Len(q) - 1 : i + 1 \in 2 .. Len(q) /\ Tail(q)[i] = q[i + 1]
    BY <1>1
  <2> QED BY <1>1, <2>1, <2>2 DEF Items
<1>3. Items(q) = {q[1]} \cup {q[i] : i \in 2 .. Len(q)}
  BY <1>1 DEF Items
<1>4. \A i \in 2 .. Len(q) : q[i] # q[1]
  BY <1>1 DEF Distinct
<1>5. Distinct(Tail(q))
  BY <1>1 DEF Distinct
<1> QED BY <1>1, <1>2, <1>3, <1>4, <1>5

LEMMA ItemsAppend ==
  ASSUME NEW q \in Seq(Pids), NEW p \in Pids
  PROVE  /\ Items(Append(q, p)) = Items(q) \cup {p}
         /\ Distinct(q) /\ p \notin Items(q) => Distinct(Append(q, p))
<1>1. /\ Len(q) \in Nat /\ Len(Append(q, p)) = Len(q) + 1
      /\ \A i \in 1 .. Len(q) : Append(q, p)[i] = q[i]
      /\ Append(q, p)[Len(q) + 1] = p
  BY AppendProperties, LenProperties
<1>2. 1 .. Len(q) + 1 = (1 .. Len(q)) \cup {Len(q) + 1}
  BY <1>1
<1> QED BY <1>1, <1>2 DEF Items, Distinct

LEMMA IntervalSize ==
  ASSUME NEW n \in Nat
  PROVE  IsFiniteSet(1 .. n) /\ Cardinality(1 .. n) = n
<1>1. /\ IsFiniteSet(1 .. n)
      /\ Cardinality(1 .. n) = IF 1 > n THEN 0 ELSE n - 1 + 1
  BY FS_Interval, 1 \in Int, n \in Int, Zenon
<1> QED BY <1>1

\* A queue whose items differ holds no more than all processes.
LEMMA NoMoreThanAll ==
  ASSUME NEW q \in Seq(Pids), Distinct(q)
  PROVE  Len(q) <= MaxProcesses
<1> SUFFICES ASSUME ~ (Len(q) <= MaxProcesses) PROVE FALSE
  OBVIOUS
<1>1. Len(q) \in Nat /\ \A i \in 1 .. Len(q) : q[i] \in Pids
  BY LenProperties
<1>2. IsFiniteSet(1 .. Len(q)) /\ Cardinality(1 .. Len(q)) = Len(q)
  BY <1>1, IntervalSize
<1>3. IsFiniteSet(Pids) /\ Cardinality(Pids) = MaxProcesses
  BY ConstantsType, IntervalSize DEF Pids
<1> DEFINE f == [i \in 1 .. Len(q) |-> q[i]]
<1>4. \E i, j \in 1 .. Len(q) : i # j /\ f[i] = f[j]
  <2>1. f \in [1 .. Len(q) -> Pids]
    BY <1>1
  <2>2. Cardinality(Pids) < Cardinality(1 .. Len(q))
    BY <1>1, <1>2, <1>3, ConstantsType
  <2> HIDE DEF f
  <2> QED BY <1>2, <1>3, <2>1, <2>2, FS_PigeonHole
<1> QED BY <1>4 DEF Distinct

LEMMA Room ==
  ASSUME NEW q \in Seq(Pids), Distinct(q), NEW p \in Pids, p \notin Items(q)
  PROVE  Len(q) < MaxProcesses
<1>1. /\ Append(q, p) \in Seq(Pids) /\ Distinct(Append(q, p))
      /\ Len(Append(q, p)) = Len(q) + 1 /\ Len(q) \in Nat
  BY AppendProperties, ItemsAppend, LenProperties
<1>2. Len(Append(q, p)) <= MaxProcesses
  BY <1>1, NoMoreThanAll
<1> QED BY <1>1, <1>2, ConstantsType

LEMMA EnqueueFills ==
  ASSUME NEW q \in Seq(Pids), NEW p \in Pids
  PROVE  Enqueue(q, p) # <<>>
<1>1. MaxProcesses # 0 /\ Len(<<>>) = 0 /\ Append(q, p) # <<>>
  BY ConstantsType, EmptySeq, AppendProperties
<1> QED BY <1>1 DEF Enqueue

LEMMA EnqueueAppends ==
  ASSUME NEW q \in Seq(Pids), Distinct(q), NEW p \in Pids, p \notin Items(q)
  PROVE  Enqueue(q, p) = Append(q, p)
BY Room, ConstantsType DEF Enqueue

-------------------------------------------------------------------------------
(***************************************************************************)
(* Containers: C says what is in each, live which processes live           *)
(***************************************************************************)

\* The live processes are in the containers, once each, and nothing else is.
Placed(C, live) ==
  /\ C \in [Containers -> Seq(Pids)]
  /\ \A c \in Containers : Distinct(C[c]) /\ Items(C[c]) \subseteq live
  /\ \A c, e \in Containers : c # e => Items(C[c]) \cap Items(C[e]) = {}
  /\ \A p \in live : \E c \in Containers : p \in Items(C[c])

LEMMA HeadElsewhere ==
  ASSUME NEW C, NEW S, Placed(C, S), NEW a \in Containers, NEW b \in Containers, a # b,
         C[a] # <<>>
  PROVE  /\ Head(C[a]) \in Pids /\ Head(C[a]) \in S
         /\ Head(C[a]) \in Items(C[a]) /\ Head(C[a]) \notin Items(C[b])
         /\ Enqueue(C[b], Head(C[a])) = Append(C[b], Head(C[a]))
         /\ Len(C[b]) < MaxProcesses
<1>1. C[a] \in Seq(Pids) /\ C[b] \in Seq(Pids) /\ Distinct(C[a]) /\ Distinct(C[b])
  BY DEF Placed
<1>2. Head(C[a]) \in Items(C[a]) /\ Head(C[a]) \in Pids
  BY <1>1, ItemsTail, HeadTailType
<1>3. Head(C[a]) \in S /\ Head(C[a]) \notin Items(C[b])
  BY <1>2 DEF Placed
<1> QED BY <1>1, <1>2, <1>3, EnqueueAppends, Room

\* From C to D a process moves from the head of container a to the end of b.
Moved(C, D, a, b) ==
  /\ a \in Containers /\ b \in Containers /\ a # b
  /\ C[a] # <<>> /\ D \in [Containers -> Seq(Pids)]
  /\ D[a] = Tail(C[a]) /\ D[b] = Append(C[b], Head(C[a]))
  /\ \A c \in Containers \ {a, b} : D[c] = C[c]

LEMMA MoveKeeps ==
  ASSUME NEW C, NEW S, NEW D, NEW a, NEW b, Placed(C, S), Moved(C, D, a, b)
  PROVE  Placed(D, S)
<1> USE DEF Moved
<1> DEFINE h == Head(C[a])
<1>1. h \in Pids /\ h \in S /\ h \in Items(C[a]) /\ h \notin Items(C[b])
  BY HeadElsewhere
<1>2. C[a] \in Seq(Pids) /\ C[b] \in Seq(Pids) /\ Distinct(C[a]) /\ Distinct(C[b])
  BY DEF Placed
<1>3. Items(D[a]) = Items(C[a]) \ {h} /\ Distinct(D[a])
  BY <1>2, ItemsTail
<1>4. Items(D[b]) = Items(C[b]) \cup {h} /\ Distinct(D[b])
  BY <1>1, <1>2, ItemsAppend
<1> HIDE DEF h
<1>5. ASSUME NEW c \in Containers
      PROVE  Distinct(D[c]) /\ Items(D[c]) \subseteq S
  <2>1. Distinct(C[c]) /\ Items(C[c]) \subseteq S /\ Items(C[a]) \subseteq S
    BY DEF Placed
  <2> QED BY <1>1, <1>3, <1>4, <2>1
<1>6. ASSUME NEW c \in Containers, NEW e \in Containers, c # e
      PROVE  Items(D[c]) \cap Items(D[e]) = {}
  <2>1. Items(C[c]) \cap Items(C[e]) = {} /\ (c # a => h \notin Items(C[c]))
        /\ (e # a => h \notin Items(C[e]))
    BY <1>1, <1>6 DEF Placed
  <2>2. \A g \in Containers : Items(D[g]) = IF g = a THEN Items(C[a]) \ {h}
                               ELSE IF g = b THEN Items(C[b]) \cup {h} ELSE Items(C[g])
    BY <1>3, <1>4
  <2> QED BY <1>6, <2>1, <2>2
<1>7. ASSUME NEW p \in S
      PROVE  \E c \in Containers : p \in Items(D[c])
  <2>1. PICK c \in Containers : p \in Items(C[c])
    BY DEF Placed
  <2>2. CASE p = h
    BY <1>4, <2>2
  <2>3. CASE p # h
    BY <1>3, <1>4, <2>1, <2>3
  <2> QED BY <2>2, <2>3
<1> QED BY <1>5, <1>6, <1>7 DEF Placed

\* A new process comes into a container.
LEMMA AddKeeps ==
  ASSUME NEW C, NEW S, Placed(C, S), NEW b \in Containers, NEW p \in Pids, p \notin S,
         NEW D \in [Containers -> Seq(Pids)],
         D[b] = Append(C[b], p), \A c \in Containers \ {b} : D[c] = C[c]
  PROVE  Placed(D, S \cup {p})
<1>1. /\ C[b] \in Seq(Pids) /\ Distinct(C[b])
      /\ \A c \in Containers : p \notin Items(C[c])
  BY DEF Placed
<1>2. Items(D[b]) = Items(C[b]) \cup {p} /\ Distinct(D[b])
  BY <1>1, ItemsAppend
<1>3. \A c \in Containers : Items(D[c]) = IF c = b THEN Items(C[c]) \cup {p}
                                          ELSE Items(C[c])
  BY <1>2
<1>4. \A c \in Containers : Distinct(D[c]) /\ Items(D[c]) \subseteq S \cup {p}
  BY <1>2 DEF Placed
<1>5. ASSUME NEW c \in Containers, NEW e \in Containers, c # e
      PROVE  Items(D[c]) \cap Items(D[e]) = {}
  <2>1. Items(C[c]) \cap Items(C[e]) = {}
    BY <1>5 DEF Placed
  <2> QED BY <1>1, <1>3, <1>5, <2>1
<1>6. \A r \in S \cup {p} : \E c \in Containers : r \in Items(D[c])
  BY <1>2 DEF Placed
<1> QED BY <1>4, <1>5, <1>6 DEF Placed

\* A process leaves the head of a container for good.
LEMMA DropKeeps ==
  ASSUME NEW C, NEW S, Placed(C, S), NEW a \in Containers, C[a] # <<>>,
         NEW D \in [Containers -> Seq(Pids)],
         D[a] = Tail(C[a]), \A c \in Containers \ {a} : D[c] = C[c]
  PROVE  Placed(D, S \ {Head(C[a])})
<1> DEFINE h == Head(C[a])
<1>1. C[a] \in Seq(Pids) /\ Distinct(C[a])
  BY DEF Placed
<1>2. Items(D[a]) = Items(C[a]) \ {h} /\ Distinct(D[a]) /\ h \in Items(C[a])
  BY <1>1, ItemsTail
<1> HIDE DEF h
<1>3. ASSUME NEW c \in Containers
      PROVE  /\ Items(D[c]) = Items(C[c]) \ {h} /\ Distinct(D[c])
             /\ Items(D[c]) \subseteq S \ {h}
  <2>1. CASE c = a
    BY <1>2, <2>1 DEF Placed
  <2>2. CASE c # a
    <3>1. h \notin Items(C[c])
      BY <1>2, <2>2 DEF Placed
    <3> QED BY <2>2, <3>1 DEF Placed
  <2> QED BY <2>1, <2>2
<1>4. ASSUME NEW c \in Containers, NEW e \in Containers, c # e
      PROVE  Items(D[c]) \cap Items(D[e]) = {}
  <2>1. Items(C[c]) \cap Items(C[e]) = {}
    BY <1>4 DEF Placed
  <2> QED BY <1>3, <2>1
<1>5. \A p \in S \ {h} : \E c \in Containers : p \in Items(D[c])
  BY <1>3 DEF Placed
<1>6. Placed(D, S \ {h})
  BY <1>3, <1>4, <1>5 DEF Placed
<1> QED BY <1>6 DEF h

-------------------------------------------------------------------------------
(***************************************************************************)
(* What the OS holds                                                       *)
(***************************************************************************)
Held == [c \in Containers |-> Contents(c)]

Cpu        == <<"cpu", 0>>
PageReady  == <<"page_ready", 0>>
FrameWait  == <<"frame_wait", 0>>
Ready(q)   == <<"ready", q>>
Blocked(d) == <<"blocked", d>>
Device(d)  == <<"device", d>>

LEMMA ContainerKinds ==
  /\ Cpu \in Containers /\ PageReady \in Containers /\ FrameWait \in Containers
  /\ \A q \in Queues : Ready(q) \in Containers
  /\ \A d \in Devices : Blocked(d) \in Containers /\ Device(d) \in Containers
  /\ \A c \in Containers : \/ c = Cpu \/ c = PageReady \/ c = FrameWait
                           \/ \E q \in Queues : c = Ready(q)
                           \/ \E d \in Devices : c = Blocked(d) \/ c = Device(d)
<1> USE DEF Containers, Cpu, PageReady, FrameWait, Ready, Blocked, Device
<1>1. /\ Cpu \in Containers /\ PageReady \in Containers /\ FrameWait \in Containers
      /\ \A q \in Queues : Ready(q) \in Containers
      /\ \A d \in Devices : Blocked(d) \in Containers /\ Device(d) \in Containers
  OBVIOUS
<1>2. ASSUME NEW c \in Containers
      PROVE  \/ c = Cpu \/ c = PageReady \/ c = FrameWait
             \/ \E q \in Queues : c = Ready(q)
             \/ \E d \in Devices : c = Blocked(d) \/ c = Device(d)
  OBVIOUS
<1> QED BY <1>1, <1>2

LEMMA ContainersDiffer ==
  /\ Cpu # PageReady /\ Cpu # FrameWait /\ PageReady # FrameWait
  /\ \A q : Ready(q) # Cpu /\ Ready(q) # PageReady /\ Ready(q) # FrameWait
  /\ \A d : /\ Blocked(d) # Cpu /\ Blocked(d) # PageReady /\ Blocked(d) # FrameWait
            /\ Device(d) # Cpu /\ Device(d) # PageReady /\ Device(d) # FrameWait
  /\ \A q, d : Ready(q) # Blocked(d) /\ Ready(q) # Device(d) /\ Blocked(q) # Device(d)
  /\ \A q, r : /\ q # r => Ready(q) # Ready(r)
               /\ q # r => Blocked(q) # Blocked(r)
               /\ q # r => Device(q) # Device(r)
BY DEF Cpu, PageReady, FrameWait, Ready, Blocked, Device

LEMMA HeldValues ==
  /\ Held[Cpu] = Single(current_process) /\ Held[PageReady] = page_ready_queue
  /\ Held[FrameWait] = require_frame_queue
  /\ \A q \in Queues : Held[Ready(q)] = queues[q]
  /\ \A d \in Devices : /\ Held[Blocked(d)] = blocked_queue[d]
                        /\ Held[Device(d)] = Single(dev_process[d])
BY ContainerKinds, SMT DEF Held, Contents, Cpu, PageReady, FrameWait, Ready, Blocked, Device

LEMMA HeldValuesNext ==
  /\ Held'[Cpu] = Single(current_process') /\ Held'[PageReady] = page_ready_queue'
  /\ Held'[FrameWait] = require_frame_queue'
  /\ \A q \in Queues : Held'[Ready(q)] = queues'[q]
  /\ \A d \in Devices : /\ Held'[Blocked(d)] = blocked_queue'[d]
                        /\ Held'[Device(d)] = Single(dev_process'[d])
BY ContainerKinds, SMT DEF Held, Contents, Cpu, PageReady, FrameWait, Ready, Blocked, Device

LEMMA HeldType ==
  ASSUME TypeOK
  PROVE  Held \in [Containers -> Seq(Pids)]
<1>1. ASSUME NEW c \in Containers
      PROVE  Held[c] \in Seq(Pids)
  <2>1. CASE c \in {Cpu, PageReady, FrameWait}
    BY <2>1, HeldValues, ItemsSingle DEF TypeOK
  <2>2. ASSUME NEW q \in Queues, c = Ready(q)
        PROVE  Held[c] \in Seq(Pids)
    BY <2>2, HeldValues DEF TypeOK
  <2>3. ASSUME NEW d \in Devices, c = Blocked(d) \/ c = Device(d)
        PROVE  Held[c] \in Seq(Pids)
    BY <2>3, HeldValues, ItemsSingle DEF TypeOK
  <2> QED BY <2>1, <2>2, <2>3, ContainerKinds
<1> QED BY <1>1 DEF Held

LEMMA HeldTypeNext ==
  ASSUME TypeOK'
  PROVE  Held' \in [Containers -> Seq(Pids)]
<1>1. ASSUME NEW c \in Containers
      PROVE  Held'[c] \in Seq(Pids)
  <2>1. CASE c \in {Cpu, PageReady, FrameWait}
    BY <2>1, HeldValuesNext, ItemsSingle DEF TypeOK
  <2>2. ASSUME NEW q \in Queues, c = Ready(q)
        PROVE  Held'[c] \in Seq(Pids)
    BY <2>2, HeldValuesNext DEF TypeOK
  <2>3. ASSUME NEW d \in Devices, c = Blocked(d) \/ c = Device(d)
        PROVE  Held'[c] \in Seq(Pids)
    BY <2>3, HeldValuesNext, ItemsSingle DEF TypeOK
  <2> QED BY <2>1, <2>2, <2>3, ContainerKinds
<1> QED BY <1>1 DEF Held

\* The containers outside X have not changed.
SameOutside(X) ==
  /\ Cpu \in X \/ current_process' = current_process
  /\ PageReady \in X \/ page_ready_queue' = page_ready_queue
  /\ FrameWait \in X \/ require_frame_queue' = require_frame_queue
  /\ \A q \in Queues : Ready(q) \in X \/ queues'[q] = queues[q]
  /\ \A d \in Devices : /\ Blocked(d) \in X \/ blocked_queue'[d] = blocked_queue[d]
                        /\ Device(d) \in X \/ dev_process'[d] = dev_process[d]

LEMMA HeldSame ==
  ASSUME NEW X, SameOutside(X)
  PROVE  \A c \in Containers \ X : Held'[c] = Held[c]
<1> SUFFICES ASSUME NEW c \in Containers \ X PROVE Held'[c] = Held[c]
  OBVIOUS
<1>1. CASE c \in {Cpu, PageReady, FrameWait}
  BY <1>1, HeldValues, HeldValuesNext DEF SameOutside
<1>2. ASSUME NEW q \in Queues, c = Ready(q)
      PROVE  Held'[c] = Held[c]
  BY <1>2, HeldValues, HeldValuesNext DEF SameOutside
<1>3. ASSUME NEW d \in Devices, c = Blocked(d) \/ c = Device(d)
      PROVE  Held'[c] = Held[c]
  BY <1>3, HeldValues, HeldValuesNext DEF SameOutside
<1> QED BY <1>1, <1>2, <1>3, ContainerKinds

LEMMA MoveStep ==
  ASSUME TypeOK', NEW S, Placed(Held, S), NEW a \in Containers, NEW b \in Containers, a # b,
         Held[a] # <<>>, Held'[a] = Tail(Held[a]), Held'[b] = Append(Held[b], Head(Held[a])),
         SameOutside({a, b})
  PROVE  Placed(Held', S)
<1>1. Held' \in [Containers -> Seq(Pids)] /\ \A c \in Containers \ {a, b} : Held'[c] = Held[c]
  BY HeldTypeNext, HeldSame
<1> DEFINE C == Held
           D == Held'
<1>2. Placed(C, S) /\ Moved(C, D, a, b)
  BY <1>1 DEF Moved
<1> HIDE DEF C, D
<1>3. Placed(D, S)
  BY <1>2, MoveKeeps
<1> QED BY <1>3 DEF D

LEMMA SameStep ==
  ASSUME TypeOK, TypeOK', NEW S, Placed(Held, S), SameOutside({})
  PROVE  Placed(Held', S)
<1>1. Held \in [Containers -> Seq(Pids)] /\ Held' \in [Containers -> Seq(Pids)]
      /\ \A c \in Containers : Held'[c] = Held[c]
  BY HeldType, HeldTypeNext, HeldSame
<1>2. Held' = Held
  <2> HIDE DEF Held
  <2> QED BY <1>1
<1> QED BY <1>2

-------------------------------------------------------------------------------
(***************************************************************************)
(* The steps that more than one action makes                               *)
(***************************************************************************)

\* p goes to device d: its process if nobody uses it, else the last to wait.
Enters(d, p) ==
  \/ /\ blocked_queue' = [blocked_queue EXCEPT ![d] = Append(@, p)]
     /\ UNCHANGED dev_process
  \/ /\ dev_process[d] = None
     /\ dev_process' = [dev_process EXCEPT ![d] = p]
     /\ UNCHANGED blocked_queue

\* A process leaves container a, which is not of a device, for device d.
LEMMA EnterKeeps ==
  ASSUME TypeOK, TypeOK', NEW S, Placed(Held, S), NEW d \in Devices,
         NEW a \in Containers, \A e \in Devices : a # Blocked(e) /\ a # Device(e),
         Held[a] # <<>>, Held'[a] = Tail(Held[a]), Enters(d, Head(Held[a])),
         SameOutside({a} \cup {Blocked(e) : e \in Devices} \cup {Device(e) : e \in Devices})
  PROVE  Placed(Held', S)
<1> DEFINE p == Head(Held[a])
<1>1. /\ Blocked(d) \in Containers /\ Device(d) \in Containers
      /\ a # Blocked(d) /\ a # Device(d)
  BY ContainerKinds
<1>2. p \in Pids
  BY <1>1, HeadElsewhere
<1>3. /\ blocked_queue \in [Devices -> Seq(Pids)]
      /\ dev_process \in [Devices -> Pids \cup {None}]
  BY DEF TypeOK
<1>4. /\ \A e \in Devices : Blocked(e) # Device(d) /\ Device(e) # Blocked(d)
      /\ \A e \in Devices : e # d => Blocked(e) # Blocked(d) /\ Device(e) # Device(d)
      /\ \A e, f \in Devices : /\ Cpu # Blocked(e) /\ Cpu # Device(e)
                            /\ PageReady # Blocked(e) /\ PageReady # Device(e)
                            /\ FrameWait # Blocked(e) /\ FrameWait # Device(e)
      /\ \A q \in Queues, e \in Devices : Ready(q) # Blocked(e) /\ Ready(q) # Device(e)
      /\ \A e, f \in Devices : Blocked(e) # Device(f)
  BY ContainersDiffer
<1>5. CASE /\ blocked_queue' = [blocked_queue EXCEPT ![d] = Append(@, p)]
           /\ UNCHANGED dev_process
  <2>1. Held'[Blocked(d)] = Append(Held[Blocked(d)], p)
    BY <1>3, <1>5, HeldValues, HeldValuesNext
  <2>2. SameOutside({a, Blocked(d)})
    <3>1. \A e \in Devices : e # d => blocked_queue'[e] = blocked_queue[e]
      BY <1>3, <1>5
    <3> QED BY <1>4, <1>5, <3>1 DEF SameOutside
  <2> QED BY <1>1, <2>1, <2>2, MoveStep
<1>6. CASE /\ dev_process[d] = None
           /\ dev_process' = [dev_process EXCEPT ![d] = p]
           /\ UNCHANGED blocked_queue
  <2>1. Held'[Device(d)] = Append(Held[Device(d)], p)
    <3>1. Held[Device(d)] = <<>> /\ Held'[Device(d)] = Single(p)
      BY <1>3, <1>6, HeldValues, HeldValuesNext DEF Single
    <3> QED BY <1>2, <3>1, ItemsSingle
  <2>2. SameOutside({a, Device(d)})
    <3>1. \A e \in Devices : e # d => dev_process'[e] = dev_process[e]
      BY <1>3, <1>6
    <3> QED BY <1>4, <1>6, <3>1 DEF SameOutside
  <2> QED BY <1>1, <2>1, <2>2, MoveStep
<1> QED BY <1>5, <1>6 DEF Enters

\* With memory enough, a page fault sends the process to the swap device.
LEMMA FaultEnters ==
  ASSUME TypeOK, Undisturbed', NEW p \in Pids, NEW page \in Pages,
         HandlePageFault(p, page),
         Enqueue(blocked_queue[SwapDevice], p) = Append(blocked_queue[SwapDevice], p)
  PROVE  Enters(SwapDevice, p) /\ UNCHANGED require_frame_queue
<1>1. Enqueue(require_frame_queue, p) # <<>>
  BY EnqueueFills DEF TypeOK
<1>2. MaxWorkingSet # 0 /\ require_frame_queue' = <<>> /\ SwapDevice \in Devices
  BY ConstantsType, ConstantsAssumption DEF Undisturbed
<1> QED
  BY <1>1, <1>2 DEF HandlePageFault, Enters, ExecPageLoad, StartJob, DeviceIdle, devVars,
     memVars

\* The process chosen to run comes from the head of a queue.
LEMMA SelectedFrom ==
  ASSUME TypeOK, NEW p \in Pids, SelectNextProcess(p)
  PROVE  \E a \in {PageReady} \cup {Ready(q) : q \in Queues} :
           /\ Held[a] # <<>> /\ p = Head(Held[a]) /\ Held'[a] = Tail(Held[a])
           /\ PageReady = a \/ page_ready_queue' = page_ready_queue
           /\ \A q \in Queues : Ready(q) = a \/ queues'[q] = queues[q]
<1>1. CASE /\ page_ready_queue # <<>> /\ p = Head(page_ready_queue)
           /\ page_ready_queue' = Tail(page_ready_queue) /\ UNCHANGED queues
  BY <1>1, HeldValues, HeldValuesNext
<1>2. ASSUME NEW q \in Queues, queues[q] # <<>>, p = Head(queues[q]),
             queues' = [queues EXCEPT ![q] = Tail(@)], UNCHANGED page_ready_queue
      PROVE  /\ Held[Ready(q)] # <<>> /\ p = Head(Held[Ready(q)])
             /\ Held'[Ready(q)] = Tail(Held[Ready(q)])
             /\ \A r \in Queues : Ready(r) = Ready(q) \/ queues'[r] = queues[r]
  BY <1>2, HeldValues, HeldValuesNext DEF TypeOK
<1> QED BY <1>1, <1>2 DEF SelectNextProcess, FirstNonEmpty

-------------------------------------------------------------------------------
(***************************************************************************)
(* The actions                                                             *)
(***************************************************************************)

PlaceInv == Undisturbed => freed \subseteq 1 .. next_pid - 1 /\ Placed(Held, Live)

LEMMA InitPlace == TypeOK /\ Init => PlaceInv
<1> SUFFICES ASSUME TypeOK, Init PROVE PlaceInv
  OBVIOUS
<1>1. Live = {} /\ freed \subseteq 1 .. next_pid - 1
  BY DEF Init, Live
<1>2. Held \in [Containers -> Seq(Pids)]
  BY HeldType
<1>3. ASSUME NEW c \in Containers
      PROVE  Held[c] = <<>>
  BY ContainerKinds, HeldValues
     DEF Init, SchedulerInit, DeviceInit, FrameInit, Single
<1>4. Placed(Held, Live)
  BY <1>1, <1>2, <1>3, ItemsEmpty DEF Placed
<1> QED BY <1>1, <1>4 DEF PlaceInv

LEMMA IncomingProcessPlace ==
  ASSUME TypeOK, TypeOK', PlaceInv, IncomingProcess
  PROVE  PlaceInv'
<1> SUFFICES ASSUME Undisturbed' PROVE freed' \subseteq 1 .. next_pid' - 1 /\ Placed(Held', Live')
  BY DEF PlaceInv
<1> DEFINE p == next_pid
<1>1. /\ p \in Pids /\ next_pid' = p + 1 /\ freed' = freed /\ Undisturbed
      /\ queues' = [queues EXCEPT ![0] = Enqueue(@, p)]
      /\ UNCHANGED <<page_ready_queue, current_process, blocked_queue, dev_process,
                     require_frame_queue>>
  BY ConstantsType DEF IncomingProcess, TypeOK, Pids, Undisturbed, devVars, memVars
<1>2. Placed(Held, Live) /\ freed \subseteq 1 .. p - 1 /\ p \in Nat
  BY <1>1 DEF PlaceInv, TypeOK
<1>3. p \notin Live /\ Live' = Live \cup {p} /\ freed' \subseteq 1 .. next_pid' - 1
  <2>1. 1 .. p = (1 .. p - 1) \cup {p} /\ p \notin 1 .. p - 1 /\ p + 1 - 1 = p
    BY <1>2, <1>1, PidsType DEF Pids
  <2> QED BY <1>1, <1>2, <2>1 DEF Live
<1>4. /\ 0 \in Queues /\ Ready(0) \in Containers /\ Held[Ready(0)] = queues[0]
      /\ Held'[Ready(0)] = queues'[0] /\ queues \in [Queues -> Seq(Pids)]
  BY ConstantsType, ContainerKinds, HeldValues, HeldValuesNext DEF TypeOK
<1>5. Held'[Ready(0)] = Append(Held[Ready(0)], p)
  <2>1. /\ Distinct(queues[0]) /\ p \notin Items(queues[0])
    BY <1>2, <1>3, <1>4 DEF Placed
  <2> QED BY <1>1, <1>4, <2>1, EnqueueAppends
<1>6. SameOutside({Ready(0)})
  BY <1>1, <1>4, ContainersDiffer DEF SameOutside
<1>7. Held' \in [Containers -> Seq(Pids)] /\ \A c \in Containers \ {Ready(0)} : Held'[c] = Held[c]
  BY <1>6, HeldTypeNext, HeldSame
<1>8. Placed(Held', Live \cup {p})
  <2> DEFINE C == Held
             D == Held'
             S == Live
  <2>1. /\ Placed(C, S) /\ p \notin S /\ p \in Pids /\ Ready(0) \in Containers
        /\ D \in [Containers -> Seq(Pids)]
        /\ D[Ready(0)] = Append(C[Ready(0)], p)
        /\ \A c \in Containers \ {Ready(0)} : D[c] = C[c]
    BY <1>1, <1>2, <1>3, <1>4, <1>5, <1>7
  <2> HIDE DEF C, D, S, p
  <2>2. Placed(D, S \cup {p})
    BY <2>1, AddKeeps
  <2> QED BY <2>2 DEF C, D, S
<1> QED BY <1>3, <1>8

\* A step that leaves every place as it is, or that is made when memory has run out.
LEMMA UnmovedPlace ==
  ASSUME TypeOK, TypeOK', PlaceInv,
         UNCHANGED <<next_pid, freed, page_ready_queue, queues, current_process,
                     blocked_queue, dev_process, require_frame_queue>>
  PROVE  PlaceInv'
<1> SUFFICES ASSUME Undisturbed' PROVE freed' \subseteq 1 .. next_pid' - 1 /\ Placed(Held', Live')
  BY DEF PlaceInv
<1>1. Undisturbed /\ Live' = Live
  BY DEF Undisturbed, Live
<1>2. SameOutside({})
  BY DEF SameOutside
<1> QED BY <1>1, <1>2, SameStep DEF PlaceInv

\* From the head of container a to the end of container b.
LEMMA MovePlace ==
  ASSUME TypeOK', PlaceInv, Undisturbed, UNCHANGED <<next_pid, freed>>,
         NEW a \in Containers, NEW b \in Containers, a # b,
         Held[a] # <<>>, Held'[a] = Tail(Held[a]), Held'[b] = Append(Held[b], Head(Held[a])),
         SameOutside({a, b})
  PROVE  PlaceInv'
<1>1. Placed(Held', Live)
  BY MoveStep DEF PlaceInv
<1>2. Live' = Live
  BY DEF Live
<1> QED BY <1>1, <1>2 DEF PlaceInv

LEMMA FinishProcessPlace ==
  ASSUME TypeOK, TypeOK', PlaceInv, FinishProcess
  PROVE  PlaceInv'
<1> SUFFICES ASSUME Undisturbed' PROVE freed' \subseteq 1 .. next_pid' - 1 /\ Placed(Held', Live')
  BY DEF PlaceInv
<1> DEFINE p == current_process
<1>1. /\ p \in Pids /\ next_pid' = next_pid /\ freed' = freed \cup {p} /\ Undisturbed
      /\ current_process' = None
      /\ UNCHANGED <<page_ready_queue, queues, blocked_queue, dev_process,
                     require_frame_queue>>
  BY DEF FinishProcess, TypeOK, Undisturbed, devVars, memVars
<1>2. Placed(Held, Live) /\ freed \subseteq 1 .. next_pid - 1
  BY <1>1 DEF PlaceInv
<1>3. /\ Cpu \in Containers /\ Held[Cpu] # <<>> /\ Head(Held[Cpu]) = p
      /\ Held'[Cpu] = Tail(Held[Cpu])
  BY <1>1, ContainerKinds, HeldValues, HeldValuesNext, ItemsSingle DEF Single
<1>4. p \in Live
  <2>1. Held[Cpu] = Single(p) /\ p \in Items(Single(p))
    BY <1>1, HeldValues, ItemsSingle, PidsType
  <2> QED BY <1>2, <1>3, <2>1 DEF Placed
<1>5. Live' = Live \ {p} /\ freed' \subseteq 1 .. next_pid' - 1
  BY <1>1, <1>2, <1>4 DEF Live
<1>6. SameOutside({Cpu})
  BY <1>1 DEF SameOutside
<1>7. Held' \in [Containers -> Seq(Pids)] /\ \A c \in Containers \ {Cpu} : Held'[c] = Held[c]
  BY <1>6, HeldTypeNext, HeldSame
<1>8. Placed(Held', Live \ {p})
  <2> DEFINE C == Held
             D == Held'
             S == Live
  <2>1. /\ Placed(C, S) /\ Cpu \in Containers /\ C[Cpu] # <<>> /\ Head(C[Cpu]) = p
        /\ D \in [Containers -> Seq(Pids)]
        /\ D[Cpu] = Tail(C[Cpu]) /\ \A c \in Containers \ {Cpu} : D[c] = C[c]
    BY <1>2, <1>3, <1>7
  <2> HIDE DEF C, D, S, p
  <2>2. Placed(D, S \ {Head(C[Cpu])})
    BY <2>1, DropKeeps
  <2> QED BY <2>1, <2>2 DEF C, D, S
<1> QED BY <1>5, <1>8

LEMMA PreemptPlace ==
  ASSUME TypeOK, TypeOK', PlaceInv, Preempt
  PROVE  PlaceInv'
<1> SUFFICES ASSUME Undisturbed' PROVE PlaceInv'
  BY DEF PlaceInv
<1> DEFINE p == current_process
<1>1. PICK q \in Queues : queues' = [queues EXCEPT ![q] = Enqueue(@, p)]
  BY ConstantsType DEF Preempt, TypeOK, Clamp, Queues
<1>2. /\ p \in Pids /\ UNCHANGED <<next_pid, freed>> /\ Undisturbed
      /\ current_process' = None
      /\ UNCHANGED <<page_ready_queue, blocked_queue, dev_process, require_frame_queue>>
  BY DEF Preempt, TypeOK, Undisturbed, devVars, memVars
<1>3. /\ Cpu \in Containers /\ Held[Cpu] # <<>> /\ Head(Held[Cpu]) = p
      /\ Held'[Cpu] = Tail(Held[Cpu])
  BY <1>2, ContainerKinds, HeldValues, HeldValuesNext, ItemsSingle DEF Single
<1>4. Ready(q) \in Containers /\ Cpu # Ready(q)
  BY ContainerKinds, ContainersDiffer
<1>5. Held'[Ready(q)] = Append(Held[Ready(q)], p)
  <2>1. Enqueue(Held[Ready(q)], p) = Append(Held[Ready(q)], p)
    BY <1>2, <1>3, <1>4, HeadElsewhere DEF PlaceInv
  <2>2. queues \in [Queues -> Seq(Pids)] /\ queues'[q] = Enqueue(queues[q], p)
    BY <1>1 DEF TypeOK
  <2> QED BY <2>1, <2>2, HeldValues, HeldValuesNext
<1>6. SameOutside({Cpu, Ready(q)})
  BY <1>1, <1>2 DEF SameOutside, TypeOK
<1> QED BY <1>2, <1>3, <1>4, <1>5, <1>6, MovePlace

LEMMA DispatchPlace ==
  ASSUME TypeOK, TypeOK', PlaceInv, Dispatch
  PROVE  PlaceInv'
<1> SUFFICES ASSUME Undisturbed' PROVE PlaceInv'
  BY DEF PlaceInv
<1>1. PICK p \in Pids : SelectNextProcess(p) /\ current_process' = p
  BY DEF Dispatch
<1>2. /\ current_process = None /\ UNCHANGED <<next_pid, freed>> /\ Undisturbed
      /\ UNCHANGED <<blocked_queue, dev_process, require_frame_queue>>
  BY DEF Dispatch, Undisturbed, devVars, memVars
<1>3. PICK a \in {PageReady} \cup {Ready(q) : q \in Queues} :
           /\ Held[a] # <<>> /\ p = Head(Held[a]) /\ Held'[a] = Tail(Held[a])
           /\ PageReady = a \/ page_ready_queue' = page_ready_queue
           /\ \A q \in Queues : Ready(q) = a \/ queues'[q] = queues[q]
  BY <1>1, SelectedFrom
<1>4. a \in Containers /\ Cpu \in Containers /\ a # Cpu
  BY ContainerKinds, ContainersDiffer
<1>5. Held'[Cpu] = Append(Held[Cpu], p)
  BY <1>1, <1>2, HeldValues, HeldValuesNext, ItemsSingle DEF Single
<1>6. SameOutside({a, Cpu})
  BY <1>2, <1>3 DEF SameOutside
<1> QED BY <1>2, <1>3, <1>4, <1>5, <1>6, MovePlace

\* From the head of container a, which is not of a device, to device d.
LEMMA EnterPlace ==
  ASSUME TypeOK, TypeOK', PlaceInv, Undisturbed, UNCHANGED <<next_pid, freed>>,
         NEW d \in Devices,
         NEW a \in Containers, \A e \in Devices : a # Blocked(e) /\ a # Device(e),
         Held[a] # <<>>, Held'[a] = Tail(Held[a]), Enters(d, Head(Held[a])),
         SameOutside({a} \cup {Blocked(e) : e \in Devices} \cup {Device(e) : e \in Devices})
  PROVE  PlaceInv'
<1>1. Placed(Held', Live)
  BY EnterKeeps DEF PlaceInv
<1>2. Live' = Live
  BY DEF Live
<1> QED BY <1>1, <1>2 DEF PlaceInv

LEMMA DispatchFaultPlace ==
  ASSUME TypeOK, TypeOK', PlaceInv, DispatchFault
  PROVE  PlaceInv'
<1> SUFFICES ASSUME Undisturbed' PROVE PlaceInv'
  BY DEF PlaceInv
<1>1. PICK p \in Pids : SelectNextProcess(p) /\ HandlePageFault(p, pc[p])
  BY DEF DispatchFault
<1>2. PICK a \in {PageReady} \cup {Ready(q) : q \in Queues} :
           /\ Held[a] # <<>> /\ p = Head(Held[a]) /\ Held'[a] = Tail(Held[a])
           /\ PageReady = a \/ page_ready_queue' = page_ready_queue
           /\ \A q \in Queues : Ready(q) = a \/ queues'[q] = queues[q]
  BY <1>1, SelectedFrom
<1>3. /\ a \in Containers /\ \A e \in Devices : a # Blocked(e) /\ a # Device(e)
      /\ SwapDevice \in Devices /\ Blocked(SwapDevice) \in Containers /\ pc[p] \in Pages
  <2>1. pc[p] \in Pages /\ SwapDevice \in Devices
    BY ConstantsType DEF TypeOK
  <2>2. CASE a = PageReady
    BY <2>1, <2>2, ContainerKinds, ContainersDiffer
  <2>3. ASSUME NEW q \in Queues, a = Ready(q)
        PROVE  a \in Containers /\ \A e \in Devices : a # Blocked(e) /\ a # Device(e)
    BY <2>3, ContainerKinds, ContainersDiffer
  <2> QED BY <2>1, <2>2, <2>3, ContainerKinds
<1>4. Undisturbed
  <2>1. UNCHANGED require_frame_queue \/ require_frame_queue' = Enqueue(require_frame_queue, p)
    BY <1>1 DEF HandlePageFault, memVars
  <2>2. Enqueue(require_frame_queue, p) # <<>>
    BY <1>1, EnqueueFills DEF TypeOK
  <2> QED BY <2>1, <2>2 DEF Undisturbed
<1>5. Enqueue(blocked_queue[SwapDevice], p) = Append(blocked_queue[SwapDevice], p)
  <2>1. Held[Blocked(SwapDevice)] = blocked_queue[SwapDevice]
    BY <1>3, HeldValues
  <2> QED BY <1>2, <1>3, <1>4, <2>1, HeadElsewhere DEF PlaceInv
<1>6. Enters(SwapDevice, p) /\ UNCHANGED require_frame_queue
  BY <1>1, <1>3, <1>5, FaultEnters
<1>7. UNCHANGED <<next_pid, freed, current_process>>
  BY DEF DispatchFault
<1>8. SameOutside({a} \cup {Blocked(e) : e \in Devices} \cup {Device(e) : e \in Devices})
  BY <1>2, <1>6, <1>7 DEF SameOutside
<1> QED BY <1>2, <1>3, <1>4, <1>6, <1>7, <1>8, EnterPlace

LEMMA AccessMemoryFaultPlace ==
  ASSUME TypeOK, TypeOK', PlaceInv, NEW page \in Pages, AccessMemoryFault(page)
  PROVE  PlaceInv'
<1> SUFFICES ASSUME Undisturbed' PROVE PlaceInv'
  BY DEF PlaceInv
<1> DEFINE p == current_process
<1>1. /\ p \in Pids /\ HandlePageFault(p, page) /\ current_process' = None
      /\ UNCHANGED <<next_pid, freed, page_ready_queue, queues>>
  BY DEF AccessMemoryFault, TypeOK
<1>2. /\ Cpu \in Containers /\ Held[Cpu] # <<>> /\ Head(Held[Cpu]) = p
      /\ Held'[Cpu] = Tail(Held[Cpu])
  BY <1>1, ContainerKinds, HeldValues, HeldValuesNext, ItemsSingle DEF Single
<1>3. /\ \A e \in Devices : Cpu # Blocked(e) /\ Cpu # Device(e)
      /\ SwapDevice \in Devices /\ Blocked(SwapDevice) \in Containers
  BY ConstantsType, ContainerKinds, ContainersDiffer
<1>4. Undisturbed
  <2>1. UNCHANGED require_frame_queue \/ require_frame_queue' = Enqueue(require_frame_queue, p)
    BY <1>1 DEF HandlePageFault, memVars
  <2>2. Enqueue(require_frame_queue, p) # <<>>
    BY <1>1, EnqueueFills DEF TypeOK
  <2> QED BY <2>1, <2>2 DEF Undisturbed
<1>5. Enqueue(blocked_queue[SwapDevice], p) = Append(blocked_queue[SwapDevice], p)
  <2>1. Held[Blocked(SwapDevice)] = blocked_queue[SwapDevice]
    BY <1>3, HeldValues
  <2> QED BY <1>2, <1>3, <1>4, <2>1, HeadElsewhere DEF PlaceInv
<1>6. Enters(SwapDevice, p) /\ UNCHANGED require_frame_queue
  BY <1>1, <1>3, <1>5, FaultEnters
<1>7. SameOutside({Cpu} \cup {Blocked(e) : e \in Devices} \cup {Device(e) : e \in Devices})
  BY <1>1, <1>6 DEF SameOutside
<1> QED BY <1>1, <1>2, <1>3, <1>4, <1>6, <1>7, EnterPlace

LEMMA RequestIOPlace ==
  ASSUME TypeOK, TypeOK', PlaceInv, NEW d \in Devices, RequestIO(d)
  PROVE  PlaceInv'
<1> SUFFICES ASSUME Undisturbed' PROVE PlaceInv'
  BY DEF PlaceInv
<1> DEFINE p == current_process
<1>1. /\ p \in Pids /\ current_process' = None /\ Undisturbed
      /\ UNCHANGED <<next_pid, freed, page_ready_queue, queues, require_frame_queue>>
  BY DEF RequestIO, TypeOK, Undisturbed
<1>2. /\ Cpu \in Containers /\ Held[Cpu] # <<>> /\ Head(Held[Cpu]) = p
      /\ Held'[Cpu] = Tail(Held[Cpu])
  BY <1>1, ContainerKinds, HeldValues, HeldValuesNext, ItemsSingle DEF Single
<1>3. /\ \A e \in Devices : Cpu # Blocked(e) /\ Cpu # Device(e)
      /\ Blocked(d) \in Containers
  BY ContainerKinds, ContainersDiffer
<1>4. Enqueue(blocked_queue[d], p) = Append(blocked_queue[d], p)
  <2>1. Held[Blocked(d)] = blocked_queue[d]
    BY HeldValues
  <2> QED BY <1>1, <1>2, <1>3, <2>1, HeadElsewhere DEF PlaceInv
<1>5. Enters(d, p)
  BY <1>4 DEF RequestIO, Enters, ExecPlain, StartJob, DeviceIdle
<1>6. SameOutside({Cpu} \cup {Blocked(e) : e \in Devices} \cup {Device(e) : e \in Devices})
  BY <1>1 DEF SameOutside
<1> QED BY <1>1, <1>2, <1>3, <1>5, <1>6, EnterPlace

\* The process of a finished job goes to the end of the queue it returns to.
LEMMA CompletionMoves ==
  ASSUME TypeOK, PlaceInv, Undisturbed, NEW d \in Devices, NEW p \in Pids,
         CompleteOperation(d, p)
  PROVE  /\ Returned(d, p)
         /\ Held[Device(d)] = Single(p)
         /\ \E b \in {PageReady} \cup {Ready(q) : q \in Queues} :
              /\ Held'[b] = Append(Held[b], p)
              /\ PageReady = b \/ page_ready_queue' = page_ready_queue
              /\ \A q \in Queues : Ready(q) = b \/ queues'[q] = queues[q]
<1> DEFINE r == RetQueue[d]
<1>1. /\ p = dev_process[d]
      /\ IF SwapReturn(p)
         THEN /\ page_ready_queue' = Enqueue(page_ready_queue, p)
              /\ UNCHANGED queues
         ELSE /\ queues' = [queues EXCEPT ![r] = Enqueue(@, p)]
              /\ UNCHANGED page_ready_queue
  BY DEF CompleteOperation
<1>2. /\ r \in Queues /\ Device(d) \in Containers /\ PageReady \in Containers
      /\ Ready(r) \in Containers /\ PageReady # Device(d) /\ Ready(r) # Device(d)
  BY ConstantsType, ContainerKinds, ContainersDiffer
<1>3. Held[Device(d)] = Single(p)
  BY <1>1, HeldValues
<1>4. Held[Device(d)] # <<>> /\ Head(Held[Device(d)]) = p
  BY <1>3, ItemsSingle
<1>5. \A b \in {PageReady, Ready(r)} :
        Enqueue(Held[b], p) = Append(Held[b], p) /\ Len(Held[b]) < MaxProcesses
  BY <1>2, <1>4, HeadElsewhere DEF PlaceInv
<1>6. Held[PageReady] = page_ready_queue /\ Held[Ready(r)] = queues[r]
  BY <1>2, HeldValues
<1>7. Returned(d, p)
  BY <1>5, <1>6 DEF Returned
<1>8. CASE SwapReturn(p)
  <2>1. Held'[PageReady] = Append(Held[PageReady], p)
    BY <1>1, <1>5, <1>6, <1>8, HeldValuesNext
  <2> QED BY <1>1, <1>3, <1>7, <1>8, <2>1
<1>9. CASE ~SwapReturn(p)
  <2>1. /\ queues \in [Queues -> Seq(Pids)]
        /\ queues' = [queues EXCEPT ![r] = Enqueue(@, p)] /\ UNCHANGED page_ready_queue
    BY <1>1, <1>9 DEF TypeOK
  <2>2. Held'[Ready(r)] = Append(Held[Ready(r)], p)
    BY <1>2, <1>5, <1>6, <2>1, HeldValuesNext
  <2>3. \A q \in Queues : Ready(q) = Ready(r) \/ queues'[q] = queues[q]
    BY <2>1
  <2> QED BY <1>2, <1>3, <1>7, <2>1, <2>2, <2>3
<1> QED BY <1>8, <1>9

LEMMA JobDonePlace ==
  ASSUME TypeOK, TypeOK', PlaceInv, NEW d \in Devices, JobDone(d)
  PROVE  PlaceInv'
<1> SUFFICES ASSUME Undisturbed' PROVE PlaceInv'
  BY DEF PlaceInv
<1>1. PICK p \in Pids :
        /\ CompleteOperation(d, p)
        /\ dev_process' = IF Returned(d, p) THEN [dev_process EXCEPT ![d] = None]
                                            ELSE dev_process
        /\ UNCHANGED <<blocked_queue, require_frame_queue>>
  BY DEF JobDone
<1>2. UNCHANGED <<next_pid, freed, current_process>> /\ Undisturbed
  BY <1>1 DEF CompleteOperation, Undisturbed
<1>3. Returned(d, p) /\ Held[Device(d)] = Single(p)
  BY <1>1, <1>2, CompletionMoves
<1>4. PICK b \in {PageReady} \cup {Ready(q) : q \in Queues} :
        /\ Held'[b] = Append(Held[b], p)
        /\ PageReady = b \/ page_ready_queue' = page_ready_queue
        /\ \A q \in Queues : Ready(q) = b \/ queues'[q] = queues[q]
  BY <1>1, <1>2, CompletionMoves
<1>5. dev_process' = [dev_process EXCEPT ![d] = None]
      /\ dev_process \in [Devices -> Pids \cup {None}]
  BY <1>1, <1>3 DEF TypeOK
<1>6. /\ Held[Device(d)] # <<>> /\ Head(Held[Device(d)]) = p
      /\ Held'[Device(d)] = Tail(Held[Device(d)])
  BY <1>3, <1>5, HeldValuesNext, ItemsSingle DEF Single
<1>7. Device(d) \in Containers /\ b \in Containers /\ Device(d) # b
  <2>1. CASE b = PageReady
    BY <2>1, ContainerKinds, ContainersDiffer
  <2>2. CASE \E q \in Queues : b = Ready(q)
    BY <2>2, ContainerKinds, ContainersDiffer
  <2> QED BY <1>4, <2>1, <2>2
<1>8. SameOutside({Device(d), b})
  BY <1>1, <1>2, <1>4, <1>5 DEF SameOutside
<1> QED BY <1>2, <1>4, <1>6, <1>7, <1>8, MovePlace

\* Two moves: the finished process returns, the next one takes its place.
LEMMA JobDoneStartNextPlace ==
  ASSUME TypeOK, TypeOK', PlaceInv, NEW d \in Devices, JobDoneStartNext(d)
  PROVE  PlaceInv'
<1> SUFFICES ASSUME Undisturbed' PROVE PlaceInv'
  BY DEF PlaceInv
<1> DEFINE next == Head(blocked_queue[d])
<1>1. PICK p \in Pids :
        /\ CompleteOperation(d, p)
        /\ blocked_queue[d] # <<>>
        /\ blocked_queue' = [blocked_queue EXCEPT ![d] = Tail(@)]
        /\ dev_process' = [dev_process EXCEPT ![d] = next]
        /\ UNCHANGED require_frame_queue
  BY DEF JobDoneStartNext, ExecPageLoad, ExecPlain, StartJob
<1>2. UNCHANGED <<next_pid, freed, current_process>> /\ Undisturbed
  BY <1>1 DEF CompleteOperation, Undisturbed
<1>3. Held[Device(d)] = Single(p)
  BY <1>1, <1>2, CompletionMoves
<1>4. PICK b \in {PageReady} \cup {Ready(q) : q \in Queues} :
        /\ Held'[b] = Append(Held[b], p)
        /\ PageReady = b \/ page_ready_queue' = page_ready_queue
        /\ \A q \in Queues : Ready(q) = b \/ queues'[q] = queues[q]
  BY <1>1, <1>2, CompletionMoves
<1>5. /\ dev_process \in [Devices -> Pids \cup {None}]
      /\ blocked_queue \in [Devices -> Seq(Pids)] /\ next \in Pids
  BY <1>1, HeadTailType DEF TypeOK
<1>6. /\ Held[Device(d)] # <<>> /\ Head(Held[Device(d)]) = p /\ Tail(Held[Device(d)]) = <<>>
      /\ Held'[Device(d)] = Append(<<>>, next)
      /\ Held[Blocked(d)] = blocked_queue[d] /\ Held'[Blocked(d)] = Tail(blocked_queue[d])
  BY <1>1, <1>3, <1>5, HeldValues, HeldValuesNext, ItemsSingle
<1>7. /\ Device(d) \in Containers /\ Blocked(d) \in Containers /\ b \in Containers
      /\ Device(d) # b /\ Blocked(d) # b /\ Device(d) # Blocked(d)
  BY ContainerKinds, ContainersDiffer
<1>8. SameOutside({Device(d), Blocked(d), b})
  BY <1>1, <1>2, <1>4, <1>5 DEF SameOutside
<1>9. Placed(Held', Live)
  <2> DEFINE C == Held
             D == Held'
             S == Live
             M == [C EXCEPT ![Device(d)] = <<>>, ![b] = Append(C[b], p)]
  <2>1. /\ Placed(C, S) /\ C[Device(d)] # <<>> /\ Head(C[Device(d)]) = p
        /\ Tail(C[Device(d)]) = <<>> /\ C[Blocked(d)] # <<>> /\ Head(C[Blocked(d)]) = next
        /\ D[Device(d)] = Append(<<>>, next) /\ D[Blocked(d)] = Tail(C[Blocked(d)])
        /\ D[b] = Append(C[b], p)
    BY <1>1, <1>2, <1>4, <1>6 DEF PlaceInv
  <2>2. /\ D \in [Containers -> Seq(Pids)]
        /\ \A c \in Containers \ {Device(d), Blocked(d), b} : D[c] = C[c]
    BY <1>8, HeldTypeNext, HeldSame
  <2> HIDE DEF C, D, S, next
  <2>3. C \in [Containers -> Seq(Pids)] /\ Append(C[b], p) \in Seq(Pids) /\ <<>> \in Seq(Pids)
    BY <1>7, <2>1, AppendProperties, EmptySeq DEF Placed
  <2>4. /\ M \in [Containers -> Seq(Pids)]
        /\ M[Device(d)] = <<>> /\ M[b] = Append(C[b], p) /\ M[Blocked(d)] = C[Blocked(d)]
        /\ \A c \in Containers \ {Device(d), b} : M[c] = C[c]
    BY <1>7, <2>3
  <2> HIDE DEF M
  <2>5. Placed(M, S)
    <3>1. Moved(C, M, Device(d), b)
      BY <1>7, <2>1, <2>4 DEF Moved
    <3> QED BY <2>1, <3>1, MoveKeeps
  <2>6. Placed(D, S)
    <3>1. Moved(M, D, Blocked(d), Device(d))
      BY <1>7, <2>1, <2>2, <2>4 DEF Moved
    <3> QED BY <2>5, <3>1, MoveKeeps
  <2> QED BY <2>6 DEF D, S
<1> QED BY <1>2, <1>9 DEF PlaceInv, Live

LEMMA JobDoneOutOfMemoryPlace ==
  ASSUME TypeOK, NEW d \in Devices, JobDoneOutOfMemory(d)
  PROVE  PlaceInv'
BY EnqueueFills DEF JobDoneOutOfMemory, PlaceInv, Undisturbed, TypeOK

\* Several moves at once: each overdue head goes one ready queue up.
OverdueHead(q) == IF Overdue(q) THEN {Head(queues[q])} ELSE {}

LEMMA PromotedItems ==
  ASSUME TypeOK, PlaceInv, Undisturbed, PromoteWaitingProcesses, NEW q \in Queues
  PROVE  /\ Items(queues'[q]) = (Items(queues[q]) \ OverdueHead(q)) \cup OverdueHead(q + 1)
         /\ Distinct(queues'[q])
         /\ OverdueHead(q) \subseteq Items(queues[q])
         /\ q + 1 \in Queues => OverdueHead(q + 1) \subseteq Items(queues[q + 1])
         /\ q + 1 \notin Queues => OverdueHead(q + 1) = {}
<1> DEFINE kept == IF Overdue(q) THEN Tail(queues[q]) ELSE queues[q]
           h == Head(queues[q + 1])
<1>1. /\ \A r \in Queues : /\ queues[r] \in Seq(Pids) /\ Distinct(queues[r])
                           /\ Items(queues[r]) \subseteq Live
      /\ \A r, t \in Queues : r # t => Items(queues[r]) \cap Items(queues[t]) = {}
  <2>1. \A r \in Queues : Ready(r) \in Containers /\ Held[Ready(r)] = queues[r]
    BY ContainerKinds, HeldValues
  <2>2. \A r, t \in Queues : r # t => Ready(r) # Ready(t)
    BY ContainersDiffer
  <2>3. Placed(Held, Live)
    BY DEF PlaceInv
  <2>4. \A r \in Queues : queues[r] \in Seq(Pids)
    BY DEF TypeOK
  <2>5. \A r \in Queues : Distinct(queues[r]) /\ Items(queues[r]) \subseteq Live
    BY <2>1, <2>3 DEF Placed
  <2>6. \A r, t \in Queues : r # t => Items(queues[r]) \cap Items(queues[t]) = {}
    BY <2>1, <2>2, <2>3 DEF Placed
  <2> QED BY <2>4, <2>5, <2>6
<1>2. \A r : Overdue(r) => /\ r \in Queues /\ queues[r] # <<>>
                           /\ Head(queues[r]) \in Items(queues[r]) /\ Head(queues[r]) \in Pids
  BY <1>1, ItemsTail, HeadTailType DEF Overdue
<1>3. /\ kept \in Seq(Pids) /\ Distinct(kept)
      /\ Items(kept) = Items(queues[q]) \ OverdueHead(q)
  <2>1. CASE Overdue(q)
    BY <1>1, <1>2, <2>1, ItemsTail DEF OverdueHead
  <2>2. CASE ~Overdue(q)
    BY <1>1, <2>2 DEF OverdueHead
  <2> QED BY <2>1, <2>2
<1>4. queues'[q] = IF Overdue(q + 1) THEN Enqueue(kept, h) ELSE kept
  BY DEF PromoteWaitingProcesses
<1>5. OverdueHead(q) \subseteq Items(queues[q])
  BY <1>2 DEF OverdueHead
<1>6. /\ q + 1 \in Queues => OverdueHead(q + 1) \subseteq Items(queues[q + 1])
      /\ q + 1 \notin Queues => OverdueHead(q + 1) = {}
  BY <1>2 DEF OverdueHead
<1>7. CASE Overdue(q + 1)
  <2>1. q + 1 \in Queues /\ q + 1 # q /\ h \in Items(queues[q + 1]) /\ h \in Pids
    BY <1>2, <1>7, ConstantsType DEF Queues
  <2>2. h \notin Items(kept)
    BY <1>1, <1>3, <2>1
  <2> HIDE DEF kept, h
  <2>3. Enqueue(kept, h) = Append(kept, h)
    BY <1>3, <2>1, <2>2, EnqueueAppends
  <2>4. Items(Append(kept, h)) = Items(kept) \cup {h} /\ Distinct(Append(kept, h))
    BY <1>3, <2>1, <2>2, ItemsAppend
  <2>5. OverdueHead(q + 1) = {h}
    BY <1>7 DEF OverdueHead, h
  <2> QED BY <1>3, <1>4, <1>5, <1>6, <1>7, <2>3, <2>4, <2>5
<1>8. CASE ~Overdue(q + 1)
  <2>1. OverdueHead(q + 1) = {} /\ queues'[q] = kept
    BY <1>4, <1>8 DEF OverdueHead
  <2> HIDE DEF kept
  <2> QED BY <1>3, <1>5, <1>6, <2>1
<1> QED BY <1>7, <1>8

LEMMA PromotePlace ==
  ASSUME TypeOK, TypeOK', PlaceInv, PromoteWaitingProcesses
  PROVE  PlaceInv'
<1> SUFFICES ASSUME Undisturbed' PROVE freed' \subseteq 1 .. next_pid' - 1 /\ Placed(Held', Live')
  BY DEF PlaceInv
<1>1. /\ Undisturbed /\ Live' = Live
      /\ UNCHANGED <<next_pid, freed, page_ready_queue, current_process, blocked_queue,
                     dev_process, require_frame_queue>>
  BY DEF PromoteWaitingProcesses, Undisturbed, devVars, memVars, Live
<1>2. Placed(Held, Live) /\ freed \subseteq 1 .. next_pid - 1
  BY <1>1 DEF PlaceInv
\* What a container gives away and what it receives.
<1> DEFINE Out(c) == UNION {OverdueHead(q) : q \in {r \in Queues : c = Ready(r)}}
           In(c)  == UNION {OverdueHead(q + 1) : q \in {r \in Queues : c = Ready(r)}}
<1>3. \A q \in Queues : Out(Ready(q)) = OverdueHead(q) /\ In(Ready(q)) = OverdueHead(q + 1)
  BY ContainersDiffer
<1>4. \A c \in Containers : (\A q \in Queues : c # Ready(q)) =>
        Out(c) = {} /\ In(c) = {} /\ Held'[c] = Held[c]
  <2>1. SameOutside({Ready(q) : q \in Queues})
    BY <1>1 DEF SameOutside
  <2> QED BY <2>1, HeldSame
<1>5. ASSUME NEW c \in Containers
      PROVE  /\ Items(Held'[c]) = (Items(Held[c]) \ Out(c)) \cup In(c)
             /\ Distinct(Held'[c]) /\ Out(c) \subseteq Items(Held[c])
             /\ In(c) # {} => \E e \in Containers : In(c) = Out(e)
  <2>1. CASE \A q \in Queues : c # Ready(q)
    <3>1. Distinct(Held[c])
      BY <1>2 DEF Placed
    <3> QED BY <1>4, <2>1, <3>1
  <2>2. ASSUME NEW q \in Queues, c = Ready(q)
        PROVE  /\ Items(Held'[c]) = (Items(Held[c]) \ Out(c)) \cup In(c)
               /\ Distinct(Held'[c]) /\ Out(c) \subseteq Items(Held[c])
               /\ In(c) # {} => \E e \in Containers : In(c) = Out(e)
    <3>1. Held[c] = queues[q] /\ Held'[c] = queues'[q] /\ Out(c) = OverdueHead(q)
          /\ In(c) = OverdueHead(q + 1)
      BY <1>3, <2>2, HeldValues, HeldValuesNext
    <3> HIDE DEF Out, In
    <3>2. /\ Items(queues'[q]) = (Items(queues[q]) \ OverdueHead(q)) \cup OverdueHead(q + 1)
          /\ Distinct(queues'[q]) /\ OverdueHead(q) \subseteq Items(queues[q])
          /\ q + 1 \notin Queues => OverdueHead(q + 1) = {}
      BY <1>1, PromotedItems
    <3>3. q + 1 \in Queues => Ready(q + 1) \in Containers /\ In(c) = Out(Ready(q + 1))
      BY <1>3, <3>1, ContainerKinds
    <3> QED BY <3>1, <3>2, <3>3
  <2> HIDE DEF Out, In
  <2> QED BY <2>1, <2>2
<1>6. \A c, e \in Containers : c # e => In(c) \cap In(e) = {}
  <2>1. ASSUME NEW q \in Queues, NEW r \in Queues, q # r
        PROVE  OverdueHead(q + 1) \cap OverdueHead(r + 1) = {}
    <3>1. /\ q + 1 \in Queues => OverdueHead(q + 1) \subseteq Items(queues[q + 1])
          /\ q + 1 \notin Queues => OverdueHead(q + 1) = {}
          /\ r + 1 \in Queues => OverdueHead(r + 1) \subseteq Items(queues[r + 1])
          /\ r + 1 \notin Queues => OverdueHead(r + 1) = {}
      BY <1>1, PromotedItems
    <3>2. q + 1 # r + 1
      BY <2>1 DEF Queues
    <3>3. ASSUME q + 1 \in Queues, r + 1 \in Queues
          PROVE  Items(queues[q + 1]) \cap Items(queues[r + 1]) = {}
      <4>1. /\ Ready(q + 1) \in Containers /\ Held[Ready(q + 1)] = queues[q + 1]
            /\ Ready(r + 1) \in Containers /\ Held[Ready(r + 1)] = queues[r + 1]
            /\ Ready(q + 1) # Ready(r + 1)
        BY <3>2, <3>3, ContainerKinds, HeldValues, ContainersDiffer
      <4> QED BY <1>2, <4>1 DEF Placed
    <3> QED BY <3>1, <3>3
  <2>2. \A c \in Containers : In(c) # {} => \E q \in Queues : c = Ready(q)
    BY <1>4
  <2> HIDE DEF Out, In
  <2> QED BY <1>3, <2>1, <2>2
<1> DEFINE C == Held
           D == Held'
           S == Live
<1>7. /\ Placed(C, S) /\ D \in [Containers -> Seq(Pids)]
      /\ \A c \in Containers : /\ Items(D[c]) = (Items(C[c]) \ Out(c)) \cup In(c)
                               /\ Distinct(D[c]) /\ Out(c) \subseteq Items(C[c])
                               /\ In(c) # {} => \E e \in Containers : In(c) = Out(e)
  BY <1>2, <1>5, HeldTypeNext
<1>8. ASSUME NEW e \in Containers, Out(e) # {}
      PROVE  \E c \in Containers : In(c) = Out(e)
  <2>1. PICK q \in Queues : e = Ready(q)
    BY <1>4, <1>8
  <2>2. Out(e) = OverdueHead(q) /\ Overdue(q)
    BY <1>3, <1>8, <2>1 DEF OverdueHead
  <2>3. q - 1 \in Queues /\ q - 1 + 1 = q
    BY <2>2, ConstantsType DEF Overdue, Queues
  <2>4. Ready(q - 1) \in Containers /\ In(Ready(q - 1)) = OverdueHead(q)
    BY <1>3, <2>3, ContainerKinds
  <2> QED BY <2>2, <2>4
<1> HIDE DEF C, D, S, Out, In
<1>9. Placed(D, S)
  <2>1. ASSUME NEW c \in Containers
        PROVE  Items(D[c]) \subseteq S
    <3>1. Items(C[c]) \subseteq S
      BY <1>7 DEF Placed
    <3>2. In(c) \subseteq S
      <4>1. CASE In(c) = {}
        BY <4>1
      <4>2. ASSUME NEW e \in Containers, In(c) = Out(e)
            PROVE  In(c) \subseteq S
        BY <1>7, <4>2 DEF Placed
      <4> QED BY <1>7, <4>1, <4>2
    <3> QED BY <1>7, <3>1, <3>2
  <2>2. ASSUME NEW c \in Containers, NEW e \in Containers, c # e
        PROVE  In(c) \cap (Items(C[e]) \ Out(e)) = {}
    <3>1. CASE In(c) = {}
      BY <3>1
    <3>2. ASSUME NEW g \in Containers, In(c) = Out(g)
          PROVE  In(c) \cap (Items(C[e]) \ Out(e)) = {}
      <4>1. Out(g) \subseteq Items(C[g]) /\ (g # e => Items(C[g]) \cap Items(C[e]) = {})
        BY <1>7 DEF Placed
      <4> QED BY <3>2, <4>1
    <3> QED BY <1>7, <3>1, <3>2
  <2>3. ASSUME NEW c \in Containers, NEW e \in Containers, c # e
        PROVE  Items(D[c]) \cap Items(D[e]) = {}
    <3>1. Items(C[c]) \cap Items(C[e]) = {} /\ In(c) \cap In(e) = {}
      BY <1>6, <1>7, <2>3 DEF Placed
    <3>2. /\ In(c) \cap (Items(C[e]) \ Out(e)) = {}
          /\ In(e) \cap (Items(C[c]) \ Out(c)) = {}
      BY <2>2, <2>3
    <3> QED BY <1>7, <3>1, <3>2
  <2>4. ASSUME NEW p \in S
        PROVE  \E c \in Containers : p \in Items(D[c])
    <3>1. PICK c \in Containers : p \in Items(C[c])
      BY <1>7 DEF Placed
    <3>2. CASE p \in Out(c)
      <4>1. PICK e \in Containers : In(e) = Out(c)
        BY <1>8, <3>2
      <4> QED BY <1>7, <3>2, <4>1
    <3>3. CASE p \notin Out(c)
      BY <1>7, <3>1, <3>3
    <3> QED BY <3>2, <3>3
  <2> QED BY <1>7, <2>1, <2>3, <2>4 DEF Placed
<1> QED BY <1>1, <1>2, <1>9 DEF D, S

LEMMA NextPlace == TypeOK /\ PlaceInv /\ [Next]_vars => PlaceInv'
<1> SUFFICES ASSUME TypeOK, PlaceInv, [Next]_vars PROVE PlaceInv'
  OBVIOUS
<1>1. TypeOK'
  BY NextTypeOK
<1>2. CASE UNCHANGED <<next_pid, freed, page_ready_queue, queues, current_process,
                       blocked_queue, dev_process, require_frame_queue>>
  BY <1>1, <1>2, UnmovedPlace
<1>3. CASE Next
  BY <1>1, <1>2, <1>3, IncomingProcessPlace, PromotePlace, JobDonePlace,
     JobDoneStartNextPlace, JobDoneOutOfMemoryPlace, DispatchPlace, DispatchFaultPlace,
     AccessMemoryFaultPlace, FinishProcessPlace, PreemptPlace, RequestIOPlace
  DEF Next, BeginTimeUnit, Stop, PageLoadFinished, DevicesHandled, SwapOutDone,
      SwapOutScan, NothingToSelect, AccessMemory, NoMemoryAccess, RunOneTimeUnit,
      IdleTimeUnit, UseFreedProcess, Goto, otherVars, schedVars, devVars, memVars
<1>4. CASE UNCHANGED vars
  BY <1>2, <1>4 DEF vars, schedVars, devVars, memVars
<1> QED BY <1>3, <1>4

\* A process in container c is alive and nowhere else.
LEMMA OnlyThere ==
  ASSUME TypeOK, PlaceInv, Undisturbed, NEW c \in Containers, NEW p \in Items(Held[c])
  PROVE  /\ p \in Pids /\ p # None /\ ~(p >= next_pid) /\ p \notin freed
         /\ c # Cpu => p # current_process
         /\ c # PageReady => p \notin Items(page_ready_queue)
         /\ \A q \in Queues : c # Ready(q) => p \notin Items(queues[q])
<1>1. p \in Pids /\ p # None
  BY HeldType, ItemsType, PidsType
<1>2. p \in Live
  BY DEF PlaceInv, Placed
<1>3. ~(p >= next_pid) /\ p \notin freed
  BY <1>2 DEF Live, TypeOK
<1>4. \A e \in Containers : c # e => p \notin Items(Held[e])
  BY DEF PlaceInv, Placed
<1>5. c # Cpu => p # current_process
  <2>1. Held[Cpu] = Single(current_process) /\ Cpu \in Containers
    BY HeldValues, ContainerKinds
  <2>2. current_process = p => p \in Items(Single(current_process))
    BY <1>1, ItemsSingle
  <2> QED BY <1>4, <2>1, <2>2
<1>6. c # PageReady => p \notin Items(page_ready_queue)
  BY <1>4, HeldValues, ContainerKinds
<1>7. \A q \in Queues : c # Ready(q) => p \notin Items(queues[q])
  BY <1>4, HeldValues, ContainerKinds
<1> QED BY <1>1, <1>3, <1>5, <1>6, <1>7

\* Queues repeat nobody, so taking from or adding to them changes one item.
LEMMA QueuesDistinct ==
  ASSUME TypeOK, PlaceInv, Undisturbed
  PROVE  /\ page_ready_queue \in Seq(Pids) /\ Distinct(page_ready_queue)
         /\ \A q \in Queues : queues[q] \in Seq(Pids) /\ Distinct(queues[q])
BY HeldValues, ContainerKinds DEF TypeOK, PlaceInv, Placed

LEMMA PlacedOnce ==
  ASSUME TypeOK, PlaceInv
  PROVE  OnePlace
<1> SUFFICES ASSUME Undisturbed, NEW p \in Pids
             PROVE  IF p \in Live THEN \E s \in Places(p) : Places(p) = {s}
                                  ELSE Places(p) = {}
  BY DEF OnePlace
<1>1. Placed(Held, Live) /\ \A c \in Containers : Contents(c) = Held[c]
  BY DEF PlaceInv, Held
<1>2. \A c \in Containers : Held[c] \in Seq(Pids) /\ Len(Held[c]) \in Nat
  BY HeldType, LenProperties
<1>3. Places(p) = {s \in Containers \X (1 .. MaxProcesses) :
                     s[2] <= Len(Held[s[1]]) /\ Held[s[1]][s[2]] = p}
  BY <1>1 DEF Places
<1> HIDE DEF Held
<1>4. CASE p \notin Live
  <2>1. \A c \in Containers : \A i \in 1 .. Len(Held[c]) : Held[c][i] # p
    BY <1>1, <1>4 DEF Placed, Items
  <2> QED BY <1>2, <1>3, <1>4, <2>1, ConstantsType
<1>5. CASE p \in Live
  <2>1. PICK c \in Containers : p \in Items(Held[c])
    BY <1>1, <1>5 DEF Placed
  <2>2. PICK i \in 1 .. Len(Held[c]) : Held[c][i] = p
    BY <2>1 DEF Items
  <2>3. i \in 1 .. MaxProcesses
    <3>1. Len(Held[c]) <= MaxProcesses
      BY <1>1, <1>2, NoMoreThanAll DEF Placed
    <3> QED BY <1>2, <3>1, ConstantsType
  <2>4. <<c, i>> \in Places(p)
    BY <1>2, <1>3, <2>2, <2>3
  <2>5. ASSUME NEW s \in Places(p)
        PROVE  s = <<c, i>>
    <3>1. PICK e \in Containers, j \in 1 .. MaxProcesses :
            s = <<e, j>> /\ j <= Len(Held[e]) /\ Held[e][j] = p
      BY <1>3, <2>5
    <3>2. j \in 1 .. Len(Held[e]) /\ p \in Items(Held[e])
      BY <1>2, <3>1, ConstantsType DEF Items
    <3>3. e = c
      BY <1>1, <2>1, <3>2 DEF Placed
    <3>4. j = i
      BY <1>1, <2>2, <3>1, <3>2, <3>3 DEF Placed, Distinct
    <3> QED BY <3>1, <3>3, <3>4
  <2> QED BY <1>5, <2>4, <2>5
<1> QED BY <1>4, <1>5

\* As long as memory suffices no handler loses a pointer to a process, keeps
\* one twice, or keeps one to a process that has been disposed of.
THEOREM HeldOnce == Spec => []OnePlace
<1>1. TypeOK /\ Init => PlaceInv
  BY InitPlace
<1>2. TypeOK /\ PlaceInv /\ [Next]_vars => PlaceInv'
  BY NextPlace
<1>3. TypeOK /\ PlaceInv => OnePlace
  BY PlacedOnce
<1> QED BY <1>1, <1>2, <1>3, TypeCorrect, PTL DEF Spec

===============================================================================

------------------------------ MODULE FrameProofs ------------------------------
(***************************************************************************)
(* The frame table: a frame belongs to the OS, to one page of one process, *)
(* or to the one read the swap device carries out, and the lock and the    *)
(* counter agree with that, in memory's plenty and after it has run out.   *)
(*                                                                         *)
(* Three things happen to a frame: a read takes it, the read is over and   *)
(* its page mapped, and nothing.  FrameState says what the table must be;  *)
(* the lemmas about it are about any table, the actions are shown to be    *)
(* instances of them.                                                      *)
(***************************************************************************)
EXTENDS PlaceProofs

MappedIn(pt)   == {pt[p][g] : p \in Pids, g \in Pages} \ {NoFrame, Absent}
InFlightIn(of) == {of[p] : p \in Pids} \ {NoFrame}

PageTables == [Pids -> [Pages -> Frames \cup {NoFrame, Absent}]]
OpFrames   == [Pids -> Frames \cup {NoFrame}]

\* Page tables pt, frames being read into of, used frames us, locked frames lck
\* and the counter of free frames agree.
FrameState(pt, of, us, lck, free) ==
  /\ pt \in PageTables /\ of \in OpFrames /\ us \subseteq Frames /\ free \in Int
  /\ us = ReservedFrames \cup MappedIn(pt) \cup InFlightIn(of)
  /\ free = FrameCount - Cardinality(us)
  /\ lck = InFlightIn(of)
  /\ \A p, r \in Pids : of[p] # NoFrame /\ of[r] # NoFrame => p = r
  /\ \A p, r \in Pids : \A g, h \in Pages :
       pt[p][g] \in Frames /\ pt[p][g] = pt[r][h] => p = r /\ g = h
  /\ InFlightIn(of) \cap MappedIn(pt) = {}
  /\ ReservedFrames \cap (InFlightIn(of) \cup MappedIn(pt)) = {}

LEMMA NotFrames == NoFrame \notin Frames /\ Absent \notin Frames /\ NoFrame # Absent
BY ConstantsType DEF NoFrame, Absent, Frames

LEMMA FramesFinite ==
  ASSUME NEW us \in SUBSET Frames
  PROVE  /\ IsFiniteSet(us) /\ Cardinality(us) \in Nat
         /\ \A f \in Frames \ us : Cardinality(us \cup {f}) = Cardinality(us) + 1
<1>1. IsFiniteSet(Frames)
  <2>1. IsFiniteSet(0 .. FrameCount - 1)
    BY ConstantsType, FS_Interval, 0 \in Int, FrameCount - 1 \in Int, Zenon
  <2> QED BY <2>1 DEF Frames
<1>2. IsFiniteSet(us)
  BY <1>1, FS_Subset
<1>3. Cardinality(us) \in Nat
  BY <1>2, FS_CardinalityType
<1>4. ASSUME NEW f \in Frames \ us
      PROVE  Cardinality(us \cup {f}) = Cardinality(us) + 1
  BY <1>2, FS_AddElement
<1> QED BY <1>2, <1>3, <1>4

\* A read takes a free frame while no other is in progress.
LEMMA ReadTakesFrame ==
  ASSUME NEW pt, NEW of, NEW us, NEW lck, NEW free, FrameState(pt, of, us, lck, free),
         \A r \in Pids : of[r] = NoFrame, NEW p \in Pids, NEW f \in Frames \ us
  PROVE  FrameState(pt, [of EXCEPT ![p] = f], us \cup {f}, lck \cup {f}, free - 1)
<1> DEFINE n == [of EXCEPT ![p] = f]
<1>1. /\ n \in OpFrames /\ n[p] = f /\ \A r \in Pids : r # p => n[r] = NoFrame
      /\ f \in Frames /\ f # NoFrame
  BY NotFrames DEF FrameState, OpFrames
<1> HIDE DEF n
<1>2. InFlightIn(n) = {f} /\ InFlightIn(of) = {}
  BY <1>1 DEF InFlightIn
<1>3. f \notin MappedIn(pt) /\ f \notin ReservedFrames
  BY DEF FrameState
<1>4. /\ us \cup {f} \subseteq Frames /\ free - 1 \in Int
      /\ free - 1 = FrameCount - Cardinality(us \cup {f})
  <2>1. us \subseteq Frames /\ free \in Int /\ free = FrameCount - Cardinality(us)
    BY DEF FrameState
  <2>2. Cardinality(us) \in Nat /\ Cardinality(us \cup {f}) = Cardinality(us) + 1
    BY <2>1, FramesFinite
  <2> QED BY <1>1, <2>1, <2>2, ConstantsType
<1>5. us \cup {f} = ReservedFrames \cup MappedIn(pt) \cup InFlightIn(n)
  BY <1>2 DEF FrameState
<1>6. lck \cup {f} = InFlightIn(n)
  BY <1>2 DEF FrameState
<1>7. \A q, r \in Pids : n[q] # NoFrame /\ n[r] # NoFrame => q = r
  BY <1>1
<1>8. FrameState(pt, n, us \cup {f}, lck \cup {f}, free - 1)
  BY <1>1, <1>2, <1>3, <1>4, <1>5, <1>6, <1>7 DEF FrameState
<1> QED BY <1>8 DEF n

\* The read of p is over: its frame, if it has one, is mapped for page g.
LEMMA ReadMapsFrame ==
  ASSUME NEW pt, NEW of, NEW us, NEW lck, NEW free, FrameState(pt, of, us, lck, free),
         NEW p \in Pids, NEW g \in Pages, pt[p][g] \notin Frames
  PROVE  FrameState([pt EXCEPT ![p][g] = of[p]], [of EXCEPT ![p] = NoFrame], us,
                    lck \ {of[p]}, free)
<1> DEFINE t == [pt EXCEPT ![p][g] = of[p]]
           n == [of EXCEPT ![p] = NoFrame]
<1>1. pt \in PageTables /\ of \in OpFrames /\ of[p] \in Frames \cup {NoFrame}
  BY DEF FrameState, OpFrames
<1>2. /\ t \in PageTables /\ t[p][g] = of[p]
      /\ \A r \in Pids : \A h \in Pages : ~(r = p /\ h = g) => t[r][h] = pt[r][h]
  BY <1>1 DEF PageTables
<1>3. n \in OpFrames /\ n[p] = NoFrame /\ \A r \in Pids : r # p => n[r] = of[r]
  BY <1>1 DEF OpFrames
<1> HIDE DEF t, n
<1>4. MappedIn(t) = MappedIn(pt) \cup ({of[p]} \ {NoFrame})
  <2>1. pt[p][g] \in {NoFrame, Absent} /\ of[p] # Absent
    BY <1>1, NotFrames DEF PageTables
  <2>2. ASSUME NEW x \in MappedIn(t)
        PROVE  x \in MappedIn(pt) \cup ({of[p]} \ {NoFrame})
    BY <1>2, <2>2 DEF MappedIn
  <2>3. ASSUME NEW x \in MappedIn(pt)
        PROVE  x \in MappedIn(t)
    <3>1. PICK r \in Pids, h \in Pages : x = pt[r][h] /\ x \notin {NoFrame, Absent}
      BY <2>3 DEF MappedIn
    <3>2. ~(r = p /\ h = g)
      BY <2>1, <3>1
    <3> QED BY <1>2, <3>1, <3>2 DEF MappedIn
  <2>4. of[p] # NoFrame => of[p] \in MappedIn(t)
    BY <1>2, <2>1 DEF MappedIn
  <2> QED BY <2>2, <2>3, <2>4
<1>5. InFlightIn(n) = InFlightIn(of) \ {of[p]}
  <2>1. \A r \in Pids : r # p /\ of[r] # NoFrame => of[r] # of[p]
    BY DEF FrameState
  <2> QED BY <1>3, <2>1 DEF InFlightIn
<1>6. of[p] # NoFrame => of[p] \in InFlightIn(of)
  BY DEF InFlightIn
<1>7. \A q, r \in Pids : n[q] # NoFrame /\ n[r] # NoFrame => q = r
  BY <1>3 DEF FrameState
<1>8. ASSUME NEW q \in Pids, NEW r \in Pids, NEW h \in Pages, NEW k \in Pages,
             t[q][h] \in Frames, t[q][h] = t[r][k]
      PROVE  q = r /\ h = k
  <2>1. of[p] \in Frames => of[p] \notin MappedIn(pt)
    BY <1>6, NotFrames DEF FrameState
  <2>2. \A x \in Pids, y \in Pages : pt[x][y] \in Frames => pt[x][y] \in MappedIn(pt)
    BY NotFrames DEF MappedIn
  <2>3. CASE q = p /\ h = g /\ ~(r = p /\ k = g)
    BY <1>2, <1>8, <2>1, <2>2, <2>3
  <2>4. CASE r = p /\ k = g /\ ~(q = p /\ h = g)
    BY <1>2, <1>8, <2>1, <2>2, <2>4
  <2>5. CASE ~(q = p /\ h = g) /\ ~(r = p /\ k = g)
    BY <1>2, <1>8, <2>5 DEF FrameState
  <2> QED BY <2>3, <2>4, <2>5
<1>9. /\ us = ReservedFrames \cup MappedIn(pt) \cup InFlightIn(of) /\ lck = InFlightIn(of)
      /\ InFlightIn(of) \cap MappedIn(pt) = {}
      /\ ReservedFrames \cap (InFlightIn(of) \cup MappedIn(pt)) = {}
  BY DEF FrameState
<1>10. /\ us = ReservedFrames \cup MappedIn(t) \cup InFlightIn(n)
      /\ lck \ {of[p]} = InFlightIn(n)
      /\ InFlightIn(n) \cap MappedIn(t) = {}
      /\ ReservedFrames \cap (InFlightIn(n) \cup MappedIn(t)) = {}
  <2>1. {of[p]} \ {NoFrame} \subseteq InFlightIn(of)
    BY <1>6
  <2>2. NoFrame \notin InFlightIn(of)
    BY DEF InFlightIn
  <2> QED BY <1>4, <1>5, <1>9, <2>1, <2>2
<1>11. FrameState(t, n, us, lck \ {of[p]}, free)
  <2>1. us \subseteq Frames /\ free \in Int /\ free = FrameCount - Cardinality(us)
    BY DEF FrameState
  <2> QED BY <1>2, <1>3, <1>7, <1>8, <1>10, <2>1 DEF FrameState
<1> QED BY <1>11 DEF t, n

\* A process without a frame may be said again to have none.
LEMMA NoReadNoChange ==
  ASSUME NEW of \in OpFrames, NEW p \in Pids, of[p] = NoFrame, NEW lck \in SUBSET Frames
  PROVE  [of EXCEPT ![p] = NoFrame] = of /\ lck \ {of[p]} = lck
BY NotFrames DEF OpFrames

-------------------------------------------------------------------------------
(***************************************************************************)
(* The inductive invariant                                                 *)
(***************************************************************************)
FramesKept == FrameState(page_table, op_frame, used, locked, free_frame_count)

\* The frame of a read in progress is that of the swap device's process.
Holder == \A p \in Pids : op_frame[p] # NoFrame => dev_process[SwapDevice] = p

\* A page that is waited for is not mapped, and only a load has a frame.
Loading ==
  \A p \in Pids :
    /\ pending_op[p] # "NONE" => op_page[p] \in Pages /\ page_table[p][op_page[p]] \notin Frames
    /\ op_frame[p] # NoFrame => pending_op[p] # "NONE"

\* Once a process has had to wait for a frame, no read is in progress any more.
OutOfMemory ==
  /\ require_frame_queue # <<>> => FreeFrames = {}
  /\ MaxWorkingSet = 0 => \A p \in Pids : pending_op[p] = "NONE"
  /\ ~Undisturbed => \A p \in Pids : op_frame[p] = NoFrame

\* While memory suffices: a load without a frame waits at the swap device, and a
\* swapping process, the only one with an operation, has its page or is waiting for it.
AtSwap ==
  \A p \in Pids :
    pending_op[p] # "NONE" /\ op_frame[p] = NoFrame =>
      pending_op[p] = "PAGE_LOAD" /\ p \in Items(blocked_queue[SwapDevice])
Swapping ==
  \A p \in Pids :
    /\ p \in Items(page_ready_queue) => page_table[p][pc[p]] \in Frames
    /\ proc_state[p] = "BLOCKED_SWAPPING" =>
         \/ p \in Items(page_ready_queue)
         \/ pending_op[p] # "NONE" /\ op_page[p] = pc[p]
    /\ pending_op[p] # "NONE" => proc_state[p] = "BLOCKED_SWAPPING"

FrameInv ==
  /\ FramesKept /\ Holder /\ Loading /\ OutOfMemory
  /\ Undisturbed => AtSwap /\ Swapping

LEMMA InitFrame == TypeOK /\ Init => FrameInv
<1> SUFFICES ASSUME TypeOK, Init PROVE FrameInv
  OBVIOUS
<1>1. /\ page_table = [p \in Pids |-> [g \in Pages |-> Absent]]
      /\ op_frame = [p \in Pids |-> NoFrame] /\ pending_op = [p \in Pids |-> "NONE"]
      /\ proc_state = [p \in Pids |-> "START"] /\ page_ready_queue = <<>>
      /\ require_frame_queue = <<>> /\ used = ReservedFrames /\ locked = {}
      /\ free_frame_count = FrameCount - 5
  BY DEF Init, ProcessInit, SchedulerInit, FrameInit
<1>2. MappedIn(page_table) = {} /\ InFlightIn(op_frame) = {}
  BY <1>1 DEF MappedIn, InFlightIn
<1>3. Cardinality(ReservedFrames) = 5
  <2>1. Cardinality(0 .. 4) = IF 0 > 4 THEN 0 ELSE 4 - 0 + 1
    BY FS_Interval, 0 \in Int, 4 \in Int, Zenon
  <2> QED BY <2>1 DEF ReservedFrames
<1>4. FramesKept
  <2>1. /\ page_table \in PageTables /\ op_frame \in OpFrames /\ used \subseteq Frames
        /\ free_frame_count \in Int
    BY DEF TypeOK, PageTables, OpFrames
  <2>2. \A p, r \in Pids : \A g, h \in Pages : page_table[p][g] \notin Frames
    BY <1>1, NotFrames
  <2> QED BY <1>1, <1>2, <1>3, <2>1, <2>2 DEF FramesKept, FrameState
<1>5. Holder /\ Loading /\ OutOfMemory /\ AtSwap /\ Swapping
  BY <1>1, ItemsEmpty DEF Holder, Loading, OutOfMemory, AtSwap, Swapping
<1> QED BY <1>4, <1>5 DEF FrameInv

LEMMA AtDevice ==
  ASSUME NEW d \in Devices, dev_process[d] \in Pids
  PROVE  dev_process[d] \in Items(Held[Device(d)])
<1>1. Held[Device(d)] = Single(dev_process[d])
  BY HeldValues
<1>2. Items(Single(dev_process[d])) = {dev_process[d]} \ {None}
  BY ItemsSingle
<1> QED BY <1>1, <1>2, PidsType

\* A process that is in none of the swap device's places has no read.
LEMMA Away ==
  ASSUME TypeOK, PlaceInv, FrameInv, NEW c \in Containers, NEW p \in Items(Held[c]),
         c # Blocked(SwapDevice), c # Device(SwapDevice)
  PROVE  /\ op_frame[p] = NoFrame
         /\ Undisturbed => pending_op[p] = "NONE"
         /\ Undisturbed /\ c # PageReady => /\ proc_state[p] # "BLOCKED_SWAPPING"
                                            /\ p \notin Items(page_ready_queue)
<1>1. p \in Pids
  BY HeldType, ItemsType
<1>2. CASE ~Undisturbed
  BY <1>1, <1>2 DEF FrameInv, OutOfMemory
<1>3. CASE Undisturbed
  <2>1. /\ SwapDevice \in Devices /\ Blocked(SwapDevice) \in Containers
        /\ Device(SwapDevice) \in Containers /\ PageReady \in Containers
    BY ConstantsType, ContainerKinds
  <2>2. /\ Held[Blocked(SwapDevice)] = blocked_queue[SwapDevice]
        /\ Held[Device(SwapDevice)] = Single(dev_process[SwapDevice])
        /\ Held[PageReady] = page_ready_queue
    BY <2>1, HeldValues
  <2>3. /\ p \notin Items(blocked_queue[SwapDevice])
        /\ p \notin Items(Single(dev_process[SwapDevice]))
        /\ c # PageReady => p \notin Items(page_ready_queue)
    BY <1>3, <2>1, <2>2 DEF PlaceInv, Placed
  <2>4. dev_process[SwapDevice] # p
    BY <1>1, <2>3, ItemsSingle, PidsType
  <2>5. op_frame[p] = NoFrame
    BY <1>1, <2>4 DEF FrameInv, Holder
  <2>6. pending_op[p] = "NONE"
    BY <1>1, <1>3, <2>3, <2>5 DEF FrameInv, AtSwap
  <2>7. c # PageReady => proc_state[p] # "BLOCKED_SWAPPING"
    BY <1>1, <1>3, <2>3, <2>6 DEF FrameInv, Swapping
  <2> QED BY <2>3, <2>5, <2>6, <2>7
<1> QED BY <1>2, <1>3

LEMMA RunningAway ==
  ASSUME TypeOK, PlaceInv, FrameInv, current_process # None
  PROVE  /\ current_process \in Pids /\ op_frame[current_process] = NoFrame
         /\ Undisturbed => /\ pending_op[current_process] = "NONE"
                           /\ proc_state[current_process] # "BLOCKED_SWAPPING"
                           /\ current_process \notin Items(page_ready_queue)
<1>1. /\ current_process \in Pids
      /\ current_process \in Items(Held[Cpu])
  BY HeldValues, ItemsSingle, PidsType DEF TypeOK
<1>2. /\ Cpu \in Containers /\ Cpu # Blocked(SwapDevice) /\ Cpu # Device(SwapDevice)
      /\ Cpu # PageReady
  BY ContainerKinds, ContainersDiffer
<1> QED BY <1>1, <1>2, Away

-------------------------------------------------------------------------------
(***************************************************************************)
(* The actions                                                             *)
(***************************************************************************)

\* Steps that have nothing to do with memory.
LEMMA UnmovedFrame ==
  ASSUME FrameInv,
         UNCHANGED <<proc_state, pending_op, op_page, op_frame, pc, page_table,
                     page_ready_queue, blocked_queue, dev_process, memVars>>
  PROVE  FrameInv'
BY DEF FrameInv, FramesKept, Holder, Loading, OutOfMemory, AtSwap, Swapping, FreeFrames,
       Undisturbed, memVars

LEMMA AccessMemoryFrame ==
  ASSUME TypeOK, PlaceInv, FrameInv, NEW page \in Pages, AccessMemory(page)
  PROVE  FrameInv'
<1> DEFINE p == current_process
<1>1. /\ pc' = [pc EXCEPT ![p] = page] /\ pc \in [Pids -> Pages] /\ p # None
      /\ UNCHANGED <<proc_state, pending_op, op_page, op_frame, page_table,
                     page_ready_queue, blocked_queue, dev_process, memVars>>
  BY DEF AccessMemory, TypeOK, schedVars, devVars
<1>2. Undisturbed => /\ pending_op[p] = "NONE" /\ proc_state[p] # "BLOCKED_SWAPPING"
                     /\ p \notin Items(page_ready_queue)
  BY <1>1, RunningAway
<1>3. /\ FramesKept' /\ Holder' /\ Loading' /\ OutOfMemory' /\ (Undisturbed' <=> Undisturbed)
      /\ Undisturbed => AtSwap'
  BY <1>1 DEF FrameInv, FramesKept, Holder, Loading, OutOfMemory, AtSwap, FreeFrames,
     Undisturbed, memVars
<1>4. \A r \in Pids : r # p => pc'[r] = pc[r]
  BY <1>1
<1>5. Undisturbed => Swapping'
  BY <1>1, <1>2, <1>4 DEF FrameInv, Swapping
<1> QED BY <1>3, <1>5 DEF FrameInv

\* What is left of the page-ready queue when a process is chosen to run.
LEMMA SelectedItems ==
  ASSUME TypeOK, PlaceInv, FrameInv, NEW p \in Pids, SelectNextProcess(p)
  PROVE  /\ op_frame[p] = NoFrame
         /\ Undisturbed => /\ Items(page_ready_queue') = Items(page_ready_queue) \ {p}
                           /\ pending_op[p] = "NONE"
<1>1. PICK a \in {PageReady} \cup {Ready(q) : q \in Queues} : Held[a] # <<>> /\ p = Head(Held[a])
  BY SelectedFrom
<1>2. a \in Containers /\ a # Blocked(SwapDevice) /\ a # Device(SwapDevice)
  <2>1. CASE a = PageReady
    BY <2>1, ContainerKinds, ContainersDiffer
  <2>2. ASSUME NEW q \in Queues, a = Ready(q)
        PROVE  a \in Containers /\ a # Blocked(SwapDevice) /\ a # Device(SwapDevice)
    BY <2>2, ContainerKinds, ContainersDiffer
  <2> QED BY <2>1, <2>2
<1>3. p \in Items(Held[a])
  <2>1. Held[a] \in Seq(Pids)
    BY <1>2, HeldType
  <2> HIDE DEF Held
  <2>2. Len(Held[a]) \in Nat \ {0} /\ Held[a][1] = p
    BY <1>1, <2>1, EmptySeq
  <2> QED BY <2>2 DEF Items
<1>4. op_frame[p] = NoFrame /\ (Undisturbed => pending_op[p] = "NONE")
  BY <1>2, <1>3, Away
<1>5. ASSUME Undisturbed
      PROVE  Items(page_ready_queue') = Items(page_ready_queue) \ {p}
  <2>1. CASE page_ready_queue # <<>>
    <3>1. Distinct(page_ready_queue) /\ page_ready_queue \in Seq(Pids)
      BY <1>5, ContainerKinds, HeldValues DEF PlaceInv, Placed, TypeOK
    <3>2. p = Head(page_ready_queue) /\ page_ready_queue' = Tail(page_ready_queue)
      BY <2>1 DEF SelectNextProcess
    <3> QED BY <2>1, <3>1, <3>2, ItemsTail
  <2>2. CASE page_ready_queue = <<>>
    BY <2>2, ItemsEmpty DEF SelectNextProcess
  <2> QED BY <2>1, <2>2
<1> QED BY <1>4, <1>5

LEMMA DispatchFrame ==
  ASSUME TypeOK, PlaceInv, FrameInv, Dispatch
  PROVE  FrameInv'
<1>1. PICK p \in Pids : /\ SelectNextProcess(p)
                        /\ proc_state' = [proc_state EXCEPT ![p] = "RUNNING"]
  BY DEF Dispatch
<1>2. UNCHANGED <<pending_op, op_page, op_frame, pc, page_table, blocked_queue,
                  dev_process, memVars>>
  BY DEF Dispatch, devVars
<1>3. /\ FramesKept' /\ Holder' /\ Loading' /\ OutOfMemory' /\ (Undisturbed' <=> Undisturbed)
      /\ Undisturbed => AtSwap'
  BY <1>2 DEF FrameInv, FramesKept, Holder, Loading, OutOfMemory, AtSwap, FreeFrames,
     Undisturbed, memVars
<1>4. Undisturbed => Swapping'
  <2>1. /\ proc_state'[p] = "RUNNING"
        /\ \A r \in Pids : r # p => proc_state'[r] = proc_state[r]
    BY <1>1 DEF TypeOK
  <2>2. Undisturbed => /\ Items(page_ready_queue') = Items(page_ready_queue) \ {p}
                       /\ pending_op[p] = "NONE"
    BY <1>1, SelectedItems
  <2> QED BY <1>2, <2>1, <2>2 DEF FrameInv, Swapping
<1> QED BY <1>3, <1>4 DEF FrameInv

LEMMA PageLoadFinishedFrame ==
  ASSUME TypeOK, PlaceInv, FrameInv, NEW d \in Devices, PageLoadFinished(d)
  PROVE  FrameInv'
<1> DEFINE p == dev_process[d]
<1>1. /\ p \in Pids /\ pending_op[p] = "PAGE_LOAD"
      /\ pending_op' = [pending_op EXCEPT ![p] = "PAGE_LOADED"]
      /\ UNCHANGED <<proc_state, op_page, op_frame, pc, page_table, page_ready_queue,
                     blocked_queue, dev_process, memVars>>
  BY DEF PageLoadFinished, NextFinished, Finished, TypeOK, schedVars, devVars
<1>2. /\ pending_op'[p] = "PAGE_LOADED"
      /\ \A r \in Pids : r # p => pending_op'[r] = pending_op[r]
  BY <1>1 DEF TypeOK
<1>3. FramesKept' /\ Holder' /\ (Undisturbed' <=> Undisturbed)
  BY <1>1 DEF FrameInv, FramesKept, Holder, Undisturbed, memVars
<1>4. Loading' /\ OutOfMemory'
  BY <1>1, <1>2 DEF FrameInv, Loading, OutOfMemory, FreeFrames, Undisturbed, memVars
<1>5. Undisturbed => op_frame[p] # NoFrame
  <2>1. ASSUME Undisturbed
        PROVE  p \notin Items(blocked_queue[SwapDevice])
    <3>1. /\ SwapDevice \in Devices /\ Blocked(SwapDevice) \in Containers
          /\ Device(d) \in Containers /\ Blocked(SwapDevice) # Device(d)
      BY ConstantsType, ContainerKinds, ContainersDiffer
    <3>2. p \in Items(Held[Device(d)])
      BY <1>1, AtDevice
    <3> QED BY <2>1, <3>1, <3>2, HeldValues DEF PlaceInv, Placed
  <2> QED BY <1>1, <2>1 DEF FrameInv, AtSwap
<1>6. Undisturbed => AtSwap' /\ Swapping'
  BY <1>1, <1>2, <1>5 DEF FrameInv, AtSwap, Swapping
<1> QED BY <1>3, <1>4, <1>6 DEF FrameInv

\* A page fault of a process that is not at the swap device.
LEMMA FaultFrame ==
  ASSUME TypeOK, PlaceInv, FrameInv, NEW p \in Pids, NEW page \in Pages,
         HandlePageFault(p, page), page_table[p][page] = Absent, op_frame[p] = NoFrame,
         UNCHANGED page_table, pc'[p] = page, \A r \in Pids : r # p => pc'[r] = pc[r],
         Undisturbed => Items(page_ready_queue') = Items(page_ready_queue) \ {p}
  PROVE  FrameInv'
<1>1. CASE MaxWorkingSet = 0
  <2>1. /\ UNCHANGED <<proc_state, pending_op, op_page, op_frame, devVars, memVars>>
        /\ ~Undisturbed /\ ~Undisturbed'
    BY <1>1 DEF HandlePageFault, Undisturbed
  <2> QED BY <2>1 DEF FrameInv, FramesKept, Holder, Loading, OutOfMemory, FreeFrames,
                      devVars, memVars
<1>2. CASE MaxWorkingSet # 0
  <2>1. /\ proc_state' = [proc_state EXCEPT ![p] = "BLOCKED_SWAPPING"]
        /\ pending_op' = [pending_op EXCEPT ![p] = "PAGE_LOAD"]
        /\ op_page' = [op_page EXCEPT ![p] = page]
    BY <1>2 DEF HandlePageFault
  <2>2. [op_frame EXCEPT ![p] = NoFrame] = op_frame /\ SwapDevice \in Devices
    BY ConstantsType, NoReadNoChange DEF TypeOK, OpFrames
  <2>3. \/ /\ blocked_queue' = [blocked_queue EXCEPT ![SwapDevice] = Enqueue(@, p)]
           /\ UNCHANGED <<op_frame, dev_process, memVars>>
        \/ /\ DeviceIdle(SwapDevice)
           /\ ExecPageLoad(SwapDevice, p, op_frame, locked)
           /\ UNCHANGED <<blocked_queue, require_frame_queue>>
        \/ /\ DeviceIdle(SwapDevice) /\ FreeFrames = {}
           /\ require_frame_queue' = Enqueue(require_frame_queue, p)
           /\ UNCHANGED <<op_frame, devVars, used, locked, free_frame_count>>
    BY <1>2, <2>2 DEF HandlePageFault
  <2>4. /\ pending_op'[p] = "PAGE_LOAD" /\ op_page'[p] = page
        /\ proc_state'[p] = "BLOCKED_SWAPPING"
        /\ \A r \in Pids : r # p => /\ pending_op'[r] = pending_op[r]
                                    /\ op_page'[r] = op_page[r]
                                    /\ proc_state'[r] = proc_state[r]
    BY <2>1 DEF TypeOK
  <2>5. \A r \in Pids : pending_op'[r] # "NONE" =>
          op_page'[r] \in Pages /\ page_table'[r][op_page'[r]] \notin Frames
    BY <2>4, NotFrames DEF FrameInv, Loading
  <2>6. Undisturbed => Swapping'
    BY <2>4 DEF FrameInv, Swapping
  <2>7. DeviceIdle(SwapDevice) => \A r \in Pids : op_frame[r] = NoFrame
    BY PidsType DEF DeviceIdle, FrameInv, Holder
  <2>8. CASE /\ blocked_queue' = [blocked_queue EXCEPT ![SwapDevice] = Enqueue(@, p)]
             /\ UNCHANGED <<op_frame, dev_process, memVars>>
    <3>1. FramesKept' /\ Holder' /\ (Undisturbed' <=> Undisturbed)
      BY <2>8 DEF FrameInv, FramesKept, Holder, Undisturbed, memVars
    <3>2. Loading' /\ OutOfMemory'
      BY <1>2, <2>4, <2>5, <2>8 DEF FrameInv, Loading, OutOfMemory, FreeFrames, Undisturbed,
         memVars
    <3>3. ASSUME Undisturbed
          PROVE  Items(blocked_queue'[SwapDevice]) = Items(blocked_queue[SwapDevice]) \cup {p}
      <4>1. /\ blocked_queue[SwapDevice] \in Seq(Pids)
            /\ blocked_queue'[SwapDevice] = Enqueue(blocked_queue[SwapDevice], p)
        BY <2>2, <2>8 DEF TypeOK
      <4>2. Distinct(blocked_queue[SwapDevice])
        BY <2>2, <3>3, ContainerKinds, HeldValues DEF PlaceInv, Placed
      <4>3. CASE p \notin Items(blocked_queue[SwapDevice])
        BY <4>1, <4>2, <4>3, EnqueueAppends, ItemsAppend
      <4>4. CASE p \in Items(blocked_queue[SwapDevice])
        BY <4>1, <4>4, ItemsAppend DEF Enqueue
      <4> QED BY <4>3, <4>4
    <3>4. Undisturbed => AtSwap'
      BY <2>4, <2>8, <3>3 DEF FrameInv, AtSwap
    <3> QED BY <2>6, <3>1, <3>2, <3>4 DEF FrameInv
  <2>9. CASE /\ DeviceIdle(SwapDevice)
             /\ ExecPageLoad(SwapDevice, p, op_frame, locked)
             /\ UNCHANGED <<blocked_queue, require_frame_queue>>
    <3>1. PICK f \in Frames \ used :
            /\ op_frame' = [op_frame EXCEPT ![p] = f] /\ used' = used \cup {f}
            /\ locked' = locked \cup {f} /\ free_frame_count' = free_frame_count - 1
            /\ dev_process' = [dev_process EXCEPT ![SwapDevice] = p]
      BY <2>9 DEF ExecPageLoad, StartJob, FirstFreeFrame, FreeFrames
    <3>2. FramesKept'
      BY <2>7, <2>9, <3>1, ReadTakesFrame DEF FrameInv, FramesKept
    <3>3. /\ op_frame'[p] = f /\ f # NoFrame /\ dev_process'[SwapDevice] = p
          /\ \A r \in Pids : r # p => op_frame'[r] = NoFrame
      BY <2>2, <2>7, <2>9, <3>1, NotFrames DEF TypeOK
    <3>4. Holder' /\ Loading'
      BY <2>4, <2>5, <3>3 DEF Holder, Loading
    <3>5. Undisturbed /\ Undisturbed'
      <4>1. FreeFrames # {}
        BY <3>1 DEF FreeFrames
      <4>2. MaxWorkingSet > 0
        BY <1>2, ConstantsAssumption
      <4> QED BY <2>9, <4>1, <4>2 DEF FrameInv, OutOfMemory, Undisturbed
    <3>6. OutOfMemory'
      BY <1>2, <3>5 DEF OutOfMemory, Undisturbed
    <3>7. AtSwap'
      BY <2>4, <2>7, <2>9, <3>3, <3>5 DEF FrameInv, AtSwap
    <3> QED BY <2>6, <3>2, <3>4, <3>5, <3>6, <3>7 DEF FrameInv
  <2>10. CASE /\ DeviceIdle(SwapDevice) /\ FreeFrames = {}
              /\ require_frame_queue' = Enqueue(require_frame_queue, p)
              /\ UNCHANGED <<op_frame, devVars, used, locked, free_frame_count>>
    <3>1. ~Undisturbed'
      BY <2>10, EnqueueFills DEF Undisturbed, TypeOK
    <3>2. FramesKept' /\ Holder' /\ FreeFrames' = {}
      BY <2>10 DEF FrameInv, FramesKept, Holder, FreeFrames, devVars
    <3>3. Loading' /\ OutOfMemory'
      BY <1>2, <2>5, <2>7, <2>10, <3>2 DEF Loading, OutOfMemory
    <3> QED BY <3>1, <3>2, <3>3 DEF FrameInv
  <2> QED BY <2>3, <2>8, <2>9, <2>10
<1> QED BY <1>1, <1>2

LEMMA DispatchFaultFrame ==
  ASSUME TypeOK, PlaceInv, FrameInv, DispatchFault
  PROVE  FrameInv'
<1>1. PICK p \in Pids : SelectNextProcess(p) /\ ~Resident(p, pc[p]) /\ HandlePageFault(p, pc[p])
  BY DEF DispatchFault
<1>2. pc[p] \in Pages /\ UNCHANGED <<pc, page_table>> /\ page_table[p][pc[p]] = Absent
  BY <1>1 DEF DispatchFault, TypeOK, Resident
<1>3. /\ op_frame[p] = NoFrame
      /\ Undisturbed => Items(page_ready_queue') = Items(page_ready_queue) \ {p}
  BY <1>1, SelectedItems
<1> QED BY <1>1, <1>2, <1>3, FaultFrame

LEMMA AccessMemoryFaultFrame ==
  ASSUME TypeOK, PlaceInv, FrameInv, NEW page \in Pages, AccessMemoryFault(page)
  PROVE  FrameInv'
<1> DEFINE p == current_process
<1>1. /\ p # None /\ page_table[p][page] = Absent /\ HandlePageFault(p, page)
      /\ pc' = [pc EXCEPT ![p] = page] /\ UNCHANGED <<page_table, page_ready_queue>>
  BY DEF AccessMemoryFault, Resident
<1>2. /\ p \in Pids /\ op_frame[p] = NoFrame
      /\ Undisturbed => p \notin Items(page_ready_queue)
  BY <1>1, RunningAway
<1>3. pc'[p] = page /\ \A r \in Pids : r # p => pc'[r] = pc[r]
  BY <1>1, <1>2 DEF TypeOK
<1> HIDE DEF p
<1> QED BY <1>1, <1>2, <1>3, FaultFrame

LEMMA RequestIOFrame ==
  ASSUME TypeOK, PlaceInv, FrameInv, NEW d \in Devices, RequestIO(d)
  PROVE  FrameInv'
<1> DEFINE p == current_process
<1>1. /\ p # None /\ pending_op' = [pending_op EXCEPT ![p] = "NONE"]
      /\ UNCHANGED <<proc_state, op_page, op_frame, pc, page_table, page_ready_queue,
                     used, locked, free_frame_count, require_frame_queue>>
      /\ \/ /\ DeviceIdle(d) /\ dev_process' = [dev_process EXCEPT ![d] = p]
            /\ UNCHANGED blocked_queue
         \/ /\ blocked_queue' = [blocked_queue EXCEPT ![d] = Enqueue(@, p)]
            /\ UNCHANGED dev_process
  BY DEF RequestIO, ExecPlain, StartJob
<1>2. /\ p \in Pids /\ op_frame[p] = NoFrame
      /\ Undisturbed => proc_state[p] # "BLOCKED_SWAPPING"
  BY <1>1, RunningAway
<1>3. /\ pending_op'[p] = "NONE"
      /\ \A r \in Pids : r # p => pending_op'[r] = pending_op[r]
  BY <1>1, <1>2 DEF TypeOK
<1> HIDE DEF p
<1>4. FramesKept' /\ (Undisturbed' <=> Undisturbed) /\ FreeFrames' = FreeFrames
  BY <1>1 DEF FrameInv, FramesKept, Undisturbed, FreeFrames
<1>5. Loading' /\ OutOfMemory'
  BY <1>1, <1>2, <1>3, <1>4 DEF FrameInv, Loading, OutOfMemory
<1>6. Holder'
  <2>1. CASE d # SwapDevice \/ UNCHANGED dev_process
    BY <1>1, <2>1, ConstantsType DEF FrameInv, Holder, TypeOK
  <2>2. CASE d = SwapDevice /\ DeviceIdle(d)
    BY <1>1, <2>2, PidsType DEF FrameInv, Holder, DeviceIdle
  <2> QED BY <1>1, <2>1, <2>2
<1>7. Undisturbed => Swapping'
  BY <1>1, <1>2, <1>3 DEF FrameInv, Swapping
<1>8. Items(blocked_queue[SwapDevice]) \subseteq Items(blocked_queue'[SwapDevice])
  <2>1. blocked_queue[SwapDevice] \in Seq(Pids) /\ SwapDevice \in Devices
    BY ConstantsType DEF TypeOK
  <2>2. Items(blocked_queue[SwapDevice]) \subseteq Items(Enqueue(blocked_queue[SwapDevice], p))
    BY <1>2, <2>1, ItemsAppend DEF Enqueue
  <2>3. blocked_queue'[SwapDevice] \in {blocked_queue[SwapDevice],
                                         Enqueue(blocked_queue[SwapDevice], p)}
    BY <1>1, <2>1 DEF TypeOK
  <2> QED BY <2>2, <2>3
<1>9. Undisturbed => AtSwap'
  BY <1>1, <1>2, <1>3, <1>8 DEF FrameInv, AtSwap
<1> QED BY <1>4, <1>5, <1>6, <1>7, <1>9 DEF FrameInv

-------------------------------------------------------------------------------
(***************************************************************************)
(* Finished jobs                                                           *)
(***************************************************************************)

\* What a completed operation of p leaves, before the device starts another.
Completed(p) ==
  /\ FrameState(page_table', FrameReleased(p), used, LockReleased(p), free_frame_count)
  /\ \A r \in Pids :
       /\ FrameReleased(p)[r] # NoFrame => r # p /\ dev_process[SwapDevice] = r
       /\ pending_op'[r] # "NONE" => op_page[r] \in Pages /\ page_table'[r][op_page[r]] \notin Frames
       /\ FrameReleased(p)[r] # NoFrame => pending_op'[r] # "NONE"
       /\ MaxWorkingSet = 0 => pending_op'[r] = "NONE"
       /\ ~Undisturbed => FrameReleased(p)[r] = NoFrame
  /\ Undisturbed => \A r \in Pids :
       /\ pending_op'[r] # "NONE" /\ FrameReleased(p)[r] = NoFrame =>
            pending_op'[r] = "PAGE_LOAD" /\ r \in Items(blocked_queue[SwapDevice])
       /\ r \in Items(page_ready_queue') => page_table'[r][pc[r]] \in Frames
       /\ proc_state[r] = "BLOCKED_SWAPPING" =>
            \/ r \in Items(page_ready_queue')
            \/ pending_op'[r] # "NONE" /\ op_page[r] = pc[r]
       /\ pending_op'[r] # "NONE" => proc_state[r] = "BLOCKED_SWAPPING"

LEMMA Completion ==
  ASSUME TypeOK, PlaceInv, FrameInv, NEW d \in Devices, NEW p \in Pids, CompleteOperation(d, p)
  PROVE  Completed(p)
<1>1. /\ p = dev_process[d] /\ pending_op[p] # "PAGE_LOAD"
      /\ pending_op' = [pending_op EXCEPT ![p] = "NONE"]
      /\ page_table' = IF pending_op[p] = "PAGE_LOADED"
                       THEN [page_table EXCEPT ![p][op_page[p]] = op_frame[p]]
                       ELSE page_table
      /\ IF SwapReturn(p) THEN page_ready_queue' = Enqueue(page_ready_queue, p)
                          ELSE page_ready_queue' = page_ready_queue
  BY DEF CompleteOperation
<1>2. /\ pending_op'[p] = "NONE"
      /\ \A r \in Pids : r # p => pending_op'[r] = pending_op[r]
  BY <1>1 DEF TypeOK
<1>3. /\ FrameReleased(p)[p] = NoFrame
      /\ \A r \in Pids : r # p => FrameReleased(p)[r] = op_frame[r]
  BY DEF FrameReleased, TypeOK
<1>4. /\ p \in Pids /\ pending_op[p] \in {"NONE", "PAGE_LOADED"}
      /\ op_frame[p] \in Frames \cup {NoFrame}
  BY <1>1 DEF TypeOK
<1>5. /\ FrameState(page_table', FrameReleased(p), used, LockReleased(p), free_frame_count)
      /\ \A r \in Pids : r # p => page_table'[r] = page_table[r]
      /\ \A g \in Pages : page_table[p][g] \in Frames => page_table'[p][g] = page_table[p][g]
      /\ pending_op[p] = "PAGE_LOADED" => page_table'[p][op_page[p]] = op_frame[p]
  <2>1. CASE pending_op[p] = "NONE"
    <3>1. op_frame[p] = NoFrame /\ page_table' = page_table
      BY <1>1, <2>1 DEF FrameInv, Loading
    <3>2. op_frame \in OpFrames /\ locked \in SUBSET Frames
      BY DEF TypeOK, OpFrames
    <3>3. [op_frame EXCEPT ![p] = NoFrame] = op_frame /\ locked \ {op_frame[p]} = locked
      BY ONLY <3>1, <3>2, NoReadNoChange, p \in Pids
    <3>4. FrameReleased(p) = op_frame /\ LockReleased(p) = locked
      BY ONLY <3>3 DEF FrameReleased, LockReleased
    <3> QED BY <2>1, <3>1, <3>4 DEF FrameInv, FramesKept
  <2>2. CASE pending_op[p] = "PAGE_LOADED"
    <3> DEFINE g == op_page[p]
    <3>1. /\ g \in Pages /\ page_table[p][g] \notin Frames
          /\ page_table' = [page_table EXCEPT ![p][g] = op_frame[p]]
      BY <1>1, <2>2 DEF FrameInv, Loading
    <3>2. FrameState(page_table', FrameReleased(p), used, LockReleased(p), free_frame_count)
      BY <3>1, ReadMapsFrame DEF FrameInv, FramesKept, FrameReleased, LockReleased
    <3>3. /\ page_table'[p][g] = op_frame[p]
          /\ \A h \in Pages : h # g => page_table'[p][h] = page_table[p][h]
          /\ \A r \in Pids : r # p => page_table'[r] = page_table[r]
      BY <3>1 DEF TypeOK
    <3> QED BY <2>2, <3>1, <3>2, <3>3
  <2> QED BY <1>4, <2>1, <2>2
<1>6. ASSUME NEW r \in Pids
      PROVE  /\ FrameReleased(p)[r] # NoFrame => r # p /\ dev_process[SwapDevice] = r
             /\ pending_op'[r] # "NONE" =>
                  op_page[r] \in Pages /\ page_table'[r][op_page[r]] \notin Frames
             /\ FrameReleased(p)[r] # NoFrame => pending_op'[r] # "NONE"
             /\ MaxWorkingSet = 0 => pending_op'[r] = "NONE"
             /\ ~Undisturbed => FrameReleased(p)[r] = NoFrame
  <2>1. CASE r = p
    BY <1>2, <1>3, <2>1
  <2>2. CASE r # p
    BY <1>2, <1>3, <1>5, <2>2 DEF FrameInv, Holder, Loading, OutOfMemory
  <2> QED BY <2>1, <2>2
<1>7. ASSUME Undisturbed
      PROVE  /\ Items(page_ready_queue') = IF SwapReturn(p) THEN Items(page_ready_queue) \cup {p}
                                           ELSE Items(page_ready_queue)
             /\ p \notin Items(page_ready_queue)
             /\ p \notin Items(blocked_queue[SwapDevice])
             /\ d \in Devices
  <2>1. p \in Items(Held[Device(d)])
    BY <1>1, <1>4, AtDevice
  <2>2. /\ PageReady \in Containers /\ Device(d) \in Containers /\ PageReady # Device(d)
        /\ SwapDevice \in Devices /\ Blocked(SwapDevice) \in Containers
        /\ Blocked(SwapDevice) # Device(d)
        /\ Held[PageReady] = page_ready_queue
        /\ Held[Blocked(SwapDevice)] = blocked_queue[SwapDevice]
    BY ConstantsType, ContainerKinds, ContainersDiffer, HeldValues
  <2>3. /\ page_ready_queue \in Seq(Pids) /\ Distinct(page_ready_queue)
        /\ p \notin Items(page_ready_queue)
        /\ p \notin Items(blocked_queue[SwapDevice])
    BY <1>7, <2>1, <2>2 DEF PlaceInv, Placed, TypeOK
  <2>4. Items(Enqueue(page_ready_queue, p)) = Items(page_ready_queue) \cup {p}
    BY <1>4, <2>3, EnqueueAppends, ItemsAppend
  <2> QED BY <1>1, <2>3, <2>4
<1>8. ASSUME Undisturbed, NEW r \in Pids
      PROVE  /\ pending_op'[r] # "NONE" /\ FrameReleased(p)[r] = NoFrame =>
                  pending_op'[r] = "PAGE_LOAD" /\ r \in Items(blocked_queue[SwapDevice])
             /\ r \in Items(page_ready_queue') => page_table'[r][pc[r]] \in Frames
             /\ proc_state[r] = "BLOCKED_SWAPPING" =>
                  \/ r \in Items(page_ready_queue')
                  \/ pending_op'[r] # "NONE" /\ op_page[r] = pc[r]
             /\ pending_op'[r] # "NONE" => proc_state[r] = "BLOCKED_SWAPPING"
  <2>1. CASE r = p
    <3>1. ASSUME SwapReturn(p)
          PROVE  page_table'[p][pc[p]] \in Frames
      <4>1. pending_op[p] # "NONE" /\ op_page[p] = pc[p]
        BY <1>4, <1>7, <1>8, <3>1 DEF FrameInv, Swapping, SwapReturn
      <4>2. op_frame[p] # NoFrame
        BY <1>1, <1>4, <1>7, <1>8, <4>1 DEF FrameInv, AtSwap
      <4> QED BY <1>4, <1>5, <4>1, <4>2
    <3> QED BY <1>2, <1>7, <1>8, <2>1, <3>1 DEF SwapReturn
  <2>2. CASE r # p
    <3>1. r \in Items(page_ready_queue') <=> r \in Items(page_ready_queue)
      BY <1>7, <1>8, <2>2
    <3> QED BY <1>2, <1>3, <1>5, <1>8, <2>2, <3>1 DEF FrameInv, AtSwap, Swapping
  <2> QED BY <2>1, <2>2
<1> QED BY <1>5, <1>6, <1>8 DEF Completed

\* The device starts no other operation that needs a frame.
LEMMA CompletedFrame ==
  ASSUME TypeOK, FrameInv, NEW p \in Pids, Completed(p),
         op_frame' = FrameReleased(p), locked' = LockReleased(p),
         UNCHANGED <<used, free_frame_count, op_page, pc, proc_state, require_frame_queue>>,
         \A r \in Pids : op_frame'[r] # NoFrame => dev_process'[SwapDevice] = r,
         Undisturbed => \A r \in Pids :
           pending_op'[r] = "PAGE_LOAD" /\ op_frame'[r] = NoFrame /\
           r \in Items(blocked_queue[SwapDevice]) => r \in Items(blocked_queue'[SwapDevice])
  PROVE  FrameInv'
<1>1. FramesKept' /\ Holder' /\ (Undisturbed' <=> Undisturbed) /\ FreeFrames' = FreeFrames
  BY DEF Completed, FramesKept, Holder, Undisturbed, FreeFrames
<1>2. Loading' /\ OutOfMemory'
  BY <1>1 DEF Completed, FrameInv, Loading, OutOfMemory
<1>3. Undisturbed => AtSwap' /\ Swapping'
  BY DEF Completed, AtSwap, Swapping
<1> QED BY <1>1, <1>2, <1>3 DEF FrameInv

LEMMA JobDoneFrame ==
  ASSUME TypeOK, PlaceInv, FrameInv, NEW d \in Devices, JobDone(d)
  PROVE  FrameInv'
<1>1. PICK p \in Pids :
        /\ CompleteOperation(d, p)
        /\ dev_process' = IF Returned(d, p) THEN [dev_process EXCEPT ![d] = None]
                                            ELSE dev_process
        /\ op_frame' = FrameReleased(p) /\ locked' = LockReleased(p)
        /\ UNCHANGED <<blocked_queue, used, free_frame_count, require_frame_queue>>
  BY DEF JobDone
<1>2. Completed(p) /\ p = dev_process[d] /\ UNCHANGED <<op_page, pc, proc_state>>
  BY <1>1, Completion DEF CompleteOperation
<1>3. ASSUME NEW r \in Pids, op_frame'[r] # NoFrame
      PROVE  dev_process'[SwapDevice] = r
  <2>1. r # p /\ dev_process[SwapDevice] = r
    BY <1>1, <1>2, <1>3 DEF Completed
  <2>2. d # SwapDevice /\ SwapDevice \in Devices
    BY <1>2, <2>1, ConstantsType
  <2> QED BY <1>1, <2>1, <2>2 DEF TypeOK
<1> QED BY <1>1, <1>2, <1>3, CompletedFrame

LEMMA JobDoneStartNextFrame ==
  ASSUME TypeOK, PlaceInv, FrameInv, NEW d \in Devices, JobDoneStartNext(d)
  PROVE  FrameInv'
<1> DEFINE next == Head(blocked_queue[d])
<1>1. PICK p \in Pids :
        /\ CompleteOperation(d, p)
        /\ blocked_queue[d] # <<>>
        /\ blocked_queue' = [blocked_queue EXCEPT ![d] = Tail(@)]
        /\ \/ /\ NeedsFrame(next, p)
              /\ ExecPageLoad(d, next, FrameReleased(p), LockReleased(p))
           \/ /\ ~NeedsFrame(next, p)
              /\ ExecPlain(d, next, FrameReleased(p), LockReleased(p))
        /\ UNCHANGED require_frame_queue
  BY DEF JobDoneStartNext
<1>2. Completed(p) /\ p = dev_process[d] /\ UNCHANGED <<op_page, pc, proc_state>>
  BY <1>1, Completion DEF CompleteOperation
<1>3. /\ SwapDevice \in Devices /\ blocked_queue[d] \in Seq(Pids) /\ next \in Pids
      /\ dev_process' = [dev_process EXCEPT ![d] = next]
      /\ dev_process \in [Devices -> Pids \cup {None}]
      /\ d # SwapDevice => /\ blocked_queue'[SwapDevice] = blocked_queue[SwapDevice]
                           /\ dev_process'[SwapDevice] = dev_process[SwapDevice]
      /\ d = SwapDevice => /\ blocked_queue'[SwapDevice] = Tail(blocked_queue[d])
                           /\ dev_process'[SwapDevice] = next
  <2>1. dev_process' = [dev_process EXCEPT ![d] = next]
    BY <1>1 DEF ExecPageLoad, ExecPlain, StartJob
  <2>2. /\ SwapDevice \in Devices /\ blocked_queue[d] \in Seq(Pids) /\ next \in Pids
        /\ dev_process \in [Devices -> Pids \cup {None}]
        /\ blocked_queue \in [Devices -> Seq(Pids)]
    BY <1>1, ConstantsType, HeadTailType DEF TypeOK
  <2> HIDE DEF next
  <2> QED BY <1>1, <2>1, <2>2
<1>4. d = SwapDevice => \A r \in Pids : FrameReleased(p)[r] = NoFrame
  BY <1>2 DEF Completed
<1>5. Undisturbed /\ d = SwapDevice =>
        Items(blocked_queue'[SwapDevice]) = Items(blocked_queue[SwapDevice]) \ {next}
  <2>1. Undisturbed => Distinct(blocked_queue[d])
    BY ContainerKinds, HeldValues DEF PlaceInv, Placed
  <2> QED BY <1>1, <1>3, <2>1, ItemsTail
<1>6. Undisturbed /\ next \in Items(blocked_queue[SwapDevice]) => d = SwapDevice
  <2>1. next \in Items(blocked_queue[d])
    <3>1. Len(blocked_queue[d]) \in Nat \ {0} /\ next = blocked_queue[d][1]
      BY <1>1, <1>3, EmptySeq
    <3> QED BY <3>1 DEF Items
  <2>2. /\ Blocked(d) \in Containers /\ Held[Blocked(d)] = blocked_queue[d]
        /\ Blocked(SwapDevice) \in Containers
        /\ Held[Blocked(SwapDevice)] = blocked_queue[SwapDevice]
        /\ d # SwapDevice => Blocked(d) # Blocked(SwapDevice)
    BY <1>3, ContainerKinds, ContainersDiffer, HeldValues
  <2> QED BY <2>1, <2>2 DEF PlaceInv, Placed
<1> HIDE DEF next
<1>7. CASE ~NeedsFrame(next, p) /\ ExecPlain(d, next, FrameReleased(p), LockReleased(p))
  <2>1. /\ op_frame' = FrameReleased(p) /\ locked' = LockReleased(p)
        /\ UNCHANGED <<used, free_frame_count>>
    BY <1>7 DEF ExecPlain
  <2>2. ASSUME NEW r \in Pids, op_frame'[r] # NoFrame
        PROVE  dev_process'[SwapDevice] = r
    BY <1>2, <1>3, <1>4, <2>1, <2>2 DEF Completed
  <2>3. ASSUME Undisturbed, NEW r \in Pids, pending_op'[r] = "PAGE_LOAD",
               op_frame'[r] = NoFrame, r \in Items(blocked_queue[SwapDevice])
        PROVE  r \in Items(blocked_queue'[SwapDevice])
    <3>1. r # next
      BY <1>7, <2>1, <2>3 DEF NeedsFrame
    <3> QED BY <1>3, <1>5, <2>3, <3>1
  <2> QED BY <1>1, <1>2, <2>1, <2>2, <2>3, CompletedFrame
<1>8. CASE NeedsFrame(next, p) /\ ExecPageLoad(d, next, FrameReleased(p), LockReleased(p))
  <2>1. PICK f \in Frames \ used :
          /\ op_frame' = [FrameReleased(p) EXCEPT ![next] = f] /\ used' = used \cup {f}
          /\ locked' = LockReleased(p) \cup {f} /\ free_frame_count' = free_frame_count - 1
    BY <1>8 DEF ExecPageLoad, FirstFreeFrame, FreeFrames
  <2>2. pending_op'[next] = "PAGE_LOAD" /\ FrameReleased(p)[next] = NoFrame
    BY <1>8 DEF NeedsFrame
  <2>3. Undisturbed /\ Undisturbed'
    <3>1. FreeFrames # {}
      BY <2>1 DEF FreeFrames
    <3>2. MaxWorkingSet # 0 /\ MaxWorkingSet \in Nat
      BY <1>2, <1>3, <2>2, ConstantsAssumption DEF Completed
    <3> QED BY <1>1, <3>1, <3>2 DEF FrameInv, OutOfMemory, Undisturbed
  <2>4. d = SwapDevice /\ \A r \in Pids : FrameReleased(p)[r] = NoFrame
    BY <1>2, <1>3, <1>4, <1>6, <2>2, <2>3 DEF Completed
  <2>5. FramesKept'
    <3>1. FrameState(page_table', FrameReleased(p), used, LockReleased(p), free_frame_count)
      BY <1>2 DEF Completed
    <3> QED BY <1>3, <2>1, <2>4, <3>1, ReadTakesFrame DEF FramesKept
  <2>6. /\ op_frame'[next] = f /\ f # NoFrame /\ dev_process'[SwapDevice] = next
        /\ \A r \in Pids : r # next => op_frame'[r] = NoFrame
    <3>1. FrameReleased(p) \in OpFrames
      BY <1>2 DEF Completed, FrameState
    <3> QED BY <1>3, <2>1, <2>4, <3>1, NotFrames DEF OpFrames
  <2>7. Holder' /\ Loading'
    BY <1>2, <2>2, <2>6 DEF Holder, Loading, Completed
  <2>8. OutOfMemory'
    BY <2>3 DEF OutOfMemory, Undisturbed
  <2>9. AtSwap' /\ Swapping'
    BY <1>2, <1>5, <2>2, <2>3, <2>4, <2>6 DEF AtSwap, Swapping, Completed
  <2> QED BY <2>3, <2>5, <2>7, <2>8, <2>9 DEF FrameInv
<1> QED BY <1>1, <1>7, <1>8

LEMMA JobDoneOutOfMemoryFrame ==
  ASSUME TypeOK, PlaceInv, FrameInv, NEW d \in Devices, JobDoneOutOfMemory(d)
  PROVE  FrameInv'
<1> DEFINE next == Head(blocked_queue[d])
<1>1. PICK p \in Pids :
        /\ CompleteOperation(d, p)
        /\ blocked_queue[d] # <<>> /\ NeedsFrame(next, p) /\ FreeFrames = {}
        /\ require_frame_queue' = Enqueue(require_frame_queue, p)
        /\ op_frame' = FrameReleased(p) /\ locked' = LockReleased(p)
        /\ UNCHANGED <<dev_process, used, free_frame_count>>
  BY DEF JobDoneOutOfMemory
<1>2. Completed(p) /\ p = dev_process[d] /\ UNCHANGED <<op_page, pc, proc_state>>
  BY <1>1, Completion DEF CompleteOperation
<1>3. ~Undisturbed'
  BY <1>1, EnqueueFills DEF Undisturbed, TypeOK
<1>4. \A r \in Pids : op_frame'[r] = NoFrame
  <2>1. CASE ~Undisturbed
    BY <1>1, <1>2, <2>1 DEF Completed
  <2>2. CASE Undisturbed
    <3>1. next \in Pids /\ next \in Items(blocked_queue[d])
      <4>1. Len(blocked_queue[d]) \in Nat \ {0} /\ next = blocked_queue[d][1]
            /\ blocked_queue[d] \in Seq(Pids)
        BY <1>1, EmptySeq DEF TypeOK
      <4> QED BY <4>1, ItemsType DEF Items
    <3>2. next \in Items(blocked_queue[SwapDevice])
      BY <1>1, <1>2, <2>2, <3>1 DEF Completed, NeedsFrame
    <3>3. /\ Blocked(d) \in Containers /\ Held[Blocked(d)] = blocked_queue[d]
          /\ Blocked(SwapDevice) \in Containers
          /\ Held[Blocked(SwapDevice)] = blocked_queue[SwapDevice]
          /\ d # SwapDevice => Blocked(d) # Blocked(SwapDevice)
      BY ConstantsType, ContainerKinds, ContainersDiffer, HeldValues
    <3>4. d = SwapDevice
      BY <2>2, <3>1, <3>2, <3>3 DEF PlaceInv, Placed
    <3> QED BY <1>1, <1>2, <3>4 DEF Completed
  <2> QED BY <2>1, <2>2
<1>5. FramesKept' /\ FreeFrames' = {}
  BY <1>1, <1>2 DEF Completed, FramesKept, FreeFrames
<1>6. Holder' /\ Loading' /\ OutOfMemory'
  BY <1>2, <1>4, <1>5 DEF Completed, Holder, Loading, OutOfMemory
<1> QED BY <1>3, <1>5, <1>6 DEF FrameInv

-------------------------------------------------------------------------------
LEMMA NextFrame == TypeOK /\ PlaceInv /\ FrameInv /\ [Next]_vars => FrameInv'
<1> SUFFICES ASSUME TypeOK, PlaceInv, FrameInv, [Next]_vars PROVE FrameInv'
  OBVIOUS
<1>1. CASE UNCHANGED <<proc_state, pending_op, op_page, op_frame, pc, page_table,
                       page_ready_queue, blocked_queue, dev_process, memVars>>
  BY <1>1, UnmovedFrame
<1>2. CASE Next
  BY <1>1, <1>2, PageLoadFinishedFrame, JobDoneFrame, JobDoneStartNextFrame,
     JobDoneOutOfMemoryFrame, DispatchFrame, DispatchFaultFrame, AccessMemoryFrame,
     AccessMemoryFaultFrame, RequestIOFrame
  DEF Next, BeginTimeUnit, Stop, IncomingProcess, PromoteWaitingProcesses, DevicesHandled,
      SwapOutDone, SwapOutScan, NothingToSelect, NoMemoryAccess, FinishProcess, Preempt,
      RunOneTimeUnit, IdleTimeUnit, UseFreedProcess, Goto, otherVars, procVars, schedVars,
      devVars
<1>3. CASE UNCHANGED vars
  BY <1>1, <1>3 DEF vars, procVars, schedVars, devVars
<1> QED BY <1>2, <1>3

LEMMA FrameInvHolds == Spec => [](TypeOK /\ PlaceInv /\ FrameInv)
<1>1. TypeOK /\ Init => PlaceInv /\ FrameInv
  BY InitPlace, InitFrame
<1>2. TypeOK /\ PlaceInv /\ [Next]_vars => PlaceInv'
  BY NextPlace
<1>3. TypeOK /\ PlaceInv /\ FrameInv /\ [Next]_vars => FrameInv'
  BY NextFrame
<1> QED BY <1>1, <1>2, <1>3, TypeCorrect, PTL DEF Spec

\* Every used frame is the OS's, mapped, or being read into, and the counter
\* kept by hand is right: also after memory has run out.
THEOREM FramesAllAccounted == Spec => []FramesAccounted
<1>1. FrameInv => FramesAccounted
  BY DEF FrameInv, FramesKept, FrameState, FramesAccounted, Mapped, InFlight, MappedIn,
     InFlightIn
<1> QED BY <1>1, FrameInvHolds, PTL

\* No frame is given away twice.
THEOREM FramesNotShared == Spec => []FramesExclusive
<1>1. FrameInv => FramesExclusive
  BY DEF FrameInv, FramesKept, FrameState, FramesExclusive, Mapped, InFlight, MappedIn,
     InFlightIn
<1> QED BY <1>1, FrameInvHolds, PTL

\* A frame is locked from the start of the read into it to its end.
THEOREM LocksKept == Spec => []LocksInFlight
<1>1. FrameInv => LocksInFlight
  BY DEF FrameInv, FramesKept, FrameState, Holder, LocksInFlight, InFlight, InFlightIn
<1> QED BY <1>1, FrameInvHolds, PTL

\* As long as memory suffices, a process whose page has been loaded finds it
\* when it is chosen to run, whatever device jobs and preemptions lie between.
THEOREM LoadedPageFound == Spec => []PageReadyIsResident
<1>1. TypeOK /\ FrameInv => PageReadyIsResident
  <2> SUFFICES ASSUME TypeOK, FrameInv, Undisturbed, NEW p \in Items(page_ready_queue)
               PROVE  page_table[p][pc[p]] \in Frames
    BY DEF PageReadyIsResident
  <2>1. p \in Pids
    BY ItemsType DEF TypeOK
  <2> QED BY <2>1 DEF FrameInv, Swapping
<1> QED BY <1>1, FrameInvHolds, PTL

===============================================================================

---------------------------- MODULE LifecycleProofs ----------------------------
(***************************************************************************)
(* With enough frames the main loop implements the life of processes that  *)
(* Lifecycle promises, for every plan.  First the frames: where each page  *)
(* of each process could have one, nobody ever waits for one.  Then the    *)
(* steps: each action of OS moves one process along one edge, or none.     *)
(* Last, how long a process may have to wait to be given the CPU.          *)
(***************************************************************************)
EXTENDS FrameProofs, WellFoundedInduction

\* A frame for every page of every process, besides those of the OS.
EnoughMemory ==
  /\ IsFiniteSet(Pages) /\ FrameCount - 5 >= MaxProcesses * Cardinality(Pages)
  /\ MaxWorkingSet > 0

-------------------------------------------------------------------------------
(***************************************************************************)
(* Nobody waits for a frame                                                *)
(***************************************************************************)

\* Pages of processes, but for one of them, and the frames they may have.
OtherPages(p, g) == (Pids \X Pages) \ {<<p, g>>}

LEMMA FewOtherPages ==
  ASSUME EnoughMemory, NEW p \in Pids, NEW g \in Pages
  PROVE  /\ IsFiniteSet(OtherPages(p, g))
         /\ Cardinality(OtherPages(p, g)) < FrameCount - 5
<1>1. IsFiniteSet(Pids) /\ Cardinality(Pids) = MaxProcesses
  <2>1. 1 \in Int /\ MaxProcesses \in Int /\ MaxProcesses >= 1
    BY ConstantsType
  <2>2. /\ IsFiniteSet(1 .. MaxProcesses)
        /\ Cardinality(1 .. MaxProcesses) = IF 1 > MaxProcesses THEN 0 ELSE MaxProcesses - 1 + 1
    BY <2>1, FS_Interval, Zenon
  <2>3. MaxProcesses - 1 + 1 = MaxProcesses /\ ~(1 > MaxProcesses)
    BY <2>1
  <2> QED BY <2>2, <2>3 DEF Pids
<1>2. /\ IsFiniteSet(Pids \X Pages)
      /\ Cardinality(Pids \X Pages) = MaxProcesses * Cardinality(Pages)
  BY <1>1, FS_Product DEF EnoughMemory
<1>3. /\ IsFiniteSet(OtherPages(p, g))
      /\ Cardinality(OtherPages(p, g)) = Cardinality(Pids \X Pages) - 1
  <2>1. <<p, g>> \in Pids \X Pages
    OBVIOUS
  <2> QED BY <1>2, <2>1, FS_RemoveElement DEF OtherPages
<1>4. Cardinality(Pids \X Pages) \in Nat
  BY <1>2, FS_CardinalityType
<1> QED BY <1>2, <1>3, <1>4, ConstantsType DEF EnoughMemory

LEMMA FramesCount == IsFiniteSet(Frames \ ReservedFrames)
                     /\ Cardinality(Frames \ ReservedFrames) = FrameCount - 5
<1>1. 0 \in Int /\ 4 \in Int /\ FrameCount - 1 \in Int /\ FrameCount >= 5 /\ FrameCount \in Nat
  BY ConstantsAssumption
<1>2. IsFiniteSet(Frames) /\ Cardinality(Frames) = FrameCount
  <2>1. /\ IsFiniteSet(0 .. FrameCount - 1)
        /\ Cardinality(0 .. FrameCount - 1) =
             IF 0 > FrameCount - 1 THEN 0 ELSE FrameCount - 1 - 0 + 1
    BY <1>1, FS_Interval, Zenon
  <2>2. ~(0 > FrameCount - 1) /\ FrameCount - 1 - 0 + 1 = FrameCount
    BY <1>1
  <2> QED BY <2>1, <2>2 DEF Frames
<1>3. Cardinality(ReservedFrames) = 5
  <2>1. Cardinality(0 .. 4) = IF 0 > 4 THEN 0 ELSE 4 - 0 + 1
    BY <1>1, FS_Interval, Zenon
  <2> QED BY <2>1 DEF ReservedFrames
<1>4. Frames \cap ReservedFrames = ReservedFrames
  BY ConstantsType
<1> QED BY <1>2, <1>3, <1>4, FS_Difference

\* A page that is not mapped, of a process that has no read in progress, finds
\* a frame: the frames in use are those of other pages.
LEMMA FrameForPage ==
  ASSUME TypeOK, FrameInv, EnoughMemory, NEW p \in Pids, NEW g \in Pages,
         page_table[p][g] \notin Frames, op_frame[p] = NoFrame
  PROVE  FreeFrames # {}
<1> SUFFICES ASSUME FreeFrames = {} PROVE FALSE
  OBVIOUS
<1> DEFINE T == OtherPages(p, g)
           S == Frames \ ReservedFrames
           frame(x) == IF page_table[x[1]][x[2]] \in Frames THEN page_table[x[1]][x[2]]
                                                           ELSE op_frame[x[1]]
           R == {frame(x) : x \in T}
           f == [x \in T |-> frame(x)]
<1>1. used = Frames
  BY DEF FreeFrames, TypeOK
<1>2. used = ReservedFrames \cup MappedIn(page_table) \cup InFlightIn(op_frame)
  BY DEF FrameInv, FramesKept, FrameState
<1>3. ASSUME NEW x \in S
      PROVE  x \in R
  <2>1. CASE x \in MappedIn(page_table)
    <3>1. PICK r \in Pids, k \in Pages : x = page_table[r][k]
      BY <2>1 DEF MappedIn
    <3>2. <<r, k>> \in T /\ frame(<<r, k>>) = x
      BY <1>3, <3>1 DEF OtherPages
    <3> QED BY <3>2
  <2>2. CASE x \in InFlightIn(op_frame)
    <3>1. PICK r \in Pids : x = op_frame[r] /\ x # NoFrame
      BY <2>2 DEF InFlightIn
    <3>2. op_page[r] \in Pages /\ page_table[r][op_page[r]] \notin Frames
      BY <3>1 DEF FrameInv, Loading
    <3>3. <<r, op_page[r]>> \in T /\ frame(<<r, op_page[r]>>) = x
      BY <3>1, <3>2 DEF OtherPages
    <3> QED BY <3>3
  <2> QED BY <1>1, <1>2, <1>3, <2>1, <2>2
<1>4. IsFiniteSet(T) /\ Cardinality(T) < FrameCount - 5
  BY FewOtherPages
<1>5. f \in Surjection(T, R)
  BY DEF Surjection
<1>6. IsFiniteSet(R) /\ Cardinality(R) <= Cardinality(T)
  <2> HIDE DEF f, R, T
  <2> QED BY <1>4, <1>5, FS_Surjection
<1>7. Cardinality(S) <= Cardinality(R)
  <2>1. S \in SUBSET R
    BY <1>3
  <2> HIDE DEF S, R
  <2> QED BY <1>6, <2>1, FS_Subset
<1>8. Cardinality(S) = FrameCount - 5
  BY FramesCount
<1>9. Cardinality(T) \in Nat /\ Cardinality(R) \in Nat
  <2> HIDE DEF T, R
  <2> QED BY <1>4, <1>6, FS_CardinalityType
<1> HIDE DEF T, R, S
<1> QED BY <1>4, <1>6, <1>7, <1>8, <1>9, ConstantsType

LEMMA FaultFindsFrame ==
  ASSUME TypeOK, FrameInv, Undisturbed, EnoughMemory, NEW p \in Pids, NEW g \in Pages,
         page_table[p][g] = Absent, op_frame[p] = NoFrame, HandlePageFault(p, g)
  PROVE  UNCHANGED require_frame_queue
<1>1. FreeFrames # {}
  BY FrameForPage, NotFrames
<1>2. MaxWorkingSet # 0
  BY ConstantsAssumption DEF EnoughMemory
<1> QED BY <1>1, <1>2 DEF HandlePageFault, memVars

LEMMA NextFindsFrame ==
  ASSUME TypeOK, FrameInv, EnoughMemory, NEW d \in Devices, NEW p \in Pids,
         CompleteOperation(d, p), blocked_queue[d] # <<>>, NeedsFrame(Head(blocked_queue[d]), p)
  PROVE  FreeFrames # {}
<1> DEFINE next == Head(blocked_queue[d])
<1>1. next \in Pids
  BY HeadTailType DEF TypeOK
<1>2. pending_op' = [pending_op EXCEPT ![p] = "NONE"] /\ pending_op \in [Pids -> {"NONE", "PAGE_LOAD", "PAGE_LOADED"}]
  BY DEF CompleteOperation, TypeOK
<1>3. next # p /\ pending_op[next] = "PAGE_LOAD"
  BY <1>1, <1>2 DEF NeedsFrame
<1>4. op_frame[next] = NoFrame
  BY <1>1, <1>3 DEF NeedsFrame, FrameReleased, TypeOK
<1>5. op_page[next] \in Pages /\ page_table[next][op_page[next]] \notin Frames
  BY <1>1, <1>3 DEF FrameInv, Loading
<1> QED BY <1>1, <1>4, <1>5, FrameForPage

LEMMA NextUndisturbed ==
  EnoughMemory /\ TypeOK /\ PlaceInv /\ FrameInv /\ Undisturbed /\ [Next]_vars => Undisturbed'
<1> SUFFICES ASSUME EnoughMemory, TypeOK, PlaceInv, FrameInv, Undisturbed, [Next]_vars
             PROVE  UNCHANGED require_frame_queue
  BY DEF Undisturbed
<1>1. CASE DispatchFault
  <2>1. PICK p \in Pids : SelectNextProcess(p) /\ ~Resident(p, pc[p]) /\ HandlePageFault(p, pc[p])
    BY <1>1 DEF DispatchFault
  <2>2. op_frame[p] = NoFrame /\ pc[p] \in Pages
    BY <2>1, SelectedItems DEF TypeOK
  <2> QED BY <2>1, <2>2, FaultFindsFrame DEF Resident
<1>2. ASSUME NEW page \in Pages, AccessMemoryFault(page)
      PROVE  UNCHANGED require_frame_queue
  <2>1. current_process \in Pids /\ op_frame[current_process] = NoFrame
    BY <1>2, RunningAway DEF AccessMemoryFault
  <2> QED BY <1>2, <2>1, FaultFindsFrame DEF AccessMemoryFault, Resident
<1>3. ASSUME NEW d \in Devices, JobDoneOutOfMemory(d)
      PROVE  FALSE
  BY <1>3, NextFindsFrame DEF JobDoneOutOfMemory
<1>4. CASE UNCHANGED vars
  BY <1>4 DEF vars, memVars
<1> QED
  BY <1>1, <1>2, <1>3, <1>4
  DEF Next, BeginTimeUnit, Stop, IncomingProcess, PromoteWaitingProcesses, PageLoadFinished,
      JobDone, JobDoneStartNext, DevicesHandled, SwapOutDone, SwapOutScan, NothingToSelect,
      Dispatch, AccessMemory, NoMemoryAccess, FinishProcess, Preempt, RequestIO, RunOneTimeUnit,
      IdleTimeUnit, UseFreedProcess, Goto, otherVars, memVars

\* With a frame for every page nobody ever waits for one.
LEMMA NobodyWaits ==
  ASSUME EnoughMemory
  PROVE  Spec => []Undisturbed
<1>1. Init => Undisturbed
  BY DEF Init, FrameInit, Undisturbed, EnoughMemory
<1>2. TypeOK /\ PlaceInv /\ FrameInv /\ Undisturbed /\ [Next]_vars => Undisturbed'
  BY NextUndisturbed
<1> QED BY <1>1, <1>2, FrameInvHolds, PTL DEF Spec

-------------------------------------------------------------------------------
(***************************************************************************)
(* Steps of the life of a process                                          *)
(***************************************************************************)

\* The status of r depends on where it is and, while it is with a device, on whether
\* it has an operation.
LEMMA SameStatus ==
  ASSUME NEW r, (pending_op'[r] = "NONE") <=> (pending_op[r] = "NONE"),
         (r >= next_pid') <=> (r >= next_pid),
         (r \in freed') <=> (r \in freed),
         (r = current_process') <=> (r = current_process),
         (r \in Items(page_ready_queue')) <=> (r \in Items(page_ready_queue)),
         (\E q \in Queues : r \in Items(queues'[q])) <=> (\E q \in Queues : r \in Items(queues[q]))
  PROVE  Status(r)' = Status(r)
BY DEF Status

StatusOf == [p \in Pids |-> Status(p)]

\* Nobody's status changes.
LEMMA NobodyMoves ==
  ASSUME \A r \in Pids : Status(r)' = Status(r)
  PROVE  UNCHANGED StatusOf
BY DEF StatusOf

\* p moves and nobody else.
LEMMA OneMoves ==
  ASSUME NEW p \in Pids, NEW from, NEW to, Status(p) = from, Status(p)' = to,
         \A r \in Pids : r # p => Status(r)' = Status(r)
  PROVE  L!Move(p, from, to)
BY DEF L!Move

LEMMA RunningStatus ==
  ASSUME TypeOK, PlaceInv, FrameInv, Undisturbed, current_process # None
  PROVE  /\ current_process \in Pids /\ Status(current_process) = "running"
         /\ ~(current_process >= next_pid) /\ current_process \notin freed
         /\ current_process \notin Items(page_ready_queue)
         /\ \A q \in Queues : current_process \notin Items(queues[q])
<1>1. Cpu \in Containers /\ current_process \in Items(Held[Cpu])
  BY HeldValues, ItemsSingle, ContainerKinds DEF TypeOK
<1>2. Cpu # PageReady /\ \A q : Ready(q) # Cpu
  BY ContainersDiffer
<1> QED BY <1>1, <1>2, OnlyThere, RunningAway DEF Status

\* One of the queues of ready processes gets p at its end.
LEMMA ReadyGets ==
  ASSUME TypeOK, PlaceInv, Undisturbed, NEW q \in Queues, NEW p \in Pids,
         \A t \in Queues : p \notin Items(queues[t]),
         queues' = [queues EXCEPT ![q] = Enqueue(@, p)]
  PROVE  /\ \E t \in Queues : p \in Items(queues'[t])
         /\ \A r \in Pids : r # p =>
              ((\E t \in Queues : r \in Items(queues'[t])) <=> (\E t \in Queues : r \in Items(queues[t])))
<1>1. queues[q] \in Seq(Pids) /\ Distinct(queues[q]) /\ p \notin Items(queues[q])
  BY QueuesDistinct
<1>2. Enqueue(queues[q], p) = Append(queues[q], p)
  BY <1>1, EnqueueAppends
<1>3. Items(queues'[q]) = Items(queues[q]) \cup {p}
  BY <1>1, <1>2, ItemsAppend DEF TypeOK
<1>4. \A t \in Queues : t # q => queues'[t] = queues[t]
  BY DEF TypeOK
<1> QED BY <1>3, <1>4

LEMMA ArriveStep ==
  ASSUME TypeOK, PlaceInv, Undisturbed, IncomingProcess
  PROVE  \E p \in Pids : L!Arrive(p)
<1>1. PICK p \in Pids :
        /\ p = next_pid /\ next_pid' = p + 1 /\ 0 \in Queues
        /\ queues' = [queues EXCEPT ![0] = Enqueue(@, p)]
        /\ UNCHANGED <<freed, pending_op, page_ready_queue, current_process>>
  <2>1. next_pid \in Pids
    BY ConstantsType DEF IncomingProcess, TypeOK, Pids
  <2> QED BY <2>1, ConstantsType DEF IncomingProcess, procVars
<1>2. \A c \in Containers : p \notin Items(Held[c])
  BY <1>1, OnlyThere, PidsType
<1>3. /\ p # current_process /\ p \notin Items(page_ready_queue)
      /\ \A q \in Queues : p \notin Items(queues[q])
  <2>1. current_process = p => p \in Items(Held[Cpu])
    BY <1>1, HeldValues, ItemsSingle, PidsType
  <2> QED BY <1>2, <2>1, HeldValues, ContainerKinds
<1>4. /\ \E t \in Queues : p \in Items(queues'[t])
      /\ \A r \in Pids : r # p =>
           ((\E t \in Queues : r \in Items(queues'[t])) <=> (\E t \in Queues : r \in Items(queues[t])))
  BY <1>1, <1>3, ReadyGets
<1>5. p \notin freed
  BY <1>1, PidsType DEF PlaceInv
<1>6. /\ p >= next_pid /\ ~(p >= next_pid')
      /\ \A r \in Pids : r # p => ((r >= next_pid') <=> (r >= next_pid))
  <2>1. \A n, r \in Nat : /\ n >= n /\ ~(n >= n + 1)
                           /\ r # n => ((r >= n + 1) <=> (r >= n))
    OBVIOUS
  <2> QED BY <1>1, <2>1, PidsType
<1>7. Status(p) = "new"
  BY <1>3, <1>5, <1>6 DEF Status
<1>8. Status(p)' = "ready"
  BY <1>1, <1>3, <1>4, <1>5, <1>6 DEF Status
<1>9. \A r \in Pids : r # p => Status(r)' = Status(r)
  BY <1>1, <1>4, <1>6, SameStatus
<1>10. L!Move(p, "new", "ready")
  BY <1>1, <1>7, <1>8, <1>9, OneMoves
<1> QED BY <1>1, <1>10 DEF L!Arrive

\* A promoted process stays ready.
LEMMA PromoteStep ==
  ASSUME TypeOK, PlaceInv, Undisturbed, PromoteWaitingProcesses
  PROVE  UNCHANGED StatusOf
<1>1. UNCHANGED <<next_pid, freed, pending_op, page_ready_queue, current_process>>
  BY DEF PromoteWaitingProcesses, procVars
<1>2. \A q \in Queues :
        /\ Items(queues'[q]) = (Items(queues[q]) \ OverdueHead(q)) \cup OverdueHead(q + 1)
        /\ OverdueHead(q) \subseteq Items(queues[q])
        /\ q + 1 \in Queues => OverdueHead(q + 1) \subseteq Items(queues[q + 1])
        /\ q + 1 \notin Queues => OverdueHead(q + 1) = {}
  BY PromotedItems
<1>3. ASSUME NEW r \in Pids
      PROVE  (\E q \in Queues : r \in Items(queues'[q])) <=> (\E q \in Queues : r \in Items(queues[q]))
  <2>1. ASSUME NEW q \in Queues, r \in Items(queues'[q])
        PROVE  \E t \in Queues : r \in Items(queues[t])
    BY <1>2, <2>1
  <2>2. ASSUME NEW q \in Queues, r \in Items(queues[q])
        PROVE  \E t \in Queues : r \in Items(queues'[t])
    <3>1. CASE r \notin OverdueHead(q)
      BY <1>2, <2>2, <3>1
    <3>2. CASE r \in OverdueHead(q)
      <4>1. q # 0 /\ q - 1 \in Queues /\ (q - 1) + 1 = q
        BY <3>2, ConstantsType DEF OverdueHead, Overdue, Queues
      <4> QED BY <1>2, <3>2, <4>1
    <3> QED BY <3>1, <3>2
  <2> QED BY <2>1, <2>2
<1> QED BY <1>1, <1>3, SameStatus, NobodyMoves

\* The finished process of a device comes back: with its page loaded, or ready.
LEMMA CompletionStep ==
  ASSUME TypeOK, PlaceInv, FrameInv, Undisturbed, NEW d \in Devices, NEW p \in Pids,
         CompleteOperation(d, p)
  PROVE  L!PageIn(p) \/ L!Answer(p)
<1>1. /\ p = dev_process[d] /\ pending_op' = [pending_op EXCEPT ![p] = "NONE"]
      /\ IF SwapReturn(p)
         THEN /\ page_ready_queue' = Enqueue(page_ready_queue, p) /\ queues' = queues
         ELSE /\ queues' = [queues EXCEPT ![RetQueue[d]] = Enqueue(@, p)]
              /\ page_ready_queue' = page_ready_queue
      /\ UNCHANGED <<next_pid, freed, current_process>>
  BY DEF CompleteOperation
<1>2. /\ ~(p >= next_pid) /\ p \notin freed /\ p # current_process
      /\ p \notin Items(page_ready_queue) /\ \A q \in Queues : p \notin Items(queues[q])
  <2>1. Device(d) \in Containers /\ p \in Items(Held[Device(d)])
    BY <1>1, AtDevice, ContainerKinds
  <2> QED BY <2>1, OnlyThere, ContainersDiffer
<1>3. \A r \in Pids : r # p => pending_op'[r] = pending_op[r]
  BY <1>1 DEF TypeOK
<1>4. SwapReturn(p) <=> pending_op[p] # "NONE"
  BY <1>2 DEF FrameInv, Swapping, SwapReturn
<1>5. CASE SwapReturn(p)
  <2>1. page_ready_queue' = Append(page_ready_queue, p)
    BY <1>1, <1>2, <1>5, QueuesDistinct, EnqueueAppends
  <2>2. Items(page_ready_queue') = Items(page_ready_queue) \cup {p}
    BY <2>1, QueuesDistinct, ItemsAppend
  <2>3. Status(p) = "paging"
    BY <1>2, <1>5, <1>4 DEF Status
  <2>4. Status(p)' = "loaded"
    BY <1>1, <1>2, <2>2 DEF Status
  <2>5. \A r \in Pids : r # p => Status(r)' = Status(r)
    BY <1>1, <1>5, <1>3, <2>2, SameStatus
  <2>6. L!Move(p, "paging", "loaded")
    BY <2>3, <2>4, <2>5, OneMoves
  <2> QED BY <2>6 DEF L!PageIn
<1>6. CASE ~SwapReturn(p)
  <2>1. /\ RetQueue[d] \in Queues
        /\ \E t \in Queues : p \in Items(queues'[t])
        /\ \A r \in Pids : r # p =>
             ((\E t \in Queues : r \in Items(queues'[t])) <=> (\E t \in Queues : r \in Items(queues[t])))
    BY <1>1, <1>2, <1>6, ReadyGets, ConstantsType
  <2>2. Status(p) = "waiting"
    BY <1>2, <1>6, <1>4 DEF Status
  <2>3. Status(p)' = "ready"
    BY <1>1, <1>2, <1>6, <2>1 DEF Status
  <2>4. \A r \in Pids : r # p => Status(r)' = Status(r)
    BY <1>1, <1>6, <1>3, <2>1, SameStatus
  <2>5. L!Move(p, "waiting", "ready")
    BY <2>2, <2>3, <2>4, OneMoves
  <2> QED BY <2>5 DEF L!Answer
<1> QED BY <1>5, <1>6

\* What choosing p does to the queues.
LEMMA ChosenStatus ==
  ASSUME TypeOK, PlaceInv, Undisturbed, current_process = None, NEW p \in Pids,
         SelectNextProcess(p)
  PROVE  /\ Status(p) = IF page_ready_queue # <<>> THEN "loaded" ELSE "ready"
         /\ L!MayBeChosen(p)
         /\ ~(p >= next_pid) /\ p \notin freed
         /\ page_ready_queue # <<>> => p \in Items(page_ready_queue)
         /\ p \notin Items(page_ready_queue')
         /\ \A q \in Queues : p \notin Items(queues'[q])
         /\ \A r \in Pids : r # p =>
              /\ r \in Items(page_ready_queue') <=> r \in Items(page_ready_queue)
              /\ (\E q \in Queues : r \in Items(queues'[q])) <=>
                   (\E q \in Queues : r \in Items(queues[q]))
<1>1. \A r \in Pids : Status(r) # "running"
  BY PidsType DEF Status
<1>2. CASE page_ready_queue # <<>>
  <2>1. p = Head(page_ready_queue) /\ page_ready_queue' = Tail(page_ready_queue) /\ queues' = queues
    BY <1>2 DEF SelectNextProcess
  <2>2. p \in Items(page_ready_queue) /\ Items(page_ready_queue') = Items(page_ready_queue) \ {p}
    BY <1>2, <2>1, QueuesDistinct, ItemsTail
  <2>3. /\ ~(p >= next_pid) /\ p \notin freed /\ p # current_process
        /\ \A q \in Queues : p \notin Items(queues[q])
    BY <2>2, OnlyThere, HeldValues, ContainerKinds, ContainersDiffer
  <2>4. Status(p) = "loaded"
    BY <2>2, <2>3 DEF Status
  <2>5. L!MayBeChosen(p)
    BY <1>1, <2>4 DEF L!MayBeChosen, L!Count
  <2> QED BY <1>2, <2>1, <2>2, <2>3, <2>4, <2>5
<1>3. CASE page_ready_queue = <<>>
  <2>1. PICK q \in Queues : /\ queues[q] # <<>> /\ p = Head(queues[q])
                            /\ queues' = [queues EXCEPT ![q] = Tail(@)]
                            /\ page_ready_queue' = page_ready_queue
    BY <1>3 DEF SelectNextProcess, FirstNonEmpty
  <2>2. p \in Items(queues[q]) /\ Items(queues'[q]) = Items(queues[q]) \ {p}
    BY <2>1, QueuesDistinct, ItemsTail DEF TypeOK
  <2>3. \A t \in Queues : t # q => queues'[t] = queues[t]
    BY <2>1 DEF TypeOK
  <2>4. /\ ~(p >= next_pid) /\ p \notin freed /\ p # current_process
        /\ p \notin Items(page_ready_queue)
        /\ \A t \in Queues : t # q => p \notin Items(queues[t])
    <3>1. Ready(q) \in Containers /\ p \in Items(Held[Ready(q)])
      BY <2>2, HeldValues, ContainerKinds
    <3> QED BY <3>1, OnlyThere, ContainersDiffer
  <2>5. Status(p) = "ready"
    BY <2>2, <2>4 DEF Status
  <2>6. \A r \in Pids : Status(r) # "loaded"
    BY <1>3, ItemsEmpty DEF Status
  <2>7. L!MayBeChosen(p)
    BY <1>1, <2>6 DEF L!MayBeChosen, L!Count
  <2> QED BY <1>3, <2>1, <2>2, <2>3, <2>4, <2>5, <2>7
<1> QED BY <1>2, <1>3

LEMMA DispatchStep ==
  ASSUME TypeOK, PlaceInv, Undisturbed, Dispatch
  PROVE  \E p \in Pids : L!Run(p)
<1>1. PICK p \in Pids : SelectNextProcess(p) /\ current_process' = p
  BY DEF Dispatch
<1>2. current_process = None /\ UNCHANGED <<next_pid, freed, pending_op>>
  BY DEF Dispatch
<1>3. Status(p)' = "running"
  BY <1>1, <1>2, ChosenStatus DEF Status
<1>4. \A r \in Pids : r # p => Status(r)' = Status(r)
  <2> SUFFICES ASSUME NEW r \in Pids, r # p PROVE Status(r)' = Status(r)
    OBVIOUS
  <2>1. r # current_process /\ r # current_process'
    BY <1>1, <1>2, PidsType DEF TypeOK
  <2> QED BY <1>1, <1>2, <2>1, ChosenStatus, SameStatus
<1>5. L!Move(p, "loaded", "running") \/ L!Move(p, "ready", "running")
  BY <1>1, <1>2, <1>3, <1>4, ChosenStatus, OneMoves
<1> QED BY <1>1, <1>2, <1>5, ChosenStatus DEF L!Run

\* A process with its page loaded is not refused the CPU.
LEMMA RefuseStep ==
  ASSUME TypeOK, PlaceInv, FrameInv, Undisturbed, DispatchFault
  PROVE  \E p \in Pids : L!Refuse(p)
<1>1. PICK p \in Pids : SelectNextProcess(p) /\ ~Resident(p, pc[p]) /\ HandlePageFault(p, pc[p])
  BY DEF DispatchFault
<1>2. /\ current_process = None /\ UNCHANGED <<next_pid, freed, current_process>>
      /\ pending_op' = [pending_op EXCEPT ![p] = "PAGE_LOAD"]
  <2>1. MaxWorkingSet # 0
    BY ConstantsAssumption DEF Undisturbed
  <2> QED BY <1>1, <2>1 DEF DispatchFault, HandlePageFault
<1>3. page_ready_queue = <<>>
  <2>1. page_table[p][pc[p]] \notin Frames
    BY <1>1, NotFrames DEF Resident
  <2>2. p \notin Items(page_ready_queue)
    BY <2>1 DEF FrameInv, Swapping
  <2> QED BY <1>1, <1>2, <2>2, ChosenStatus
<1>4. Status(p) = "ready" /\ L!MayBeChosen(p)
  BY <1>1, <1>2, <1>3, ChosenStatus
<1>5. Status(p)' = "paging"
  <2>1. p # current_process' /\ pending_op'[p] = "PAGE_LOAD"
    BY <1>2, PidsType DEF TypeOK
  <2> QED BY <1>1, <1>2, <2>1, ChosenStatus DEF Status
<1>6. \A r \in Pids : r # p => Status(r)' = Status(r)
  <2> SUFFICES ASSUME NEW r \in Pids, r # p PROVE Status(r)' = Status(r)
    OBVIOUS
  <2>1. pending_op'[r] = pending_op[r]
    BY <1>2 DEF TypeOK
  <2> QED BY <1>1, <1>2, <2>1, ChosenStatus, SameStatus
<1>7. L!Move(p, "ready", "paging")
  BY <1>4, <1>5, <1>6, OneMoves
<1> QED BY <1>4, <1>7 DEF L!Refuse

\* The steps of the running process.
LEMMA FaultStep ==
  ASSUME TypeOK, PlaceInv, FrameInv, Undisturbed, NEW page \in Pages, AccessMemoryFault(page)
  PROVE  \E p \in Pids : L!Fault(p)
<1>1. PICK p \in Pids :
      /\ p = current_process /\ p # None /\ current_process' = None
      /\ UNCHANGED <<next_pid, freed, page_ready_queue, queues>>
      /\ pending_op' = [pending_op EXCEPT ![p] = "PAGE_LOAD"]
  <2>1. MaxWorkingSet # 0
    BY ConstantsAssumption DEF Undisturbed
  <2> QED BY <2>1, RunningStatus DEF AccessMemoryFault, HandlePageFault
<1>2. Status(p)' = "paging"
  <2>1. p # current_process' /\ pending_op'[p] = "PAGE_LOAD"
    BY <1>1, RunningStatus DEF TypeOK
  <2> QED BY <1>1, <2>1, RunningStatus DEF Status
<1>3. \A r \in Pids : r # p => Status(r)' = Status(r)
  BY <1>1, SameStatus, PidsType DEF TypeOK
<1>4. L!Move(p, "running", "paging")
  BY <1>1, <1>2, <1>3, OneMoves, RunningStatus
<1> QED BY <1>1, <1>4 DEF L!Fault

LEMMA FinishStep ==
  ASSUME TypeOK, PlaceInv, FrameInv, Undisturbed, FinishProcess
  PROVE  \E p \in Pids : L!Finish(p)
<1>1. PICK p \in Pids :
      /\ p = current_process /\ p # None /\ current_process' = None /\ freed' = freed \cup {p}
      /\ UNCHANGED <<next_pid, pending_op, page_ready_queue, queues>>
  BY RunningStatus DEF FinishProcess, procVars
<1>2. Status(p)' = "done"
  BY <1>1, RunningStatus DEF Status
<1>3. \A r \in Pids : r # p => Status(r)' = Status(r)
  BY <1>1, SameStatus, PidsType
<1>4. L!Move(p, "running", "done")
  BY <1>1, <1>2, <1>3, OneMoves, RunningStatus
<1> QED BY <1>1, <1>4 DEF L!Finish

LEMMA PreemptStep ==
  ASSUME TypeOK, PlaceInv, FrameInv, Undisturbed, Preempt
  PROVE  \E p \in Pids : L!Preempt(p)
<1> DEFINE q == Clamp(current_priority[current_process] + 1, 0, QueueCount - 1)
<1>1. PICK p \in Pids :
      /\ p = current_process /\ p # None /\ current_process' = None
      /\ queues' = [queues EXCEPT ![q] = Enqueue(@, p)]
      /\ UNCHANGED <<next_pid, freed, pending_op, page_ready_queue>>
  BY RunningStatus DEF Preempt
<1>2. q \in Queues
  <2>1. current_priority[current_process] \in 0 .. QueueCount - 1
    BY <1>1 DEF TypeOK, Queues
  <2> QED BY <2>1, ConstantsType DEF Clamp, Queues
<1>3. /\ \E t \in Queues : p \in Items(queues'[t])
      /\ \A r \in Pids : r # p =>
           ((\E t \in Queues : r \in Items(queues'[t])) <=> (\E t \in Queues : r \in Items(queues[t])))
  BY <1>1, <1>2, RunningStatus, ReadyGets
<1>4. Status(p)' = "ready"
  BY <1>1, <1>3, RunningStatus DEF Status
<1>5. \A r \in Pids : r # p => Status(r)' = Status(r)
  BY <1>1, <1>3, SameStatus, PidsType
<1>6. L!Move(p, "running", "ready")
  BY <1>1, <1>4, <1>5, OneMoves, RunningStatus
<1> QED BY <1>1, <1>6 DEF L!Preempt

LEMMA RequestStep ==
  ASSUME TypeOK, PlaceInv, FrameInv, Undisturbed, NEW d \in Devices, RequestIO(d)
  PROVE  \E p \in Pids : L!Request(p)
<1>1. PICK p \in Pids :
      /\ p = current_process /\ p # None /\ current_process' = None
      /\ pending_op' = [pending_op EXCEPT ![p] = "NONE"]
      /\ UNCHANGED <<next_pid, freed, page_ready_queue, queues>>
  BY RunningStatus DEF RequestIO
<1>2. Status(p)' = "waiting"
  <2>1. p # current_process' /\ pending_op'[p] = "NONE"
    BY <1>1, RunningStatus DEF TypeOK
  <2> QED BY <1>1, <2>1, RunningStatus DEF Status
<1>3. \A r \in Pids : r # p => Status(r)' = Status(r)
  BY <1>1, SameStatus, PidsType DEF TypeOK
<1>4. L!Move(p, "running", "waiting")
  BY <1>1, <1>2, <1>3, OneMoves, RunningStatus
<1> QED BY <1>1, <1>4 DEF L!Request

\* A step of the OS is a step of one process, or of none.
LEMMA StepOfLife ==
  TypeOK /\ PlaceInv /\ FrameInv /\ Undisturbed /\ [Next]_vars => [L!Next]_StatusOf
<1> SUFFICES ASSUME TypeOK, PlaceInv, FrameInv, Undisturbed, [Next]_vars
             PROVE  L!Next \/ UNCHANGED StatusOf
  OBVIOUS
<1>1. CASE /\ UNCHANGED <<next_pid, freed, page_ready_queue, queues, current_process>>
           /\ \A r \in Pids : (pending_op'[r] = "NONE") <=> (pending_op[r] = "NONE")
  BY <1>1, SameStatus, NobodyMoves
<1>2. CASE \E p \in Pids : \/ L!Arrive(p) \/ L!Run(p) \/ L!Refuse(p) \/ L!Fault(p) \/ L!PageIn(p)
                           \/ L!Preempt(p) \/ L!Request(p) \/ L!Answer(p) \/ L!Finish(p)
  BY <1>2 DEF L!Next
<1>3. ASSUME NEW d \in Devices, JobDone(d) \/ JobDoneStartNext(d) \/ JobDoneOutOfMemory(d)
      PROVE  \E p \in Pids : L!PageIn(p) \/ L!Answer(p)
  BY <1>3, CompletionStep DEF JobDone, JobDoneStartNext, JobDoneOutOfMemory
<1>4. ASSUME NEW d \in Devices, PageLoadFinished(d)
      PROVE  UNCHANGED StatusOf
  <2> DEFINE p == dev_process[d]
  <2>1. /\ pending_op[p] = "PAGE_LOAD" /\ pending_op' = [pending_op EXCEPT ![p] = "PAGE_LOADED"]
        /\ UNCHANGED <<next_pid, freed, page_ready_queue, queues, current_process>>
    BY <1>4 DEF PageLoadFinished, schedVars
  <2> HIDE DEF p
  <2>2. \A r \in Pids : (pending_op'[r] = "NONE") <=> (pending_op[r] = "NONE")
    BY <2>1 DEF TypeOK
  <2> QED BY <2>1, <2>2, SameStatus, NobodyMoves
<1>5. CASE Next
  BY <1>1, <1>2, <1>3, <1>4, <1>5, ArriveStep, PromoteStep, DispatchStep, RefuseStep, FaultStep,
     FinishStep, PreemptStep, RequestStep
  DEF Next, BeginTimeUnit, Stop, DevicesHandled, SwapOutDone, SwapOutScan, NothingToSelect,
      AccessMemory, NoMemoryAccess, RunOneTimeUnit, IdleTimeUnit, UseFreedProcess, Goto,
      otherVars, procVars, schedVars
<1>6. CASE UNCHANGED vars
  BY <1>1, <1>6 DEF vars, procVars, schedVars
<1> QED BY <1>5, <1>6

\* The main loop implements the life of processes, under every plan, as long as
\* every page of every process could have a frame.
THEOREM LifecycleImplemented ==
  ASSUME EnoughMemory
  PROVE  Spec => ImplementsLifecycle
<1>1. Init => L!Init
  <2> SUFFICES ASSUME Init, NEW p \in Pids PROVE Status(p) = "new"
    BY DEF L!Init
  <2>1. p >= next_pid
    BY ConstantsType DEF Init, Pids
  <2> QED BY <2>1, PidsType, ItemsEmpty DEF Init, ProcessInit, SchedulerInit, Status
<1>2. TypeOK /\ PlaceInv /\ FrameInv /\ Undisturbed /\ [Next]_vars => [L!Next]_StatusOf
  BY StepOfLife
<1> QED BY <1>1, <1>2, NobodyWaits, FrameInvHolds, PTL
        DEF Spec, ImplementsLifecycle, L!Spec, StatusOf

\* However few frames there are, until somebody has had to wait for one a step
\* moves at most one process, along an edge of its life.
THEOREM LivesGoOn == Spec => LivesUndisturbed
<1>1. TypeOK /\ PlaceInv /\ FrameInv /\ [Next]_vars => [Undisturbed => L!Next]_StatusOf
  BY StepOfLife
<1> QED BY <1>1, FrameInvHolds, PTL DEF Spec, LivesUndisturbed, StatusOf

-------------------------------------------------------------------------------
(***************************************************************************)
(* BoundedWait: promotion bounds the wait in the lowest ready queue.  The  *)
(* queue is ordered by the time its processes became ready, so once one is *)
(* overdue the head is, and every time unit takes the head out.  A unit in *)
(* which nobody is promoted finds nobody overdue; then the queue must not  *)
(* be as long as it can be, which holds because one process is elsewhere   *)
(* when a unit ends.                                                       *)
(***************************************************************************)

\* Processes are promoted at all.
SeveralQueues == QueueCount > 1

\* The processes of queue q, ready since the times in since, in that order, and
\* the wait of the one at position i at most bound - i.
Waits(q, since, now, bound) ==
  /\ \A i \in 1 .. Len(q) : since[q[i]] <= now /\ now - since[q[i]] <= bound - i
  /\ \A i, j \in 1 .. Len(q) : i <= j => since[q[i]] <= since[q[j]]

Since == [Pids -> Nat \cup {-1}]

-------------------------------------------------------------------------------
(***************************************************************************)
(* Queues whose processes wait                                             *)
(***************************************************************************)
LEMMA ElementType ==
  ASSUME NEW q \in Seq(Pids), NEW since \in Since
  PROVE  Len(q) \in Nat /\ \A i \in 1 .. Len(q) : q[i] \in Pids /\ since[q[i]] \in Int
BY DEF Since

\* The head leaves: those behind it move up one position.
LEMMA WaitsTail ==
  ASSUME NEW q \in Seq(Pids), NEW since \in Since, NEW now \in Nat, NEW bound \in Int,
         q # <<>>, Waits(q, since, now, bound)
  PROVE  Waits(Tail(q), since, now, bound - 1)
<1>1. /\ Len(Tail(q)) = Len(q) - 1 /\ Len(q) \in Nat
      /\ \A i \in 1 .. Len(q) - 1 : i + 1 \in 1 .. Len(q) /\ Tail(q)[i] = q[i + 1]
  OBVIOUS
<1>2. \A i \in 1 .. Len(q) : since[q[i]] \in Int
  BY ElementType
<1> QED BY <1>1, <1>2 DEF Waits

\* A process that becomes ready now goes to the end.
LEMMA WaitsAppend ==
  ASSUME NEW q \in Seq(Pids), NEW since \in Since, NEW now \in Nat, NEW bound \in Int,
         NEW p \in Pids, p \notin Items(q), Len(q) + 1 <= bound,
         Waits(q, since, now, bound)
  PROVE  Waits(Append(q, p), [since EXCEPT ![p] = now], now, bound)
<1> DEFINE r == Append(q, p)
           s == [since EXCEPT ![p] = now]
<1>1. /\ Len(r) = Len(q) + 1 /\ Len(q) \in Nat
      /\ \A i \in 1 .. Len(q) : r[i] = q[i]
      /\ r[Len(q) + 1] = p
  OBVIOUS
<1>2. \A i \in 1 .. Len(q) : q[i] \in Pids /\ since[q[i]] \in Int /\ s[q[i]] = since[q[i]]
  BY ElementType DEF Items, Since
<1>3. s[p] = now
  BY DEF Since
<1> HIDE DEF r, s
<1>4. \A i \in 1 .. Len(r) : s[r[i]] <= now /\ now - s[r[i]] <= bound - i
  BY <1>1, <1>2, <1>3, SMTT(30) DEF Waits
<1>5. \A i, j \in 1 .. Len(r) : i <= j => s[r[i]] <= s[r[j]]
  <2> SUFFICES ASSUME NEW i \in 1 .. Len(r), NEW j \in 1 .. Len(r), i <= j
               PROVE  s[r[i]] <= s[r[j]]
    OBVIOUS
  <2>1. CASE j \in 1 .. Len(q)
    <3>1. i \in 1 .. Len(q)
      BY <1>1, <2>1
    <3>2. since[q[i]] <= since[q[j]]
      BY <2>1, <3>1 DEF Waits
    <3> QED BY <1>1, <1>2, <2>1, <3>1, <3>2
  <2>2. CASE j = Len(q) + 1
    BY <1>1, <1>3, <1>4, <2>2
  <2> QED BY <1>1, <2>1, <2>2
<1> QED BY <1>4, <1>5 DEF Waits, r, s

\* A process that is not in the queue becomes ready.
LEMMA WaitsOther ==
  ASSUME NEW q \in Seq(Pids), NEW since \in Since, NEW now \in Nat, NEW bound \in Int,
         NEW p \in Pids, p \notin Items(q), Waits(q, since, now, bound)
  PROVE  Waits(q, [since EXCEPT ![p] = now], now, bound)
<1>1. \A i \in 1 .. Len(q) : [since EXCEPT ![p] = now][q[i]] = since[q[i]]
  BY ElementType DEF Items, Since
<1> QED BY <1>1 DEF Waits

\* A time unit passes.
LEMMA WaitsLonger ==
  ASSUME NEW q \in Seq(Pids), NEW since \in Since, NEW now \in Nat, NEW bound \in Int,
         Waits(q, since, now, bound)
  PROVE  Waits(q, since, now + 1, bound + 1)
<1>1. \A i \in 1 .. Len(q) : since[q[i]] \in Int
  BY ElementType
<1> QED BY <1>1 DEF Waits

LEMMA WaitsMore ==
  ASSUME NEW q \in Seq(Pids), NEW since \in Since, NEW now \in Nat, NEW bound \in Int,
         Waits(q, since, now, bound - 1)
  PROVE  Waits(q, since, now, bound)
<1>1. Len(q) \in Nat /\ \A i \in 1 .. Len(q) : since[q[i]] \in Int
  BY ElementType
<1> QED BY <1>1 DEF Waits

\* The head has not waited longer than limit, so nobody has.
LEMMA WaitsShort ==
  ASSUME NEW q \in Seq(Pids), NEW since \in Since, NEW now \in Nat, NEW bound \in Int,
         NEW limit \in Nat, Waits(q, since, now, bound + 1), limit + Len(q) <= bound,
         q # <<>> => now - since[q[1]] <= limit
  PROVE  Waits(q, since, now, bound)
<1>1. Len(q) \in Nat /\ \A i \in 1 .. Len(q) : since[q[i]] \in Int
  BY ElementType
<1> SUFFICES ASSUME NEW i \in 1 .. Len(q) PROVE now - since[q[i]] <= bound - i
  BY DEF Waits
<1>2. q # <<>> /\ 1 \in 1 .. Len(q)
  BY <1>1
<1>3. since[q[1]] <= since[q[i]]
  BY <1>1, <1>2 DEF Waits
<1> QED BY <1>1, <1>2, <1>3, SMTT(30)

-------------------------------------------------------------------------------
(***************************************************************************)
(* The lowest ready queue                                                  *)
(***************************************************************************)
LongestWait == MaxWaitTime(Lowest) + MaxProcesses - 1

\* Some process is not in the lowest queue.
Elsewhere == \E p \in Pids : p \notin Items(queues[Lowest])

\* From the choice of a process to the promotion of the next time unit.
WaitInv ==
  Undisturbed =>
    /\ Waits(queues[Lowest], ready_since, time, LongestWait + PromotionDue)
    /\ phase \in {"memory", "cpu", "begin", "incoming"} => Elsewhere

LEMMA WaitType ==
  ASSUME TypeOK
  PROVE  /\ queues[Lowest] \in Seq(Pids) /\ ready_since \in Since /\ time \in Nat
         /\ MaxWaitTime(Lowest) \in Nat /\ MaxWaitTime(Lowest) >= 1
         /\ LongestWait \in Nat /\ LongestWait >= MaxProcesses
         /\ LongestWait + PromotionDue \in Int
<1>1. Lowest \in Queues /\ Lowest \in Nat
  BY ConstantsType DEF Queues, Lowest
<1>2. MaxWaitTime(Lowest) \in Nat /\ MaxWaitTime(Lowest) >= 1
  <2> DEFINE k == Clamp(Lowest, 0, 10)
  <2>1. k \in 0 .. 10
    BY <1>1 DEF Clamp
  <2>2. MaxWaitTime(Lowest) = <<1, 2, 4, 8, 16, 32, 64, 128, 256, 512, 1024>>[k + 1]
    BY DEF MaxWaitTime
  <2> HIDE DEF k
  <2>3. \/ k = 0 \/ k = 1 \/ k = 2 \/ k = 3 \/ k = 4 \/ k = 5 \/ k = 6 \/ k = 7 \/ k = 8
        \/ k = 9 \/ k = 10
    BY <2>1
  <2> QED BY <2>2, <2>3
<1> QED BY <1>1, <1>2, ConstantsType, SMTT(30) DEF TypeOK, Since, LongestWait, PromotionDue

LEMMA LowestPromoted ==
  ASSUME SeveralQueues
  PROVE  Lowest \in Queues \ {0} /\ Lowest + 1 \notin Queues
BY ConstantsType DEF SeveralQueues, Queues, Lowest

\* The process with the CPU is in no queue.
LEMMA RunningElsewhere ==
  TypeOK /\ PlaceInv /\ Undisturbed /\ current_process # None => Elsewhere
<1> SUFFICES ASSUME TypeOK, PlaceInv, Undisturbed, current_process # None PROVE Elsewhere
  OBVIOUS
<1>1. current_process \in Pids /\ Cpu \in Containers /\ Lowest \in Queues
  BY ContainerKinds, ConstantsType DEF TypeOK
<1>2. current_process \in Items(Held[Cpu])
  BY <1>1, HeldValues, ItemsSingle, PidsType
<1> QED BY <1>1, <1>2, OnlyThere, ContainersDiffer DEF Elsewhere

LEMMA RunningElsewhereNext ==
  (TypeOK /\ PlaceInv /\ Undisturbed /\ current_process # None => Elsewhere)'
BY RunningElsewhere, PTL

\* No process is in an empty queue.
LEMMA EmptyElsewhere ==
  ASSUME queues[Lowest] = <<>>
  PROVE  Elsewhere
<1>1. 1 \in Pids
  BY ConstantsType DEF Pids
<1> QED BY <1>1, ItemsEmpty DEF Elsewhere

LEMMA ElsewhereRoom ==
  ASSUME TypeOK, PlaceInv, Undisturbed, Elsewhere
  PROVE  Len(queues[Lowest]) < MaxProcesses
BY QueuesDistinct, Room, ConstantsType DEF Elsewhere

\* Induction without an operator as a parameter.
LEMMA Least ==
  ASSUME NEW S \in SUBSET Nat, S # {}
  PROVE  \E m \in S : \A n \in S : m <= n
<1> DEFINE below(m) == 0 .. m
           T == {below(m) : m \in S}
<1>1. T \subseteq FiniteSubsetsOf(Nat) /\ T # {}
  <2>1. \A m \in Nat : below(m) \subseteq Nat /\ IsFiniteSet(below(m))
    BY FS_Interval
  <2> HIDE DEF below
  <2> QED BY <2>1 DEF FiniteSubsetsOf
<1>2. \E t \in T : \A u \in T : <<u, t>> \notin StrictSubsetOrdering(Nat)
  <2>1. IsWellFoundedOn(StrictSubsetOrdering(Nat), FiniteSubsetsOf(Nat))
    BY FS_StrictSubsetOrderingWellFounded
  <2> HIDE DEF T
  <2> QED BY <1>1, <2>1, WFMin
<1>3. PICK m \in S : \A n \in S : <<below(n), below(m)>> \notin StrictSubsetOrdering(Nat)
  BY <1>2
<1>4. ASSUME NEW n \in S, n < m
      PROVE  FALSE
  <2>1. below(n) \subseteq below(m) /\ below(m) \subseteq Nat
    BY <1>4
  <2>2. m \in below(m) /\ m \notin below(n)
    BY <1>4
  <2> HIDE DEF below
  <2> QED BY <1>3, <2>1, <2>2 DEF StrictSubsetOrdering
<1> QED BY <1>4

\* Nobody is ready: in particular the lowest queue is empty.
LEMMA NobodyReady ==
  ASSUME FirstNonEmpty = {}
  PROVE  queues[Lowest] = <<>>
<1> SUFFICES ASSUME queues[Lowest] # <<>> PROVE FALSE
  OBVIOUS
<1> DEFINE S == {q \in Queues : queues[q] # <<>>}
<1>1. S \subseteq Nat /\ S # {}
  BY ConstantsType DEF Queues
<1>2. PICK q \in S : \A r \in S : q <= r
  <2> HIDE DEF S
  <2> QED BY <1>1, Least
<1> QED BY <1>2 DEF FirstNonEmpty

-------------------------------------------------------------------------------
(***************************************************************************)
(* The steps                                                               *)
(***************************************************************************)

\* Whoever has had to wait for a frame waits still.
LEMMA UndisturbedBefore ==
  ASSUME TypeOK, [Next]_vars, Undisturbed'
  PROVE  Undisturbed
<1> SUFFICES ASSUME UNCHANGED require_frame_queue => require_frame_queue = <<>>
             PROVE  UNCHANGED require_frame_queue
  BY DEF Undisturbed
<1>1. \A p \in Pids : Enqueue(require_frame_queue, p) # <<>>
  BY EnqueueFills DEF TypeOK
<1>2. ASSUME NEW p \in Pids, NEW page \in Pages, HandlePageFault(p, page)
      PROVE  UNCHANGED require_frame_queue
  BY <1>1, <1>2 DEF HandlePageFault, memVars, Undisturbed
<1>3. CASE DispatchFault
  BY <1>2, <1>3 DEF DispatchFault, TypeOK
<1>4. ASSUME NEW page \in Pages, AccessMemoryFault(page)
      PROVE  UNCHANGED require_frame_queue
  BY <1>2, <1>4 DEF AccessMemoryFault, TypeOK
<1>5. ASSUME NEW d \in Devices, JobDoneOutOfMemory(d)
      PROVE  FALSE
  BY <1>1, <1>5 DEF JobDoneOutOfMemory, Undisturbed
<1>6. CASE UNCHANGED vars
  BY <1>6 DEF vars, memVars
<1> QED
  BY <1>3, <1>4, <1>5, <1>6
  DEF Next, BeginTimeUnit, Stop, IncomingProcess, PromoteWaitingProcesses, PageLoadFinished,
      JobDone, JobDoneStartNext, DevicesHandled, SwapOutDone, SwapOutScan, NothingToSelect,
      Dispatch, AccessMemory, NoMemoryAccess, FinishProcess, Preempt, RequestIO, RunOneTimeUnit,
      IdleTimeUnit, UseFreedProcess, Goto, otherVars, memVars

\* p, which is in no ready queue, becomes ready in queue q.
LEMMA ReadyWaits ==
  ASSUME TypeOK, PlaceInv, Undisturbed, NEW p \in Pids, NEW q \in Queues,
         \A t \in Queues : p \notin Items(queues[t]),
         Waits(queues[Lowest], ready_since, time, LongestWait)
  PROVE  /\ Waits(queues[Lowest], [ready_since EXCEPT ![p] = time], time, LongestWait)
         /\ Waits([queues EXCEPT ![q] = Enqueue(@, p)][Lowest],
                  [ready_since EXCEPT ![p] = time], time, LongestWait)
<1> DEFINE ready == queues[Lowest]
<1>1. /\ ready \in Seq(Pids) /\ ready_since \in Since /\ time \in Nat /\ LongestWait \in Int
      /\ Lowest \in Queues /\ p \notin Items(ready) /\ queues \in [Queues -> Seq(Pids)]
      /\ Distinct(ready) /\ LongestWait >= MaxProcesses
      /\ Waits(ready, ready_since, time, LongestWait)
  <2>1. Lowest \in Queues /\ queues \in [Queues -> Seq(Pids)]
    BY ConstantsType DEF TypeOK
  <2> QED BY <2>1, WaitType, QueuesDistinct
<1>2. Waits(ready, [ready_since EXCEPT ![p] = time], time, LongestWait)
  <2> HIDE DEF ready
  <2> QED BY <1>1, WaitsOther
<1>3. Len(ready) < MaxProcesses /\ Enqueue(ready, p) = Append(ready, p)
  BY <1>1, Room, EnqueueAppends
<1>4. Waits(Append(ready, p), [ready_since EXCEPT ![p] = time], time, LongestWait)
  <2>1. Len(ready) + 1 <= LongestWait
    BY <1>1, <1>3, ConstantsType
  <2> QED BY <1>1, <2>1, WaitsAppend
<1>5. [queues EXCEPT ![q] = Enqueue(@, p)][Lowest] = IF q = Lowest THEN Append(ready, p) ELSE ready
  BY <1>1, <1>3
<1> QED BY <1>2, <1>4, <1>5

\* A process with the CPU or a device is in no ready queue.
LEMMA NotReady ==
  ASSUME TypeOK, PlaceInv, Undisturbed, NEW p \in Pids,
         p = current_process \/ \E d \in Devices : p = dev_process[d]
  PROVE  \A t \in Queues : p \notin Items(queues[t])
<1>1. PICK c \in Containers : p \in Items(Held[c]) /\ \A t \in Queues : c # Ready(t)
  <2>1. CASE p = current_process
    BY <2>1, HeldValues, ItemsSingle, PidsType, ContainerKinds, ContainersDiffer
  <2>2. ASSUME NEW d \in Devices, p = dev_process[d]
        PROVE  p \in Items(Held[Device(d)])
    BY <2>2, HeldValues, ItemsSingle, PidsType
  <2> QED BY <2>1, <2>2, ContainerKinds, ContainersDiffer
<1> QED BY <1>1, OnlyThere

\* The head of the lowest queue is promoted, or nobody is overdue there.
LEMMA PromoteWaits ==
  ASSUME SeveralQueues, TypeOK, PlaceInv, Undisturbed, WaitInv, PromoteWaitingProcesses
  PROVE  Waits(queues'[Lowest], ready_since, time, LongestWait)
<1> DEFINE ready == queues[Lowest]
           limit == MaxWaitTime(Lowest)
<1>1. /\ ready \in Seq(Pids) /\ ready_since \in Since /\ time \in Nat /\ LongestWait \in Int
      /\ limit \in Nat /\ LongestWait + 1 \in Int
  BY WaitType
<1>2. phase = "incoming" /\ PromotionDue = 1 /\ Elsewhere
  BY DEF PromoteWaitingProcesses, PromotionDue, Promoted, WaitInv
<1>3. Waits(ready, ready_since, time, LongestWait + 1)
  BY <1>2 DEF WaitInv
<1>4. Lowest \in Queues \ {0} /\ Lowest + 1 \notin Queues
  BY LowestPromoted
<1>5. queues'[Lowest] = IF Overdue(Lowest) THEN Tail(ready) ELSE ready
  BY <1>4 DEF PromoteWaitingProcesses, Overdue
<1>6. CASE Overdue(Lowest)
  <2>1. ready # <<>> /\ LongestWait + 1 - 1 = LongestWait
    BY <1>1, <1>6 DEF Overdue
  <2> QED BY <1>1, <1>3, <1>5, <1>6, <2>1, WaitsTail
<1>7. CASE ~Overdue(Lowest)
  <2>1. ready # <<>> => time - ready_since[ready[1]] <= limit
    <3> SUFFICES ASSUME ready # <<>> PROVE time - ready_since[ready[1]] <= limit
      OBVIOUS
    <3>1. Head(ready) = ready[1] /\ ready[1] \in Pids /\ ready_since[ready[1]] \in Int
      BY <1>1, ElementType
    <3>2. ~(ready_since[ready[1]] + limit < time)
      BY <1>4, <1>7, <3>1 DEF Overdue
    <3> QED BY <1>1, <3>1, <3>2
  <2>2. limit + Len(ready) <= LongestWait
    BY <1>1, <1>2, ElsewhereRoom, ConstantsType DEF LongestWait
  <2> HIDE DEF limit
  <2> QED BY <1>1, <1>3, <1>5, <1>7, <2>1, <2>2, WaitsShort
<1> QED BY <1>6, <1>7

\* Choosing a process takes the head out of one queue, at most.
LEMMA SelectWaits ==
  ASSUME TypeOK, NEW p \in Pids, SelectNextProcess(p),
         Waits(queues[Lowest], ready_since, time, LongestWait)
  PROVE  Waits(queues'[Lowest], ready_since, time, LongestWait)
<1> DEFINE ready == queues[Lowest]
<1>1. /\ ready \in Seq(Pids) /\ ready_since \in Since /\ time \in Nat /\ LongestWait \in Int
  BY WaitType
<1>2. CASE UNCHANGED queues
  BY <1>2
<1>3. CASE \E q \in FirstNonEmpty : queues' = [queues EXCEPT ![q] = Tail(@)]
  <2>1. PICK q \in Queues : queues[q] # <<>> /\ queues' = [queues EXCEPT ![q] = Tail(@)]
    BY <1>3 DEF FirstNonEmpty
  <2>2. CASE q # Lowest
    BY <2>1, <2>2, ConstantsType DEF TypeOK
  <2>3. CASE q = Lowest
    <3>1. queues'[Lowest] = Tail(ready) /\ ready # <<>>
      BY <2>1, <2>3, ConstantsType DEF TypeOK
    <3>2. /\ Tail(ready) \in Seq(Pids)
          /\ Waits(Tail(ready), ready_since, time, LongestWait - 1)
      BY <1>1, <3>1, WaitsTail, HeadTailType
    <3> QED BY <1>1, <3>1, <3>2, WaitsMore
  <2> QED BY <2>2, <2>3
<1> QED BY <1>2, <1>3 DEF SelectNextProcess

\* A process becomes ready again, from a device or from the CPU.
LEMMA ReturnWaits ==
  ASSUME TypeOK, PlaceInv, Undisturbed, WaitInv, NEW p \in Pids,
         p = current_process \/ \E d \in Devices : p = dev_process[d],
         phase \in {"devices", "cpu"}, ready_since' = [ready_since EXCEPT ![p] = time],
         \/ UNCHANGED queues
         \/ \E q \in Queues : queues' = [queues EXCEPT ![q] = Enqueue(@, p)]
  PROVE  Waits(queues'[Lowest], ready_since', time, LongestWait)
<1>1. Waits(queues[Lowest], ready_since, time, LongestWait)
  BY WaitType DEF WaitInv, PromotionDue, Promoted
<1>2. \A t \in Queues : p \notin Items(queues[t])
  BY NotReady
<1>3. CASE UNCHANGED queues
  BY <1>1, <1>2, <1>3, ReadyWaits, ConstantsType
<1>4. CASE \E q \in Queues : queues' = [queues EXCEPT ![q] = Enqueue(@, p)]
  BY <1>1, <1>2, <1>4, ReadyWaits
<1> QED BY <1>3, <1>4

\* Steps that move nobody out of, or into, the lowest queue, within a time unit.
LEMMA UnmovedWaits ==
  ASSUME TypeOK, Undisturbed, WaitInv, queues'[Lowest] = queues[Lowest],
         UNCHANGED <<ready_since, time>>, phase' \in Promoted => phase \in Promoted
  PROVE  Waits(queues'[Lowest], ready_since', time', LongestWait + PromotionDue')
<1> DEFINE ready == queues[Lowest]
<1>1. /\ ready \in Seq(Pids) /\ ready_since \in Since /\ time \in Nat
      /\ LongestWait \in Int /\ LongestWait + 1 \in Int
      /\ LongestWait + 1 - 1 = LongestWait /\ LongestWait + 0 = LongestWait
  BY WaitType
<1>2. Waits(ready, ready_since, time, LongestWait + PromotionDue)
  BY DEF WaitInv
<1>3. /\ PromotionDue \in {0, 1} /\ PromotionDue' \in {0, 1}
      /\ PromotionDue' = 0 => PromotionDue = 0
  BY DEF PromotionDue
<1>4. Waits(ready, ready_since, time, LongestWait + 0) =>
        Waits(ready, ready_since, time, LongestWait + 1)
  <2> HIDE DEF ready
  <2> QED BY <1>1, WaitsMore
<1> QED BY <1>2, <1>3, <1>4

LEMMA NextWaits ==
  ASSUME SeveralQueues, TypeOK, PlaceInv, Undisturbed, WaitInv, [Next]_vars
  PROVE  Waits(queues'[Lowest], ready_since', time', LongestWait + PromotionDue')
<1>0. LongestWait \in Nat /\ LongestWait + 0 = LongestWait /\ Lowest \in Queues \ {0}
      /\ queues \in [Queues -> Seq(Pids)] /\ time \in Nat
  BY WaitType, LowestPromoted DEF TypeOK
<1>1. CASE IncomingProcess
  <2>1. queues'[Lowest] = queues[Lowest]
    BY <1>0, <1>1 DEF IncomingProcess
  <2> QED BY <1>1, <2>1, UnmovedWaits DEF IncomingProcess, procVars
<1>2. CASE PromoteWaitingProcesses
  <2>1. UNCHANGED <<ready_since, time>> /\ PromotionDue' = 0
    BY <1>2 DEF PromoteWaitingProcesses, procVars, PromotionDue, Promoted
  <2> QED BY <1>0, <1>2, <2>1, PromoteWaits
<1>3. ASSUME NEW d \in Devices, PageLoadFinished(d)
      PROVE  Waits(queues'[Lowest], ready_since', time', LongestWait + PromotionDue')
  <2>1. /\ dev_process[d] \in Pids /\ phase = "devices" /\ UNCHANGED <<queues, time, phase>>
        /\ ready_since' = [ready_since EXCEPT ![dev_process[d]] = time]
    BY <1>3 DEF PageLoadFinished, NextFinished, Finished, TypeOK, schedVars
  <2>2. PromotionDue' = 0
    BY <2>1 DEF PromotionDue, Promoted
  <2> QED BY <1>0, <2>1, <2>2, ReturnWaits
<1>4. ASSUME NEW d \in Devices, NEW p \in Pids, CompleteOperation(d, p)
      PROVE  Waits(queues'[Lowest], ready_since', time', LongestWait + PromotionDue')
  <2>1. /\ p = dev_process[d] /\ phase = "devices" /\ UNCHANGED <<time, phase>>
        /\ ready_since' = [ready_since EXCEPT ![p] = time] /\ RetQueue[d] \in Queues
        /\ \/ UNCHANGED queues
           \/ queues' = [queues EXCEPT ![RetQueue[d]] = Enqueue(@, p)]
    BY <1>4, ConstantsType DEF CompleteOperation
  <2>2. PromotionDue' = 0
    BY <2>1 DEF PromotionDue, Promoted
  <2> QED BY <1>0, <2>1, <2>2, ReturnWaits
<1>5. CASE Preempt
  <2>1. PICK q : /\ q = Clamp(current_priority[current_process] + 1, 0, QueueCount - 1)
                 /\ queues' = [queues EXCEPT ![q] = Enqueue(@, current_process)]
    BY <1>5 DEF Preempt
  <2>2. /\ current_process \in Pids /\ phase = "cpu" /\ phase' = "devices" /\ UNCHANGED time
        /\ ready_since' = [ready_since EXCEPT ![current_process] = time]
    BY <1>5 DEF Preempt, TypeOK
  <2>3. q \in Queues
    BY <2>1, <2>2, ConstantsType, SMTT(30) DEF Clamp, Queues, TypeOK
  <2>4. PromotionDue' = 0
    BY <2>2 DEF PromotionDue, Promoted
  <2> QED BY <1>0, <2>1, <2>2, <2>3, <2>4, ReturnWaits
<1>6. CASE Dispatch \/ DispatchFault
  <2>1. PICK p \in Pids : SelectNextProcess(p)
    BY <1>6 DEF Dispatch, DispatchFault
  <2>2. UNCHANGED <<ready_since, time>> /\ PromotionDue = 0 /\ PromotionDue' = 0
    BY <1>6 DEF Dispatch, DispatchFault, PromotionDue, Promoted
  <2>3. Waits(queues[Lowest], ready_since, time, LongestWait)
    BY <1>0, <2>2 DEF WaitInv
  <2> QED BY <1>0, <2>1, <2>2, <2>3, SelectWaits
<1>7. CASE RunOneTimeUnit \/ IdleTimeUnit
  <2>1. /\ UNCHANGED <<queues, ready_since>> /\ time' = time + 1
        /\ PromotionDue = 0 /\ PromotionDue' = 1
    BY <1>7 DEF RunOneTimeUnit, IdleTimeUnit, procVars, schedVars, PromotionDue, Promoted
  <2>2. Waits(queues[Lowest], ready_since, time, LongestWait)
    BY <1>0, <2>1 DEF WaitInv
  <2>3. queues[Lowest] \in Seq(Pids) /\ ready_since \in Since /\ LongestWait \in Int
    BY WaitType
  <2> QED BY <1>0, <2>1, <2>2, <2>3, WaitsLonger
<1>8. ASSUME NEW page \in Pages, AccessMemory(page) \/ AccessMemoryFault(page)
      PROVE  Waits(queues'[Lowest], ready_since', time', LongestWait + PromotionDue')
  BY <1>8, UnmovedWaits DEF AccessMemory, AccessMemoryFault, schedVars, Promoted
<1>9. ASSUME NEW d \in Devices, RequestIO(d)
      PROVE  Waits(queues'[Lowest], ready_since', time', LongestWait + PromotionDue')
  BY <1>9, UnmovedWaits DEF RequestIO, Promoted
<1>10. CASE UNCHANGED vars
  BY <1>10, UnmovedWaits DEF vars, procVars, schedVars
<1>11. ASSUME NEW next, Goto(next), next \in Promoted => phase \in Promoted
       PROVE  Waits(queues'[Lowest], ready_since', time', LongestWait + PromotionDue')
  BY <1>11, UnmovedWaits DEF Goto, otherVars, procVars, schedVars
<1>12. CASE BeginTimeUnit \/ Stop \/ UseFreedProcess
  BY <1>11, <1>12 DEF BeginTimeUnit, Stop, UseFreedProcess, Promoted
<1>13. CASE DevicesHandled \/ SwapOutDone \/ NothingToSelect \/ NoMemoryAccess
  BY <1>11, <1>13 DEF DevicesHandled, SwapOutDone, NothingToSelect, NoMemoryAccess, Promoted
<1>14. CASE SwapOutScan
  BY <1>14 DEF SwapOutScan, Undisturbed
<1>15. CASE FinishProcess
  BY <1>15, UnmovedWaits DEF FinishProcess, procVars, Promoted
<1> QED BY <1>1, <1>2, <1>3, <1>4, <1>5, <1>6, <1>7, <1>8, <1>9, <1>10, <1>12, <1>13, <1>14, <1>15
        DEF Next, JobDone, JobDoneStartNext, JobDoneOutOfMemory

LEMMA NextElsewhere ==
  ASSUME SeveralQueues, TypeOK, TypeOK', PlaceInv, PlaceInv', Undisturbed, Undisturbed', WaitInv,
         [Next]_vars, phase' \in {"memory", "cpu", "begin", "incoming"}
  PROVE  Elsewhere'
<1>0. Lowest \in Queues \ {0} /\ queues \in [Queues -> Seq(Pids)]
  BY LowestPromoted DEF TypeOK
<1>1. ASSUME queues'[Lowest] = queues[Lowest], phase \in {"memory", "cpu", "begin", "incoming"}
      PROVE  Elsewhere'
  BY <1>1 DEF WaitInv, Elsewhere
<1>2. CASE current_process' # None
  BY <1>2, RunningElsewhereNext
<1>3. CASE NothingToSelect /\ current_process' = None
  <2>1. FirstNonEmpty = {} /\ UNCHANGED queues
    BY <1>3 DEF NothingToSelect, Goto, otherVars, schedVars
  <2> QED BY <2>1, NobodyReady, EmptyElsewhere DEF Elsewhere
<1>4. CASE Dispatch
  BY <1>2, <1>4, PidsType DEF Dispatch
<1>5. CASE IncomingProcess
  BY <1>0, <1>1, <1>5 DEF IncomingProcess
<1>6. CASE UNCHANGED vars
  BY <1>1, <1>6 DEF vars, schedVars
<1>7. ASSUME NEW page \in Pages, AccessMemory(page) \/ AccessMemoryFault(page)
      PROVE  Elsewhere'
  BY <1>1, <1>7 DEF AccessMemory, AccessMemoryFault, schedVars
<1>8. CASE BeginTimeUnit \/ NoMemoryAccess \/ RunOneTimeUnit \/ IdleTimeUnit
  BY <1>1, <1>8 DEF BeginTimeUnit, NoMemoryAccess, RunOneTimeUnit, IdleTimeUnit, Goto, otherVars,
                    schedVars
<1> QED
  BY <1>2, <1>3, <1>4, <1>5, <1>6, <1>7, <1>8
  DEF Next, Stop, PromoteWaitingProcesses, PageLoadFinished, JobDone, JobDoneStartNext,
      JobDoneOutOfMemory, CompleteOperation, DevicesHandled, SwapOutDone, SwapOutScan,
      DispatchFault, FinishProcess, Preempt, RequestIO, UseFreedProcess, Goto

\* With more than one ready queue, and while memory suffices, nobody starves in
\* the lowest: promotion bounds the wait at every position.
THEOREM WaitBounded ==
  ASSUME SeveralQueues
  PROVE  Spec => []BoundedWait
<1>1. Init => WaitInv
  <2> SUFFICES ASSUME Init PROVE WaitInv
    OBVIOUS
  <2>1. queues[Lowest] = <<>>
    BY ConstantsType DEF Init, SchedulerInit
  <2> QED BY <2>1, EmptyElsewhere DEF WaitInv, Waits
<1>2. TypeOK /\ TypeOK' /\ PlaceInv /\ PlaceInv' /\ WaitInv /\ [Next]_vars => WaitInv'
  <2> SUFFICES ASSUME TypeOK, TypeOK', PlaceInv, PlaceInv', WaitInv, [Next]_vars, Undisturbed'
               PROVE  /\ Waits(queues'[Lowest], ready_since', time', LongestWait + PromotionDue')
                      /\ phase' \in {"memory", "cpu", "begin", "incoming"} => Elsewhere'
    BY DEF WaitInv
  <2>1. Undisturbed
    BY UndisturbedBefore
  <2> QED BY <2>1, NextWaits, NextElsewhere
<1>3. TypeOK /\ WaitInv => BoundedWait
  <2> SUFFICES ASSUME TypeOK, WaitInv, Undisturbed, NEW i \in 1 .. Len(queues[Lowest])
               PROVE  time - ready_since[queues[Lowest][i]]
                        <= MaxWaitTime(Lowest) + MaxProcesses - 1 - i + PromotionDue
    BY DEF BoundedWait
  <2>1. time - ready_since[queues[Lowest][i]] <= (LongestWait + PromotionDue) - i
    <3>1. Waits(queues[Lowest], ready_since, time, LongestWait + PromotionDue)
      BY DEF WaitInv
    <3> QED BY <3>1 DEF Waits
  <2>2. /\ time - ready_since[queues[Lowest][i]] \in Int /\ PromotionDue \in Int /\ i \in Int
        /\ MaxWaitTime(Lowest) \in Int /\ MaxProcesses \in Int
    BY WaitType, ElementType, ConstantsType DEF PromotionDue
  <2> QED BY <2>1, <2>2 DEF LongestWait
<1>4. TypeOK /\ Init => PlaceInv
  BY InitPlace
<1>5. TypeOK /\ PlaceInv /\ [Next]_vars => PlaceInv'
  BY NextPlace
<1> QED BY <1>1, <1>2, <1>3, <1>4, <1>5, TypeCorrect, PTL DEF Spec

===============================================================================

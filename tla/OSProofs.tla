------------------------------- MODULE OSProofs -------------------------------
(***************************************************************************)
(* Theorems about OS, for every number of processes, queues, devices,      *)
(* frames and pages, and every plan.                                       *)
(***************************************************************************)
EXTENDS OS, SequenceTheorems, TLAPS

LEMMA EnqueueType ==
  ASSUME NEW q \in Seq(Pids), NEW p \in Pids
  PROVE  Enqueue(q, p) \in Seq(Pids)
BY AppendProperties DEF Enqueue

LEMMA HeadTailType ==
  ASSUME NEW q \in Seq(Pids), q # <<>>
  PROVE  Head(q) \in Pids /\ Tail(q) \in Seq(Pids)
BY HeadTailProperties

\* What the constants are.
LEMMA ConstantsType ==
  /\ MaxProcesses \in Nat \ {0} /\ QueueCount \in Nat \ {0} /\ DeviceCount \in Nat \ {0}
  /\ JobDuration \in [Devices -> Nat] /\ RetQueue \in [Devices -> Queues]
  /\ SwapDevice \in Devices /\ TimeSlice \in Nat /\ FrameCount \in Nat
  /\ ReservedFrames \subseteq Frames /\ 0 \in Pages /\ 0 \in Queues
  /\ Lowest \in Queues
BY ConstantsAssumption DEF ReservedFrames, Frames, Queues, Lowest

LEMMA PidsType == None \notin Pids /\ Pids \subseteq Nat /\ None \in Nat
BY ConstantsType DEF Pids, None

LEMMA InitTypeOK == Init => TypeOK
BY ConstantsType, EmptySeq
   DEF Init, ProcessInit, SchedulerInit, DeviceInit, FrameInit, TypeOK, Phases, Pids,
       NoPage, NoFrame, Absent, NoTime, None

\* The steps that only move on in the loop body.
LEMMA GotoType ==
  ASSUME TypeOK, phase' \in Phases, UNCHANGED otherVars
  PROVE  TypeOK'
BY DEF TypeOK, otherVars, procVars, schedVars, devVars, memVars

LEMMA IncomingProcessType == TypeOK /\ IncomingProcess => TypeOK'
<1> SUFFICES ASSUME TypeOK, IncomingProcess PROVE TypeOK'
  OBVIOUS
<1>1. next_pid \in Pids /\ next_pid' \in 1 .. MaxProcesses + 1
  BY ConstantsType DEF TypeOK, IncomingProcess, Pids
<1>2. queues' \in [Queues -> Seq(Pids)]
  BY <1>1, EnqueueType DEF TypeOK, IncomingProcess
<1> QED
  BY <1>1, <1>2 DEF TypeOK, IncomingProcess, procVars, devVars, memVars

LEMMA PromoteType == TypeOK /\ PromoteWaitingProcesses => TypeOK'
<1> SUFFICES ASSUME TypeOK, PromoteWaitingProcesses PROVE TypeOK'
  OBVIOUS
<1>1. ASSUME NEW q \in Queues
      PROVE  queues'[q] \in Seq(Pids)
  <2> DEFINE kept == IF Overdue(q) THEN Tail(queues[q]) ELSE queues[q]
  <2>1. \A r : Overdue(r) => /\ r \in Queues /\ Head(queues[r]) \in Pids
                             /\ Tail(queues[r]) \in Seq(Pids)
    BY HeadTailType DEF Overdue, TypeOK
  <2>2. kept \in Seq(Pids)
    BY <2>1 DEF TypeOK
  <2>3. queues'[q] = IF Overdue(q + 1) THEN Enqueue(kept, Head(queues[q + 1])) ELSE kept
    BY DEF PromoteWaitingProcesses
  <2> HIDE DEF kept
  <2> QED BY <2>1, <2>2, <2>3, EnqueueType
<1>2. queues' \in [Queues -> Seq(Pids)]
  BY <1>1 DEF PromoteWaitingProcesses
<1> QED
  BY <1>2 DEF TypeOK, PromoteWaitingProcesses, procVars, devVars, memVars, Phases

LEMMA PageLoadFinishedType ==
  ASSUME TypeOK, NEW d \in Devices, PageLoadFinished(d)
  PROVE  TypeOK'
<1>1. dev_process[d] \in Pids
  BY DEF PageLoadFinished, NextFinished, Finished, TypeOK
<1> QED
  BY <1>1 DEF TypeOK, PageLoadFinished, schedVars, devVars, memVars

\* What the start of a job leaves in the device and the frame table.
LEMMA StartJobType ==
  ASSUME TypeOK, NEW d \in Devices, NEW p \in Pids, StartJob(d, p)
  PROVE  /\ dev_process' \in [Devices -> Pids \cup {None}]
         /\ job_end' \in [Devices -> Nat \cup {NoTime}]
<1>1. time + JobDuration[d] \in Nat
  BY ConstantsType, SMTT(30) DEF TypeOK
<1>2. dev_process' \in [Devices -> Pids \cup {None}]
  BY DEF TypeOK, StartJob
<1>3. job_end' \in [Devices -> Nat \cup {NoTime}]
  BY <1>1 DEF TypeOK, StartJob
<1> QED BY <1>2, <1>3

ExecTyped ==
  /\ dev_process' \in [Devices -> Pids \cup {None}]
  /\ job_end' \in [Devices -> Nat \cup {NoTime}]
  /\ op_frame' \in [Pids -> Frames \cup {NoFrame}]
  /\ used' \subseteq Frames /\ locked' \subseteq Frames /\ free_frame_count' \in Int

LEMMA ExecType ==
  ASSUME TypeOK, NEW d \in Devices, NEW p \in Pids,
         NEW opf \in [Pids -> Frames \cup {NoFrame}], NEW lck \in SUBSET Frames,
         ExecPageLoad(d, p, opf, lck) \/ ExecPlain(d, p, opf, lck)
  PROVE  ExecTyped
<1>1. CASE ExecPageLoad(d, p, opf, lck)
  BY <1>1, StartJobType
     DEF ExecTyped, ExecPageLoad, FirstFreeFrame, FreeFrames, TypeOK
<1>2. CASE ExecPlain(d, p, opf, lck)
  BY <1>2, StartJobType DEF ExecTyped, ExecPlain, TypeOK
<1> QED BY <1>1, <1>2

LEMMA CompleteOperationType ==
  ASSUME TypeOK, NEW d \in Devices, NEW p \in Pids, CompleteOperation(d, p)
  PROVE  /\ pending_op' \in [Pids -> {"NONE", "PAGE_LOAD", "PAGE_LOADED"}]
         /\ page_table' \in [Pids -> [Pages -> Frames \cup {NoFrame, Absent}]]
         /\ ready_since' \in [Pids -> Nat \cup {-1}]
         /\ page_ready_queue' \in Seq(Pids) /\ queues' \in [Queues -> Seq(Pids)]
         /\ FrameReleased(p) \in [Pids -> Frames \cup {NoFrame}]
         /\ LockReleased(p) \in SUBSET Frames
<1>1. pending_op' \in [Pids -> {"NONE", "PAGE_LOAD", "PAGE_LOADED"}]
  BY DEF TypeOK, CompleteOperation
<1>2. page_table' \in [Pids -> [Pages -> Frames \cup {NoFrame, Absent}]]
  BY DEF TypeOK, CompleteOperation
<1>3. ready_since' \in [Pids -> Nat \cup {-1}]
  BY DEF TypeOK, CompleteOperation
<1>4. page_ready_queue' \in Seq(Pids) /\ queues' \in [Queues -> Seq(Pids)]
  <2>1. RetQueue[d] \in Queues
    BY ConstantsType
  <2>2. /\ page_ready_queue \in Seq(Pids) /\ queues \in [Queues -> Seq(Pids)]
        /\ Enqueue(page_ready_queue, p) \in Seq(Pids)
        /\ Enqueue(queues[RetQueue[d]], p) \in Seq(Pids)
    BY <2>1, EnqueueType DEF TypeOK
  <2> QED BY <2>1, <2>2 DEF CompleteOperation
<1>5. FrameReleased(p) \in [Pids -> Frames \cup {NoFrame}] /\ LockReleased(p) \in SUBSET Frames
  BY DEF TypeOK, FrameReleased, LockReleased
<1> QED BY <1>1, <1>2, <1>3, <1>4, <1>5

LEMMA JobDoneType ==
  ASSUME TypeOK, NEW d \in Devices, JobDone(d)
  PROVE  TypeOK'
<1> PICK p \in Pids :
      /\ CompleteOperation(d, p)
      /\ dev_process' = IF Returned(d, p) THEN [dev_process EXCEPT ![d] = None]
                                          ELSE dev_process
      /\ op_frame' = FrameReleased(p)
      /\ locked' = LockReleased(p)
      /\ UNCHANGED <<blocked_queue, job_end, used, free_frame_count, require_frame_queue>>
  BY DEF JobDone
<1>1. dev_process' \in [Devices -> Pids \cup {None}]
  BY DEF TypeOK
<1> QED BY <1>1, CompleteOperationType DEF TypeOK, CompleteOperation

LEMMA JobDoneStartNextType ==
  ASSUME TypeOK, NEW d \in Devices, JobDoneStartNext(d)
  PROVE  TypeOK'
<1> DEFINE next == Head(blocked_queue[d])
<1> PICK p \in Pids :
      /\ CompleteOperation(d, p)
      /\ blocked_queue[d] # <<>>
      /\ blocked_queue' = [blocked_queue EXCEPT ![d] = Tail(@)]
      /\ \/ ExecPageLoad(d, next, FrameReleased(p), LockReleased(p))
         \/ ExecPlain(d, next, FrameReleased(p), LockReleased(p))
      /\ UNCHANGED require_frame_queue
  BY DEF JobDoneStartNext
<1>1. next \in Pids /\ blocked_queue' \in [Devices -> Seq(Pids)]
  BY HeadTailType DEF TypeOK
<1>2. /\ FrameReleased(p) \in [Pids -> Frames \cup {NoFrame}]
      /\ LockReleased(p) \in SUBSET Frames
  BY CompleteOperationType
<1>3. ExecTyped
  <2> HIDE DEF next
  <2> QED BY <1>1, <1>2, ExecType
<1> QED BY <1>1, <1>3, CompleteOperationType DEF TypeOK, CompleteOperation, ExecTyped

LEMMA JobDoneOutOfMemoryType ==
  ASSUME TypeOK, NEW d \in Devices, JobDoneOutOfMemory(d)
  PROVE  TypeOK'
<1> PICK p \in Pids :
      /\ CompleteOperation(d, p)
      /\ blocked_queue[d] # <<>>
      /\ blocked_queue' = [blocked_queue EXCEPT ![d] = Tail(@)]
      /\ require_frame_queue' = Enqueue(require_frame_queue, p)
      /\ op_frame' = FrameReleased(p)
      /\ locked' = LockReleased(p)
      /\ UNCHANGED <<dev_process, job_end, used, free_frame_count>>
  BY DEF JobDoneOutOfMemory
<1>1. /\ blocked_queue' \in [Devices -> Seq(Pids)]
      /\ require_frame_queue' \in Seq(Pids)
  BY HeadTailType, EnqueueType DEF TypeOK
<1> QED BY <1>1, CompleteOperationType DEF TypeOK, CompleteOperation

FaultTyped ==
  /\ proc_state' \in [Pids -> {"START", "BLOCKED_SWAPPING", "RUNNING"}]
  /\ pending_op' \in [Pids -> {"NONE", "PAGE_LOAD", "PAGE_LOADED"}]
  /\ op_page' \in [Pids -> Pages \cup {NoPage}]
  /\ blocked_queue' \in [Devices -> Seq(Pids)]
  /\ require_frame_queue' \in Seq(Pids)
  /\ ExecTyped

LEMMA HandlePageFaultType ==
  ASSUME TypeOK, NEW p \in Pids, NEW page \in Pages, HandlePageFault(p, page)
  PROVE  FaultTyped
<1>1. CASE MaxWorkingSet = 0
  BY <1>1 DEF HandlePageFault, FaultTyped, ExecTyped, TypeOK, devVars, memVars
<1>2. CASE MaxWorkingSet # 0
  <2> DEFINE opf == [op_frame EXCEPT ![p] = NoFrame]
  <2>1. /\ proc_state' = [proc_state EXCEPT ![p] = "BLOCKED_SWAPPING"]
        /\ pending_op' = [pending_op EXCEPT ![p] = "PAGE_LOAD"]
        /\ op_page' = [op_page EXCEPT ![p] = page]
        /\ \/ /\ blocked_queue' = [blocked_queue EXCEPT ![SwapDevice] = Enqueue(@, p)]
              /\ op_frame' = opf
              /\ UNCHANGED <<dev_process, job_end, memVars>>
           \/ /\ ExecPageLoad(SwapDevice, p, opf, locked)
              /\ UNCHANGED <<blocked_queue, require_frame_queue>>
           \/ /\ require_frame_queue' = Enqueue(require_frame_queue, p)
              /\ op_frame' = opf
              /\ UNCHANGED <<devVars, used, locked, free_frame_count>>
    BY <1>2 DEF HandlePageFault
  <2>2. /\ proc_state' \in [Pids -> {"START", "BLOCKED_SWAPPING", "RUNNING"}]
        /\ pending_op' \in [Pids -> {"NONE", "PAGE_LOAD", "PAGE_LOADED"}]
        /\ op_page' \in [Pids -> Pages \cup {NoPage}]
    BY <2>1 DEF TypeOK
  <2>3. /\ opf \in [Pids -> Frames \cup {NoFrame}] /\ SwapDevice \in Devices
        /\ locked \in SUBSET Frames
    BY ConstantsType DEF TypeOK
  <2> HIDE DEF opf
  <2>4. ASSUME blocked_queue' = [blocked_queue EXCEPT ![SwapDevice] = Enqueue(@, p)],
               op_frame' = opf, UNCHANGED <<dev_process, job_end, memVars>>
        PROVE  FaultTyped
    <3>1. blocked_queue' \in [Devices -> Seq(Pids)]
      BY <2>3, <2>4, EnqueueType DEF TypeOK
    <3> QED BY <2>2, <2>3, <2>4, <3>1 DEF FaultTyped, ExecTyped, TypeOK, memVars
  <2>5. ASSUME ExecPageLoad(SwapDevice, p, opf, locked),
               UNCHANGED <<blocked_queue, require_frame_queue>>
        PROVE  FaultTyped
    <3>1. ExecTyped
      BY <2>3, <2>5, ExecType
    <3> QED BY <2>2, <2>5, <3>1 DEF FaultTyped, TypeOK
  <2>6. ASSUME require_frame_queue' = Enqueue(require_frame_queue, p),
               op_frame' = opf, UNCHANGED <<devVars, used, locked, free_frame_count>>
        PROVE  FaultTyped
    <3>1. require_frame_queue' \in Seq(Pids)
      BY <2>6, EnqueueType DEF TypeOK
    <3> QED BY <2>2, <2>3, <2>6, <3>1 DEF FaultTyped, ExecTyped, TypeOK, devVars
  <2> QED BY <2>1, <2>4, <2>5, <2>6
<1> QED BY <1>1, <1>2

LEMMA SelectNextType ==
  ASSUME TypeOK, NEW p \in Pids, SelectNextProcess(p)
  PROVE  page_ready_queue' \in Seq(Pids) /\ queues' \in [Queues -> Seq(Pids)]
<1>1. CASE page_ready_queue # <<>>
  BY <1>1, HeadTailType DEF SelectNextProcess, TypeOK
<1>2. CASE page_ready_queue = <<>>
  <2>1. PICK q \in Queues : /\ queues[q] # <<>>
                            /\ queues' = [queues EXCEPT ![q] = Tail(@)]
    BY <1>2 DEF SelectNextProcess, FirstNonEmpty
  <2>2. Tail(queues[q]) \in Seq(Pids)
    BY <2>1, HeadTailType DEF TypeOK
  <2> QED BY <1>2, <2>1, <2>2 DEF SelectNextProcess, TypeOK
<1> QED BY <1>1, <1>2

LEMMA DispatchType == TypeOK /\ Dispatch => TypeOK'
<1> SUFFICES ASSUME TypeOK, Dispatch PROVE TypeOK'
  OBVIOUS
<1> PICK p \in Pids :
      /\ SelectNextProcess(p)
      /\ proc_state' = [proc_state EXCEPT ![p] = "RUNNING"]
      /\ current_process' = p
  BY DEF Dispatch
<1>1. time_slice_end' \in Nat
  BY ConstantsType DEF Dispatch, SliceEnd, TypeOK
<1>2. page_ready_queue' \in Seq(Pids) /\ queues' \in [Queues -> Seq(Pids)]
  BY SelectNextType
<1>3. proc_state' \in [Pids -> {"START", "BLOCKED_SWAPPING", "RUNNING"}]
  BY DEF TypeOK
<1> QED BY <1>1, <1>2, <1>3 DEF TypeOK, Dispatch, SliceEnd, devVars, memVars, Phases

LEMMA DispatchFaultType == TypeOK /\ DispatchFault => TypeOK'
<1> SUFFICES ASSUME TypeOK, DispatchFault PROVE TypeOK'
  OBVIOUS
<1> PICK p \in Pids : SelectNextProcess(p) /\ HandlePageFault(p, pc[p])
  BY DEF DispatchFault
<1>1. FaultTyped
  BY HandlePageFaultType DEF TypeOK
<1>2. page_ready_queue' \in Seq(Pids) /\ queues' \in [Queues -> Seq(Pids)]
  BY SelectNextType
<1> QED BY <1>1, <1>2 DEF TypeOK, DispatchFault, FaultTyped, ExecTyped, Phases

LEMMA AccessMemoryType ==
  ASSUME TypeOK, NEW page \in Pages, AccessMemory(page)
  PROVE  TypeOK'
BY DEF TypeOK, AccessMemory, schedVars, devVars, memVars

LEMMA AccessMemoryFaultType ==
  ASSUME TypeOK, NEW page \in Pages, AccessMemoryFault(page)
  PROVE  TypeOK'
<1>1. current_process \in Pids /\ pc' \in [Pids -> Pages]
  BY DEF TypeOK, AccessMemoryFault
<1>2. FaultTyped
  BY <1>1, HandlePageFaultType DEF AccessMemoryFault
<1> QED BY <1>1, <1>2 DEF TypeOK, AccessMemoryFault, FaultTyped, ExecTyped, Phases

LEMMA FinishProcessType == TypeOK /\ FinishProcess => TypeOK'
BY DEF TypeOK, FinishProcess, procVars, devVars, memVars, Phases

LEMMA PreemptType == TypeOK /\ Preempt => TypeOK'
<1> SUFFICES ASSUME TypeOK, Preempt PROVE TypeOK'
  OBVIOUS
<1> DEFINE priority == Clamp(current_priority[current_process] + 1, 0, QueueCount - 1)
<1>1. current_process \in Pids
  BY DEF TypeOK, Preempt
<1>2. priority \in Queues
  BY <1>1, ConstantsType DEF TypeOK, Queues, Clamp
<1>3. /\ current_priority' = [current_priority EXCEPT ![current_process] = priority]
      /\ queues' = [queues EXCEPT ![priority] = Enqueue(@, current_process)]
      /\ ready_since' = [ready_since EXCEPT ![current_process] = time]
  BY DEF Preempt
<1> HIDE DEF priority
<1>4. /\ current_priority' \in [Pids -> Queues] /\ queues' \in [Queues -> Seq(Pids)]
      /\ ready_since' \in [Pids -> Nat \cup {-1}]
  BY <1>1, <1>2, <1>3, EnqueueType DEF TypeOK
<1> QED BY <1>4 DEF TypeOK, Preempt, devVars, memVars, Phases

LEMMA RequestIOType ==
  ASSUME TypeOK, NEW d \in Devices, RequestIO(d)
  PROVE  TypeOK'
<1>1. /\ current_process \in Pids
      /\ pending_op' \in [Pids -> {"NONE", "PAGE_LOAD", "PAGE_LOADED"}]
  BY DEF TypeOK, RequestIO
<1>2. CASE /\ ExecPlain(d, current_process, op_frame, locked)
           /\ UNCHANGED blocked_queue
  <2>1. ExecTyped
    BY <1>1, <1>2, ExecType DEF TypeOK
  <2> QED BY <1>1, <1>2, <2>1 DEF TypeOK, RequestIO, ExecTyped, Phases
<1>3. CASE /\ blocked_queue' = [blocked_queue EXCEPT ![d] = Enqueue(@, current_process)]
           /\ UNCHANGED <<dev_process, job_end, op_frame, used, locked, free_frame_count>>
  <2>1. blocked_queue' \in [Devices -> Seq(Pids)]
    BY <1>1, <1>3, EnqueueType DEF TypeOK
  <2> QED BY <1>1, <1>3, <2>1 DEF TypeOK, RequestIO, Phases
<1> QED BY <1>2, <1>3 DEF RequestIO

LEMMA TimeUnitType == TypeOK /\ (RunOneTimeUnit \/ IdleTimeUnit) => TypeOK'
BY DEF TypeOK, RunOneTimeUnit, IdleTimeUnit, procVars, schedVars, devVars, memVars, Phases

LEMMA NextTypeOK == TypeOK /\ [Next]_vars => TypeOK'
<1> SUFFICES ASSUME TypeOK, [Next]_vars PROVE TypeOK'
  OBVIOUS
<1>1. CASE UNCHANGED vars
  BY <1>1, GotoType DEF TypeOK, vars, otherVars
<1>2. CASE \/ BeginTimeUnit \/ Stop \/ DevicesHandled \/ SwapOutDone \/ SwapOutScan
           \/ NothingToSelect \/ NoMemoryAccess \/ UseFreedProcess
  <2>1. phase' \in Phases /\ UNCHANGED otherVars
    BY <1>2 DEF BeginTimeUnit, Stop, DevicesHandled, SwapOutDone, SwapOutScan,
                NothingToSelect, NoMemoryAccess, UseFreedProcess, Goto, Phases
  <2> QED BY <2>1, GotoType
<1> QED
  BY <1>1, <1>2, IncomingProcessType, PromoteType, PageLoadFinishedType, JobDoneType,
     JobDoneStartNextType, JobDoneOutOfMemoryType, DispatchType, DispatchFaultType,
     AccessMemoryType, AccessMemoryFaultType, FinishProcessType, PreemptType,
     RequestIOType, TimeUnitType
  DEF Next

\* Type correctness, and with it the facts the model is built on: no operation
\* but a page load is ever pending and no process is ever READY or BLOCKED, so
\* the code of main.c that handles swapped-out processes is never reached.
THEOREM TypeCorrect == Spec => []TypeOK
BY InitTypeOK, NextTypeOK, PTL DEF Spec

-------------------------------------------------------------------------------
(***************************************************************************)
(* The time slice                                                          *)
(***************************************************************************)

LEMMA InitSlice == Init => SliceNotOverrun
BY DEF Init, ProcessInit, SchedulerInit, DeviceInit, FrameInit, SliceNotOverrun

LEMMA NextSlice == TypeOK /\ SliceNotOverrun /\ [Next]_vars => SliceNotOverrun'
<1> SUFFICES ASSUME TypeOK, SliceNotOverrun, [Next]_vars PROVE SliceNotOverrun'
  OBVIOUS
<1>1. \/ current_process' = None
      \/ UNCHANGED <<current_process, time_slice_end, time>>
      \/ Dispatch
      \/ RunOneTimeUnit
  <2>1. CASE Next
    BY <2>1, ZenonT(60) DEF Next, BeginTimeUnit, Stop, IncomingProcess, PromoteWaitingProcesses,
      PageLoadFinished, JobDone, JobDoneStartNext, JobDoneOutOfMemory, CompleteOperation,
      DevicesHandled, SwapOutDone, SwapOutScan, NothingToSelect, DispatchFault,
      AccessMemory, AccessMemoryFault, NoMemoryAccess, FinishProcess, Preempt, RequestIO,
      IdleTimeUnit, UseFreedProcess, Goto, otherVars, schedVars
  <2>2. CASE UNCHANGED vars
    BY <2>2 DEF vars, schedVars
  <2> QED BY <2>1, <2>2
<1>2. CASE current_process' = None
  BY <1>2 DEF SliceNotOverrun
<1>3. CASE UNCHANGED <<current_process, time_slice_end, time>>
  BY <1>3 DEF SliceNotOverrun
<1>4. CASE Dispatch
  BY <1>4, ConstantsType DEF Dispatch, SliceEnd, SliceNotOverrun, TypeOK
<1>5. CASE RunOneTimeUnit
  <2>1. current_process # None /\ time_slice_end # time /\ time' = time + 1
        /\ UNCHANGED <<current_process, time_slice_end>>
    BY <1>5 DEF RunOneTimeUnit, schedVars
  <2>2. /\ time \in Nat /\ TimeSlice \in Nat /\ time_slice_end \in Int
        /\ time <= time_slice_end /\ time_slice_end <= time + TimeSlice
    BY <2>1, ConstantsType DEF SliceNotOverrun, TypeOK, NoTime
  <2> QED BY <2>1, <2>2 DEF SliceNotOverrun
<1> QED BY <1>1, <1>2, <1>3, <1>4, <1>5

\* Preemption compares time_slice_end with time for equality, once per time
\* unit: the equality is met before any process runs past its slice.
THEOREM SliceKept == Spec => []SliceNotOverrun
<1>1. TypeOK /\ SliceNotOverrun /\ [Next]_vars => SliceNotOverrun'
  BY NextSlice
<1> QED BY <1>1, InitSlice, TypeCorrect, PTL DEF Spec

-------------------------------------------------------------------------------
(***************************************************************************)
(* The running process and its page                                        *)
(***************************************************************************)

\* Inductive: from its dispatch on, not only while the time unit runs, the
\* process with the CPU has its page present.
OnResidentPage ==
  current_process # None => Resident(current_process, pc[current_process])

\* A page once present stays present: the program never takes one away.
LEMMA ResidentStays ==
  ASSUME TypeOK, Next
  PROVE  \A p \in Pids : \A g \in Pages : Resident(p, g) => Resident(p, g)'
<1>1. CASE UNCHANGED page_table
  BY <1>1 DEF Resident
<1>2. ASSUME NEW d \in Devices, NEW p \in Pids, CompleteOperation(d, p)
      PROVE  \A r \in Pids : \A g \in Pages : Resident(r, g) => Resident(r, g)'
  <2>1. op_frame[p] # Absent
    <3>1. op_frame[p] \in Frames \cup {NoFrame}
      BY DEF TypeOK
    <3> QED BY <3>1, ConstantsType DEF NoFrame, Absent, Frames
  <2>2. \/ UNCHANGED page_table
        \/ page_table' = [page_table EXCEPT ![p][op_page[p]] = op_frame[p]]
    BY <1>2 DEF CompleteOperation
  <2>3. ASSUME NEW r \in Pids, NEW g \in Pages, page_table[r][g] # Absent
        PROVE  page_table'[r][g] # Absent
    <3>1. page_table \in [Pids -> [Pages -> Frames \cup {NoFrame, Absent}]]
      BY DEF TypeOK
    <3>2. CASE r = p /\ g = op_page[p]
      BY <2>1, <2>2, <2>3, <3>1, <3>2
    <3>3. CASE ~(r = p /\ g = op_page[p])
      BY <2>2, <2>3, <3>1, <3>3
    <3> QED BY <3>2, <3>3
  <2> QED BY <2>3 DEF Resident
<1> QED
  BY <1>1, <1>2 DEF Next, BeginTimeUnit, Stop, IncomingProcess, PromoteWaitingProcesses,
    PageLoadFinished, JobDone, JobDoneStartNext, JobDoneOutOfMemory,
    DevicesHandled, SwapOutDone, SwapOutScan, NothingToSelect, Dispatch, DispatchFault,
    AccessMemory, AccessMemoryFault, NoMemoryAccess, FinishProcess, Preempt, RequestIO,
    RunOneTimeUnit, IdleTimeUnit, UseFreedProcess, Goto, otherVars, procVars

LEMMA NextOnResidentPage == TypeOK /\ OnResidentPage /\ [Next]_vars => OnResidentPage'
<1> SUFFICES ASSUME TypeOK, OnResidentPage, [Next]_vars PROVE OnResidentPage'
  OBVIOUS
<1>1. CASE UNCHANGED vars
  BY <1>1 DEF vars, procVars, schedVars, OnResidentPage, Resident
<1>2. CASE Next
  <2>1. \/ current_process' = None
        \/ UNCHANGED <<current_process, pc>>
        \/ Dispatch
        \/ \E page \in Pages : AccessMemory(page)
    BY <1>2, ZenonT(60) DEF Next, BeginTimeUnit, Stop, IncomingProcess, PromoteWaitingProcesses,
      PageLoadFinished, JobDone, JobDoneStartNext, JobDoneOutOfMemory, CompleteOperation,
      DevicesHandled, SwapOutDone, SwapOutScan, NothingToSelect, DispatchFault,
      AccessMemoryFault, NoMemoryAccess, FinishProcess, Preempt, RequestIO,
      RunOneTimeUnit, IdleTimeUnit, UseFreedProcess, Goto, otherVars, procVars, schedVars
  <2>2. CASE current_process' = None
    BY <2>2 DEF OnResidentPage
  <2>3. CASE UNCHANGED <<current_process, pc>>
    <3>1. current_process # None => current_process \in Pids /\ pc[current_process] \in Pages
      BY DEF TypeOK
    <3> QED BY <1>2, <2>3, <3>1, ResidentStays DEF OnResidentPage, Resident
  <2>4. CASE Dispatch
    BY <2>4 DEF Dispatch, OnResidentPage, Resident
  <2>5. ASSUME NEW page \in Pages, AccessMemory(page)
        PROVE  OnResidentPage'
    BY <2>5 DEF AccessMemory, OnResidentPage, Resident, schedVars, TypeOK
  <2> QED BY <2>1, <2>2, <2>3, <2>4, <2>5
<1> QED BY <1>1, <1>2

\* The page the program counter points to is present while the process runs,
\* also when memory has run out.
THEOREM RunsOnResident == Spec => []RunsOnResidentPage
<1>1. Init => OnResidentPage
  BY DEF Init, ProcessInit, SchedulerInit, DeviceInit, FrameInit, OnResidentPage
<1>2. TypeOK /\ OnResidentPage /\ [Next]_vars => OnResidentPage'
  BY NextOnResidentPage
<1>3. OnResidentPage => RunsOnResidentPage
  BY DEF OnResidentPage, RunsOnResidentPage
<1> QED BY <1>1, <1>2, <1>3, TypeCorrect, PTL DEF Spec

-------------------------------------------------------------------------------
(***************************************************************************)
(* The devices, when reading a page takes time                             *)
(***************************************************************************)

\* The finished jobs have been dealt with: from here on no job may end in this
\* time unit, because the next look at the devices comes with the next unit.
AfterDevices == phase \in {"swapout", "select", "memory", "cpu"}

\* Inductive: DeviceService, and strictly later ends after the device loop.
Served ==
  \A d \in Devices :
    /\ blocked_queue[d] # <<>> => dev_process[d] # None
    /\ dev_process[d] # None => job_end[d] >= time
    /\ dev_process[d] # None /\ AfterDevices => job_end[d] > time

TimedSwapDevice == JobDuration[SwapDevice] > 0

\* A page fault leaves the devices in order, and starts no job that ends at once.
LEMMA FaultServed ==
  ASSUME TimedSwapDevice, TypeOK, Served, UNCHANGED time,
         NEW p \in Pids, NEW page \in Pages, HandlePageFault(p, page), NEW d \in Devices
  PROVE  /\ blocked_queue'[d] # <<>> => dev_process'[d] # None
         /\ dev_process'[d] # None =>
              \/ job_end'[d] > time
              \/ dev_process[d] # None /\ job_end'[d] = job_end[d]
<1>1. CASE UNCHANGED devVars
  BY <1>1 DEF devVars, Served
<1>2. CASE /\ ~DeviceIdle(SwapDevice)
           /\ blocked_queue' = [blocked_queue EXCEPT ![SwapDevice] = Enqueue(@, p)]
           /\ UNCHANGED <<dev_process, job_end>>
  BY <1>2 DEF DeviceIdle, Served, TypeOK
<1>3. CASE /\ DeviceIdle(SwapDevice) /\ StartJob(SwapDevice, p)
           /\ UNCHANGED blocked_queue
  <2>1. time + JobDuration[SwapDevice] > time /\ p # None
    BY ConstantsType, PidsType, SMTT(30) DEF TimedSwapDevice, TypeOK
  <2> QED BY <1>3, <2>1 DEF StartJob, Served, TypeOK
<1> QED
  BY <1>1, <1>2, <1>3 DEF HandlePageFault, ExecPageLoad, memVars

LEMMA NextServed ==
  ASSUME TimedSwapDevice
  PROVE  TypeOK /\ Served /\ [Next]_vars => Served'
<1> SUFFICES ASSUME TypeOK, Served, [Next]_vars PROVE Served'
  OBVIOUS
<1>1. CASE UNCHANGED <<devVars, time>> /\ (AfterDevices' => AfterDevices)
  BY <1>1 DEF Served, devVars
<1>2. CASE DevicesHandled
  <2>1. /\ UNCHANGED <<blocked_queue, dev_process, job_end, time>>
        /\ \A d \in Devices : dev_process[d] # None => job_end[d] # time
    BY <1>2 DEF DevicesHandled, Goto, Finished, otherVars, devVars
  <2>2. \A d \in Devices : job_end[d] \in Int /\ time \in Int
    BY DEF TypeOK, NoTime
  <2>3. \A d \in Devices : dev_process[d] # None => job_end[d] > time
    BY <2>1, <2>2 DEF Served
  <2> QED BY <2>1, <2>3 DEF Served
<1>3. ASSUME NEW d \in Devices, JobDone(d)
      PROVE  Served'
  <2>1. /\ UNCHANGED <<blocked_queue, job_end, time>> /\ ~AfterDevices'
        /\ \/ UNCHANGED dev_process
           \/ blocked_queue[d] = <<>> /\ dev_process' = [dev_process EXCEPT ![d] = None]
    BY <1>3 DEF JobDone, CompleteOperation, AfterDevices
  <2> QED BY <2>1 DEF Served, TypeOK
<1>4. ASSUME NEW d \in Devices, JobDoneStartNext(d)
      PROVE  Served'
  <2> DEFINE next == Head(blocked_queue[d])
  <2>1. /\ UNCHANGED time /\ ~AfterDevices' /\ StartJob(d, next)
        /\ blocked_queue[d] # <<>>
        /\ blocked_queue' = [blocked_queue EXCEPT ![d] = Tail(@)]
    BY <1>4 DEF JobDoneStartNext, ExecPageLoad, ExecPlain, CompleteOperation, AfterDevices
  <2>2. next # None
    BY <2>1, HeadTailType, PidsType DEF TypeOK
  <2>3. time + JobDuration[d] >= time
    BY ConstantsType DEF TypeOK
  <2> HIDE DEF next
  <2> QED BY <2>1, <2>2, <2>3 DEF Served, StartJob, TypeOK
<1>5. ASSUME NEW d \in Devices, JobDoneOutOfMemory(d)
      PROVE  Served'
  <2>1. /\ UNCHANGED <<dev_process, job_end, time>> /\ ~AfterDevices'
        /\ dev_process[d] # None
        /\ blocked_queue' = [blocked_queue EXCEPT ![d] = Tail(@)]
    BY <1>5 DEF JobDoneOutOfMemory, CompleteOperation, AfterDevices, NextFinished, Finished
  <2> QED BY <2>1 DEF Served, TypeOK
<1>6. CASE DispatchFault
  <2>1. PICK p \in Pids : HandlePageFault(p, pc[p])
    BY <1>6 DEF DispatchFault
  <2>2. pc[p] \in Pages /\ UNCHANGED time /\ ~AfterDevices'
    BY <1>6 DEF TypeOK, DispatchFault, AfterDevices
  <2>3. ASSUME NEW d \in Devices
        PROVE  /\ blocked_queue'[d] # <<>> => dev_process'[d] # None
               /\ dev_process'[d] # None =>
                    \/ job_end'[d] > time
                    \/ dev_process[d] # None /\ job_end'[d] = job_end[d]
    BY <2>1, <2>2, FaultServed
  <2>4. DispatchFault => TypeOK'
    BY DispatchFaultType
  <2>5. \A d \in Devices : job_end'[d] \in Int /\ time \in Int
    BY <1>6, <2>4 DEF TypeOK, NoTime
  <2> QED BY <2>2, <2>3, <2>5 DEF Served
<1>7. ASSUME NEW page \in Pages, AccessMemoryFault(page)
      PROVE  Served'
  <2>1. /\ current_process \in Pids /\ HandlePageFault(current_process, page)
        /\ UNCHANGED time /\ AfterDevices
    BY <1>7 DEF AccessMemoryFault, TypeOK, AfterDevices
  <2>2. ASSUME NEW d \in Devices
        PROVE  /\ blocked_queue'[d] # <<>> => dev_process'[d] # None
               /\ dev_process'[d] # None => job_end'[d] > time
    BY <2>1, FaultServed DEF Served
  <2>3. TypeOK'
    BY <1>7, AccessMemoryFaultType
  <2>4. \A d \in Devices : job_end'[d] \in Int /\ time \in Int
    BY <2>3 DEF TypeOK, NoTime
  <2> QED BY <2>1, <2>2, <2>4 DEF Served
<1>8. ASSUME NEW d \in Devices, RequestIO(d)
      PROVE  Served'
  <2>1. UNCHANGED time /\ ~AfterDevices' /\ current_process # None
    BY <1>8 DEF RequestIO, AfterDevices
  <2>2. CASE /\ ~DeviceIdle(d) /\ UNCHANGED <<dev_process, job_end>>
             /\ blocked_queue' = [blocked_queue EXCEPT ![d] = Enqueue(@, current_process)]
    BY <2>1, <2>2 DEF Served, DeviceIdle, TypeOK
  <2>3. CASE StartJob(d, current_process) /\ UNCHANGED blocked_queue
    <3>1. time + JobDuration[d] >= time
      BY ConstantsType DEF TypeOK
    <3> QED BY <2>1, <2>3, <3>1 DEF Served, StartJob, TypeOK
  <2> QED BY <1>8, <2>2, <2>3 DEF RequestIO, ExecPlain
<1>9. CASE RunOneTimeUnit \/ IdleTimeUnit
  <2>1. /\ UNCHANGED <<blocked_queue, dev_process, job_end>> /\ time' = time + 1
        /\ AfterDevices /\ ~AfterDevices'
    BY <1>9 DEF RunOneTimeUnit, IdleTimeUnit, AfterDevices, devVars
  <2>2. \A d \in Devices : job_end[d] \in Int /\ time \in Int
    BY DEF TypeOK, NoTime
  <2> QED BY <2>1, <2>2 DEF Served
<1>10. CASE UNCHANGED vars
  BY <1>1, <1>10 DEF vars, AfterDevices
<1>11. CASE Next
  BY <1>1, <1>2, <1>3, <1>4, <1>5, <1>6, <1>7, <1>8, <1>9, <1>11
     DEF Next, BeginTimeUnit, Stop, IncomingProcess, PromoteWaitingProcesses,
      PageLoadFinished, SwapOutDone, SwapOutScan, NothingToSelect, Dispatch, AccessMemory,
      NoMemoryAccess, FinishProcess, Preempt, UseFreedProcess, Goto, otherVars,
      AfterDevices
<1> QED BY <1>10, <1>11

\* When reading a page takes time, the end of a job is never missed although it
\* is looked for by equality, and nobody waits for a device nobody uses: also
\* when memory has run out and processes are in several queues.
THEOREM DevicesServe ==
  ASSUME TimedSwapDevice
  PROVE  Spec => []DeviceService
<1>1. Init => Served
  BY DEF Init, ProcessInit, SchedulerInit, DeviceInit, FrameInit, Served, AfterDevices
<1>2. TypeOK /\ Served /\ [Next]_vars => Served'
  BY NextServed
<1>3. Served => DeviceService
  BY DEF Served, DeviceService
<1> QED BY <1>1, <1>2, <1>3, TypeCorrect, PTL DEF Spec

================================================================================

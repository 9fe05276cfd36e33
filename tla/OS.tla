---------------------------------- MODULE OS ----------------------------------
(***************************************************************************)
(* The simulated operating system: the main loop of src/src/main.c with    *)
(* the scheduler, the devices, the paging code and the frame table of      *)
(* src/src/os.  The program is sequential; the interleaving comes from     *)
(* the simulation plan, which decides when a process arrives, touches a    *)
(* page, asks for a device or ends.  Here the plan is arbitrary: every     *)
(* answer a callback may give is a separate choice of Next.                *)
(*                                                                         *)
(* One action stands for one pass through a part of the loop body;         *)
(* `phase' is the part that runs next.  A queue (libs/queue.c) is the      *)
(* sequence of its items, oldest first.                                    *)
(***************************************************************************)
EXTENDS Integers, Sequences, FiniteSets

CONSTANTS
  MaxProcesses,   \* MAX_PROCESSES, also the capacity of every queue
  QueueCount,     \* MAX_PRIORITY_LEVEL, the number of ready queues
  DeviceCount,    \* connected devices are 0 .. DeviceCount-1
  JobDuration,    \* device -> time units of a job (0: an immediate device)
  RetQueue,       \* device -> ready queue its processes return to
  SwapDevice,     \* the device pages are read from
  TimeSlice,      \* os->time_slice
  FrameCount,     \* installed memory, in frames
  MaxWorkingSet,  \* os->max_working_set
  Pages           \* the pages of a page table; page 0 is the entry point

Pids    == 1 .. MaxProcesses
Queues  == 0 .. QueueCount - 1
Lowest  == QueueCount - 1
Devices == 0 .. DeviceCount - 1
Frames  == 0 .. FrameCount - 1
ReservedFrames == 0 .. 4       \* os_init keeps five frames for the OS
None    == 0                   \* a NULL process pointer; pids start at 1
NoFrame == -1
Absent  == -2                  \* a page that is not on memory
NoPage  == -1
NoTime  == -1

ASSUME ConstantsAssumption ==
  /\ MaxProcesses \in Nat \ {0}
  /\ QueueCount \in Nat \ {0}
  /\ DeviceCount \in Nat \ {0}
  /\ JobDuration \in [Devices -> Nat]
  /\ RetQueue \in [Devices -> Queues]
  /\ SwapDevice \in Devices
  /\ TimeSlice \in Nat
  /\ FrameCount \in Nat /\ FrameCount >= 5
  /\ MaxWorkingSet \in Nat
  /\ Pages \subseteq Nat /\ 0 \in Pages

VARIABLES
  time, phase,                   \* the loop counter and the place in the body
  next_pid, freed,               \* pids handed out; processes disposed of
  proc_state, pending_op,        \* process.state, process.pending_op_type
  op_page, op_frame,             \* process.store_op.page_number, .frame_number
  current_priority, ready_since, \* process fields of the same names
  pc, page_table,                \* page of process.pc; page -> frame or Absent
  page_ready_queue, queues,      \* the scheduler's queues
  current_process, time_slice_end,
  blocked_queue, dev_process, job_end,   \* device.blocked_queue,
                                         \* .current_process, .current_job_end
  used, locked, free_frame_count,        \* the frame table and its counter
  require_frame_queue

procVars  == <<proc_state, pending_op, op_page, op_frame, current_priority,
               ready_since, pc, page_table>>
schedVars == <<page_ready_queue, queues, current_process, time_slice_end>>
devVars   == <<blocked_queue, dev_process, job_end>>
memVars   == <<used, locked, free_frame_count, require_frame_queue>>
vars == <<time, phase, next_pid, freed, procVars, schedVars, devVars, memVars>>
otherVars == <<time, next_pid, freed, procVars, schedVars, devVars, memVars>>

Phases == {"begin", "incoming", "devices", "swapout", "select", "memory",
           "cpu", "stopped", "undefined"}

-------------------------------------------------------------------------------
(***************************************************************************)
(* Helpers                                                                 *)
(***************************************************************************)

\* queue_enqueue: a full queue refuses the item, and no caller looks.
Enqueue(q, p) == IF Len(q) = MaxProcesses THEN q ELSE Append(q, p)

Items(q) == {q[i] : i \in 1 .. Len(q)}

Live == (1 .. next_pid - 1) \ freed

\* The page of p is in memory (page_table_entry.is_on_memory).
Resident(p, page) == page_table[p][page] # Absent

FreeFrames == Frames \ used

\* Mutant: the search looks for a frame that is not locked.
FirstUnlockedFrame ==
  {f \in Frames \ locked : \A g \in Frames \ locked : f <= g}

\* os_find_free_frame: the lowest unused frame; empty when there is none.
FirstFreeFrame == {f \in FreeFrames : \A g \in FreeFrames : f <= g}

\* Mutant: a job is taken for finished once its end is past.
FinishedLate(d) == dev_process[d] # None /\ job_end[d] < time

\* device_next_finished tests the job end for equality with the current time.
Finished(d) == dev_process[d] # None /\ job_end[d] = time

\* Devices are scanned in order and a device is looked at again until it is no
\* longer finished, so the next one is always the first finished device.
NextFinished == {d \in Devices : Finished(d) /\ \A e \in Devices : Finished(e) => d <= e}

\* Mutant: the upper bound is not applied.
ClampBelow(val, min, max) == IF val < min THEN min ELSE val

\* math_utils.c
Clamp(val, min, max) == IF val > max THEN max ELSE IF val < min THEN min ELSE val

\* 1 << clamp(itq, 0, 10): how long the head of ready queue q has to wait.
MaxWaitTime(q) ==
  <<1, 2, 4, 8, 16, 32, 64, 128, 256, 512, 1024>>[Clamp(q, 0, 10) + 1]

\* The ready queue select_next_process takes from when no page is ready.
FirstNonEmpty ==
  {q \in Queues : queues[q] # <<>> /\ \A r \in Queues : queues[r] # <<>> => q <= r}

\* Mutant: every process goes to the return queue of its device.
AlwaysRetQueue(p) == FALSE

\* The finished process of device d goes to the page-ready queue or to the
\* device's return queue; TRUE when that queue takes it.
SwapReturn(p) == proc_state[p] = "BLOCKED_SWAPPING"
Returned(d, p) ==
  IF SwapReturn(p) THEN Len(page_ready_queue) < MaxProcesses
                   ELSE Len(queues[RetQueue[d]]) < MaxProcesses

\* os_get_freeing_frames_count: the free entries in the working sets of the
\* processes being swapped out, and every entry is free (see HandlePageFault).
FreeingFrames ==
  LET swapping == {i \in 1 .. Len(blocked_queue[SwapDevice]) :
                     pending_op[blocked_queue[SwapDevice][i]] = "SWAP_OUT"}
      current  == {p \in {dev_process[SwapDevice]} \ {None} : pending_op[p] = "SWAP_OUT"}
  IN  MaxWorkingSet * (Cardinality(swapping) + Cardinality(current))

\* cnt_required_free_frames: OP_SWAP_IN, the other kind of request the code
\* counts, is never assigned.
RequiredFrames ==
  Cardinality({i \in 1 .. Len(require_frame_queue) :
                 pending_op[require_frame_queue[i]] = "PAGE_LOAD"})

(***************************************************************************)
(* The processes the code dereferences in its next step.  They matter once *)
(* memory has run out: only then can a queue hold a freed process.         *)
(***************************************************************************)
PromotionTouches == {Head(queues[q]) : q \in {r \in Queues \ {0} : queues[r] # <<>>}}

\* The finished process and, if it leaves the device, the next one.
CompletionTouches ==
  UNION {LET p == dev_process[d]
         IN  {p} \cup IF /\ blocked_queue[d] # <<>>
                         /\ pending_op[p] # "PAGE_LOAD"
                         /\ Returned(d, p)
                      THEN {Head(blocked_queue[d])} ELSE {} :
         d \in NextFinished}

\* What the swap-out loop counts; what it scans is in SwapOutScan.
SwapOutTouches ==
  IF require_frame_queue = <<>> THEN {}
  ELSE Items(require_frame_queue) \cup Items(blocked_queue[SwapDevice])
         \cup ({dev_process[SwapDevice]} \ {None})

SelectTouches ==
  IF current_process # None THEN {}
  ELSE IF page_ready_queue # <<>> THEN {Head(page_ready_queue)}
  ELSE {Head(queues[q]) : q \in FirstNonEmpty}

\* The row printed at the end of a time unit has the pid of every process in a
\* ready queue, with a device or waiting for it, and of the running one.
RowTouches ==
  (({current_process} \cup {dev_process[d] : d \in Devices}) \ {None})
    \cup (UNION {Items(queues[q]) : q \in Queues})
    \cup (UNION {Items(blocked_queue[d]) : d \in Devices})

Touched ==
  CASE phase = "begin"    -> RowTouches
    [] phase = "incoming" -> PromotionTouches
    [] phase = "devices"  -> CompletionTouches
    [] phase = "swapout"  -> SwapOutTouches
    [] phase = "select"   -> SelectTouches
    [] OTHER -> {}

-------------------------------------------------------------------------------
\* process_init; the fields of a pid not yet handed out have the values it will
\* give them.
ProcessInit ==
  /\ proc_state = [p \in Pids |-> "START"]
  /\ pending_op = [p \in Pids |-> "NONE"]
  /\ op_page = [p \in Pids |-> NoPage]
  /\ op_frame = [p \in Pids |-> NoFrame]
  /\ current_priority = [p \in Pids |-> 0]
  /\ ready_since = [p \in Pids |-> -1]
  /\ pc = [p \in Pids |-> 0]
  /\ page_table = [p \in Pids |-> [g \in Pages |-> Absent]]

\* scheduler_init
SchedulerInit ==
  /\ page_ready_queue = <<>>
  /\ queues = [q \in Queues |-> <<>>]
  /\ current_process = None
  /\ time_slice_end = NoTime

\* device_init, for every connected device
DeviceInit ==
  /\ blocked_queue = [d \in Devices |-> <<>>]
  /\ dev_process = [d \in Devices |-> None]
  /\ job_end = [d \in Devices |-> NoTime]

\* os_init: the frame table, some frames reserved, and the queue of those who
\* wait for a frame
FrameInit ==
  /\ used = ReservedFrames
  /\ locked = {}
  /\ free_frame_count = FrameCount - 5
  /\ require_frame_queue = <<>>

Init ==
  /\ time = 0
  /\ phase = "begin"
  /\ next_pid = 1
  /\ freed = {}
  /\ ProcessInit /\ SchedulerInit /\ DeviceInit /\ FrameInit

\* A step that only moves on in the loop body.
Goto(next) == phase' = next /\ UNCHANGED otherVars

-------------------------------------------------------------------------------
(***************************************************************************)
(* The device operations of os.c, used by the handlers below               *)
(***************************************************************************)

\* Mutant: the job's duration is left out.
StartJobNow(d, p) ==
  /\ dev_process' = [dev_process EXCEPT ![d] = p]
  /\ job_end' = [job_end EXCEPT ![d] = time]

\* device->current_process = p; the job takes the device's fixed duration.
StartJob(d, p) ==
  /\ dev_process' = [dev_process EXCEPT ![d] = p]
  /\ job_end' = [job_end EXCEPT ![d] = time + JobDuration[d]]

\* Mutant: free_frame_count is not kept.
ExecPageLoadUncounted(d, p, opf, lck) ==
  \E f \in FirstFreeFrame :
    /\ op_frame' = [opf EXCEPT ![p] = f]
    /\ used' = used \cup {f}
    /\ locked' = lck \cup {f}
    /\ StartJob(d, p)
    /\ UNCHANGED free_frame_count

\* exec_on_device for a page load without a frame: opf and lck are op_frame
\* and locked as the caller leaves them.  The frame found is marked used and
\* locked before the job starts.
ExecPageLoad(d, p, opf, lck) ==
  \E f \in FirstFreeFrame :
    /\ op_frame' = [opf EXCEPT ![p] = f]
    /\ used' = used \cup {f}
    /\ locked' = lck \cup {f}
    /\ free_frame_count' = free_frame_count - 1
    /\ StartJob(d, p)

\* exec_on_device for any other operation: no frame is looked for.
ExecPlain(d, p, opf, lck) ==
  /\ op_frame' = opf
  /\ locked' = lck
  /\ StartJob(d, p)
  /\ UNCHANGED <<used, free_frame_count>>

DeviceIdle(d) == dev_process[d] = None /\ blocked_queue[d] = <<>>

(***************************************************************************)
(* handle_page_fault.  Every working-set entry is -1 (process_init): the   *)
(* only writes to one are behind the completion of an OP_SWAP_OUT, and no  *)
(* operation of that kind is ever pending.  So a free entry is found when  *)
(* there is any entry, and with none (max_working_set 0) the search for a  *)
(* victim fails too and the handler returns, leaving p in no queue.        *)
(***************************************************************************)
HandlePageFault(p, page) ==
  IF MaxWorkingSet = 0
  THEN UNCHANGED <<proc_state, pending_op, op_page, op_frame, devVars, memVars>>
  ELSE
    /\ proc_state' = [proc_state EXCEPT ![p] = "BLOCKED_SWAPPING"]
    /\ pending_op' = [pending_op EXCEPT ![p] = "PAGE_LOAD"]
    /\ op_page' = [op_page EXCEPT ![p] = page]
    /\ LET opf == [op_frame EXCEPT ![p] = NoFrame]
       IN  \/ /\ ~DeviceIdle(SwapDevice)
              /\ blocked_queue' = [blocked_queue EXCEPT ![SwapDevice] = Enqueue(@, p)]
              /\ op_frame' = opf
              /\ UNCHANGED <<dev_process, job_end, memVars>>
           \/ /\ DeviceIdle(SwapDevice)
              /\ ExecPageLoad(SwapDevice, p, opf, locked)
              /\ UNCHANGED <<blocked_queue, require_frame_queue>>
           \/ /\ DeviceIdle(SwapDevice)
              /\ FreeFrames = {}          \* ERR_OUT_OF_MEMORY
              /\ require_frame_queue' = Enqueue(require_frame_queue, p)
              /\ op_frame' = opf
              /\ UNCHANGED <<devVars, used, locked, free_frame_count>>

-------------------------------------------------------------------------------
(***************************************************************************)
(* The main loop.  First the beginning of a time unit: set_time, the new   *)
(* processes, the promotion of processes that have waited too long.        *)
(***************************************************************************)

\* The row of the unit before has been printed, and set_time returned true: the
\* simulation goes on.
BeginTimeUnit ==
  /\ phase = "begin"
  /\ Touched \cap freed = {}
  /\ Goto("incoming")

\* set_time returned false: the loop is left.
Stop ==
  /\ phase = "begin"
  /\ Touched \cap freed = {}
  /\ Goto("stopped")

\* One iteration of incoming_processes; a plan starts at most MaxProcesses.
IncomingProcess ==
  /\ phase = "incoming"
  /\ next_pid <= MaxProcesses
  /\ next_pid' = next_pid + 1
  /\ queues' = [queues EXCEPT ![0] = Enqueue(@, next_pid)]
  /\ UNCHANGED <<time, phase, freed, procVars, page_ready_queue, current_process,
                 time_slice_end, devVars, memVars>>

\* Mutant: a process is promoted one time unit later.
OverdueLater(q) ==
  /\ q \in Queues \ {0}
  /\ queues[q] # <<>>
  /\ ready_since[Head(queues[q])] + MaxWaitTime(q) + 1 < time

\* The head of ready queue q has been ready for longer than the queue allows.
Overdue(q) ==
  /\ q \in Queues \ {0}
  /\ queues[q] # <<>>
  /\ ready_since[Head(queues[q])] + MaxWaitTime(q) < time

\* promote_waiting_processes: every queue is examined once, from the highest
\* priority down, and at most its head moves one queue up.
PromoteWaitingProcesses ==
  /\ phase = "incoming"
  /\ Touched \cap freed = {}
  /\ phase' = "devices"
  /\ queues' = [q \in Queues |->
       LET kept == IF Overdue(q) THEN Tail(queues[q]) ELSE queues[q]
       IN  IF Overdue(q + 1) THEN Enqueue(kept, Head(queues[q + 1])) ELSE kept]
  /\ UNCHANGED <<time, next_pid, freed, procVars, page_ready_queue,
                 current_process, time_slice_end, devVars, memVars>>

(***************************************************************************)
(* Finished device jobs.                                                   *)
(***************************************************************************)

\* OP_PAGE_LOAD becomes OP_PAGE_LOADED.  Line 372 compares current_job_end
\* instead of assigning it, so the job is still finished and the same device
\* is handled again at once.
PageLoadFinished(d) ==
  /\ phase = "devices"
  /\ Touched \cap freed = {}
  /\ d \in NextFinished
  /\ LET p == dev_process[d]
     IN  /\ pending_op[p] = "PAGE_LOAD"
         /\ pending_op' = [pending_op EXCEPT ![p] = "PAGE_LOADED"]
         /\ ready_since' = [ready_since EXCEPT ![p] = time]
  /\ UNCHANGED <<time, phase, next_pid, freed, proc_state, op_page, op_frame,
                 current_priority, pc, page_table, schedVars, devVars, memVars>>

\* The part every other completion shares: the loaded page is mapped, and the
\* process goes to the queue it returns to.
CompleteOperation(d, p) ==
  /\ phase = "devices"
  /\ Touched \cap freed = {}
  /\ d \in NextFinished
  /\ p = dev_process[d]
  /\ pending_op[p] # "PAGE_LOAD"
  /\ pending_op' = [pending_op EXCEPT ![p] = "NONE"]
  /\ page_table' = IF pending_op[p] = "PAGE_LOADED"
                   THEN [page_table EXCEPT ![p][op_page[p]] = op_frame[p]]
                   ELSE page_table
  /\ ready_since' = [ready_since EXCEPT ![p] = time]
  /\ IF SwapReturn(p)
     THEN /\ page_ready_queue' = Enqueue(page_ready_queue, p)
          /\ UNCHANGED queues
     ELSE /\ queues' = [queues EXCEPT ![RetQueue[d]] = Enqueue(@, p)]
          /\ UNCHANGED page_ready_queue
  /\ UNCHANGED <<time, phase, next_pid, freed, proc_state, op_page, current_priority,
                 pc, current_process, time_slice_end>>

\* Mutant: the frame stays locked.
LockKept(p) == locked

\* op_frame and locked once the frame of p's operation is released (450-455).
FrameReleased(p) == [op_frame EXCEPT ![p] = NoFrame]
LockReleased(p)  == locked \ {op_frame[p]}

\* Nobody waits for the device, or the return queue refused the process (then
\* the device keeps it and is found finished again).
JobDone(d) ==
  \E p \in Pids :
    /\ CompleteOperation(d, p)
    /\ blocked_queue[d] = <<>> \/ ~Returned(d, p)
    /\ dev_process' = IF Returned(d, p) THEN [dev_process EXCEPT ![d] = None]
                                        ELSE dev_process
    /\ op_frame' = FrameReleased(p)
    /\ locked' = LockReleased(p)
    /\ UNCHANGED <<blocked_queue, job_end, used, free_frame_count, require_frame_queue>>

\* The first process of the blocked queue is taken out and its operation run.
\* p itself may be that process once it is queued twice, so what the operation
\* needs is read from the values p's completion leaves.
NeedsFrame(next, p) ==
  pending_op'[next] = "PAGE_LOAD" /\ FrameReleased(p)[next] = NoFrame

JobDoneStartNext(d) ==
  \E p \in Pids :
    /\ CompleteOperation(d, p)
    /\ blocked_queue[d] # <<>> /\ Returned(d, p)
    /\ blocked_queue' = [blocked_queue EXCEPT ![d] = Tail(@)]
    /\ LET next == Head(blocked_queue[d])
       IN  \/ /\ NeedsFrame(next, p)
              /\ ExecPageLoad(d, next, FrameReleased(p), LockReleased(p))
           \/ /\ ~NeedsFrame(next, p)
              /\ ExecPlain(d, next, FrameReleased(p), LockReleased(p))
    /\ UNCHANGED require_frame_queue

\* ERR_OUT_OF_MEMORY for the process taken out: line 466 puts `proc', the one
\* that has just finished, into require_frame_queue, and the device loop is
\* entered again with the device unchanged.
JobDoneOutOfMemory(d) ==
  \E p \in Pids :
    /\ CompleteOperation(d, p)
    /\ blocked_queue[d] # <<>> /\ Returned(d, p)
    /\ blocked_queue' = [blocked_queue EXCEPT ![d] = Tail(@)]
    /\ NeedsFrame(Head(blocked_queue[d]), p)
    /\ FreeFrames = {}
    /\ require_frame_queue' = Enqueue(require_frame_queue, p)
    /\ op_frame' = FrameReleased(p)
    /\ locked' = LockReleased(p)
    /\ UNCHANGED <<dev_process, job_end, used, free_frame_count>>

\* No device is finished (any more).
DevicesHandled ==
  /\ phase = "devices"
  /\ \A d \in Devices : ~Finished(d)
  /\ Goto("swapout")

(***************************************************************************)
(* Swapping out: the loop over require_frame_queue.                        *)
(***************************************************************************)
SwapOutDone ==
  /\ phase = "swapout"
  /\ Touched \cap freed = {}
  /\ \/ require_frame_queue = <<>>
     \/ FreeingFrames > 4
     \/ RequiredFrames > FreeingFrames + free_frame_count
  /\ Goto("select")

\* The processes the scan accepts: PROC_STATE_BLOCKED in a device queue, or
\* PROC_STATE_READY in a ready queue.
SwapCandidates ==
  {p \in UNION {Items(blocked_queue[d]) : d \in Devices} : proc_state[p] = "BLOCKED"}
    \cup {p \in UNION {Items(queues[q]) : q \in Queues} : proc_state[p] = "READY"}

\* One turn of the loop that does not break.  Swapping a candidate out reads
\* its swapout_pages, a pointer no code sets.  The scan of a ready queue reads
\* items[it] without the queue's start, so it may meet an old or an unset
\* pointer.  With no candidate the turn changes nothing and is taken again.
SwapOutScan ==
  /\ phase = "swapout"
  /\ Touched \cap freed = {}
  /\ require_frame_queue # <<>>
  /\ FreeingFrames <= 4
  /\ RequiredFrames <= FreeingFrames + free_frame_count
  /\ phase' \in
       IF \/ SwapCandidates # {}
          \/ \E d \in Devices : Items(blocked_queue[d]) \cap freed # {}
       THEN {"undefined"}
       ELSE IF \E q \in Queues : queues[q] # <<>>
       THEN {"swapout", "undefined"}
       ELSE {"swapout"}
  /\ UNCHANGED otherVars

(***************************************************************************)
(* Choosing the next process.                                              *)
(***************************************************************************)

\* Mutant: a page-ready process is looked at, not taken out.
PeekNextProcess(p) ==
  \/ /\ page_ready_queue # <<>>
     /\ p = Head(page_ready_queue)
     /\ UNCHANGED <<page_ready_queue, queues>>
  \/ /\ page_ready_queue = <<>>
     /\ \E q \in FirstNonEmpty :
          /\ p = Head(queues[q])
          /\ queues' = [queues EXCEPT ![q] = Tail(@)]
     /\ UNCHANGED page_ready_queue

\* select_next_process takes p out of its queue.
SelectNextProcess(p) ==
  \/ /\ page_ready_queue # <<>>
     /\ p = Head(page_ready_queue)
     /\ page_ready_queue' = Tail(page_ready_queue)
     /\ UNCHANGED queues
  \/ /\ page_ready_queue = <<>>
     /\ \E q \in FirstNonEmpty :
          /\ p = Head(queues[q])
          /\ queues' = [queues EXCEPT ![q] = Tail(@)]
     /\ UNCHANGED page_ready_queue

\* The CPU is taken, or no process is ready.
NothingToSelect ==
  /\ phase = "select"
  /\ \/ current_process # None
     \/ page_ready_queue = <<>> /\ FirstNonEmpty = {}
  /\ Goto("memory")

\* Mutant: the time slice is left out.
SliceEndNow == time

\* The end of the time slice of a process that gets the CPU now.
SliceEnd == time + TimeSlice

\* Mutant: the state field is left as the page fault set it.
DispatchUnmarked ==
  /\ phase = "select"
  /\ current_process = None
  /\ Touched \cap freed = {}
  /\ \E p \in Pids :
       /\ SelectNextProcess(p)
       /\ Resident(p, pc[p])
       /\ current_process' = p
  /\ time_slice_end' = SliceEnd
  /\ phase' = "memory"
  /\ UNCHANGED <<time, next_pid, freed, proc_state, pending_op, op_page, op_frame,
                 current_priority, ready_since, pc, page_table, devVars, memVars>>

\* The page the program counter points to is in memory: p gets the CPU.
Dispatch ==
  /\ phase = "select"
  /\ current_process = None
  /\ Touched \cap freed = {}
  /\ \E p \in Pids :
       /\ SelectNextProcess(p)
       /\ Resident(p, pc[p])
       /\ proc_state' = [proc_state EXCEPT ![p] = "RUNNING"]
       /\ current_process' = p
  /\ time_slice_end' = SliceEnd
  /\ phase' = "memory"
  /\ UNCHANGED <<time, next_pid, freed, pending_op, op_page, op_frame, current_priority,
                 ready_since, pc, page_table, devVars, memVars>>

\* It is not: page fault, and the body is entered again with the CPU free.
DispatchFault ==
  /\ phase = "select"
  /\ current_process = None
  /\ Touched \cap freed = {}
  /\ \E p \in Pids :
       /\ SelectNextProcess(p)
       /\ ~Resident(p, pc[p])
       /\ HandlePageFault(p, pc[p])
  /\ phase' = "devices"
  /\ UNCHANGED <<time, next_pid, freed, current_priority, ready_since, pc, page_table,
                 current_process, time_slice_end>>

(***************************************************************************)
(* Memory accesses of the running process; the plan names the page.        *)
(***************************************************************************)
\* Mutant: the page table is not looked at.
AccessMissingPage(page) ==
  /\ phase = "memory"
  /\ current_process # None
  /\ pc' = [pc EXCEPT ![current_process] = page]
  /\ UNCHANGED <<time, phase, next_pid, freed, proc_state, pending_op, op_page, op_frame,
                 current_priority, ready_since, page_table, schedVars, devVars, memVars>>

AccessMemory(page) ==
  /\ phase = "memory"
  /\ current_process # None
  /\ Resident(current_process, page)
  /\ pc' = [pc EXCEPT ![current_process] = page]
  /\ UNCHANGED <<time, phase, next_pid, freed, proc_state, pending_op, op_page, op_frame,
                 current_priority, ready_since, page_table, schedVars, devVars, memVars>>

\* Mutant: the page of the previous instruction is asked for.
FaultOnOldPage(page) ==
  /\ phase = "memory"
  /\ current_process # None
  /\ ~Resident(current_process, page)
  /\ pc' = [pc EXCEPT ![current_process] = page]
  /\ HandlePageFault(current_process, pc[current_process])
  /\ current_process' = None
  /\ phase' = "cpu"
  /\ UNCHANGED <<time, next_pid, freed, current_priority, ready_since, page_table,
                 page_ready_queue, queues, time_slice_end>>

\* The `continue' of line 640 belongs to the inner loop: with the CPU free it
\* ends, and so does the time unit.
AccessMemoryFault(page) ==
  /\ phase = "memory"
  /\ current_process # None
  /\ ~Resident(current_process, page)
  /\ pc' = [pc EXCEPT ![current_process] = page]
  /\ HandlePageFault(current_process, page)
  /\ current_process' = None
  /\ phase' = "cpu"
  /\ UNCHANGED <<time, next_pid, freed, current_priority, ready_since, page_table,
                 page_ready_queue, queues, time_slice_end>>

NoMemoryAccess ==
  /\ phase = "memory"
  /\ Goto("cpu")

(***************************************************************************)
(* The end of the body: finish, preemption, I/O, or one time unit of work. *)
(***************************************************************************)

\* process_dispose and free: the frames of the process stay used.
FinishProcess ==
  /\ phase = "cpu"
  /\ current_process # None
  /\ freed' = freed \cup {current_process}
  /\ current_process' = None
  /\ phase' = "devices"
  /\ UNCHANGED <<time, next_pid, procVars, page_ready_queue, queues, time_slice_end,
                 devVars, memVars>>

Preempt ==
  /\ phase = "cpu"
  /\ current_process # None
  /\ time_slice_end = time
  /\ LET priority == Clamp(current_priority[current_process] + 1, 0, QueueCount - 1)
     IN  /\ current_priority' = [current_priority EXCEPT ![current_process] = priority]
         /\ queues' = [queues EXCEPT ![priority] = Enqueue(@, current_process)]
  /\ ready_since' = [ready_since EXCEPT ![current_process] = time]
  /\ current_process' = None
  /\ phase' = "devices"
  /\ UNCHANGED <<time, next_pid, freed, proc_state, pending_op, op_page, op_frame, pc,
                 page_table, page_ready_queue, time_slice_end, devVars, memVars>>

\* The plan asks for device d: enqueue_on_device with no pending operation.
RequestIO(d) ==
  /\ phase = "cpu"
  /\ current_process # None
  /\ time_slice_end # time
  /\ pending_op' = [pending_op EXCEPT ![current_process] = "NONE"]
  /\ \/ /\ DeviceIdle(d)
        /\ ExecPlain(d, current_process, op_frame, locked)
        /\ UNCHANGED blocked_queue
     \/ /\ ~DeviceIdle(d)
        /\ blocked_queue' = [blocked_queue EXCEPT ![d] = Enqueue(@, current_process)]
        /\ UNCHANGED <<dev_process, job_end, op_frame, used, locked, free_frame_count>>
  /\ current_process' = None
  /\ phase' = "devices"
  /\ UNCHANGED <<time, next_pid, freed, proc_state, op_page, current_priority, ready_since,
                 pc, page_table, page_ready_queue, queues, time_slice_end,
                 require_frame_queue>>

\* Mutant: the end of the time slice is not looked at.
RunPastSlice ==
  /\ phase = "cpu"
  /\ current_process # None
  /\ time' = time + 1
  /\ phase' = "begin"
  /\ UNCHANGED <<next_pid, freed, procVars, schedVars, devVars, memVars>>

\* run_one_time_unit, and the loop goes on with the next time unit.
RunOneTimeUnit ==
  /\ phase = "cpu"
  /\ current_process # None
  /\ time_slice_end # time
  /\ time' = time + 1
  /\ phase' = "begin"
  /\ UNCHANGED <<next_pid, freed, procVars, schedVars, devVars, memVars>>

\* No process has the CPU in this time unit.
IdleTimeUnit ==
  /\ phase = "cpu"
  /\ current_process = None
  /\ time' = time + 1
  /\ phase' = "begin"
  /\ UNCHANGED <<next_pid, freed, procVars, schedVars, devVars, memVars>>

\* A process that has been freed is dereferenced: anything may follow.
UseFreedProcess ==
  /\ Touched \cap freed # {}
  /\ Goto("undefined")

-------------------------------------------------------------------------------
Next ==
  \/ BeginTimeUnit
  \/ Stop
  \/ IncomingProcess
  \/ PromoteWaitingProcesses
  \/ \E d \in Devices : PageLoadFinished(d)
  \/ \E d \in Devices : JobDone(d)
  \/ \E d \in Devices : JobDoneStartNext(d)
  \/ \E d \in Devices : JobDoneOutOfMemory(d)
  \/ DevicesHandled
  \/ SwapOutDone
  \/ SwapOutScan
  \/ NothingToSelect
  \/ Dispatch
  \/ DispatchFault
  \/ \E page \in Pages : AccessMemory(page)
  \/ \E page \in Pages : AccessMemoryFault(page)
  \/ NoMemoryAccess
  \/ FinishProcess
  \/ Preempt
  \/ \E d \in Devices : RequestIO(d)
  \/ RunOneTimeUnit
  \/ IdleTimeUnit
  \/ UseFreedProcess

Spec == Init /\ [][Next]_vars

-------------------------------------------------------------------------------
(***************************************************************************)
(* Properties                                                              *)
(***************************************************************************)

\* Every variable holds a value of the C field or pointer it stands for.
TypeOK ==
  /\ time \in Nat /\ phase \in Phases
  /\ next_pid \in 1 .. MaxProcesses + 1 /\ freed \subseteq Pids
  /\ proc_state \in [Pids -> {"START", "BLOCKED_SWAPPING", "RUNNING"}]
  /\ pending_op \in [Pids -> {"NONE", "PAGE_LOAD", "PAGE_LOADED"}]
  /\ op_page \in [Pids -> Pages \cup {NoPage}]
  /\ op_frame \in [Pids -> Frames \cup {NoFrame}]
  /\ current_priority \in [Pids -> Queues]
  /\ ready_since \in [Pids -> Nat \cup {-1}]
  /\ pc \in [Pids -> Pages]
  /\ page_table \in [Pids -> [Pages -> Frames \cup {NoFrame, Absent}]]
  /\ page_ready_queue \in Seq(Pids) /\ queues \in [Queues -> Seq(Pids)]
  /\ current_process \in Pids \cup {None}
  /\ time_slice_end \in Nat \cup {NoTime}
  /\ blocked_queue \in [Devices -> Seq(Pids)]
  /\ dev_process \in [Devices -> Pids \cup {None}]
  /\ job_end \in [Devices -> Nat \cup {NoTime}]
  /\ used \subseteq Frames /\ locked \subseteq Frames
  /\ free_frame_count \in Int
  /\ require_frame_queue \in Seq(Pids)

\* No process has had to wait for a frame so far (nothing leaves that queue),
\* and a page fault is not simply dropped.
Undisturbed == require_frame_queue = <<>> /\ MaxWorkingSet > 0

\* Where the OS keeps pointers to processes, each as a sequence.
Containers == ({"cpu", "page_ready", "frame_wait"} \X {0})
                \cup ({"ready"} \X Queues) \cup ({"blocked", "device"} \X Devices)
Single(p) == IF p = None THEN <<>> ELSE <<p>>
Contents(c) ==
  CASE c[1] = "cpu"        -> Single(current_process)
    [] c[1] = "page_ready" -> page_ready_queue
    [] c[1] = "frame_wait" -> require_frame_queue
    [] c[1] = "ready"      -> queues[c[2]]
    [] c[1] = "blocked"    -> blocked_queue[c[2]]
    [] c[1] = "device"     -> Single(dev_process[c[2]])
Places(p) == {s \in Containers \X (1 .. MaxProcesses) :
                s[2] <= Len(Contents(s[1])) /\ Contents(s[1])[s[2]] = p}

\* As long as memory suffices, a live process is in exactly one place and a
\* disposed one in none: no pointer is lost, held twice, or left dangling by
\* the moves between CPU, queues and devices.
OnePlace ==
  Undisturbed =>
    \A p \in Pids : IF p \in Live THEN \E s \in Places(p) : Places(p) = {s}
                                  ELSE Places(p) = {}

\* A device nobody uses has nobody waiting, and the end of a running job is
\* never in the past: device_next_finished tests for equality, so a job end
\* that time has passed would never be noticed (main.c:116).
DeviceService ==
  \A d \in Devices :
    /\ blocked_queue[d] # <<>> => dev_process[d] # None
    /\ dev_process[d] # None => job_end[d] >= time

\* The frames of the frame table: those of the OS, those mapped by a page
\* table, those a page is being read into.
Mapped   == {page_table[p][g] : p \in Pids, g \in Pages} \ {NoFrame, Absent}
InFlight == {op_frame[p] : p \in Pids} \ {NoFrame}

\* Every used frame is accounted for, and free_frame_count, kept by hand,
\* counts the others.
FramesAccounted ==
  /\ used = ReservedFrames \cup Mapped \cup InFlight
  /\ free_frame_count = FrameCount - Cardinality(used)

\* A frame belongs to one page of one process, or to one read in progress,
\* and the frames of the OS to neither.
FramesExclusive ==
  /\ \A p, r \in Pids : \A g, h \in Pages :
       page_table[p][g] \in Frames /\ page_table[p][g] = page_table[r][h] => p = r /\ g = h
  /\ \A p, r \in Pids : op_frame[p] # NoFrame /\ op_frame[p] = op_frame[r] => p = r
  /\ InFlight \cap Mapped = {}
  /\ ReservedFrames \cap (InFlight \cup Mapped) = {}

\* The locked frames are those of the read the swap device is carrying out: a
\* lock is neither forgotten nor taken away early.
LocksInFlight ==
  /\ locked = InFlight
  /\ \A p \in Pids : op_frame[p] # NoFrame => dev_process[SwapDevice] = p

\* When the time unit runs, the page the program counter points to is marked as
\* present, whatever faults came before in the same unit.
RunsOnResidentPage ==
  phase = "cpu" /\ current_process # None =>
    Resident(current_process, pc[current_process])

\* A process in the page-ready queue finds its page, and in a frame: it faults
\* once, not again.
PageReadyIsResident ==
  Undisturbed => \A p \in Items(page_ready_queue) : page_table[p][pc[p]] \in Frames

\* The running process is preempted in time: preemption tests for equality of
\* time_slice_end and time too (main.c:655).
SliceNotOverrun ==
  current_process # None =>
    time <= time_slice_end /\ time_slice_end <= time + TimeSlice

\* Until the promotion of a time unit is done the waiting may be one unit longer.
Promoted     == {"devices", "swapout", "select", "memory", "cpu"}
PromotionDue == IF phase \in Promoted THEN 0 ELSE 1

\* No starvation in the lowest queue (promote_waiting_processes, main.c:78): the
\* process at position i has been ready for at most the queue's maximum wait
\* plus one unit per position behind it, because from then on every unit
\* promotes the head.  One process is always elsewhere when a unit ends, so
\* there are at most MaxProcesses - 1 positions.
BoundedWait ==
  Undisturbed /\ QueueCount > 1 =>
    \A i \in 1 .. Len(queues[Lowest]) :
      time - ready_since[queues[Lowest][i]]
        <= MaxWaitTime(Lowest) + MaxProcesses - 1 - i + PromotionDue

\* The life of a process as its place in the OS tells it, and, while it is with a
\* device, the operation it asked for: a page load, or the request of the plan,
\* which has none.  main.c decides by another field, the state (line 443), where the
\* process goes when the device is done.
Status(p) ==
  CASE p >= next_pid                         -> "new"
    [] p \in freed                           -> "done"
    [] p = current_process                   -> "running"
    [] p \in Items(page_ready_queue)         -> "loaded"
    [] \E q \in Queues : p \in Items(queues[q]) -> "ready"
    [] OTHER -> IF pending_op[p] # "NONE" THEN "paging" ELSE "waiting"

L == INSTANCE Lifecycle WITH Processes <- Pids, status <- [p \in Pids |-> Status(p)]

\* With enough frames the main loop implements the life of processes: one
\* step moves one process along one edge, one process runs, a loaded page is
\* given the CPU before the ready queues (os.c:151) and does not fault again.
ImplementsLifecycle == L!Spec

\* Also with few frames: until somebody has had to wait for a frame, and in the
\* step that makes it wait, one process moves along one edge.  From then on a
\* process may be lost, or be in two places (main.c:466).
LivesUndisturbed == [][Undisturbed => L!Next]_([p \in Pids |-> Status(p)])

\* A time unit comes to its end: the inner loop of main (343-692) is left,
\* however many faults, finished jobs and preemptions it goes through.
TimeUnitEnds == phase \notin {"begin", "stopped"} ~> phase \in {"begin", "stopped"}

=============================================================================

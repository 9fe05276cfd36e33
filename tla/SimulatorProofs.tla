---------------------------- MODULE SimulatorProofs ----------------------------
(***************************************************************************)
(* The main loop driven by a text plan, for every plan: it is a main loop  *)
(* of OS, the plan and the OS agree about the processes, no entry of a     *)
(* live process is passed over, and nothing is left when the simulation    *)
(* stops.                                                                  *)
(***************************************************************************)
EXTENDS Simulator, LifecycleProofs

-------------------------------------------------------------------------------
(***************************************************************************)
(* The plan only chooses among the steps of OS                             *)
(***************************************************************************)

LEMMA StepOfOS == [SimNext]_simVars => [Next]_vars
<1> SUFFICES ASSUME [SimNext]_simVars PROVE [Next]_vars
  OBVIOUS
<1>1. CASE SimBegin
  BY <1>1 DEF SimBegin, Next
<1>2. CASE SimIncoming
  BY <1>2 DEF SimIncoming, Next
<1>3. CASE SimDevices
  BY <1>3 DEF SimDevices, Next
<1>4. CASE SimMemory
  BY <1>4 DEF SimMemory, Next
<1>5. CASE SimFinish \/ SimPreempt \/ SimRequestIO \/ SimRun
  BY <1>5 DEF SimFinish, SimPreempt, SimRequestIO, SimRun, Next
<1>6. CASE UNCHANGED simVars
  BY <1>6 DEF simVars
<1> QED BY <1>1, <1>2, <1>3, <1>4, <1>5, <1>6 DEF SimNext

\* Whatever is proved of the main loop under an arbitrary plan holds of the
\* main loop under a text plan: a callback takes part in a step of the loop and
\* never takes its place.
THEOREM PlanDrivesOS == SimSpec => Spec
<1>1. SimInit => Init
  BY DEF SimInit
<1> QED BY <1>1, StepOfOS, PTL DEF SimSpec, Spec

-------------------------------------------------------------------------------
(***************************************************************************)
(* The OS knows only processes it has created                              *)
(***************************************************************************)

Started == 1 .. next_pid - 1

Known ==
  /\ freed \subseteq Started
  /\ current_process \in Started \cup {None}
  /\ Items(page_ready_queue) \subseteq Started
  /\ \A q \in Queues : Items(queues[q]) \subseteq Started
  /\ \A d \in Devices : /\ Items(blocked_queue[d]) \subseteq Started
                        /\ dev_process[d] \in Started \cup {None}

LEMMA TailItems ==
  ASSUME NEW q \in Seq(Pids), q # <<>>
  PROVE  Head(q) \in Items(q) /\ Items(Tail(q)) \subseteq Items(q)
<1>1. /\ Len(q) \in Nat /\ Len(q) >= 1 /\ Head(q) = q[1] /\ Len(Tail(q)) = Len(q) - 1
      /\ \A i \in 1 .. Len(q) - 1 : Tail(q)[i] = q[i + 1]
  BY HeadTailProperties, LenProperties, EmptySeq
<1> QED BY <1>1 DEF Items

LEMMA EnqueueItems ==
  ASSUME NEW q \in Seq(Pids), NEW p \in Pids
  PROVE  Items(Enqueue(q, p)) \subseteq Items(q) \cup {p}
BY ItemsAppend DEF Enqueue

LEMMA InitKnown == TypeOK /\ Init => Known
BY ItemsEmpty DEF Init, SchedulerInit, DeviceInit, Known, Started

LEMMA UnmovedKnown ==
  ASSUME Known, UNCHANGED <<next_pid, freed, page_ready_queue, queues, current_process,
                            blocked_queue, dev_process>>
  PROVE  Known'
BY DEF Known, Started

LEMMA IncomingProcessKnown ==
  ASSUME TypeOK, Known, IncomingProcess
  PROVE  Known'
<1>1. /\ next_pid \in Pids /\ next_pid' = next_pid + 1 /\ 0 \in Queues
      /\ queues' = [queues EXCEPT ![0] = Enqueue(@, next_pid)]
      /\ UNCHANGED <<freed, page_ready_queue, current_process, blocked_queue, dev_process>>
  BY ConstantsType DEF IncomingProcess, TypeOK, Pids, devVars
<1>2. Started \subseteq Started' /\ next_pid \in Started'
  BY <1>1 DEF Started, Pids
<1>3. \A q \in Queues : Items(queues'[q]) \subseteq Items(queues[q]) \cup {next_pid}
  BY <1>1, EnqueueItems DEF TypeOK
<1> QED BY <1>1, <1>2, <1>3 DEF Known

LEMMA PromoteKnown ==
  ASSUME TypeOK, Known, PromoteWaitingProcesses
  PROVE  Known'
<1>1. UNCHANGED <<next_pid, freed, page_ready_queue, current_process, blocked_queue, dev_process>>
  BY DEF PromoteWaitingProcesses, devVars
<1>2. ASSUME NEW q \in Queues
      PROVE  Items(queues'[q]) \subseteq Started
  <2> DEFINE kept == IF Overdue(q) THEN Tail(queues[q]) ELSE queues[q]
  <2>1. queues[q] \in Seq(Pids) /\ Items(queues[q]) \subseteq Started
    BY DEF TypeOK, Known
  <2>2. kept \in Seq(Pids) /\ Items(kept) \subseteq Started
    BY <2>1, TailItems, HeadTailType DEF Overdue
  <2>3. queues'[q] = IF Overdue(q + 1) THEN Enqueue(kept, Head(queues[q + 1])) ELSE kept
    BY DEF PromoteWaitingProcesses
  <2>4. CASE Overdue(q + 1)
    <3>1. /\ q + 1 \in Queues /\ queues[q + 1] # <<>> /\ queues[q + 1] \in Seq(Pids)
          /\ Items(queues[q + 1]) \subseteq Started
      BY <2>4 DEF Overdue, TypeOK, Known
    <3>2. Head(queues[q + 1]) \in Pids /\ Head(queues[q + 1]) \in Started
      BY <3>1, TailItems, HeadTailType
    <3> HIDE DEF kept
    <3> QED BY <2>2, <2>3, <2>4, <3>2, EnqueueItems
  <2> QED BY <2>2, <2>3, <2>4
<1> QED BY <1>1, <1>2 DEF Known, Started

\* A process taken from its queue for the CPU.
LEMMA SelectedKnown ==
  ASSUME TypeOK, Known, NEW p \in Pids, SelectNextProcess(p)
  PROVE  /\ p \in Started /\ Items(page_ready_queue') \subseteq Started
         /\ \A q \in Queues : Items(queues'[q]) \subseteq Started
<1>1. CASE /\ page_ready_queue # <<>> /\ p = Head(page_ready_queue)
           /\ page_ready_queue' = Tail(page_ready_queue) /\ queues' = queues
  BY <1>1, TailItems DEF TypeOK, Known
<1>2. ASSUME NEW q \in Queues, queues[q] # <<>>, p = Head(queues[q]),
             queues' = [queues EXCEPT ![q] = Tail(@)], page_ready_queue' = page_ready_queue
      PROVE  /\ p \in Started /\ Items(page_ready_queue') \subseteq Started
             /\ \A r \in Queues : Items(queues'[r]) \subseteq Started
  <2>1. queues[q] \in Seq(Pids) /\ Items(queues[q]) \subseteq Started
    BY DEF TypeOK, Known
  <2>2. p \in Started /\ Items(Tail(queues[q])) \subseteq Started
    BY <1>2, <2>1, TailItems
  <2> QED BY <1>2, <2>2 DEF TypeOK, Known
<1> QED BY <1>1, <1>2 DEF SelectNextProcess, FirstNonEmpty

\* A process that faults goes to the swap device or its queue, or nowhere known.
LEMMA FaultKnown ==
  ASSUME TypeOK, Known, NEW p \in Pids, p \in Started, NEW page, HandlePageFault(p, page)
  PROVE  \A d \in Devices : /\ Items(blocked_queue'[d]) \subseteq Started
                            /\ dev_process'[d] \in Started \cup {None}
<1>1. SwapDevice \in Devices /\ blocked_queue[SwapDevice] \in Seq(Pids)
  BY ConstantsType DEF TypeOK
<1>2. Items(Enqueue(blocked_queue[SwapDevice], p)) \subseteq Started
  BY <1>1, EnqueueItems DEF Known
<1>3. /\ \/ blocked_queue' = blocked_queue
         \/ blocked_queue' = [blocked_queue EXCEPT ![SwapDevice] = Enqueue(@, p)]
      /\ \/ dev_process' = dev_process
         \/ dev_process' = [dev_process EXCEPT ![SwapDevice] = p]
  BY DEF HandlePageFault, ExecPageLoad, StartJob, devVars
<1> QED BY <1>1, <1>2, <1>3 DEF Known, TypeOK

LEMMA DispatchKnown ==
  ASSUME TypeOK, Known, Dispatch \/ DispatchFault
  PROVE  Known'
<1>1. PICK p \in Pids :
        /\ SelectNextProcess(p)
        /\ \/ UNCHANGED <<blocked_queue, dev_process>>
           \/ HandlePageFault(p, pc[p])
        /\ current_process' \in {p, None}
        /\ next_pid' = next_pid /\ freed' = freed
  BY DEF Dispatch, DispatchFault, devVars, TypeOK
<1>2. /\ p \in Started /\ Items(page_ready_queue') \subseteq Started
      /\ \A q \in Queues : Items(queues'[q]) \subseteq Started
  BY <1>1, SelectedKnown
<1>3. \A d \in Devices : /\ Items(blocked_queue'[d]) \subseteq Started
                         /\ dev_process'[d] \in Started \cup {None}
  BY <1>1, <1>2, FaultKnown DEF Known
<1>4. Started' = Started
  BY <1>1 DEF Started
<1> QED BY <1>1, <1>2, <1>3, <1>4 DEF Known

\* The steps that take the CPU from the running process.
LEMMA CpuLeftKnown ==
  ASSUME TypeOK, Known,
         \/ \E page \in Pages : AccessMemoryFault(page)
         \/ FinishProcess \/ Preempt
         \/ \E d \in Devices : RequestIO(d)
  PROVE  Known'
<1> DEFINE p == current_process
<1>1. /\ p \in Pids /\ p \in Started /\ current_process' = None
      /\ next_pid' = next_pid /\ page_ready_queue' = page_ready_queue
  BY DEF TypeOK, Known, AccessMemoryFault, FinishProcess, Preempt, RequestIO
<1>2. freed' \in {freed, freed \cup {p}}
  BY DEF AccessMemoryFault, FinishProcess, Preempt, RequestIO
<1>3. \A q \in Queues : Items(queues'[q]) \subseteq Started
  <2>1. \A q \in Queues : Items(Enqueue(queues[q], p)) \subseteq Started
    BY <1>1, EnqueueItems DEF TypeOK, Known
  <2>2. \/ queues' = queues
        \/ \E r : queues' = [queues EXCEPT ![r] = Enqueue(@, p)]
    BY DEF AccessMemoryFault, FinishProcess, Preempt, RequestIO
  <2> QED BY <2>1, <2>2, ZenonT(60) DEF TypeOK, Known
<1>4. \A d \in Devices : /\ Items(blocked_queue'[d]) \subseteq Started
                         /\ dev_process'[d] \in Started \cup {None}
  <2>1. CASE \E page \in Pages : AccessMemoryFault(page)
    BY <1>1, <2>1, FaultKnown DEF AccessMemoryFault
  <2>2. CASE FinishProcess \/ Preempt
    BY <2>2 DEF FinishProcess, Preempt, devVars, Known
  <2>3. ASSUME NEW e \in Devices, RequestIO(e)
        PROVE  \A d \in Devices : /\ Items(blocked_queue'[d]) \subseteq Started
                                  /\ dev_process'[d] \in Started \cup {None}
    <3>1. \A d \in Devices : blocked_queue'[d] \in {blocked_queue[d], Enqueue(blocked_queue[d], p)}
      BY <2>3 DEF RequestIO, TypeOK
    <3>2. \A d \in Devices : dev_process'[d] \in {dev_process[d], p}
      BY <2>3 DEF RequestIO, ExecPlain, StartJob, TypeOK
    <3>3. \A d \in Devices : Items(Enqueue(blocked_queue[d], p)) \subseteq Started
      BY <1>1, EnqueueItems DEF TypeOK, Known
    <3> QED BY <1>1, <3>1, <3>2, <3>3 DEF TypeOK, Known
  <2> QED BY <2>1, <2>2, <2>3
<1>5. Started' = Started
  BY <1>1 DEF Started
<1> QED BY <1>1, <1>2, <1>3, <1>4, <1>5 DEF Known

LEMMA JobKnown ==
  ASSUME TypeOK, Known, NEW d \in Devices,
         JobDone(d) \/ JobDoneStartNext(d) \/ JobDoneOutOfMemory(d)
  PROVE  Known'
<1>1. PICK p \in Pids :
        /\ CompleteOperation(d, p)
        /\ \/ UNCHANGED blocked_queue
           \/ blocked_queue[d] # <<>> /\ blocked_queue' = [blocked_queue EXCEPT ![d] = Tail(@)]
        /\ \/ UNCHANGED dev_process
           \/ dev_process' = [dev_process EXCEPT ![d] = None]
           \/ /\ blocked_queue[d] # <<>>
              /\ dev_process' = [dev_process EXCEPT ![d] = Head(blocked_queue[d])]
  BY DEF JobDone, JobDoneStartNext, JobDoneOutOfMemory, ExecPageLoad, ExecPlain, StartJob
<1>2. /\ p \in Started
      /\ UNCHANGED <<next_pid, freed, current_process>>
      /\ page_ready_queue' \in {page_ready_queue, Enqueue(page_ready_queue, p)}
      /\ \/ queues' = queues
         \/ queues' = [queues EXCEPT ![RetQueue[d]] = Enqueue(@, p)]
  BY <1>1, PidsType DEF CompleteOperation, Known
<1>3. blocked_queue[d] \in Seq(Pids) /\ Items(blocked_queue[d]) \subseteq Started
  BY DEF TypeOK, Known
<1>4. blocked_queue[d] # <<>> => /\ Items(Tail(blocked_queue[d])) \subseteq Started
                                 /\ Head(blocked_queue[d]) \in Started
  BY <1>3, TailItems
<1>5. /\ Items(Enqueue(page_ready_queue, p)) \subseteq Started
      /\ \A q \in Queues : Items(Enqueue(queues[q], p)) \subseteq Started
  BY <1>2, EnqueueItems DEF TypeOK, Known
<1>6. Items(page_ready_queue') \subseteq Started
  BY <1>2, <1>5 DEF Known
<1>7. \A q \in Queues : Items(queues'[q]) \subseteq Started
  <2>1. \A q \in Queues : queues'[q] \in {queues[q], Enqueue(queues[q], p)}
    BY <1>2 DEF TypeOK
  <2> QED BY <1>5, <2>1 DEF Known
<1>8. \A e \in Devices : /\ Items(blocked_queue'[e]) \subseteq Started
                         /\ dev_process'[e] \in Started \cup {None}
  BY <1>1, <1>4 DEF Known, TypeOK
<1> QED BY <1>2, <1>6, <1>7, <1>8 DEF Known, Started

LEMMA NextKnown == TypeOK /\ Known /\ [Next]_vars => Known'
<1> SUFFICES ASSUME TypeOK, Known, [Next]_vars PROVE Known'
  OBVIOUS
<1>1. CASE UNCHANGED <<next_pid, freed, page_ready_queue, queues, current_process,
                       blocked_queue, dev_process>>
  BY <1>1, UnmovedKnown
<1>2. CASE Next
  BY <1>1, <1>2, IncomingProcessKnown, PromoteKnown, JobKnown, DispatchKnown, CpuLeftKnown
  DEF Next, BeginTimeUnit, Stop, PageLoadFinished, DevicesHandled, SwapOutDone,
      SwapOutScan, NothingToSelect, AccessMemory, NoMemoryAccess, RunOneTimeUnit,
      IdleTimeUnit, UseFreedProcess, Goto, otherVars, schedVars, devVars
<1>3. CASE UNCHANGED vars
  BY <1>1, <1>3 DEF vars, schedVars, devVars
<1> QED BY <1>2, <1>3

\* The known processes are kept known, whatever drives the loop.
LEMMA AlwaysKnown == Spec => [](TypeOK /\ Known)
<1>1. TypeOK /\ Init => Known
  BY InitKnown
<1>2. TypeOK /\ Known /\ [Next]_vars => Known'
  BY NextKnown
<1> QED BY <1>1, <1>2, TypeCorrect, PTL DEF Spec

\* The CPU never runs a process that has been freed, also when memory has run
\* out and the same process waits in two queues: the program is undone before.
RunsAlive == current_process # None => current_process \notin freed

LEMMA NextRunsAlive == RunsAlive /\ [Next]_vars => RunsAlive'
<1> SUFFICES ASSUME RunsAlive, [Next]_vars PROVE RunsAlive'
  OBVIOUS
<1>1. CASE UNCHANGED <<current_process, freed>>
  BY <1>1 DEF RunsAlive
<1>2. CASE current_process' = None
  BY <1>2 DEF RunsAlive
<1>3. CASE Dispatch
  <2>1. PICK p \in Pids : SelectNextProcess(p) /\ current_process' = p
    BY <1>3 DEF Dispatch
  <2>2. phase = "select" /\ current_process = None /\ Touched \cap freed = {} /\ freed' = freed
    BY <1>3 DEF Dispatch
  <2>3. Touched = IF page_ready_queue # <<>> THEN {Head(page_ready_queue)}
                  ELSE {Head(queues[q]) : q \in FirstNonEmpty}
    BY <2>2 DEF Touched, SelectTouches
  <2>4. p \in Touched
    BY <2>1, <2>3 DEF SelectNextProcess
  <2> QED BY <2>1, <2>2, <2>4 DEF RunsAlive
<1>4. CASE \E d \in Devices : \/ PageLoadFinished(d) \/ JobDone(d) \/ JobDoneStartNext(d)
                             \/ JobDoneOutOfMemory(d) \/ RequestIO(d)
  <2>1. UNCHANGED <<current_process, freed>> \/ current_process' = None
    BY <1>4 DEF PageLoadFinished, JobDone, JobDoneStartNext, JobDoneOutOfMemory,
       CompleteOperation, RequestIO, schedVars
  <2> QED BY <1>1, <1>2, <2>1
<1>5. CASE \E page \in Pages : AccessMemory(page) \/ AccessMemoryFault(page)
  <2>1. UNCHANGED <<current_process, freed>> \/ current_process' = None
    BY <1>5 DEF AccessMemory, AccessMemoryFault, schedVars
  <2> QED BY <1>1, <1>2, <2>1
<1> QED
  BY <1>1, <1>2, <1>3, <1>4, <1>5
  DEF Next, BeginTimeUnit, Stop, IncomingProcess, PromoteWaitingProcesses, DevicesHandled,
      SwapOutDone, SwapOutScan, NothingToSelect, DispatchFault, NoMemoryAccess, FinishProcess,
      Preempt, RunOneTimeUnit, IdleTimeUnit, UseFreedProcess, Goto, otherVars, schedVars, vars

LEMMA AlwaysRunsAlive == Spec => []RunsAlive
<1>1. Init => RunsAlive
  BY DEF Init, RunsAlive
<1> QED BY <1>1, NextRunsAlive, PTL DEF Spec

-------------------------------------------------------------------------------
(***************************************************************************)
(* The plan and the OS                                                     *)
(***************************************************************************)

PlanType ==
  /\ sim_proc_count \in 0 .. MaxProcesses
  /\ sim_pid \in [Pids -> P!Spids]
  /\ spid_pid \in [P!Spids -> 0 .. MaxProcesses]
  /\ DOMAIN proc_time = P!Spids
  /\ \A s \in 0 .. sim_proc_count - 1 : proc_time[s] \in Nat

\* The processes created are processes the plan has taken, each its own.
Agreed ==
  /\ \A p \in Started : sim_pid[p] < sim_proc_count
  /\ SameProcesses

\* What the plan keeps about processes is right whatever its entries are.
Booked == PlanType /\ Agreed

\* Once the memory accesses of the time are over there is none left to make.
Asked == phase = "cpu" /\ current_process # None => P!Due(time, current_process, "mem") = {}

PlanInv == Legible(entries) /\ Booked /\ Asked /\ NothingOverlooked

LEMMA InitBooks == SimInit => Booked
<1> SUFFICES ASSUME SimInit PROVE Booked
  OBVIOUS
<1>1. /\ next_pid = 1 /\ freed = {} /\ Started = {}
  BY DEF SimInit, Init, Started
<1>2. /\ sim_proc_count = 0 /\ dead = {}
      /\ sim_pid = [pid \in Pids |-> 0]
      /\ spid_pid = [s \in P!Spids |-> 0]
      /\ proc_time \in [P!Spids -> UnsetTimes]
  BY DEF SimInit, P!Init, Pids
<1>3. PlanType
  BY <1>2, ConstantsType DEF PlanType, P!Spids
<1>4. Agreed
  BY <1>1, <1>2 DEF Agreed, SameProcesses, Started
<1> QED BY <1>3, <1>4 DEF Booked

LEMMA InitPlan == SimInit => PlanInv
<1> SUFFICES ASSUME SimInit PROVE PlanInv
  OBVIOUS
<1>1. phase = "begin" /\ Legible(entries) /\ sim_proc_count = 0
  BY PlansAssumption DEF SimInit, Init, P!Init
<1>2. Asked
  BY <1>1 DEF Asked
<1>3. NothingOverlooked
  <2>1. \A i \in P!Pending : entries[i].spid \in Nat
    BY <1>1 DEF Legible, P!Pending
  <2> QED BY <1>1, <2>1 DEF NothingOverlooked
<1> QED BY <1>1, <1>2, <1>3, InitBooks DEF PlanInv

-------------------------------------------------------------------------------
(***************************************************************************)
(* The callbacks, as far as processes are concerned                        *)
(***************************************************************************)

LEMMA UnmovedBooks ==
  ASSUME Booked,
         UNCHANGED <<next_pid, freed, sim_proc_count, sim_pid, spid_pid, proc_time, dead>>
  PROVE  Booked'
<1>1. PlanType'
  BY DEF Booked, PlanType, P!Spids
<1>2. Agreed'
  BY DEF Booked, Agreed, SameProcesses, Started
<1> QED BY <1>1, <1>2 DEF Booked

LEMMA StartedSpids ==
  ASSUME TypeOK, Booked, NEW p \in Started
  PROVE  /\ p \in Pids /\ p \in 1 .. next_pid - 1
         /\ sim_pid[p] \in P!Spids /\ sim_pid[p] \in Nat
         /\ sim_pid[p] < sim_proc_count /\ spid_pid[sim_pid[p]] = p
<1>1. p \in Pids /\ p \in 1 .. next_pid - 1
  BY ConstantsType DEF Started, TypeOK, Pids
<1>2. sim_pid[p] \in P!Spids
  BY <1>1 DEF Booked, PlanType
<1> QED BY <1>1, <1>2, ConstantsType DEF Booked, Agreed, SameProcesses, P!Spids

\* incoming_processes takes the next process of the plan.
LEMMA TakeArrivingBooks ==
  ASSUME TypeOK, Known, Booked, P!TakeArriving(time), UNCHANGED vars
  PROVE  Booked'
<1> DEFINE s == sim_proc_count
<1>1. /\ s \in P!Spids /\ s \in Nat /\ s + 1 \in 0 .. MaxProcesses
      /\ sim_proc_count' = s + 1
      /\ spid_pid' = [spid_pid EXCEPT ![s] = 0]
      /\ proc_time' = [proc_time EXCEPT ![s] = 0]
      /\ UNCHANGED <<sim_pid, dead>>
  BY ConstantsType
  DEF P!TakeArriving, P!First, P!Arriving, P!Spids, Booked, PlanType
<1>2. UNCHANGED <<next_pid, freed, Started>>
  BY DEF vars, Started
<1>3. PlanType'
  <2>1. \A r \in 0 .. s : proc_time'[r] \in Nat
    BY <1>1 DEF Booked, PlanType, P!Spids
  <2>2. /\ spid_pid' \in [P!Spids -> 0 .. MaxProcesses] /\ DOMAIN proc_time' = P!Spids
        /\ P!Spids' = P!Spids
    BY <1>1, ConstantsType DEF Booked, PlanType, P!Spids
  <2>3. sim_proc_count' - 1 = s
    BY <1>1
  <2> QED BY <1>1, <2>1, <2>2, <2>3 DEF Booked, PlanType
<1>4. Agreed'
  <2>1. \A p \in Started : sim_pid[p] \in Nat /\ sim_pid[p] < s /\ sim_pid[p] \in P!Spids
    BY StartedSpids
  <2>2. \A p \in Started : spid_pid'[sim_pid[p]] = spid_pid[sim_pid[p]] /\ sim_pid[p] < s + 1
    BY <1>1, <2>1 DEF Booked, PlanType
  <2> QED BY <1>1, <1>2, <2>2 DEF Booked, Agreed, SameProcesses, Started
<1> QED BY <1>3, <1>4 DEF Booked

\* create_process: the first process taken and not created gets the new pid.
LEMMA CreateProcessBooks ==
  ASSUME TypeOK, Known, Booked, IncomingProcess, P!CreateProcess(next_pid)
  PROVE  Booked'
<1>1. PICK s \in 0 .. sim_proc_count - 1 :
        /\ spid_pid[s] = 0
        /\ sim_pid' = [sim_pid EXCEPT ![next_pid] = s]
        /\ spid_pid' = [spid_pid EXCEPT ![s] = next_pid]
        /\ proc_time' = [proc_time EXCEPT ![s] = 0]
        /\ UNCHANGED <<sim_proc_count, dead>>
  BY DEF P!CreateProcess, P!NextToCreate, P!First, P!ToCreate, P!Created
<1>2. /\ UNCHANGED freed
      /\ next_pid \in Pids /\ next_pid \in 0 .. MaxProcesses /\ next_pid' = next_pid + 1
  BY ConstantsType DEF IncomingProcess, TypeOK, Pids
<1>3. /\ sim_proc_count \in 0 .. MaxProcesses /\ s \in P!Spids /\ s \in Nat
      /\ s < sim_proc_count /\ P!Spids' = P!Spids
  BY <1>1, ConstantsType DEF Booked, PlanType, P!Spids
<1>4. PlanType'
  <2>1. /\ sim_pid' \in [Pids -> P!Spids] /\ spid_pid' \in [P!Spids -> 0 .. MaxProcesses]
        /\ DOMAIN proc_time' = P!Spids
    BY <1>1, <1>2, <1>3 DEF Booked, PlanType
  <2>2. \A r \in 0 .. sim_proc_count - 1 : proc_time'[r] \in Nat
    BY <1>1, <1>3 DEF Booked, PlanType
  <2> QED BY <1>1, <1>3, <2>1, <2>2 DEF Booked, PlanType
<1>5. Started' = Started \cup {next_pid} /\ next_pid \notin Started
  BY <1>2 DEF Started, Pids
<1>6. \A p \in Started : sim_pid'[p] = sim_pid[p] /\ spid_pid'[sim_pid[p]] = spid_pid[sim_pid[p]]
  <2> SUFFICES ASSUME NEW p \in Started
               PROVE  sim_pid'[p] = sim_pid[p] /\ spid_pid'[sim_pid[p]] = spid_pid[sim_pid[p]]
    OBVIOUS
  <2>1. p \in Pids /\ p # next_pid /\ sim_pid[p] \in P!Spids /\ spid_pid[sim_pid[p]] = p /\ p # 0
    BY <1>5, StartedSpids, PidsType DEF None
  <2> QED BY <1>1, <2>1 DEF Booked, PlanType
<1>7. Agreed'
  <2>1. sim_pid'[next_pid] = s /\ spid_pid'[s] = next_pid
    BY <1>1, <1>2, <1>3 DEF Booked, PlanType
  <2>2. \A p \in Started' : sim_pid'[p] < sim_proc_count' /\ spid_pid'[sim_pid'[p]] = p
    BY <1>1, <1>3, <1>5, <1>6, <2>1, StartedSpids
  <2>3. {sim_pid'[p] : p \in freed} = {sim_pid[p] : p \in freed}
    BY <1>6 DEF Known
  <2>4. {sim_pid'[p] : p \in freed'} = dead'
    BY <1>1, <1>2, <2>3 DEF Booked, Agreed, SameProcesses
  <2> QED BY <2>2, <2>4 DEF Agreed, SameProcesses, Started
<1> QED BY <1>4, <1>7 DEF Booked

\* is_process_finished: the process that is freed is the one marked as dead.
LEMMA FinishBooks ==
  ASSUME TypeOK, Known, Booked, SimFinish
  PROVE  Booked'
<1> DEFINE p == current_process
<1>1. /\ p \in Started /\ freed' = freed \cup {p}
      /\ next_pid' = next_pid /\ Started' = Started
      /\ dead' = dead \cup {sim_pid[p]}
      /\ UNCHANGED <<sim_proc_count, sim_pid, spid_pid, proc_time>>
  BY DEF SimFinish, FinishProcess, P!IsProcessFinished, P!HandOut, Known, Started
<1>2. PlanType'
  BY <1>1 DEF Booked, PlanType, P!Spids
<1>3. {sim_pid'[r] : r \in freed'} = dead'
  BY <1>1 DEF Booked, Agreed, SameProcesses
<1>4. Agreed'
  BY <1>1, <1>3 DEF Booked, Agreed, SameProcesses, Started
<1> QED BY <1>2, <1>4 DEF Booked

\* run_one_time_unit counts the unit for the running process.
LEMMA RunUnitBooks ==
  ASSUME TypeOK, Known, Booked, RunOneTimeUnit, P!RunOneTimeUnit(current_process)
  PROVE  /\ Booked'
         /\ LET s == sim_pid[current_process]
            IN  s \in P!Spids /\ proc_time[s] \in Nat /\ proc_time'[s] = proc_time[s] + 1
<1> DEFINE s == sim_pid[current_process]
<1>1. /\ current_process \in Started
      /\ proc_time' = [proc_time EXCEPT ![s] = @ + 1]
      /\ UNCHANGED <<next_pid, freed, Started, sim_proc_count, sim_pid, spid_pid, dead>>
  BY DEF RunOneTimeUnit, P!RunOneTimeUnit, Known, Started
<1>2. /\ s \in P!Spids /\ s \in Nat /\ s < sim_proc_count
      /\ sim_proc_count \in 0 .. MaxProcesses /\ proc_time[s] \in Nat
      /\ DOMAIN proc_time = P!Spids /\ P!Spids' = P!Spids
  BY <1>1, StartedSpids, ConstantsType DEF Booked, PlanType, P!Spids
<1>3. PlanType'
  <2>1. \A r \in 0 .. sim_proc_count - 1 : proc_time'[r] \in Nat
    BY <1>1, <1>2 DEF Booked, PlanType
  <2> QED BY <1>1, <1>2, <2>1 DEF Booked, PlanType
<1>4. Agreed'
  BY <1>1 DEF Booked, Agreed, SameProcesses, Started
<1> QED BY <1>1, <1>2, <1>3, <1>4 DEF Booked

LEMMA NextBooks == TypeOK /\ Known /\ Booked /\ [SimNext]_simVars => Booked'
<1> SUFFICES ASSUME TypeOK, Known, Booked, [SimNext]_simVars PROVE Booked'
  OBVIOUS
<1> DEFINE Kept == UNCHANGED <<next_pid, freed, sim_proc_count, sim_pid, spid_pid, proc_time, dead>>
<1>1. CASE UNCHANGED simVars
  BY <1>1, UnmovedBooks DEF simVars, vars, planVars
<1>2. CASE SimBegin
  <2>1. Kept
    BY <1>2 DEF SimBegin, BeginTimeUnit, Stop, Goto, P!SetTime, P!SetTimeFatal, P!Exit,
                vars, otherVars
  <2> QED BY <2>1, UnmovedBooks
<1>3. CASE SimIncoming
  <2>1. CASE P!TakeArriving(time) /\ UNCHANGED vars
    BY <2>1, TakeArrivingBooks
  <2>2. CASE P!ArrivingOutOfOrder(time) /\ UNCHANGED vars
    <3>1. Kept
      BY <2>2 DEF P!ArrivingOutOfOrder, P!Exit, vars
    <3> QED BY <3>1, UnmovedBooks
  <2>3. CASE IncomingProcess /\ P!CreateProcess(next_pid)
    BY <2>3, CreateProcessBooks
  <2>4. CASE PromoteWaitingProcesses /\ UNCHANGED planVars
    <3>1. Kept
      BY <2>4 DEF PromoteWaitingProcesses, planVars
    <3> QED BY <3>1, UnmovedBooks
  <2> QED BY <1>3, <2>1, <2>2, <2>3, <2>4 DEF SimIncoming
<1>4. CASE SimDevices
  <2>1. Kept
    BY <1>4 DEF SimDevices, planVars, PageLoadFinished, JobDone, JobDoneStartNext,
       JobDoneOutOfMemory, CompleteOperation, DevicesHandled, SwapOutDone, SwapOutScan,
       NothingToSelect, Dispatch, DispatchFault, UseFreedProcess, Goto, otherVars
  <2> QED BY <2>1, UnmovedBooks
<1>5. CASE SimMemory \/ SimPreempt \/ SimRequestIO
  <2>1. Kept
    BY <1>5 DEF SimMemory, SimPreempt, SimRequestIO, AccessMemory, AccessMemoryFault,
       NoMemoryAccess, Preempt, RequestIO, Goto, otherVars, P!ExecuteMemory, P!RequestIO,
       P!HandOut, planVars
  <2> QED BY <2>1, UnmovedBooks
<1>6. CASE SimFinish
  BY <1>6, FinishBooks
<1>7. CASE SimRun
  <2>1. CASE RunOneTimeUnit /\ P!RunOneTimeUnit(current_process)
    BY <2>1, RunUnitBooks
  <2>2. CASE IdleTimeUnit /\ UNCHANGED planVars
    <3>1. Kept
      BY <2>2 DEF IdleTimeUnit, planVars
    <3> QED BY <3>1, UnmovedBooks
  <2> QED BY <1>7, <2>1, <2>2 DEF SimRun
<1> QED BY <1>1, <1>2, <1>3, <1>4, <1>5, <1>6, <1>7 DEF SimNext

LEMMA BooksKept == SimSpec => [](TypeOK /\ Known /\ Booked)
<1>1. TypeOK /\ Known /\ Booked /\ [SimNext]_simVars => Booked'
  BY NextBooks
<1> QED BY <1>1, InitBooks, PlanDrivesOS, AlwaysKnown, PTL DEF SimSpec

-------------------------------------------------------------------------------
(***************************************************************************)
(* The callbacks, as far as entries are concerned                          *)
(***************************************************************************)

\* What the entries of a plan in use are.
LEMMA EntryType ==
  ASSUME Legible(entries), NEW i \in DOMAIN entries
  PROVE  /\ entries[i].time \in Nat /\ entries[i].spid \in Nat
         /\ entries[i].action \in {"new", "mem", "end", "io"}
BY DEF Legible

\* No entry and no running time changes, but entries are marked as done.
LEMMA MarkedDone ==
  ASSUME PlanInv, Booked', Asked', done \subseteq done', dead \subseteq dead',
         UNCHANGED <<entries, sim_proc_count, proc_time>>
  PROVE  PlanInv'
<1>1. P!Pending' \subseteq P!Pending
  BY DEF P!Pending
<1>2. NothingOverlooked'
  BY <1>1 DEF PlanInv, NothingOverlooked
<1> QED BY <1>2 DEF PlanInv

\* A process taken starts with time 0.
LEMMA TakeArrivingPlan ==
  ASSUME TypeOK, PlanInv, Booked', phase = "incoming", P!TakeArriving(time), UNCHANGED vars
  PROVE  PlanInv'
<1> DEFINE s == sim_proc_count
<1>1. /\ s \in P!Spids /\ s \in Nat /\ s + 1 \in 0 .. MaxProcesses
      /\ sim_proc_count' = s + 1
      /\ proc_time' = [proc_time EXCEPT ![s] = 0]
      /\ done \subseteq done'
      /\ UNCHANGED <<entries, dead>>
  BY ConstantsType
  DEF P!TakeArriving, P!First, P!Arriving, P!Spids, PlanInv, Booked, PlanType
<1>2. P!Pending' \subseteq P!Pending
  BY <1>1 DEF P!Pending
<1>3. Asked'
  BY DEF Asked, vars
<1>4. NothingOverlooked'
  <2> SUFFICES ASSUME NEW i \in P!Pending', entries[i].scope = "process", entries[i].action # "new",
                      entries[i].spid < s + 1, entries[i].spid \notin dead
               PROVE  entries[i].time >= proc_time'[entries[i].spid]
    BY <1>1 DEF NothingOverlooked
  <2>1. i \in P!Pending /\ i \in DOMAIN entries
    BY <1>2 DEF P!Pending
  <2>2. entries[i].time \in Nat /\ entries[i].spid \in Nat
    BY <2>1, EntryType DEF PlanInv
  <2>3. CASE entries[i].spid = s
    BY <1>1, <2>2, <2>3 DEF PlanInv, Booked, PlanType
  <2>4. CASE entries[i].spid # s
    <3>1. proc_time'[entries[i].spid] = proc_time[entries[i].spid]
      BY <1>1, <2>4, <2>2 DEF PlanInv, Booked, PlanType, P!Spids
    <3>2. entries[i].spid < s
      BY <1>1, <2>2, <2>4
    <3> QED BY <2>1, <3>1, <3>2 DEF PlanInv, NothingOverlooked
  <2> QED BY <2>3, <2>4
<1> QED BY <1>1, <1>3, <1>4 DEF PlanInv

\* And has time 0 when it is created.
LEMMA CreateProcessPlan ==
  ASSUME TypeOK, PlanInv, Booked', IncomingProcess, P!CreateProcess(next_pid)
  PROVE  PlanInv'
<1>1. PICK s \in 0 .. sim_proc_count - 1 :
        /\ proc_time' = [proc_time EXCEPT ![s] = 0]
        /\ UNCHANGED <<entries, done, sim_proc_count, dead>>
  BY DEF P!CreateProcess, P!NextToCreate, P!First, P!ToCreate
<1>2. sim_proc_count \in 0 .. MaxProcesses /\ s \in P!Spids
  BY <1>1, ConstantsType DEF PlanInv, Booked, PlanType, P!Spids
<1>3. Asked'
  BY DEF Asked, IncomingProcess
<1>4. NothingOverlooked'
  <2> SUFFICES ASSUME NEW i \in P!Pending, entries[i].scope = "process", entries[i].action # "new",
                      entries[i].spid < sim_proc_count, entries[i].spid \notin dead
               PROVE  entries[i].time >= proc_time'[entries[i].spid]
    BY <1>1 DEF NothingOverlooked, P!Pending
  <2>1. i \in DOMAIN entries /\ entries[i].time \in Nat /\ entries[i].spid \in Nat
    BY EntryType DEF P!Pending, PlanInv
  <2>2. proc_time'[entries[i].spid] \in {0, proc_time[entries[i].spid]}
    BY <1>1, <1>2, <2>1 DEF PlanInv, Booked, PlanType, P!Spids
  <2> QED BY <2>1, <2>2 DEF PlanInv, NothingOverlooked
<1> QED BY <1>1, <1>3, <1>4 DEF PlanInv

\* run_one_time_unit: the process is past no entry, because the plan has been
\* asked for every kind of entry it has.
LEMMA RunUnitPlan ==
  ASSUME TypeOK, Known, PlanInv, Booked', ~Has("end"), ~Has("io"), RunOneTimeUnit,
         P!RunOneTimeUnit(current_process)
  PROVE  PlanInv'
<1> DEFINE s == sim_pid[current_process]
<1>1. /\ current_process # None /\ phase = "cpu" /\ phase' = "begin"
      /\ proc_time' = [proc_time EXCEPT ![s] = @ + 1]
      /\ UNCHANGED <<entries, done, sim_proc_count, dead>>
  BY DEF RunOneTimeUnit, P!RunOneTimeUnit
<1>2. s \in P!Spids /\ proc_time[s] \in Nat /\ proc_time'[s] = proc_time[s] + 1
  BY RunUnitBooks DEF PlanInv
<1>3. Asked'
  BY <1>1 DEF Asked
<1>4. NothingOverlooked'
  <2> SUFFICES ASSUME NEW i \in P!Pending, entries[i].scope = "process", entries[i].action # "new",
                      entries[i].spid < sim_proc_count, entries[i].spid \notin dead
               PROVE  entries[i].time >= proc_time'[entries[i].spid]
    BY <1>1 DEF NothingOverlooked, P!Pending
  <2>1. /\ i \in DOMAIN entries /\ entries[i].time \in Nat /\ entries[i].spid \in Nat
        /\ entries[i].action \in {"mem", "end", "io"}
        /\ entries[i].time >= proc_time[entries[i].spid]
    BY EntryType DEF P!Pending, PlanInv, NothingOverlooked
  <2>2. CASE entries[i].spid # s
    <3>1. sim_proc_count \in 0 .. MaxProcesses /\ DOMAIN proc_time = P!Spids
      BY DEF PlanInv, Booked, PlanType
    <3>2. entries[i].spid \in P!Spids
      BY <2>1, <3>1, ConstantsType DEF P!Spids
    <3> QED BY <1>1, <2>1, <2>2, <3>1, <3>2
  <2>3. CASE entries[i].spid = s
    <3>1. \A action \in {"mem", "end", "io"} : P!Due(time, current_process, action) = {}
      BY <1>1 DEF Has, PlanInv, Asked
    <3>2. entries[i].time # proc_time[s]
      BY <2>1, <2>3, <3>1 DEF P!Due
    <3> QED BY <1>2, <2>1, <2>3, <3>2
  <2> QED BY <2>2, <2>3
<1> QED BY <1>1, <1>3, <1>4 DEF PlanInv

LEMMA NextPlan == TypeOK /\ Known /\ PlanInv /\ [SimNext]_simVars => PlanInv'
<1> SUFFICES ASSUME TypeOK, Known, PlanInv, [SimNext]_simVars PROVE PlanInv'
  OBVIOUS
<1> DEFINE Kept == /\ done \subseteq done' /\ dead \subseteq dead'
                   /\ UNCHANGED <<entries, sim_proc_count, proc_time>>
<1>1. Booked'
  BY NextBooks DEF PlanInv
<1>2. CASE UNCHANGED simVars
  <2>1. Kept /\ Asked'
    BY <1>2 DEF simVars, vars, schedVars, planVars, PlanInv, Asked, P!Due, P!Pending
  <2> QED BY <1>1, <2>1, MarkedDone
<1>3. CASE SimBegin
  <2>1. Kept /\ phase' # "cpu"
    BY <1>3 DEF SimBegin, BeginTimeUnit, Stop, Goto, P!SetTime, P!SetTimeFatal, P!Exit, vars
  <2> QED BY <1>1, <2>1, MarkedDone DEF Asked
<1>4. CASE SimIncoming
  <2>1. CASE P!TakeArriving(time) /\ UNCHANGED vars
    BY <1>1, <1>4, <2>1, TakeArrivingPlan DEF SimIncoming
  <2>2. CASE P!ArrivingOutOfOrder(time) /\ UNCHANGED vars
    <3>1. Kept /\ phase' # "cpu"
      BY <1>4, <2>2 DEF SimIncoming, P!ArrivingOutOfOrder, P!Exit, vars
    <3> QED BY <1>1, <3>1, MarkedDone DEF Asked
  <2>3. CASE IncomingProcess /\ P!CreateProcess(next_pid)
    BY <1>1, <2>3, CreateProcessPlan
  <2>4. CASE PromoteWaitingProcesses /\ UNCHANGED planVars
    <3>1. Kept /\ phase' # "cpu"
      BY <2>4 DEF PromoteWaitingProcesses, planVars
    <3> QED BY <1>1, <3>1, MarkedDone DEF Asked
  <2> QED BY <1>4, <2>1, <2>2, <2>3, <2>4 DEF SimIncoming
<1>5. CASE SimDevices
  <2>1. Kept /\ phase' # "cpu"
    BY <1>5 DEF SimDevices, planVars, PageLoadFinished, JobDone, JobDoneStartNext,
       JobDoneOutOfMemory, CompleteOperation, DevicesHandled, SwapOutDone, SwapOutScan,
       NothingToSelect, Dispatch, DispatchFault, UseFreedProcess, Goto
  <2> QED BY <1>1, <2>1, MarkedDone DEF Asked
<1>6. CASE SimMemory
  <2>1. CASE \E page \in Pages : /\ AccessMemory(page) \/ AccessMemoryFault(page)
                                 /\ P!ExecuteMemory(time, current_process, page)
    <3>1. Kept /\ (phase' = "cpu" => current_process' = None)
      BY <2>1 DEF AccessMemory, AccessMemoryFault, P!ExecuteMemory, P!HandOut
    <3> QED BY <1>1, <3>1, MarkedDone DEF Asked
  <2>2. CASE ~Has("mem") /\ NoMemoryAccess /\ UNCHANGED planVars
    <3>1. UNCHANGED <<current_process, time, planVars>>
      BY <2>2 DEF NoMemoryAccess, Goto, otherVars, schedVars
    <3>2. Kept /\ Asked'
      BY <2>2, <3>1 DEF Has, planVars, Asked, P!Due, P!Pending
    <3> QED BY <1>1, <3>2, MarkedDone
  <2> QED BY <1>6, <2>1, <2>2 DEF SimMemory
<1>7. CASE SimFinish \/ SimPreempt \/ SimRequestIO
  <2>1. Kept /\ phase' # "cpu"
    BY <1>7 DEF SimFinish, SimPreempt, SimRequestIO, FinishProcess, Preempt, RequestIO,
       P!IsProcessFinished, P!RequestIO, P!HandOut, planVars
  <2> QED BY <1>1, <2>1, MarkedDone DEF Asked
<1>8. CASE SimRun
  <2>1. CASE ~Has("end") /\ ~Has("io") /\ RunOneTimeUnit /\ P!RunOneTimeUnit(current_process)
    BY <1>1, <2>1, RunUnitPlan
  <2>2. CASE IdleTimeUnit /\ UNCHANGED planVars
    <3>1. Kept /\ phase' # "cpu"
      BY <2>2 DEF IdleTimeUnit, planVars
    <3> QED BY <1>1, <3>1, MarkedDone DEF Asked
  <2> QED BY <1>8, <2>1, <2>2 DEF SimRun
<1> QED BY <1>2, <1>3, <1>4, <1>5, <1>6, <1>7, <1>8 DEF SimNext

LEMMA PlanKept == SimSpec => [](TypeOK /\ Known /\ PlanInv)
<1>1. TypeOK /\ Known /\ PlanInv /\ [SimNext]_simVars => PlanInv'
  BY NextPlan
<1> QED BY <1>1, InitPlan, BooksKept, PTL DEF SimSpec

-------------------------------------------------------------------------------
(***************************************************************************)
(* The ends of processes                                                   *)
(***************************************************************************)

\* An END that is done has killed its process: set_time does not skip over one
\* and lives.
EndsKill == \A i \in done : entries[i].action = "end" => entries[i].spid \in dead

\* The entries that end process s.
EndsOf(s) == {i \in DOMAIN entries : entries[i].action = "end" /\ entries[i].spid = s}

DeadInTime ==
  \A s \in dead :
    /\ \A i \in EndsOf(s) : entries[i].scope = "process" => proc_time[s] <= entries[i].time
    /\ \E i \in EndsOf(s) \cap done :
         entries[i].scope = "process" => entries[i].time = proc_time[s]

EndInv == done \subseteq DOMAIN entries /\ EndsKill /\ DeadInTime

LEMMA InitEnds == SimInit => EndInv
BY DEF SimInit, P!Init, EndInv, EndsKill, DeadInTime

\* A process that is alive has run past no END: all of its are still pending.
LEMMA LiveInTime ==
  ASSUME PlanInv, EndInv, NEW s \in 0 .. sim_proc_count - 1, s \notin dead,
         NEW i \in EndsOf(s), entries[i].scope = "process"
  PROVE  proc_time[s] <= entries[i].time
<1>1. i \in P!Pending /\ entries[i].spid = s /\ entries[i].action = "end"
  BY DEF EndsOf, EndInv, EndsKill, P!Pending
<1>2. s < sim_proc_count /\ proc_time[s] \in Nat /\ entries[i].time \in Nat
  BY <1>1, EntryType DEF P!Pending, PlanInv, Booked, PlanType
<1>3. entries[i].time >= proc_time[s]
  BY <1>1, <1>2 DEF PlanInv, NothingOverlooked
<1> QED BY <1>2, <1>3

LEMMA InTime ==
  ASSUME PlanInv, EndInv
  PROVE  RunsItsTime
<1> SUFFICES ASSUME NEW s \in 0 .. sim_proc_count - 1
             PROVE  /\ \A i \in EndsOf(s) :
                         entries[i].scope = "process" => proc_time[s] <= entries[i].time
                    /\ s \in dead =>
                         \E i \in EndsOf(s) \cap done :
                           entries[i].scope = "process" => entries[i].time = proc_time[s]
  BY DEF RunsItsTime, EndsOf
<1> QED BY LiveInTime DEF EndInv, DeadInTime

\* The time of a dead process stands still: it is not the one that runs, nor one
\* that is taken or created.
LEMMA DeadStandStill ==
  ASSUME TypeOK, Known, Booked, RunsAlive, [SimNext]_simVars, NEW s \in dead
  PROVE  proc_time'[s] = proc_time[s]
<1>1. PICK r \in freed : sim_pid[r] = s
  BY DEF Booked, Agreed, SameProcesses
<1>2. /\ r \in Started /\ spid_pid[s] = r /\ r # 0
      /\ s \in P!Spids /\ s \in Nat /\ s < sim_proc_count
      /\ DOMAIN proc_time = P!Spids
  BY <1>1, StartedSpids, PidsType DEF Known, None, Booked, PlanType
<1>3. CASE \E t \in P!Spids : t # s /\ \E x : proc_time' = [proc_time EXCEPT ![t] = x]
  BY <1>2, <1>3
<1>4. CASE UNCHANGED proc_time
  BY <1>4
<1>5. CASE SimIncoming
  <2>1. CASE P!TakeArriving(time)
    <3>1. proc_time' = [proc_time EXCEPT ![sim_proc_count] = 0] /\ s # sim_proc_count
      BY <1>2, <2>1 DEF P!TakeArriving, Booked, PlanType
    <3> QED BY <1>2, <3>1
  <2>2. CASE P!CreateProcess(next_pid)
    <3>1. PICK t \in 0 .. sim_proc_count - 1 :
            spid_pid[t] = 0 /\ proc_time' = [proc_time EXCEPT ![t] = 0]
      BY <2>2 DEF P!CreateProcess, P!NextToCreate, P!First, P!ToCreate, P!Created
    <3> QED BY <1>2, <3>1
  <2>3. CASE P!ArrivingOutOfOrder(time) \/ UNCHANGED planVars
    BY <1>4, <2>3 DEF P!ArrivingOutOfOrder, P!Exit, planVars
  <2> QED BY <1>5, <2>1, <2>2, <2>3 DEF SimIncoming
<1>6. CASE SimRun
  <2>1. CASE RunOneTimeUnit /\ P!RunOneTimeUnit(current_process)
    <3>1. /\ current_process \in Started /\ current_process \notin freed
          /\ proc_time' = [proc_time EXCEPT ![sim_pid[current_process]] = @ + 1]
      BY <2>1 DEF RunOneTimeUnit, P!RunOneTimeUnit, Known, RunsAlive
    <3>2. sim_pid[current_process] # s
      BY <1>1, <1>2, <3>1, StartedSpids
    <3> QED BY <1>2, <3>1, <3>2
  <2>2. CASE UNCHANGED planVars
    BY <1>4, <2>2 DEF planVars
  <2> QED BY <1>6, <2>1, <2>2 DEF SimRun
<1>7. CASE SimBegin \/ SimDevices \/ SimMemory \/ SimFinish \/ SimPreempt \/ SimRequestIO
           \/ UNCHANGED simVars
  <2>1. UNCHANGED proc_time
    BY <1>7
    DEF SimBegin, SimDevices, SimMemory, SimFinish, SimPreempt, SimRequestIO, P!SetTime,
        P!SetTimeFatal, P!Exit, P!ExecuteMemory, P!IsProcessFinished, P!RequestIO, P!HandOut,
        planVars, simVars
  <2> QED BY <1>4, <2>1
<1> QED BY <1>5, <1>6, <1>7 DEF SimNext

\* Entries are never marked as not done, and no END is marked but for a process
\* that dies.
LEMMA EndsMarked ==
  ASSUME EndInv, [SimNext]_simVars
  PROVE  /\ done \subseteq done' /\ done' \subseteq DOMAIN entries' /\ UNCHANGED entries
         /\ dead \subseteq dead'
         /\ \A i \in done' \ done : entries[i].action = "end" => entries[i].spid \in dead'
<1>1. CASE SimBegin
  <2>1. CASE P!SetTime(time, TRUE) \/ P!SetTime(time, FALSE)
    BY <2>1 DEF P!SetTime, P!SkipsEnd, P!Skipped, P!Pending, EndInv
  <2>2. CASE P!SetTimeFatal(time)
    BY <2>2 DEF P!SetTimeFatal, P!Exit, EndInv
  <2> QED BY <1>1, <2>1, <2>2 DEF SimBegin
<1>2. CASE SimIncoming
  <2>1. CASE P!TakeArriving(time)
    BY <2>1 DEF P!TakeArriving, P!First, P!Arriving, P!Pending, EndInv
  <2>2. CASE P!ArrivingOutOfOrder(time) \/ P!CreateProcess(next_pid) \/ UNCHANGED planVars
    BY <2>2 DEF P!ArrivingOutOfOrder, P!Exit, P!CreateProcess, planVars, EndInv
  <2> QED BY <1>2, <2>1, <2>2 DEF SimIncoming
<1>3. CASE SimMemory \/ SimRequestIO
  <2>1. CASE \E action \in {"mem", "io"} : \E i \in P!FindEntry(time, current_process, action) :
               P!HandOut(i) /\ UNCHANGED dead
    BY <2>1 DEF P!FindEntry, P!First, P!Due, P!Pending, P!HandOut, EndInv
  <2>2. CASE UNCHANGED planVars
    BY <2>2 DEF planVars, EndInv
  <2> QED BY <1>3, <2>1, <2>2 DEF SimMemory, SimRequestIO, P!ExecuteMemory, P!RequestIO
<1>4. CASE SimFinish
  BY <1>4 DEF SimFinish, P!IsProcessFinished, P!FindEntry, P!First, P!Due, P!Pending,
              P!HandOut, EndInv
<1>5. CASE SimDevices \/ SimPreempt \/ SimRun \/ UNCHANGED simVars
  BY <1>5 DEF SimDevices, SimPreempt, SimRun, P!RunOneTimeUnit, planVars, simVars, EndInv
<1> QED BY <1>1, <1>2, <1>3, <1>4, <1>5 DEF SimNext

\* The process that dies now dies at the END that is handed out for it.
LEMMA DiesInTime ==
  ASSUME TypeOK, Known, PlanInv, EndInv, [SimNext]_simVars, NEW s \in dead' \ dead
  PROVE  /\ UNCHANGED proc_time
         /\ \A i \in EndsOf(s) : entries[i].scope = "process" => proc_time[s] <= entries[i].time
         /\ \E i \in EndsOf(s) \cap done' :
              entries[i].scope = "process" => entries[i].time = proc_time[s]
<1>1. SimFinish
  BY ZenonT(60)
  DEF SimNext, SimBegin, SimIncoming, SimDevices, SimMemory, SimPreempt, SimRequestIO, SimRun,
      P!SetTime, P!SetTimeFatal, P!Exit, P!TakeArriving, P!ArrivingOutOfOrder, P!CreateProcess,
      P!ExecuteMemory, P!RequestIO, P!HandOut, P!RunOneTimeUnit, planVars, simVars
<1>2. PICK i \in P!Due(time, current_process, "end") :
        dead' = dead \cup {sim_pid[current_process]} /\ done' = done \cup {i} /\ UNCHANGED proc_time
  BY <1>1 DEF SimFinish, P!IsProcessFinished, P!FindEntry, P!First, P!HandOut
<1>3. s = sim_pid[current_process] /\ current_process \in Started
  BY <1>1, <1>2 DEF SimFinish, FinishProcess, Known
<1>4. s \in 0 .. sim_proc_count - 1
  BY <1>3, StartedSpids DEF PlanInv, Booked, PlanType
<1>5. /\ i \in EndsOf(s) \cap done'
      /\ entries[i].scope = "process" => entries[i].time = proc_time[s]
  BY <1>2, <1>3 DEF P!Due, P!Pending, EndsOf
<1> QED BY <1>2, <1>4, <1>5, LiveInTime

LEMMA NextEnds ==
  TypeOK /\ Known /\ RunsAlive /\ PlanInv /\ EndInv /\ [SimNext]_simVars => EndInv'
<1> SUFFICES ASSUME TypeOK, Known, RunsAlive, PlanInv, EndInv, [SimNext]_simVars PROVE EndInv'
  OBVIOUS
<1>1. EndsKill' /\ done' \subseteq DOMAIN entries'
  BY EndsMarked DEF EndInv, EndsKill
<1>2. ASSUME NEW s \in dead'
      PROVE  /\ \A i \in EndsOf(s) : entries[i].scope = "process" => proc_time'[s] <= entries[i].time
             /\ \E i \in EndsOf(s) \cap done' :
                  entries[i].scope = "process" => entries[i].time = proc_time'[s]
  <2>1. CASE s \in dead
    <3>1. proc_time'[s] = proc_time[s] /\ done \subseteq done'
      BY <2>1, DeadStandStill, EndsMarked DEF PlanInv
    <3> QED BY <2>1, <3>1 DEF EndInv, DeadInTime
  <2>2. CASE s \notin dead
    BY <1>2, <2>2, DiesInTime
  <2> QED BY <2>1, <2>2
<1>3. \A s : EndsOf(s)' = EndsOf(s)
  BY EndsMarked DEF EndsOf
<1>4. DeadInTime'
  BY <1>2, <1>3, EndsMarked DEF DeadInTime
<1> QED BY <1>1, <1>4 DEF EndInv

-------------------------------------------------------------------------------
(***************************************************************************)
(* The end                                                                 *)
(***************************************************************************)

\* When set_time returns false every process the plan has taken is dead.
AllDead == phase = "stopped" => \A s \in 0 .. sim_proc_count - 1 : s \in dead

\* And the timeline starts no other.
NobodyToCome ==
  phase = "stopped" =>
    \A i \in P!Pending : entries[i].scope = "global" => entries[i].action # "new"

\* Once the loop is left nothing moves; it is left when set_time says so.
LEMMA StoppedBefore ==
  ASSUME [SimNext]_simVars, phase' = "stopped"
  PROVE  \/ phase = "stopped" /\ UNCHANGED simVars
         \/ Stop /\ P!SetTime(time, FALSE)
<1>1. CASE phase = "stopped"
  <2>1. Touched = {}
    BY <1>1 DEF Touched
  <2>2. UNCHANGED simVars
    BY <1>1, <2>1, ZenonT(60)
    DEF SimNext, SimBegin, SimIncoming, SimDevices, SimMemory, SimFinish, SimPreempt,
        SimRequestIO, SimRun, BeginTimeUnit, Stop, PageLoadFinished, JobDone, JobDoneStartNext,
        JobDoneOutOfMemory, CompleteOperation, DevicesHandled, SwapOutDone, SwapOutScan,
        NothingToSelect, Dispatch, DispatchFault, UseFreedProcess, AccessMemory,
        AccessMemoryFault, NoMemoryAccess, FinishProcess, Preempt, RequestIO, RunOneTimeUnit,
        IdleTimeUnit
  <2> QED BY <1>1, <2>2
<1>2. CASE phase # "stopped"
  BY <1>2, ZenonT(60)
  DEF SimNext, SimBegin, SimIncoming, SimDevices, SimMemory, SimFinish, SimPreempt,
      SimRequestIO, SimRun, BeginTimeUnit, PageLoadFinished, JobDone, JobDoneStartNext,
      JobDoneOutOfMemory, CompleteOperation, DevicesHandled, SwapOutDone, SwapOutScan,
      NothingToSelect, Dispatch, DispatchFault, UseFreedProcess, AccessMemory,
      AccessMemoryFault, NoMemoryAccess, FinishProcess, Preempt, RequestIO, RunOneTimeUnit,
      IdleTimeUnit, IncomingProcess, PromoteWaitingProcesses, Goto, simVars, vars
<1> QED BY <1>1, <1>2

LEMMA NextAllDead == AllDead /\ [SimNext]_simVars => AllDead'
<1> SUFFICES ASSUME AllDead, [SimNext]_simVars, phase' = "stopped"
             PROVE  AllDead'
  BY DEF AllDead
<1>1. CASE phase = "stopped" /\ UNCHANGED simVars
  BY <1>1 DEF AllDead, simVars, planVars
<1>2. CASE Stop /\ P!SetTime(time, FALSE)
  BY <1>2 DEF AllDead, P!SetTime, P!MoreToCome
<1> QED BY <1>1, <1>2, StoppedBefore

LEMMA NextNobodyToCome == NobodyToCome /\ [SimNext]_simVars => NobodyToCome'
<1> SUFFICES ASSUME NobodyToCome, [SimNext]_simVars, phase' = "stopped"
             PROVE  NobodyToCome'
  BY DEF NobodyToCome
<1>1. CASE phase = "stopped" /\ UNCHANGED simVars
  BY <1>1 DEF NobodyToCome, simVars, planVars, P!Pending
<1>2. CASE Stop /\ P!SetTime(time, FALSE)
  <2>1. ~P!MoreToCome(time) /\ done' = done \cup P!Skipped(time) /\ UNCHANGED entries
    BY <1>2 DEF P!SetTime
  <2>2. P!Pending' = P!Pending \ P!Skipped(time)
    BY <2>1 DEF P!Pending
  <2> QED BY <2>1, <2>2 DEF P!MoreToCome, NobodyToCome
<1> QED BY <1>1, <1>2, StoppedBefore

\* No process the OS has created is still alive.
LEMMA NobodyLeft ==
  ASSUME TypeOK, Known, Booked, AllDead, phase = "stopped"
  PROVE  Live = {}
<1> SUFFICES ASSUME NEW p \in Live PROVE FALSE
  OBVIOUS
<1>1. p \in Started /\ p \notin freed
  BY DEF Live, Started
<1>2. sim_pid[p] \in dead /\ spid_pid[sim_pid[p]] = p
  BY <1>1, StartedSpids DEF AllDead, Booked, PlanType
<1>3. PICK r \in freed : sim_pid[r] = sim_pid[p]
  BY <1>2 DEF Booked, Agreed, SameProcesses
<1>4. spid_pid[sim_pid[r]] = r
  BY <1>3, StartedSpids DEF Known
<1> QED BY <1>1, <1>2, <1>3, <1>4

LEMMA StoppedDone ==
  ASSUME TypeOK, Known, PlanInv, AllDead, NobodyToCome, OnePlace
  PROVE  StopsWhenDone
<1> SUFFICES ASSUME phase = "stopped"
             PROVE  /\ Live = {}
                    /\ Undisturbed => \A p \in Pids : Places(p) = {}
  BY DEF StopsWhenDone, NobodyToCome
<1>1. Live = {}
  BY NobodyLeft DEF PlanInv
<1>2. Undisturbed => \A p \in Pids : Places(p) = {}
  BY <1>1 DEF OnePlace
<1> QED BY <1>1, <1>2

-------------------------------------------------------------------------------
(***************************************************************************)
(* The work of a time unit                                                 *)
(***************************************************************************)

\* A time unit has an end: a process that gets the CPU is not preempted in the
\* same unit, and a process has finitely many pages to fault on.
UnitsEnd == TimeSlice > 0 /\ IsFiniteSet(Pages)

LEMMA CountType ==
  ASSUME NEW S, IsFiniteSet(S), NEW T, T \subseteq S
  PROVE  /\ IsFiniteSet(T) /\ Cardinality(T) \in Nat /\ Cardinality(S) \in Nat
         /\ Cardinality(T) <= Cardinality(S)
BY FS_Subset, FS_CardinalityType

\* One element has gone.
LEMMA CountWithout ==
  ASSUME NEW S, IsFiniteSet(S), NEW x \in S, NEW T, T \subseteq S \ {x}
  PROVE  /\ Cardinality(T) \in Nat /\ Cardinality(S) \in Nat
         /\ Cardinality(T) <= Cardinality(S) - 1
<1>1. IsFiniteSet(S \ {x}) /\ Cardinality(S \ {x}) = Cardinality(S) - 1
  BY FS_RemoveElement
<1>2. Cardinality(T) <= Cardinality(S \ {x}) /\ Cardinality(T) \in Nat
  BY <1>1, CountType
<1>3. Cardinality(S) \in Nat
  BY FS_CardinalityType
<1> QED BY <1>1, <1>2, <1>3

\* One may have come.
LEMMA CountWith ==
  ASSUME NEW S, IsFiniteSet(S), NEW x, NEW T, T \subseteq S \cup {x}
  PROVE  /\ Cardinality(T) \in Nat /\ Cardinality(S) \in Nat
         /\ Cardinality(T) <= Cardinality(S) + 1
<1>1. /\ IsFiniteSet(S \cup {x})
      /\ Cardinality(S \cup {x}) = IF x \in S THEN Cardinality(S) ELSE Cardinality(S) + 1
  BY FS_AddElement
<1>2. Cardinality(T) <= Cardinality(S \cup {x}) /\ Cardinality(T) \in Nat
  BY <1>1, CountType
<1>3. Cardinality(S) \in Nat
  BY FS_CardinalityType
<1> QED BY <1>1, <1>2, <1>3

LEMMA WorkFinite ==
  ASSUME UnitsEnd
  PROVE  IsFiniteSet(ToLoad) /\ IsFiniteSet(AtDevices) /\ IsFiniteSet(Loads)
<1>1. IsFiniteSet(Pids)
  <2>1. 1 \in Int /\ MaxProcesses \in Int
    BY ConstantsType
  <2> QED BY <2>1, FS_Interval DEF Pids
<1>2. IsFiniteSet(Pids \X Pages)
  BY <1>1, FS_Product DEF UnitsEnd
<1> QED BY <1>1, <1>2, FS_Subset DEF ToLoad, AtDevices, Loads

LEMMA PartsType ==
  ASSUME TypeOK
  PROVE  /\ SliceOver \in {0, 1} /\ PartsLeft \in 0 .. 6
         /\ next_pid \in Nat /\ next_pid <= MaxProcesses + 1 /\ MaxProcesses \in Nat
BY ConstantsType DEF SliceOver, PartsLeft, TypeOK

LEMMA LoopWorkType ==
  ASSUME TypeOK, UnitsEnd
  PROVE  LoopWork \in Nat
<1>1. Cardinality(ToLoad) \in Nat /\ Cardinality(AtDevices) \in Nat /\ Cardinality(Loads) \in Nat
  BY WorkFinite, FS_CardinalityType
<1> QED BY <1>1, PartsType DEF LoopWork

LEMMA LoopWorkTypeNext ==
  ASSUME TypeOK', UnitsEnd
  PROVE  LoopWork' \in Nat
<1>1. (TypeOK /\ UnitsEnd => LoopWork \in Nat)'
  BY LoopWorkType, PTL
<1> QED BY <1>1 DEF UnitsEnd

\* Nothing changes about pages and loads.
LEMMA SamePages ==
  ASSUME UNCHANGED <<page_table, pending_op, op_page>>
  PROVE  ToLoad' = ToLoad /\ Loads' = Loads
BY DEF ToLoad, Loads

LEMMA StayAtDevices ==
  ASSUME UNCHANGED StatusOf
  PROVE  AtDevices' = AtDevices
BY DEF StatusOf, AtDevices

\* A process moves along an edge of its life.
LEMMA MoveAtDevices ==
  ASSUME NEW p \in Pids, NEW from, NEW to, L!Move(p, from, to)
  PROVE  /\ AtDevices' \subseteq AtDevices \cup {p}
         /\ from \in {"waiting", "paging"} => p \in AtDevices
         /\ to \notin {"waiting", "paging"} => AtDevices' \subseteq AtDevices \ {p}
<1>1. Status(p) = from /\ Status(p)' = to /\ \A r \in Pids : r # p => Status(r)' = Status(r)
  BY DEF L!Move
<1> QED BY <1>1 DEF AtDevices

\* A page fault puts the page among those that are being loaded.
LEMMA FaultWork ==
  ASSUME TypeOK, Undisturbed, NEW p \in Pids, NEW g \in Pages, pending_op[p] = "NONE",
         ~Resident(p, g), HandlePageFault(p, g), UNCHANGED page_table
  PROVE  /\ <<p, g>> \in ToLoad /\ ToLoad' \subseteq ToLoad \ {<<p, g>>}
         /\ Loads' \subseteq Loads \cup {p}
<1>1. /\ pending_op' = [pending_op EXCEPT ![p] = "PAGE_LOAD"]
      /\ op_page' = [op_page EXCEPT ![p] = g]
  BY ConstantsType DEF HandlePageFault, Undisturbed
<1>2. /\ pending_op'[p] = "PAGE_LOAD" /\ op_page'[p] = g
      /\ \A r \in Pids : r # p => pending_op'[r] = pending_op[r] /\ op_page'[r] = op_page[r]
  BY <1>1 DEF TypeOK
<1> QED BY <1>2 DEF ToLoad, Loads, Resident

\* The end of an operation loads no page but the one that was being loaded.
LEMMA CompletionWork ==
  ASSUME TypeOK, NEW d \in Devices, NEW p \in Pids, CompleteOperation(d, p)
  PROVE  ToLoad' \subseteq ToLoad /\ Loads' \subseteq Loads
<1>1. /\ pending_op' = [pending_op EXCEPT ![p] = "NONE"] /\ op_page' = op_page
      /\ page_table' = IF pending_op[p] = "PAGE_LOADED"
                       THEN [page_table EXCEPT ![p][op_page[p]] = op_frame[p]]
                       ELSE page_table
      /\ pending_op[p] # "PAGE_LOAD"
  BY DEF CompleteOperation
<1>2. /\ pending_op'[p] = "NONE"
      /\ \A r \in Pids : r # p => pending_op'[r] = pending_op[r] /\ page_table'[r] = page_table[r]
  BY <1>1 DEF TypeOK
<1>3. pending_op[p] = "NONE" => page_table' = page_table
  BY <1>1
<1>4. ASSUME pending_op[p] = "PAGE_LOADED", NEW g \in Pages, page_table'[p][g] = Absent
      PROVE  g # op_page[p] /\ page_table[p][g] = Absent
  BY <1>1, <1>4, NotFrames DEF TypeOK
<1>5. pending_op[p] \in {"NONE", "PAGE_LOADED"}
  BY <1>1 DEF TypeOK
<1>6. \A g \in Pages : <<p, g>> \in ToLoad' => <<p, g>> \in ToLoad
  BY <1>1, <1>3, <1>4, <1>5 DEF ToLoad
<1>7. \A r \in Pids : \A g \in Pages : <<r, g>> \in ToLoad' => <<r, g>> \in ToLoad
  BY <1>1, <1>2, <1>6 DEF ToLoad
<1>8. Loads' \subseteq Loads
  BY <1>2 DEF Loads
<1> QED BY <1>7, <1>8 DEF ToLoad

LEMMA PageLoadFinishedWork ==
  ASSUME TypeOK, NEW d \in Devices, PageLoadFinished(d)
  PROVE  /\ ToLoad' = ToLoad
         /\ dev_process[d] \in Loads /\ Loads' \subseteq Loads \ {dev_process[d]}
<1> DEFINE p == dev_process[d]
<1>1. /\ p \in Pids /\ pending_op[p] = "PAGE_LOAD"
      /\ pending_op' = [pending_op EXCEPT ![p] = "PAGE_LOADED"]
      /\ UNCHANGED <<page_table, op_page>>
  BY DEF PageLoadFinished, NextFinished, Finished, TypeOK
<1>2. /\ pending_op'[p] = "PAGE_LOADED"
      /\ \A r \in Pids : r # p => pending_op'[r] = pending_op[r]
  BY <1>1 DEF TypeOK
<1> QED BY <1>1, <1>2 DEF ToLoad, Loads

\* The steps of the loop for which the plan hands out an entry add less to the
\* work of the loop than an entry counts for.
LEMMA AccessWork ==
  ASSUME UnitsEnd, TypeOK, PlaceInv, FrameInv, Undisturbed, NEW page \in Pages,
         AccessMemory(page) \/ AccessMemoryFault(page)
  PROVE  LoopWork' <= LoopWork
<1> DEFINE l == Cardinality(ToLoad)  k == Cardinality(AtDevices)  m == Cardinality(Loads)
<1>1. IsFiniteSet(ToLoad) /\ IsFiniteSet(AtDevices) /\ IsFiniteSet(Loads)
  BY WorkFinite
<1>2. l \in Nat /\ k \in Nat /\ m \in Nat
  BY <1>1, FS_CardinalityType
<1>3. CASE AccessMemory(page)
  <2>1. ToLoad' = ToLoad /\ Loads' = Loads
    BY <1>3, SamePages DEF AccessMemory
  <2>2. AtDevices' = AtDevices
    BY <1>3, SameStatus, NobodyMoves, StayAtDevices DEF AccessMemory, schedVars
  <2>3. UNCHANGED <<next_pid, SliceOver, PartsLeft>>
    BY <1>3 DEF AccessMemory, schedVars, SliceOver, PartsLeft
  <2> QED BY <1>2, <2>1, <2>2, <2>3, PartsType DEF LoopWork
<1>4. CASE AccessMemoryFault(page)
  <2>1. /\ current_process \in Pids /\ pending_op[current_process] = "NONE"
        /\ ~Resident(current_process, page)
        /\ HandlePageFault(current_process, page) /\ UNCHANGED <<page_table, next_pid>>
        /\ phase = "memory" /\ phase' = "cpu" /\ current_process' = None
    BY <1>4, RunningAway DEF AccessMemoryFault
  <2>2. /\ <<current_process, page>> \in ToLoad
        /\ ToLoad' \subseteq ToLoad \ {<<current_process, page>>}
        /\ Loads' \subseteq Loads \cup {current_process}
    BY <2>1, FaultWork
  <2>3. PICK p \in Pids : AtDevices' \subseteq AtDevices \cup {p}
    BY <1>4, FaultStep, MoveAtDevices DEF L!Fault
  <2>4. Cardinality(ToLoad') \in Nat /\ Cardinality(ToLoad') <= l - 1
    BY <1>1, <2>2, CountWithout
  <2>5. /\ Cardinality(AtDevices') \in Nat /\ Cardinality(AtDevices') <= k + 1
        /\ Cardinality(Loads') \in Nat /\ Cardinality(Loads') <= m + 1
    BY <1>1, <2>2, <2>3, CountWith
  <2>6. SliceOver' = 0 /\ PartsLeft = 2 /\ PartsLeft' = 1
    BY <2>1 DEF SliceOver, PartsLeft
  <2> QED BY <1>2, <2>1, <2>4, <2>5, <2>6, PartsType DEF LoopWork
<1> QED BY <1>3, <1>4

LEMMA LeaveWork ==
  ASSUME UnitsEnd, TypeOK, PlaceInv, FrameInv, Undisturbed,
         FinishProcess \/ \E d \in Devices : RequestIO(d)
  PROVE  LoopWork' <= LoopWork + 9
<1>1. IsFiniteSet(ToLoad) /\ IsFiniteSet(AtDevices) /\ IsFiniteSet(Loads)
  BY WorkFinite
<1>2. Cardinality(ToLoad) \in Nat /\ Cardinality(AtDevices) \in Nat /\ Cardinality(Loads) \in Nat
  BY <1>1, FS_CardinalityType
<1>3. pending_op' = pending_op
  BY RunningAway DEF FinishProcess, procVars, RequestIO, TypeOK
<1>4. ToLoad' = ToLoad /\ Loads' = Loads
  BY <1>3, SamePages DEF FinishProcess, RequestIO, procVars
<1>5. PICK p \in Pids : AtDevices' \subseteq AtDevices \cup {p}
  BY FinishStep, RequestStep, MoveAtDevices DEF L!Finish, L!Request
<1>6. Cardinality(AtDevices') \in Nat /\ Cardinality(AtDevices') <= Cardinality(AtDevices) + 1
  BY <1>1, <1>5, CountWith
<1>7. SliceOver' = 0 /\ PartsLeft = 1 /\ PartsLeft' = 5 /\ UNCHANGED next_pid
  BY DEF FinishProcess, RequestIO, SliceOver, PartsLeft
<1> QED BY <1>2, <1>4, <1>6, <1>7, PartsType DEF LoopWork

\* The steps the loop makes by itself leave it less to do.
LEMMA CompletedWork ==
  ASSUME UnitsEnd, TypeOK, PlaceInv, FrameInv, Undisturbed, NEW d \in Devices,
         JobDone(d) \/ JobDoneStartNext(d) \/ JobDoneOutOfMemory(d)
  PROVE  LoopWork' < LoopWork
<1>1. IsFiniteSet(ToLoad) /\ IsFiniteSet(AtDevices) /\ IsFiniteSet(Loads)
  BY WorkFinite
<1>2. PICK p \in Pids : CompleteOperation(d, p)
  BY DEF JobDone, JobDoneStartNext, JobDoneOutOfMemory
<1>3. ToLoad' \subseteq ToLoad /\ Loads' \subseteq Loads
  BY <1>2, CompletionWork
<1>4. p \in AtDevices /\ AtDevices' \subseteq AtDevices \ {p}
  BY <1>2, CompletionStep, MoveAtDevices DEF L!PageIn, L!Answer
<1>5. /\ Cardinality(ToLoad') \in Nat /\ Cardinality(ToLoad) \in Nat
      /\ Cardinality(ToLoad') <= Cardinality(ToLoad)
      /\ Cardinality(Loads') \in Nat /\ Cardinality(Loads) \in Nat
      /\ Cardinality(Loads') <= Cardinality(Loads)
  BY <1>1, <1>3, CountType
<1>6. /\ Cardinality(AtDevices') \in Nat /\ Cardinality(AtDevices) \in Nat
      /\ Cardinality(AtDevices') <= Cardinality(AtDevices) - 1
  BY <1>1, <1>4, CountWithout
<1>7. UNCHANGED <<next_pid, SliceOver, PartsLeft>>
  BY <1>2 DEF CompleteOperation, SliceOver, PartsLeft
<1> QED BY <1>5, <1>6, <1>7, PartsType DEF LoopWork

LEMMA DispatchWork ==
  ASSUME UnitsEnd, TypeOK, PlaceInv, FrameInv, Undisturbed, Dispatch \/ DispatchFault
  PROVE  LoopWork' < LoopWork
<1>1. IsFiniteSet(ToLoad) /\ IsFiniteSet(AtDevices) /\ IsFiniteSet(Loads)
  BY WorkFinite
<1>2. Cardinality(ToLoad) \in Nat /\ Cardinality(AtDevices) \in Nat /\ Cardinality(Loads) \in Nat
  BY <1>1, FS_CardinalityType
<1>3. CASE Dispatch
  <2>1. ToLoad' = ToLoad /\ Loads' = Loads
    BY <1>3, SamePages DEF Dispatch
  <2>2. PICK p \in Pids : AtDevices' \subseteq AtDevices \ {p}
    BY <1>3, DispatchStep, MoveAtDevices DEF L!Run
  <2>3. AtDevices' \subseteq AtDevices
    BY <2>2
  <2>4. Cardinality(AtDevices') \in Nat /\ Cardinality(AtDevices') <= Cardinality(AtDevices)
    BY <1>1, <2>3, CountType
  <2>5. PartsLeft = 3 /\ PartsLeft' = 2 /\ UNCHANGED next_pid
    BY <1>3 DEF Dispatch, PartsLeft
  <2>6. SliceOver' = 0
    <3>1. time_slice_end' = time + TimeSlice /\ time' = time
      BY <1>3 DEF Dispatch, SliceEnd
    <3>2. time_slice_end' # time'
      BY <3>1, ConstantsType DEF UnitsEnd, TypeOK
    <3> QED BY <3>2 DEF SliceOver
  <2> QED BY <1>2, <2>1, <2>4, <2>5, <2>6, PartsType DEF LoopWork
<1>4. CASE DispatchFault
  <2>1. PICK p \in Pids : SelectNextProcess(p) /\ ~Resident(p, pc[p]) /\ HandlePageFault(p, pc[p])
    BY <1>4 DEF DispatchFault
  <2>2. /\ pending_op[p] = "NONE" /\ pc[p] \in Pages
        /\ UNCHANGED <<page_table, next_pid, current_process>>
    BY <1>4, <2>1, SelectedItems DEF DispatchFault, TypeOK
  <2>3. /\ <<p, pc[p]>> \in ToLoad /\ ToLoad' \subseteq ToLoad \ {<<p, pc[p]>>}
        /\ Loads' \subseteq Loads \cup {p}
    BY <2>1, <2>2, FaultWork
  <2>4. PICK r \in Pids : AtDevices' \subseteq AtDevices \cup {r}
    BY <1>4, RefuseStep, MoveAtDevices DEF L!Refuse
  <2>5. Cardinality(ToLoad') \in Nat /\ Cardinality(ToLoad') <= Cardinality(ToLoad) - 1
    BY <1>1, <2>3, CountWithout
  <2>6. /\ Cardinality(AtDevices') \in Nat /\ Cardinality(AtDevices') <= Cardinality(AtDevices) + 1
        /\ Cardinality(Loads') \in Nat /\ Cardinality(Loads') <= Cardinality(Loads) + 1
    BY <1>1, <2>3, <2>4, CountWith
  <2>7. SliceOver' = 0 /\ PartsLeft = 3 /\ PartsLeft' = 5
    BY <1>4, <2>2 DEF DispatchFault, SliceOver, PartsLeft
  <2> QED BY <1>2, <2>2, <2>5, <2>6, <2>7, PartsType DEF LoopWork
<1> QED BY <1>3, <1>4

LEMMA PreemptWork ==
  ASSUME UnitsEnd, TypeOK, PlaceInv, FrameInv, Undisturbed, Preempt
  PROVE  LoopWork' < LoopWork
<1>1. IsFiniteSet(ToLoad) /\ IsFiniteSet(AtDevices) /\ IsFiniteSet(Loads)
  BY WorkFinite
<1>2. Cardinality(ToLoad) \in Nat /\ Cardinality(AtDevices) \in Nat /\ Cardinality(Loads) \in Nat
  BY <1>1, FS_CardinalityType
<1>3. ToLoad' = ToLoad /\ Loads' = Loads
  BY SamePages DEF Preempt
<1>4. PICK p \in Pids : AtDevices' \subseteq AtDevices \ {p}
  BY PreemptStep, MoveAtDevices DEF L!Preempt
<1>5. AtDevices' \subseteq AtDevices
  BY <1>4
<1>6. Cardinality(AtDevices') \in Nat /\ Cardinality(AtDevices') <= Cardinality(AtDevices)
  BY <1>1, <1>5, CountType
<1>7. /\ SliceOver = 1 /\ SliceOver' = 0 /\ PartsLeft = 1 /\ PartsLeft' = 5
      /\ UNCHANGED next_pid
  BY DEF Preempt, SliceOver, PartsLeft
<1> QED BY <1>2, <1>3, <1>6, <1>7, PartsType DEF LoopWork

LEMMA PageLoadedWork ==
  ASSUME UnitsEnd, TypeOK, NEW d \in Devices, PageLoadFinished(d)
  PROVE  LoopWork' < LoopWork
<1>1. IsFiniteSet(ToLoad) /\ IsFiniteSet(AtDevices) /\ IsFiniteSet(Loads)
  BY WorkFinite
<1>2. Cardinality(ToLoad) \in Nat /\ Cardinality(AtDevices) \in Nat
  BY <1>1, FS_CardinalityType
<1>3. ToLoad' = ToLoad
  BY PageLoadFinishedWork
<1>4. /\ Cardinality(Loads') \in Nat /\ Cardinality(Loads) \in Nat
      /\ Cardinality(Loads') <= Cardinality(Loads) - 1
  BY <1>1, PageLoadFinishedWork, CountWithout
<1>5. AtDevices' = AtDevices
  BY SameStatus, NobodyMoves, StayAtDevices DEF PageLoadFinished, schedVars
<1>6. UNCHANGED <<next_pid, SliceOver, PartsLeft>>
  BY DEF PageLoadFinished, schedVars, SliceOver, PartsLeft
<1> QED BY <1>2, <1>3, <1>4, <1>5, <1>6, PartsType DEF LoopWork

LEMMA ArriveWork ==
  ASSUME UnitsEnd, TypeOK, PlaceInv, Undisturbed,
         IncomingProcess \/ PromoteWaitingProcesses
  PROVE  LoopWork' < LoopWork
<1>1. IsFiniteSet(ToLoad) /\ IsFiniteSet(AtDevices) /\ IsFiniteSet(Loads)
  BY WorkFinite
<1>2. Cardinality(ToLoad) \in Nat /\ Cardinality(AtDevices) \in Nat /\ Cardinality(Loads) \in Nat
  BY <1>1, FS_CardinalityType
<1>3. ToLoad' = ToLoad /\ Loads' = Loads
  BY SamePages DEF IncomingProcess, PromoteWaitingProcesses, procVars
<1>4. AtDevices' \subseteq AtDevices
  <2>1. CASE IncomingProcess
    <3>1. PICK p \in Pids : AtDevices' \subseteq AtDevices \ {p}
      BY <2>1, ArriveStep, MoveAtDevices DEF L!Arrive
    <3> QED BY <3>1
  <2>2. CASE PromoteWaitingProcesses
    BY <2>2, PromoteStep, StayAtDevices
  <2> QED BY <2>1, <2>2
<1>5. Cardinality(AtDevices') \in Nat /\ Cardinality(AtDevices') <= Cardinality(AtDevices)
  BY <1>1, <1>4, CountType
<1>6. UNCHANGED SliceOver
  BY DEF IncomingProcess, PromoteWaitingProcesses, SliceOver
<1>7. \/ next_pid' = next_pid + 1 /\ PartsLeft' = PartsLeft
      \/ next_pid' = next_pid /\ PartsLeft = 6 /\ PartsLeft' = 5
  BY DEF IncomingProcess, PromoteWaitingProcesses, PartsLeft
<1> QED BY <1>2, <1>3, <1>5, <1>6, <1>7, PartsType DEF LoopWork

\* The steps that only move on in the loop body.
LEMMA GotoWork ==
  ASSUME UnitsEnd, TypeOK, UNCHANGED otherVars, PartsLeft' < PartsLeft
  PROVE  LoopWork' < LoopWork
<1>1. Cardinality(ToLoad) \in Nat /\ Cardinality(AtDevices) \in Nat /\ Cardinality(Loads) \in Nat
  BY WorkFinite, FS_CardinalityType
<1>2. ToLoad' = ToLoad /\ Loads' = Loads
  BY SamePages DEF otherVars, procVars
<1>3. AtDevices' = AtDevices
  BY SameStatus, NobodyMoves, StayAtDevices DEF otherVars, procVars, schedVars
<1>4. UNCHANGED <<next_pid, SliceOver>>
  BY DEF otherVars, schedVars, SliceOver
<1>5. PartsLeft \in Nat /\ PartsLeft' \in Nat
  BY DEF PartsLeft
<1> QED BY <1>1, <1>2, <1>3, <1>4, <1>5, PartsType DEF LoopWork

LEMMA OwnWork ==
  ASSUME UnitsEnd, TypeOK, PlaceInv, FrameInv, Undisturbed,
         \/ IncomingProcess \/ PromoteWaitingProcesses
         \/ \E d \in Devices : \/ PageLoadFinished(d) \/ JobDone(d)
                               \/ JobDoneStartNext(d) \/ JobDoneOutOfMemory(d)
         \/ DevicesHandled \/ SwapOutDone \/ SwapOutScan
         \/ NothingToSelect \/ Dispatch \/ DispatchFault
         \/ phase # "begin" /\ UseFreedProcess
         \/ NoMemoryAccess \/ Preempt
  PROVE  LoopWork' < LoopWork
<1>1. CASE DevicesHandled \/ SwapOutDone \/ NothingToSelect \/ NoMemoryAccess
  <2>1. UNCHANGED otherVars /\ PartsLeft' < PartsLeft
    BY <1>1 DEF DevicesHandled, SwapOutDone, NothingToSelect, NoMemoryAccess, Goto, PartsLeft
  <2> QED BY <2>1, GotoWork
<1>2. CASE phase # "begin" /\ UseFreedProcess
  <2>1. UNCHANGED otherVars /\ phase' = "undefined" /\ Touched # {}
    BY <1>2 DEF UseFreedProcess, Goto
  <2>2. phase \in {"incoming", "devices", "swapout", "select"}
    BY <1>2, <2>1 DEF Touched
  <2>3. PartsLeft' < PartsLeft
    BY <2>1, <2>2 DEF PartsLeft
  <2> QED BY <2>1, <2>3, GotoWork
<1>3. CASE SwapOutScan
  BY <1>3 DEF SwapOutScan, Undisturbed
<1> QED BY <1>1, <1>2, <1>3, ArriveWork, PageLoadedWork, CompletedWork, DispatchWork, PreemptWork

LEMMA PendingFinite ==
  ASSUME Legible(entries)
  PROVE  IsFiniteSet(P!Pending) /\ Cardinality(P!Pending) \in Nat
BY FS_Subset, FS_CardinalityType DEF Legible, P!Pending

\* A step for which no entry is handed out.
LEMMA UnaskedUnit ==
  ASSUME UnitsEnd, TypeOK, TypeOK', Legible(entries), UNCHANGED <<entries, done>>,
         LoopWork' < LoopWork
  PROVE  UnitWork' \in 0 .. UnitWork - 1
<1>1. P!Pending' = P!Pending
  BY DEF P!Pending
<1>2. LoopWork \in Nat /\ LoopWork' \in Nat
  BY LoopWorkType, LoopWorkTypeNext
<1> QED BY <1>1, <1>2, PendingFinite DEF UnitWork

\* One for which entry i is.
LEMMA AskedUnit ==
  ASSUME UnitsEnd, TypeOK, TypeOK', Legible(entries), NEW i \in P!Pending,
         done' = done \cup {i}, entries' = entries, LoopWork' <= LoopWork + 9
  PROVE  UnitWork' \in 0 .. UnitWork - 1
<1>1. P!Pending' \subseteq P!Pending \ {i}
  BY DEF P!Pending
<1>2. /\ Cardinality(P!Pending') \in Nat /\ Cardinality(P!Pending) \in Nat
      /\ Cardinality(P!Pending') <= Cardinality(P!Pending) - 1
  BY <1>1, PendingFinite, CountWithout
<1>3. LoopWork \in Nat /\ LoopWork' \in Nat
  BY LoopWorkType, LoopWorkTypeNext
<1> QED BY <1>2, <1>3 DEF UnitWork

LEMMA UnitStep ==
  ASSUME UnitsEnd, TypeOK, TypeOK', PlaceInv, FrameInv, Legible(entries), [SimNext]_simVars,
         phase # "begin", phase' # "begin", Undisturbed', ~exited'
  PROVE  UnitWork' \in 0 .. UnitWork - 1 \/ UNCHANGED simVars
<1>1. Undisturbed
  BY StepOfOS, UndisturbedBefore
<1>2. CASE SimIncoming
  <2>1. CASE P!TakeArriving(time) /\ UNCHANGED vars
    <3>1. PICK i \in P!Pending : done' = done \cup {i} /\ entries' = entries
      BY <2>1 DEF P!TakeArriving, P!First, P!Arriving
    <3>2. LoopWork' = LoopWork
      <4>1. ToLoad' = ToLoad /\ Loads' = Loads
        BY <2>1, SamePages DEF vars, procVars
      <4>2. AtDevices' = AtDevices
        BY <2>1, SameStatus, NobodyMoves, StayAtDevices DEF vars, procVars, schedVars
      <4>3. UNCHANGED <<next_pid, SliceOver, PartsLeft>>
        BY <2>1 DEF vars, schedVars, SliceOver, PartsLeft
      <4> QED BY <4>1, <4>2, <4>3 DEF LoopWork
    <3>3. LoopWork' <= LoopWork + 9
      BY <3>2, LoopWorkType
    <3> QED BY <3>1, <3>3, AskedUnit
  <2>2. CASE P!ArrivingOutOfOrder(time)
    BY <2>2 DEF P!ArrivingOutOfOrder, P!Exit
  <2>3. CASE IncomingProcess /\ P!CreateProcess(next_pid)
    BY <1>1, <2>3, OwnWork, UnaskedUnit DEF P!CreateProcess
  <2>4. CASE PromoteWaitingProcesses /\ UNCHANGED planVars
    BY <1>1, <2>4, OwnWork, UnaskedUnit DEF planVars
  <2> QED BY <1>2, <2>1, <2>2, <2>3, <2>4 DEF SimIncoming
<1>3. CASE SimDevices \/ SimPreempt
  <2>1. LoopWork' < LoopWork
    BY <1>1, <1>3, OwnWork DEF SimDevices, SimPreempt
  <2> QED BY <1>3, <2>1, UnaskedUnit DEF SimDevices, SimPreempt, planVars
<1>4. CASE SimMemory
  <2>1. ASSUME NEW page \in Pages, AccessMemory(page) \/ AccessMemoryFault(page),
               P!ExecuteMemory(time, current_process, page)
        PROVE  UnitWork' \in 0 .. UnitWork - 1
    <3>1. PICK i \in P!Pending : done' = done \cup {i} /\ entries' = entries
      BY <2>1 DEF P!ExecuteMemory, P!FindEntry, P!First, P!Due, P!HandOut
    <3>2. LoopWork' <= LoopWork
      BY <1>1, <2>1, AccessWork
    <3>3. LoopWork' <= LoopWork + 9
      BY <3>2, LoopWorkType, LoopWorkTypeNext
    <3> QED BY <3>1, <3>3, AskedUnit
  <2>2. CASE NoMemoryAccess /\ UNCHANGED planVars
    BY <1>1, <2>2, OwnWork, UnaskedUnit DEF planVars
  <2> QED BY <1>4, <2>1, <2>2 DEF SimMemory
<1>5. CASE SimFinish \/ SimRequestIO
  <2>1. LoopWork' <= LoopWork + 9
    BY <1>1, <1>5, LeaveWork DEF SimFinish, SimRequestIO
  <2>2. PICK i \in P!Pending : done' = done \cup {i} /\ entries' = entries
    BY <1>5 DEF SimFinish, SimRequestIO, P!IsProcessFinished, P!RequestIO, P!FindEntry, P!First,
                P!Due, P!HandOut
  <2> QED BY <2>1, <2>2, AskedUnit
<1>6. CASE SimBegin \/ SimRun
  BY <1>6 DEF SimBegin, SimRun, BeginTimeUnit, Stop, RunOneTimeUnit, IdleTimeUnit
<1> QED BY <1>2, <1>3, <1>4, <1>5, <1>6 DEF SimNext

-------------------------------------------------------------------------------
(***************************************************************************)
(* The theorems                                                            *)
(***************************************************************************)

\* No entry of a live process is ever at a time its process has run past,
\* however long the process waits.
THEOREM NoneOverlooked == SimSpec => []NothingOverlooked
<1>1. PlanInv => NothingOverlooked
  BY DEF PlanInv
<1> QED BY <1>1, PlanKept, PTL

\* A process runs for the time of its END and dies then, however often it was
\* interrupted; it may die before, when the timeline says so.
THEOREM EndedInTime == SimSpec => []RunsItsTime
<1>1. PlanInv /\ EndInv => RunsItsTime
  BY InTime
<1> QED BY <1>1, InitEnds, NextEnds, PlanKept, PlanDrivesOS, AlwaysRunsAlive, PTL DEF SimSpec

\* As long as nobody waits for a frame, every step within a time unit leaves less to
\* do in it, so the unit comes to its end.  Not so with a time slice of 0: then a
\* process is preempted in the unit it gets the CPU, and gets it again.
THEOREM UnitsAdvance ==
  ASSUME UnitsEnd
  PROVE  SimSpec => UnitAdvances
<1>1. /\ TypeOK /\ TypeOK' /\ PlaceInv /\ FrameInv /\ PlanInv /\ [SimNext]_simVars
      => [phase # "begin" /\ phase' # "begin" /\ Undisturbed' /\ ~exited'
            => UnitWork' \in 0 .. UnitWork - 1]_simVars
  BY UnitStep DEF PlanInv
<1> QED BY <1>1, PlanKept, PlanDrivesOS, FrameInvHolds, PTL DEF SimSpec, UnitAdvances

\* The pid map is right about every process created, and a process is dead for
\* the plan exactly when the OS has disposed of it, also when memory runs out.
THEOREM ProcessesAgree == SimSpec => []SameProcesses
<1>1. Booked => SameProcesses
  BY DEF Booked, Agreed
<1> QED BY <1>1, BooksKept, PTL

\* The loop is left only when no process is to come, none lives, and, unless
\* memory has run out, no queue and no device holds one.
THEOREM StopsClean == SimSpec => []StopsWhenDone
<1>1. SimInit => AllDead /\ NobodyToCome
  BY DEF SimInit, Init, AllDead, NobodyToCome
<1>2. AllDead /\ NobodyToCome /\ [SimNext]_simVars => AllDead' /\ NobodyToCome'
  BY NextAllDead, NextNobodyToCome
<1>3. TypeOK /\ Known /\ PlanInv /\ AllDead /\ NobodyToCome /\ OnePlace => StopsWhenDone
  BY StoppedDone
<1> QED BY <1>1, <1>2, <1>3, PlanKept, PlanDrivesOS, HeldOnce, PTL DEF SimSpec

===============================================================================

------------------------------- MODULE Simulator -------------------------------
(***************************************************************************)
(* The whole program: the main loop of OS driven by a text plan.  Where OS *)
(* lets the plan give any answer, here TxtPlan gives its own; the order in *)
(* which the loop body asks (memory, end, preemption, I/O) is main.c's.    *)
(***************************************************************************)
EXTENDS OS

CONSTANTS
  Plans,        \* the plans to run, each a sequence of timeline entries
  UnsetTimes    \* see TxtPlan

\* Times and processes are counted from 0.
Legible(plan) ==
  /\ IsFiniteSet(DOMAIN plan)
  /\ \A i \in DOMAIN plan :
       /\ plan[i].time \in Nat /\ plan[i].spid \in Nat
       /\ plan[i].action \in {"new", "mem", "end", "io"}

ASSUME PlansAssumption == \A plan \in Plans : Legible(plan)

VARIABLES
  entries, done, sim_proc_count, sim_pid, spid_pid, proc_time, dead, exited

P == INSTANCE TxtPlan

planVars == <<entries, done, sim_proc_count, sim_pid, spid_pid, proc_time, dead, exited>>
simVars  == <<vars, planVars>>

SimInit == Init /\ P!Init(Plans)

-------------------------------------------------------------------------------
\* The call of set_time at the top of the loop.
SimBegin ==
  \/ BeginTimeUnit /\ P!SetTime(time, TRUE)
  \/ Stop /\ P!SetTime(time, FALSE)
  \/ phase = "begin" /\ Touched \cap freed = {} /\ P!SetTimeFatal(time) /\ UNCHANGED vars

\* The plan first takes all processes of the time, then main creates them.
SimIncoming ==
  /\ phase = "incoming"
  /\ ~exited
  /\ \/ P!TakeArriving(time) /\ UNCHANGED vars
     \/ P!ArrivingOutOfOrder(time) /\ UNCHANGED vars
     \/ P!Arriving(time) = {} /\ IncomingProcess /\ P!CreateProcess(next_pid)
     \/ /\ P!Arriving(time) = {} /\ P!ToCreate = {}
        /\ PromoteWaitingProcesses
        /\ UNCHANGED planVars

\* The parts of the loop body that do not ask the plan.
SimDevices ==
  /\ UNCHANGED planVars
  /\ \/ \E d \in Devices : \/ PageLoadFinished(d) \/ JobDone(d)
                           \/ JobDoneStartNext(d) \/ JobDoneOutOfMemory(d)
     \/ DevicesHandled
     \/ SwapOutDone \/ SwapOutScan
     \/ NothingToSelect \/ Dispatch \/ DispatchFault
     \/ UseFreedProcess

\* An entry of the running process for its memory accesses, its end, its I/O.
Has(action) ==
  current_process # None /\ P!Due(time, current_process, action) # {}

SimMemory ==
  \/ \E page \in Pages : /\ AccessMemory(page) \/ AccessMemoryFault(page)
                         /\ P!ExecuteMemory(time, current_process, page)
  \/ ~Has("mem") /\ NoMemoryAccess /\ UNCHANGED planVars

SimFinish ==
  /\ Has("end")
  /\ FinishProcess
  /\ P!IsProcessFinished(time, current_process)

SimPreempt == ~Has("end") /\ Preempt /\ UNCHANGED planVars

SimRequestIO ==
  /\ ~Has("end")
  /\ \E d \in Devices : RequestIO(d) /\ P!RequestIO(time, current_process, d)

\* Mutant: the plan is not asked whether the process ends.
SimRunPastEnd ==
  \/ ~Has("io") /\ RunOneTimeUnit /\ P!RunOneTimeUnit(current_process)
  \/ IdleTimeUnit /\ UNCHANGED planVars

\* Mutant: the plan is not asked for I/O.
SimRunUnasked ==
  \/ ~Has("end") /\ RunOneTimeUnit /\ P!RunOneTimeUnit(current_process)
  \/ IdleTimeUnit /\ UNCHANGED planVars

SimRun ==
  \/ ~Has("end") /\ ~Has("io") /\ RunOneTimeUnit /\ P!RunOneTimeUnit(current_process)
  \/ IdleTimeUnit /\ UNCHANGED planVars

SimNext ==
  \/ SimBegin
  \/ SimIncoming
  \/ SimDevices
  \/ SimMemory
  \/ SimFinish
  \/ SimPreempt
  \/ SimRequestIO
  \/ SimRun

SimSpec == SimInit /\ [][SimNext]_simVars

-------------------------------------------------------------------------------
(***************************************************************************)
(* Properties                                                              *)
(***************************************************************************)

\* Entries of the [process N] sections of the processes that are alive: their
\* times are times the process has not yet run past.  So none is skipped by
\* set_time, however long the process waits for the CPU, a page or a device:
\* "times in this section are relative to the running time of the process"
\* (mem_man_test_plan.txt:16).  Nobody asks for a `new' in such a section.
NothingOverlooked ==
  \A i \in P!Pending :
    LET e == entries[i]
    IN  /\ e.scope = "process" /\ e.action # "new"
        /\ e.spid < sim_proc_count /\ e.spid \notin dead
        => e.time >= proc_time[e.spid]

\* No process runs past an END of its section, whether it is alive or dead, and
\* one that is dead was ended at one, or by the timeline: "end - terminates the
\* process" (mem_man_test_plan.txt:21) when it has run for exactly the time of
\* the entry, also when faults, preemptions and I/O came between its units.
RunsItsTime ==
  \A s \in 0 .. sim_proc_count - 1 :
    LET Ends(i) == entries[i].action = "end" /\ entries[i].spid = s
    IN  /\ \A i \in DOMAIN entries :
             Ends(i) /\ entries[i].scope = "process" => proc_time[s] <= entries[i].time
        /\ s \in dead =>
             \E i \in done :
               Ends(i) /\ (entries[i].scope = "process" => entries[i].time = proc_time[s])

\* The OS and the plan mean the same process: the CPU runs the live process
\* whose time the plan counts, and exactly the disposed ones are dead.
SameProcesses ==
  /\ \A pid \in 1 .. next_pid - 1 : spid_pid[sim_pid[pid]] = pid
  /\ {sim_pid[pid] : pid \in freed} = dead

\* A simulation that stops has nothing left: no process to come, and none with
\* the CPU or a device or in a queue, unless memory has run out
\* (sim_plan_txt.c:211).
StopsWhenDone ==
  phase = "stopped" =>
    /\ Live = {}
    /\ Undisturbed => \A p \in Pids : Places(p) = {}
    /\ \A i \in P!Pending : entries[i].scope = "global" => entries[i].action # "new"

\* What the loop itself has left to do in a time unit: pages to load and the
\* preemption, which send it back to the devices with a process more to be
\* answered there, and count for ten; the answers; the processes to create; the
\* parts of the loop body.
ToLoad ==
  {x \in Pids \X Pages : /\ page_table[x[1]][x[2]] = Absent
                         /\ pending_op[x[1]] # "NONE" => op_page[x[1]] # x[2]}
SliceOver == IF current_process # None /\ time_slice_end = time THEN 1 ELSE 0
AtDevices == {p \in Pids : Status(p) \in {"waiting", "paging"}}
Loads     == {p \in Pids : pending_op[p] = "PAGE_LOAD"}
PartsLeft ==
  CASE phase = "incoming" -> 6 [] phase = "devices" -> 5 [] phase = "swapout" -> 4
    [] phase = "select" -> 3   [] phase = "memory" -> 2  [] phase = "cpu" -> 1
    [] OTHER -> 0
LoopWork ==
  10 * (Cardinality(ToLoad) + SliceOver) + Cardinality(AtDevices) + Cardinality(Loads)
    + (MaxProcesses + 1 - next_pid) + PartsLeft

\* And the entries of the plan, each handed out once: they count for ten too.
UnitWork == 10 * Cardinality(P!Pending) + LoopWork

\* As long as nobody waits for a frame, every step within a time unit leaves less
\* to do in it.  So the inner loop of main, which goes round again after each
\* finished job, fault, preemption and request, is left after finitely many
\* rounds, and in no unit can processes take turns for ever.
UnitAdvances ==
  [][phase # "begin" /\ phase' # "begin" /\ Undisturbed' /\ ~exited'
       => UnitWork' \in 0 .. UnitWork - 1]_simVars

===============================================================================

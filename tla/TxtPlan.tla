-------------------------------- MODULE TxtPlan --------------------------------
(***************************************************************************)
(* The simulation plan read from a text file, src/src/sim_plan_txt.c after *)
(* parsing: the timelines and the simulated processes.  The operations are *)
(* the callbacks the main loop makes; Simulator calls them.                *)
(*                                                                         *)
(* `entries' is the [timeline] followed by the entries of the [process N]  *)
(* sections, in the order of the file.  An entry of the [timeline] is for  *)
(* a time of the OS, the others for a running time of their process.       *)
(***************************************************************************)
EXTENDS Integers, Sequences

CONSTANTS
  MaxProcesses,    \* MAX_PROCESSES, also the capacity of sim_procs
  UnsetTimes       \* what sim_procs[].proc_time may hold before it is written

VARIABLES
  entries,         \* index -> [scope, time, action, spid, arg]
  done,            \* the indices of the entries marked as done
  sim_proc_count,  \* processes taken from the timeline so far
  sim_pid,         \* pid -> spid: the map `pid_map'
  spid_pid,        \* spid -> pid (sim_procs[].pid), 0 when not created
  proc_time,       \* spid -> time units it has run (sim_procs[].proc_time)
  dead,            \* spids whose END has been handed out
  exited           \* the plan has called exit(1)

Spids == 0 .. MaxProcesses - 1

Pending == DOMAIN entries \ done
First(s) == {i \in s : \A j \in s : i <= j}

--------------------------------------------------------------------------------
\* The state plan_txt_init leaves, with a plan from the set `plans'.  sim_procs
\* is allocated and not cleared: proc_time is read before it is written (183).
Init(plans) ==
  /\ entries \in plans
  /\ done = {}
  /\ sim_proc_count = 0
  /\ sim_pid = [pid \in 1 .. MaxProcesses |-> 0]
  /\ spid_pid = [s \in Spids |-> 0]
  /\ proc_time \in [Spids -> UnsetTimes]
  /\ dead = {}
  /\ exited = FALSE

(***************************************************************************)
(* set_time                                                                *)
(***************************************************************************)

\* The entries whose time is past, that is those nobody asked for in time.
Skipped(time) ==
  {i \in Pending :
     IF entries[i].scope = "global"
     THEN entries[i].time < time
     ELSE time > 0 /\ entries[i].time < proc_time[entries[i].spid]}

\* Skipping over an END action is fatal.
SkipsEnd(time) == \E i \in Skipped(time) : entries[i].action = "end"

\* Mutant: processes still to come are not looked at.
MoreToComeAlive(time) == \E s \in 0 .. sim_proc_count - 1 : s \notin dead

\* There are processes to come or alive.
MoreToCome(time) ==
  \/ \E i \in Pending \ Skipped(time) :
       entries[i].scope = "global" /\ entries[i].action = "new"
  \/ \E s \in 0 .. sim_proc_count - 1 : s \notin dead

SetTime(time, more) ==
  /\ ~exited
  /\ ~SkipsEnd(time)
  /\ more <=> MoreToCome(time)
  /\ done' = done \cup Skipped(time)
  /\ UNCHANGED <<entries, sim_proc_count, sim_pid, spid_pid, proc_time, dead, exited>>

Exit ==
  /\ exited' = TRUE
  /\ UNCHANGED <<entries, done, sim_proc_count, sim_pid, spid_pid, proc_time, dead>>

SetTimeFatal(time) == ~exited /\ SkipsEnd(time) /\ Exit

(***************************************************************************)
(* incoming_processes and create_process                                   *)
(***************************************************************************)

\* The processes of the timeline that start now, while there is room.
Arriving(time) ==
  IF sim_proc_count >= MaxProcesses THEN {}
  ELSE {i \in Pending : /\ entries[i].scope = "global" /\ entries[i].action = "new"
                        /\ entries[i].time = time}

\* One of them is taken; sim_pids have to come in order.
TakeArriving(time) ==
  \E i \in First(Arriving(time)) :
    /\ ~exited
    /\ entries[i].spid = sim_proc_count
    /\ sim_proc_count' = sim_proc_count + 1
    /\ spid_pid' = [spid_pid EXCEPT ![sim_proc_count] = 0]
    /\ proc_time' = [proc_time EXCEPT ![sim_proc_count] = 0]
    /\ done' = done \cup {i}
    /\ UNCHANGED <<entries, sim_pid, dead, exited>>

ArrivingOutOfOrder(time) ==
  \E i \in First(Arriving(time)) :
    ~exited /\ entries[i].spid # sim_proc_count /\ Exit

\* Processes taken whose pid is not set.
Created == {s \in 0 .. sim_proc_count - 1 : spid_pid[s] # 0}
ToCreate == 0 .. sim_proc_count - 1 \ Created

\* The sim_proc a new pid is given.
NextToCreate == First(ToCreate)

CreateProcess(pid) ==
  \E s \in NextToCreate :
    /\ ~exited
    /\ sim_pid' = [sim_pid EXCEPT ![pid] = s]
    /\ spid_pid' = [spid_pid EXCEPT ![s] = pid]
    /\ proc_time' = [proc_time EXCEPT ![s] = 0]
    /\ UNCHANGED <<entries, done, sim_proc_count, dead, exited>>

(***************************************************************************)
(* find_entry and the callbacks that hand out an entry of a process        *)
(***************************************************************************)

\* The entries of the process for the current time, its own or the OS's.
Due(time, pid, action) ==
  {i \in Pending :
     /\ sim_pid[pid] \notin dead
     /\ entries[i].spid = sim_pid[pid]
     /\ entries[i].action = action
     /\ entries[i].time = IF entries[i].scope = "global" THEN time
                          ELSE proc_time[sim_pid[pid]]}

FindEntry(time, pid, action) == First(Due(time, pid, action))

HandOut(i) ==
  /\ done' = done \cup {i}
  /\ UNCHANGED <<entries, sim_proc_count, sim_pid, spid_pid, proc_time, exited>>

\* Mutant: the process is not marked as dead.
FinishedStillAlive(time, pid) ==
  \E i \in FindEntry(time, pid, "end") : HandOut(i) /\ UNCHANGED dead

IsProcessFinished(time, pid) ==
  \E i \in FindEntry(time, pid, "end") :
    /\ HandOut(i)
    /\ dead' = dead \cup {sim_pid[pid]}

RequestIO(time, pid, device) ==
  \E i \in FindEntry(time, pid, "io") :
    /\ device = entries[i].arg
    /\ HandOut(i)
    /\ UNCHANGED dead

ExecuteMemory(time, pid, page) ==
  \E i \in FindEntry(time, pid, "mem") :
    /\ page = entries[i].arg
    /\ HandOut(i)
    /\ UNCHANGED dead

RunOneTimeUnit(pid) ==
  /\ proc_time' = [proc_time EXCEPT ![sim_pid[pid]] = @ + 1]
  /\ UNCHANGED <<entries, done, sim_proc_count, sim_pid, spid_pid, dead, exited>>

================================================================================

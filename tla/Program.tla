-------------------------------- MODULE Program --------------------------------
(***************************************************************************)
(* The program from the first line of the plan file to the last block of   *)
(* memory: main of src/src/main.c.  PlanFile reads and prints the plan,    *)
(* Simulator runs it, Heap keeps the memory.                               *)
(***************************************************************************)
EXTENDS Report

CONSTANTS
  MaxTimeSlice, MaxSupportedFrames, MaxWorkingSetSize,
  MaxDevices    \* MAX_NUMBER_OF_DEVICES; all of config.h

VARIABLES
  file, mode, current_sim_pid, settings, devices, global_timeline, proc_timeline,
  copy_of, outcome, heap

F == INSTANCE PlanFile
H == INSTANCE Heap

fileVars    == <<file, mode, current_sim_pid, settings, devices, global_timeline,
                 proc_timeline, copy_of, outcome>>
programVars == <<simVars, fileVars, heap>>

IsPowerOf2(x) == x \in {2^k : k \in 0 .. 30}

\* print_constants comes first, and does not accept every config.h.
ProgramInit(files) ==
  /\ SimInit /\ F!Init(files) /\ H!Init
  /\ outcome = IF IsPowerOf2(MaxSupportedFrames) THEN "reading" ELSE "exit"

\* The OS of this instance is the one the plan describes (get_os_settings,
\* create_device, get_swap_device).
Configured ==
  /\ LET conf == F!GetOsSettings
     IN  /\ TimeSlice = Clamp(conf["time_slice"], 0, MaxTimeSlice)
         /\ MaxWorkingSet = Clamp(conf["max_working_set"], 0, MaxWorkingSetSize)
         /\ FrameCount = Clamp(conf["memory_frames"], 0, MaxSupportedFrames)
  /\ Devices = {d \in 0 .. MaxDevices - 1 : F!CreateDevice(d) # {}}
  /\ \A d \in Devices : \E dev \in F!CreateDevice(d) :
       JobDuration[d] = dev.duration /\ RetQueue[d] = dev.return_queue
  /\ SwapDevice = F!GetSwapDevice

\* os_init reserves five frames of a table that may have fewer.
TooFewFrames == Clamp(F!GetOsSettings["memory_frames"], 0, MaxSupportedFrames) < 5

\* A number of the plan that is used as an index without a check: the return queue of
\* a device (main.c:448), the swap device and the device of an I/O entry (320, 669),
\* the page of a memory access (628).
OutOfRange ==
  \/ \E d \in 0 .. MaxDevices - 1 : \E dev \in F!CreateDevice(d) : dev.return_queue \notin Queues
  \/ F!GetSwapDevice >= MaxDevices
  \/ \E i \in DOMAIN F!Entries :
       LET e == F!Entries[i]
       IN  \/ e.action = "io" /\ e.arg >= MaxDevices
           \/ e.action = "mem" /\ e.arg \notin Pages

ReadPlan  == F!ReadLine /\ UNCHANGED <<simVars, heap>>
PrintPlan == (F!EndOfFile \/ F!PrintPlan) /\ UNCHANGED <<simVars, heap>>

\* "Must have a swap device."
NoSwapDevice ==
  /\ outcome = "printed"
  /\ F!GetSwapDevice < 0
  /\ outcome' = "exit"
  /\ UNCHANGED <<simVars, file, mode, current_sim_pid, settings, devices, global_timeline,
                 proc_timeline, copy_of, heap>>

\* Nothing is claimed of a plan that leads out of an array: if the program starts, it
\* may go on in any way.
StartOutOfRange ==
  /\ outcome = "printed"
  /\ TooFewFrames \/ (F!GetSwapDevice >= 0 /\ OutOfRange)
  /\ outcome' = "undefined"
  /\ UNCHANGED <<simVars, file, mode, current_sim_pid, settings, devices, global_timeline,
                 proc_timeline, copy_of, heap>>

\* os_init and device_init; from here on the plan is asked through its callbacks.
Start ==
  /\ outcome = "printed"
  /\ F!GetSwapDevice >= 0
  /\ ~OutOfRange
  /\ Configured
  /\ outcome' = "running"
  /\ entries' = F!Entries
  /\ H!StartUp
  /\ UNCHANGED <<vars, done, sim_proc_count, sim_pid, spid_pid, proc_time, dead, exited>>
  /\ UNCHANGED <<file, mode, current_sim_pid, settings, devices, global_timeline,
                 proc_timeline, copy_of>>

\* The calls of safe_free, and how the program is to go on after them.
FreeAll(calls, then) ==
  \E list \in {calls} : \E illegal \in {H!Illegal(list)} :
    H!Release(list, illegal) /\ outcome' = H!After(list, illegal, then)

\* A process comes to be, or one ends, or neither.
Simulate ==
  /\ outcome = "running"
  /\ SimNext
  /\ \/ next_pid' # next_pid /\ H!NewProcess(next_pid) /\ UNCHANGED outcome
     \/ freed' # freed /\ FreeAll(H!ProcessDispose(current_process), "running")
     \/ next_pid' = next_pid /\ freed' = freed /\ UNCHANGED <<heap, outcome>>
  /\ UNCHANGED <<file, mode, current_sim_pid, settings, devices, global_timeline,
                 proc_timeline, copy_of>>

\* The loop has been left: os_dispose, and the plan's dispose.
Dispose ==
  /\ outcome = "running"
  /\ phase = "stopped"
  /\ FreeAll(H!Disposals, "disposed")
  /\ UNCHANGED <<simVars, file, mode, current_sim_pid, settings, devices, global_timeline,
                 proc_timeline, copy_of>>

RunPlan == PrintPlan \/ NoSwapDevice \/ StartOutOfRange \/ Start \/ Simulate \/ Dispose

ProgramNext == ReadPlan \/ RunPlan

ProgramSpec(files) == ProgramInit(files) /\ [][ProgramNext]_programVars

\* The program runs until it ends: line after line, then step after step.
ProgramFairness == WF_file(F!NextLine) /\ WF_programVars(RunPlan)

-------------------------------------------------------------------------------
(***************************************************************************)
(* Properties                                                              *)
(***************************************************************************)

\* What is read of a plan file is well formed, whatever the file says
\* (plan_txt_init, sim_plan_txt.c:872).
ReadTypeOK == F!TypeOK

\* As long as the plan runs every block hangs from one that is still there, and
\* when the program has ended all that is left is the text the plan keeps and the
\* queues of the devices after the third: os_dispose disposes of three
\* (os.c:87), whatever the plan connects, and both shipped plans connect four.
\* Nothing is claimed where the disposal goes wrong (FreedProperly).
MemoryReturned ==
  /\ outcome = "running" => H!NoOrphans
  /\ outcome = "disposed" => heap = H!Left

\* Every safe_free meets a block that is there, once, with the parent it was
\* allocated with, whose own block has not been freed before it
\* (safe_alloc.h:30): those of the running process, should it end now, and those
\* at the end of main.  With fewer than three devices os_dispose follows a
\* pointer that nobody has set.
FreedProperly ==
  outcome = "running" =>
    /\ current_process # None => H!Releasable(H!ProcessDispose(current_process))
    /\ phase = "stopped" /\ DeviceCount >= 3 => H!Releasable(H!Disposals)

\* A plan each of whose processes has an END, and which does not run out of
\* frames, brings the program to its end: by the disposal, or by an exit of the
\* plan's.  (Without an END a process runs for ever, and with no free frame the
\* swap-out loop does: SwapOutSpins.)
Ends == <>(outcome \in {"disposed", "exit", "undefined"} \/ exited)

===============================================================================

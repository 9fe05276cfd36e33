------------------------------- MODULE OSClaims -------------------------------
(***************************************************************************)
(* What comments, plans and the readme say of the simulated OS and the     *)
(* code does not do.  Each claim is checked by a run of its own, and TLC   *)
(* shows a behaviour of OS against it.                                     *)
(***************************************************************************)
EXTENDS MCOS

\* Every device is immediate, the swap device included.
AllImmediate == [d \in Devices |-> 0]

\* os.c:117: "In this case, we will enqueue the process in a list of processes
\* that are waiting for a free frame".  So a live process is always somewhere:
\* with the CPU, a device, or in a queue.  main.c:466 enqueues another one.
NoProcessLost == \A p \in Live : Places(p) # {}

\* main.c:480: "Swap-out processes to fulfill the requirements of procs waiting
\* for a free memory frame."  The loop gets somewhere: it is left in the end.
SwapOutEnds == phase = "swapout" ~> phase # "swapout"

\* main.c:645: "Checking whether process has finished and disposing of used
\* resources."  So a used frame is the system's, or some live process's.
FinishedHoldsNoFrame ==
  used \subseteq ReservedFrames \cup {page_table[p][g] : p \in Live, g \in Pages}
                                \cup {op_frame[p] : p \in Live}

\* main.c:349: the device loop is inside the inner loop "because there are
\* immediate devices that don't use any time at all".  So the end of a running
\* job is never in the past, where device_next_finished cannot see it.
JobsNoticed == \A d \in Devices : dev_process[d] # None => job_end[d] >= time

===============================================================================

--------------------------------- MODULE MCOS ---------------------------------
(***************************************************************************)
(* Instances of OS for TLC.                                                *)
(***************************************************************************)
EXTENDS OS

CONSTANTS
  MaxTime        \* the last time unit explored

\* Device 0 is the swap device and takes time, like the disk of the plans; the
\* others are immediate.  Their processes return to the lowest queue.
MCJobDuration == [d \in Devices |-> IF d = 0 THEN 2 ELSE 0]
MCRetQueue    == [d \in Devices |-> Lowest]

\* The loop counter is unbounded; time units after MaxTime are not explored.
TimeBound == time <= MaxTime

\* The program runs until it stops, and a plan lists finitely many accesses and
\* I/O requests for a time: the answer to execute_memory is "no more" in the end,
\* and so is the one to requires_io, which lets the process run the time unit.
FairSpec ==
  Spec /\ WF_vars(Next) /\ WF_vars(NoMemoryAccess) /\ SF_vars(RunOneTimeUnit)

=============================================================================

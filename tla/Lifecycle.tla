------------------------------- MODULE Lifecycle -------------------------------
(***************************************************************************)
(* What the simulated OS promises about the life of its processes, without *)
(* queues, devices, frames or time: who may get the CPU, and which way a   *)
(* process comes back to it.                                               *)
(***************************************************************************)
CONSTANT Processes

VARIABLE status    \* process -> where it is in its life

Statuses == {"new", "ready", "running", "waiting", "paging", "loaded", "done"}

Init == status = [p \in Processes |-> "new"]

Move(p, from, to) ==
  /\ status[p] = from
  /\ status' = [status EXCEPT ![p] = to]

Count(s) == {p \in Processes : status[p] = s}

\* A process whose page has been loaded is preferred to one that is ready.
MayBeChosen(p) ==
  /\ Count("running") = {}
  /\ status[p] = "ready" => Count("loaded") = {}

Arrive(p)   == Move(p, "new", "ready")
Run(p)      == MayBeChosen(p) /\ \E s \in {"ready", "loaded"} : Move(p, s, "running")
\* Only a ready process can be refused the CPU because its page is missing.
Refuse(p)   == MayBeChosen(p) /\ Move(p, "ready", "paging")
Fault(p)    == Move(p, "running", "paging")
PageIn(p)   == Move(p, "paging", "loaded")
Preempt(p)  == Move(p, "running", "ready")
Request(p)  == Move(p, "running", "waiting")
Answer(p)   == Move(p, "waiting", "ready")
Finish(p)   == Move(p, "running", "done")

Next == \E p \in Processes :
  \/ Arrive(p) \/ Run(p) \/ Refuse(p) \/ Fault(p) \/ PageIn(p)
  \/ Preempt(p) \/ Request(p) \/ Answer(p) \/ Finish(p)

Spec == Init /\ [][Next]_status

TypeOK == status \in [Processes -> Statuses]

\* There is one CPU.
OneRunning == \A p, r \in Count("running") : p = r

===============================================================================

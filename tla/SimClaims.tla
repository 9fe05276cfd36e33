------------------------------- MODULE SimClaims -------------------------------
(***************************************************************************)
(* What a plan file says of its timelines and the code does not do.        *)
(***************************************************************************)
EXTENDS MCSimulator

\* mem_man_test_plan.txt:16: "times in this section are relative to the running
\* time of the process".  So the plan takes no entry of a process for past before
\* the process has started; set_time compares them with a proc_time nobody has
\* written (sim_plan_txt.c:183).
UntouchedBeforeStart ==
  \A i \in done : entries[i].scope = "process" => entries[i].spid < sim_proc_count

================================================================================

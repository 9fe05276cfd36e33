----------------------------- MODULE ProgramClaims -----------------------------
(***************************************************************************)
(* What comments say of the reading and the printing of a plan file and    *)
(* the code does not do.                                                   *)
(***************************************************************************)
EXTENDS MCProgram

\* sim_plan_txt.c:915: "everything that does not match a rule is ignored".  So no
\* line ends the program: if it ends because of the plan, the whole file has
\* been read.
UnknownIgnored == outcome = "exit" => file = <<>>

\* sim_plan_txt.c:36: "printing the whole plan".  So what is printed of a process,
\* its own entries after those of the process its header names, is all it has.
\* An entry read after the copy makes the header forget the name
\* (sim_plan_txt.c:1056), and the copied entries are printed nowhere.
PlanWhole ==
  outcome = "printed" =>
    \A s \in F!Printed :
      LET Steps(list) == [i \in DOMAIN list |-> <<list[i].time, list[i].action,
                                                  list[i].device_id, list[i].param1>>]
          copied == IF copy_of[s] >= 0 THEN F!Section(copy_of[s]) ELSE <<>>
      IN  Steps(copied) \o Steps(F!OwnEntries(s)) = Steps(F!Section(s))

================================================================================

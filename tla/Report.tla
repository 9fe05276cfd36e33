--------------------------------- MODULE Report ---------------------------------
(***************************************************************************)
(* The row plan_txt_print_time_final_state prints at the end of every time *)
(* unit: the running process, one column per process of the plan, one per  *)
(* ready queue and two per device.  Layout is left out but for one thing,  *)
(* the length of the text of a queue: it is put together in a buffer of    *)
(* fixed size.                                                             *)
(***************************************************************************)
EXTENDS Simulator

\* count_entries
CountEntries(action) == Cardinality({i \in DOMAIN entries : entries[i].action = action})

\* A spid of three digits ends the program where it is printed (sim_plan_txt.c:788);
\* "there will be no more than 100 processes in total" (ibid.:753).
Digits(s) == IF s < 10 THEN 1 ELSE 2

\* Mutant: the digits are not counted.
CntSeparators == IF CountEntries("new") = 0 THEN 0 ELSE CountEntries("new") - 1

\* cnt_chars: the digits of the spids 0, 1, .. and a `>' between any two.
CntChars ==
  LET n == CountEntries("new")
  IN  IF n = 0 THEN 0 ELSE n + (n - 1) + (IF n > 10 THEN n - 10 ELSE 0)

\* The text of a queue as the loop over its items advances in the buffer.
TextLength(queue) ==
  LET long == {i \in DOMAIN queue : Digits(sim_pid[queue[i]]) = 2}
  IN  IF queue = <<>> THEN 0 ELSE Len(queue) + (Len(queue) - 1) + Cardinality(long)

\* The column of process s of the plan.
Column(s) ==
  IF s >= sim_proc_count THEN "blank" ELSE IF s \in dead THEN "dead" ELSE "time"

Running  == IF current_process = None THEN {} ELSE {sim_pid[current_process]}
Using(d) == IF dev_process[d] = None THEN {} ELSE {sim_pid[dev_process[d]]}

\* The text ends at the first NUL, and snprintf, told the number of digits for the
\* size of its buffer, writes one in the place of the last digit.  So of the queue,
\* printed from its last item on, one digit is seen if that item has two: a queue of
\* the first ten processes is a blank.
QueueText(queue) ==
  LET first == {sim_pid[queue[i]] : i \in {Len(queue)} \ {0}}
  IN  {s \div 10 : s \in {t \in first : t >= 10}}

\* The columns besides those of the processes, each the set of spids
\* a reader finds in it.
OtherColumns ==
  {<<"cpu", 0, Running>>}
    \cup {<<"ready", q, QueueText(queues[q])>> : q \in Queues}
    \cup {<<"blocked", d, QueueText(blocked_queue[d])>> : d \in Devices}
    \cup {<<"cp", d, Using(d)>> : d \in Devices}

\* main prints the row at the end of the loop body.
RowPrinted == phase = "begin" /\ time > 0

-------------------------------------------------------------------------------
\* The text of every queue fits the buffer of cnt_chars characters it is
\* written to without a check (sim_plan_txt.c:780): however processes move, no
\* queue holds more of them than the plan starts.
RowFits ==
  RowPrinted => /\ \A q \in Queues : TextLength(queues[q]) <= CntChars
                /\ \A d \in Devices : TextLength(blocked_queue[d]) <= CntChars

\* The spids of the processes that wait in a queue.
Waiting ==
  {sim_pid[p] : p \in Items(page_ready_queue)
                       \cup (UNION {Items(queues[q]) : q \in Queues})
                       \cup (UNION {Items(blocked_queue[d]) : d \in Devices})}

\* The row is about the same processes in all its columns, with at most ten processes,
\* as config.h has it: one shown as blank or dead is in no other column, one shown
\* with its time in at most one, and in exactly one unless it waits in a queue (whose
\* text does not show it).
RowConsistent ==
  RowPrinted /\ sim_proc_count <= 10 =>
    \A s \in 0 .. MaxProcesses - 1 :
      LET shown == {c \in OtherColumns : s \in c[3]}
      IN  /\ Column(s) # "time" => shown = {}
          /\ Column(s) = "time" => Cardinality(shown) <= 1
          /\ Column(s) = "time" /\ s \notin Waiting => shown # {}

================================================================================

------------------------------ MODULE MCSimulator ------------------------------
(***************************************************************************)
(* Instance of Simulator for TLC: every plan put together from a few short *)
(* programs, arrival times and extra entries of the global timeline.       *)
(***************************************************************************)
EXTENDS Simulator

Entry(scope, at, action, num, arg) ==
  [scope |-> scope, time |-> at, action |-> action, spid |-> num, arg |-> arg]

MCJobDuration == [d \in Devices |-> IF d = SwapDevice THEN 2 ELSE d - 1]
MCRetQueue    == [d \in Devices |-> IF d = SwapDevice THEN Lowest ELSE 0]

\* Programs: one that outlasts its time slice, one that faults, one that uses
\* the immediate device 1 twice at a time, one that does several things at once.
Program(n, s) ==
  LET Do(at, action, arg) == Entry("process", at, action, s, arg)
  IN  CASE n = 1 -> <<Do(3, "end", 0)>>
        [] n = 2 -> <<Do(0, "mem", 1), Do(1, "end", 0)>>
        [] n = 3 -> <<Do(1, "io", 1), Do(1, "io", 1), Do(2, "end", 0)>>
        [] n = 4 -> <<Do(1, "mem", 1), Do(1, "io", 2), Do(1, "mem", 0), Do(2, "end", 0)>>

\* When the three processes start: together, one by one, the last one late.
Arrivals == {<<0, 0, 0>>, <<0, 1, 2>>, <<1, 1, 12>>}
New(times) == [i \in 1 .. 3 |-> Entry("global", times[i], "new", i - 1, 0)]

\* Entries of the [timeline] for a running process: handed out if it has the
\* CPU at that time, otherwise skipped, which is fatal for an end.
Extras == {<<>>, <<Entry("global", 4, "io", 0, 2)>>, <<Entry("global", 3, "end", 0, 0)>>,
           <<Entry("global", 6, "mem", 1, 1), Entry("global", 6, "end", 1, 0)>>}

MCPlans ==
  {New(times) \o extra \o Program(a, 0) \o Program(b, 1) \o Program(c, 2) :
     times \in Arrivals, extra \in Extras, a \in 1 .. 4, b \in 1 .. 4, c \in 1 .. 4}

================================================================================

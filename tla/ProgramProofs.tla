----------------------------- MODULE ProgramProofs -----------------------------
(***************************************************************************)
(* The program as a whole: main around the loop changes nothing of the     *)
(* loop, whatever file it reads the plan is well formed and runs as it      *)
(* should, the rows printed fit their buffers and agree with the processes, *)
(* and the memory is given back.                                           *)
(***************************************************************************)
EXTENDS Program, SimulatorProofs, LifecycleProofs

-------------------------------------------------------------------------------
(***************************************************************************)
(* The processes the plan has taken                                        *)
(***************************************************************************)

\* Each was announced by an entry of the plan, and each that has been created
\* is the one its pid leads back to; once arrivals are over all are created,
\* unless a process that has been freed was met.
Announced ==
  \A s \in 0 .. sim_proc_count - 1 :
    \E i \in DOMAIN entries : entries[i].action = "new" /\ entries[i].spid = s

LedBack ==
  \A s \in 0 .. sim_proc_count - 1 :
    spid_pid[s] # 0 => spid_pid[s] \in Started /\ sim_pid[spid_pid[s]] = s

AllCreated ==
  phase \notin {"incoming", "undefined"} => \A s \in 0 .. sim_proc_count - 1 : spid_pid[s] # 0

Taken == LedBack /\ AllCreated

LEMMA ToCreateEmpty ==
  ASSUME P!ToCreate = {}
  PROVE  \A s \in 0 .. sim_proc_count - 1 : spid_pid[s] # 0
BY DEF P!ToCreate, P!Created

LEMMA TakeArrivingTaken ==
  ASSUME TypeOK, Booked, Taken, phase = "incoming", P!TakeArriving(time), UNCHANGED vars
  PROVE  Taken'
<1> DEFINE s == sim_proc_count
<1>1. /\ s \in Nat /\ s \in P!Spids /\ sim_proc_count' = s + 1
      /\ spid_pid' = [spid_pid EXCEPT ![s] = 0]
      /\ UNCHANGED <<sim_pid, next_pid, phase>>
  BY ConstantsType DEF P!TakeArriving, P!First, P!Arriving, P!Spids, Booked, PlanType, vars
<1>2. spid_pid \in [P!Spids -> 0 .. MaxProcesses]
  BY DEF Booked, PlanType
<1>3. spid_pid'[s] = 0 /\ \A r \in 0 .. s - 1 : spid_pid'[r] = spid_pid[r]
  BY <1>1, <1>2
<1>4. \A r \in 0 .. sim_proc_count' - 1 : r = s \/ r \in 0 .. s - 1
  BY <1>1
<1>5. LedBack'
  BY <1>1, <1>3, <1>4 DEF LedBack, Taken, Started
<1> QED BY <1>1, <1>5 DEF Taken, AllCreated

LEMMA CreateProcessTaken ==
  ASSUME TypeOK, Booked, Taken, IncomingProcess, P!CreateProcess(next_pid)
  PROVE  Taken'
<1>1. PICK s \in 0 .. sim_proc_count - 1 :
        /\ spid_pid[s] = 0
        /\ sim_pid' = [sim_pid EXCEPT ![next_pid] = s]
        /\ spid_pid' = [spid_pid EXCEPT ![s] = next_pid]
        /\ sim_proc_count' = sim_proc_count
  BY DEF P!CreateProcess, P!NextToCreate, P!First, P!ToCreate, P!Created
<1>2. /\ phase' = "incoming" /\ next_pid \in Pids /\ next_pid' = next_pid + 1
  BY ConstantsType DEF IncomingProcess, TypeOK, Pids
<1>3. Started' = Started \cup {next_pid} /\ next_pid \notin Started
  BY <1>2 DEF Started, Pids
<1>4. /\ sim_pid \in [Pids -> P!Spids] /\ spid_pid \in [P!Spids -> 0 .. MaxProcesses]
      /\ sim_proc_count \in 0 .. MaxProcesses
  BY DEF Booked, PlanType
<1>5. s \in P!Spids /\ \A r \in 0 .. sim_proc_count - 1 : r \in P!Spids
  BY <1>4, ConstantsType DEF P!Spids
<1>6. LedBack'
  <2> SUFFICES ASSUME NEW r \in 0 .. sim_proc_count - 1, spid_pid'[r] # 0
               PROVE  spid_pid'[r] \in Started' /\ sim_pid'[spid_pid'[r]] = r
    BY <1>1 DEF LedBack
  <2>1. CASE r = s
    BY <1>1, <1>2, <1>3, <1>4, <1>5, <2>1
  <2>2. CASE r # s
    <3>1. spid_pid'[r] = spid_pid[r] /\ spid_pid[r] \in Started /\ sim_pid[spid_pid[r]] = r
      BY <1>1, <1>4, <1>5, <2>2 DEF Taken, LedBack
    <3>2. spid_pid[r] # next_pid
      BY <1>3, <3>1
    <3> QED BY <1>1, <1>3, <1>4, <3>1, <3>2
  <2> QED BY <2>1, <2>2
<1> QED BY <1>2, <1>6 DEF Taken, AllCreated

LEMMA NextTaken == TypeOK /\ Booked /\ Taken /\ [SimNext]_simVars => Taken'
<1> SUFFICES ASSUME TypeOK, Booked, Taken, [SimNext]_simVars PROVE Taken'
  OBVIOUS
<1> DEFINE Kept == /\ UNCHANGED <<next_pid, sim_proc_count, sim_pid, spid_pid>>
                   /\ \/ phase' \in {"incoming", "undefined"} \/ P!ToCreate = {}
                      \/ phase \notin {"incoming", "undefined"}
<1>1. Kept => Taken'
  BY ToCreateEmpty DEF Taken, LedBack, AllCreated, Started
<1>2. CASE UNCHANGED simVars
  <2>1. Kept
    BY <1>2 DEF simVars, vars, planVars
  <2> QED BY <1>1, <2>1
<1>3. CASE SimBegin
  <2>1. Kept
    BY <1>3 DEF SimBegin, BeginTimeUnit, Stop, Goto, P!SetTime, P!SetTimeFatal, P!Exit,
                vars, otherVars
  <2> QED BY <1>1, <2>1
<1>4. CASE SimIncoming
  <2>1. CASE P!TakeArriving(time) /\ UNCHANGED vars
    BY <1>4, <2>1, TakeArrivingTaken DEF SimIncoming
  <2>2. CASE P!ArrivingOutOfOrder(time) /\ UNCHANGED vars
    <3>1. Kept
      BY <2>2 DEF P!ArrivingOutOfOrder, P!Exit, vars
    <3> QED BY <1>1, <3>1
  <2>3. CASE IncomingProcess /\ P!CreateProcess(next_pid)
    BY <2>3, CreateProcessTaken
  <2>4. CASE P!ToCreate = {} /\ PromoteWaitingProcesses /\ UNCHANGED planVars
    <3>1. Kept
      BY <2>4 DEF PromoteWaitingProcesses, planVars
    <3> QED BY <1>1, <3>1
  <2> QED BY <1>4, <2>1, <2>2, <2>3, <2>4 DEF SimIncoming
<1>5. CASE SimDevices
  <2>1. UNCHANGED <<next_pid, sim_proc_count, sim_pid, spid_pid>>
    BY <1>5 DEF SimDevices, planVars, PageLoadFinished, JobDone, JobDoneStartNext,
       JobDoneOutOfMemory, CompleteOperation, DevicesHandled, SwapOutDone, SwapOutScan,
       NothingToSelect, Dispatch, DispatchFault, UseFreedProcess, Goto, otherVars
  <2>2. phase' = "undefined" \/ phase \notin {"incoming", "undefined"}
    BY <1>5 DEF SimDevices, PageLoadFinished, JobDone, JobDoneStartNext,
       JobDoneOutOfMemory, CompleteOperation, DevicesHandled, SwapOutDone, SwapOutScan,
       NothingToSelect, Dispatch, DispatchFault, UseFreedProcess, Goto
  <2> QED BY <1>1, <2>1, <2>2
<1>6. CASE SimMemory \/ SimFinish \/ SimPreempt \/ SimRequestIO \/ SimRun
  <2>1. UNCHANGED <<next_pid, sim_proc_count, sim_pid, spid_pid>>
    BY <1>6 DEF SimMemory, SimFinish, SimPreempt, SimRequestIO, SimRun, AccessMemory,
       AccessMemoryFault, NoMemoryAccess, FinishProcess, Preempt, RequestIO, RunOneTimeUnit,
       IdleTimeUnit, Goto, otherVars, P!ExecuteMemory, P!IsProcessFinished, P!RequestIO,
       P!RunOneTimeUnit, P!HandOut, planVars
  <2>2. phase \in {"memory", "cpu"}
    BY <1>6 DEF SimMemory, SimFinish, SimPreempt, SimRequestIO, SimRun, AccessMemory,
       AccessMemoryFault, NoMemoryAccess, FinishProcess, Preempt, RequestIO, RunOneTimeUnit,
       IdleTimeUnit
  <2> QED BY <1>1, <2>1, <2>2
<1> QED BY <1>2, <1>3, <1>4, <1>5, <1>6 DEF SimNext

\* Only incoming_processes counts a process, and it has an entry for it.
LEMMA NextAnnounced == Booked /\ Announced /\ [SimNext]_simVars => Announced'
<1> SUFFICES ASSUME Booked, Announced, [SimNext]_simVars PROVE Announced'
  OBVIOUS
<1>1. CASE UNCHANGED <<entries, sim_proc_count>>
  BY <1>1 DEF Announced
<1>2. CASE P!TakeArriving(time)
  <2>1. PICK i \in DOMAIN entries :
          /\ entries[i].action = "new" /\ entries[i].spid = sim_proc_count
          /\ sim_proc_count' = sim_proc_count + 1 /\ entries' = entries
    BY <1>2 DEF P!TakeArriving, P!First, P!Arriving, P!Pending
  <2>2. \A s \in 0 .. sim_proc_count' - 1 : s = sim_proc_count \/ s \in 0 .. sim_proc_count - 1
    BY <2>1 DEF Booked, PlanType
  <2> QED BY <2>1, <2>2 DEF Announced
<1>3. CASE SimNext
  BY <1>1, <1>2, <1>3
  DEF SimNext, SimBegin, SimIncoming, SimDevices, SimMemory, SimFinish, SimPreempt,
      SimRequestIO, SimRun, P!SetTime, P!SetTimeFatal, P!ArrivingOutOfOrder, P!Exit,
      P!CreateProcess, P!ExecuteMemory, P!IsProcessFinished, P!RequestIO, P!RunOneTimeUnit,
      P!HandOut, planVars
<1> QED BY <1>1, <1>3 DEF simVars, planVars

LEMMA InitTaken == SimInit => Taken /\ Announced
BY DEF SimInit, P!Init, Taken, LedBack, AllCreated, Announced

-------------------------------------------------------------------------------
(***************************************************************************)
(* The row: the text of a queue                                            *)
(***************************************************************************)

\* The bytes of the text count two digits at most; the program ends when it has
\* to print a third (sim_plan_txt.c:788).
TwoDigits == MaxProcesses <= 100

LEMMA SpidsDiffer ==
  ASSUME TypeOK, Booked, NEW p \in Started, NEW r \in Started, sim_pid[p] = sim_pid[r]
  PROVE  p = r
BY StartedSpids

\* The processes of a queue are announced by different entries, and so are
\* those among them whose spids have two digits, by entries beyond the tenth.
LEMMA QueueSpids ==
  ASSUME TypeOK, Booked, NEW q \in Seq(Pids), Distinct(q), Items(q) \subseteq Started
  PROVE  LET long == {i \in DOMAIN q : Digits(sim_pid[q[i]]) = 2}
         IN  /\ Len(q) <= sim_proc_count
             /\ Cardinality(long) \in Nat
             /\ Cardinality(long) <= IF sim_proc_count > 10 THEN sim_proc_count - 10 ELSE 0
<1> DEFINE n == sim_proc_count
           long == {i \in DOMAIN q : Digits(sim_pid[q[i]]) = 2}
           f == [i \in 1 .. Len(q) |-> sim_pid[q[i]]]
           g == [i \in long |-> sim_pid[q[i]]]
<1>1. Len(q) \in Nat /\ DOMAIN q = 1 .. Len(q) /\ n \in Nat
  BY LenProperties, ConstantsType DEF Booked, PlanType
<1>2. \A i \in 1 .. Len(q) : q[i] \in Started /\ sim_pid[q[i]] \in 0 .. n - 1
  <2>1. \A i \in 1 .. Len(q) : q[i] \in Started
    BY DEF Items
  <2> QED BY <1>1, <2>1, StartedSpids
<1>3. \A i, j \in 1 .. Len(q) : sim_pid[q[i]] = sim_pid[q[j]] => i = j
  BY <1>2, SpidsDiffer DEF Distinct
<1>4. Len(q) <= n
  <2>1. f \in Injection(1 .. Len(q), 0 .. n - 1)
    BY <1>2, <1>3 DEF Injection, IsInjective
  <2>2. IsFiniteSet(0 .. n - 1) /\ Cardinality(0 .. n - 1) = n
    <3>1. 0 \in Int /\ n - 1 \in Int
      BY <1>1
    <3>2. /\ IsFiniteSet(0 .. n - 1)
          /\ Cardinality(0 .. n - 1) = IF 0 > n - 1 THEN 0 ELSE n - 1 - 0 + 1
      BY <3>1, FS_Interval, Zenon
    <3> QED BY <1>1, <3>2
  <2>3. Cardinality(1 .. Len(q)) = Len(q)
    BY <1>1, IntervalSize
  <2> HIDE DEF f, n
  <2> QED BY <2>1, <2>2, <2>3, FS_Injection
<1>5. /\ IsFiniteSet(long)
      /\ Cardinality(long) <= IF n > 10 THEN n - 10 ELSE 0
  <2>1. g \in Injection(long, 10 .. n - 1)
    <3>1. \A i \in long : i \in 1 .. Len(q) /\ sim_pid[q[i]] \in 10 .. n - 1
      BY <1>1, <1>2 DEF Digits
    <3> QED BY <1>3, <3>1 DEF Injection, IsInjective
  <2>2. /\ IsFiniteSet(10 .. n - 1)
        /\ Cardinality(10 .. n - 1) = IF n > 10 THEN n - 10 ELSE 0
    <3>1. 10 \in Int /\ n - 1 \in Int
      BY <1>1
    <3>2. /\ IsFiniteSet(10 .. n - 1)
          /\ Cardinality(10 .. n - 1) = IF 10 > n - 1 THEN 0 ELSE n - 1 - 10 + 1
      BY <3>1, FS_Interval, Zenon
    <3>3. (IF 10 > n - 1 THEN 0 ELSE n - 1 - 10 + 1) = IF n > 10 THEN n - 10 ELSE 0
      BY <1>1
    <3> QED BY <3>2, <3>3
  <2> HIDE DEF g, n, long
  <2> QED BY <2>1, <2>2, FS_Injection
<1>6. Cardinality(long) \in Nat
  <2> HIDE DEF long
  <2> QED BY <1>5, FS_CardinalityType
<1> QED BY <1>4, <1>5, <1>6

\* The plan starts at least the processes taken from it.
LEMMA EntriesEnough ==
  ASSUME Booked, Announced, IsFiniteSet(DOMAIN entries)
  PROVE  CountEntries("new") \in Nat /\ sim_proc_count <= CountEntries("new")
<1> DEFINE n == sim_proc_count
           E == {i \in DOMAIN entries : entries[i].action = "new"}
           f == [s \in 0 .. n - 1 |-> CHOOSE i \in E : entries[i].spid = s]
<1>1. n \in Nat
  BY ConstantsType DEF Booked, PlanType
<1>2. \A s \in 0 .. n - 1 : f[s] \in E /\ entries[f[s]].spid = s
  BY DEF Announced
<1>3. f \in Injection(0 .. n - 1, E)
  <2>1. f \in [0 .. n - 1 -> E]
    BY <1>2
  <2> HIDE DEF f
  <2> QED BY <1>2, <2>1 DEF Injection, IsInjective
<1>4. IsFiniteSet(E) /\ Cardinality(E) \in Nat
  <2>1. E \in SUBSET (DOMAIN entries)
    OBVIOUS
  <2> HIDE DEF E
  <2> QED BY <2>1, FS_Subset, FS_CardinalityType
<1>5. Cardinality(0 .. n - 1) = n
  <2>1. 0 \in Int /\ n - 1 \in Int
    BY <1>1
  <2>2. Cardinality(0 .. n - 1) = IF 0 > n - 1 THEN 0 ELSE n - 1 - 0 + 1
    BY <2>1, FS_Interval, Zenon
  <2> QED BY <1>1, <2>2
<1>6. Cardinality(0 .. n - 1) <= Cardinality(E)
  <2> HIDE DEF f, E, n
  <2> QED BY <1>3, <1>4, FS_Injection
<1> QED BY <1>4, <1>5, <1>6 DEF CountEntries

LEMMA TextFits ==
  ASSUME TypeOK, Booked, Announced, IsFiniteSet(DOMAIN entries),
         NEW q \in Seq(Pids), Distinct(q), Items(q) \subseteq Started
  PROVE  TextLength(q) <= CntChars
<1> DEFINE long == {i \in DOMAIN q : Digits(sim_pid[q[i]]) = 2}
           n == sim_proc_count
           m == CountEntries("new")
<1>1. /\ n \in Nat /\ m \in Nat /\ n <= m
  BY EntriesEnough, ConstantsType DEF Booked, PlanType
<1>2. /\ Len(q) \in Nat /\ (q = <<>> <=> Len(q) = 0) /\ Len(q) <= n
      /\ Cardinality(long) \in Nat /\ Cardinality(long) <= IF n > 10 THEN n - 10 ELSE 0
  BY QueueSpids, LenProperties, EmptySeq
<1>3. TextLength(q) = IF q = <<>> THEN 0 ELSE Len(q) + (Len(q) - 1) + Cardinality(long)
  BY DEF TextLength
<1>4. CntChars = IF m = 0 THEN 0 ELSE m + (m - 1) + (IF m > 10 THEN m - 10 ELSE 0)
  BY DEF CntChars
<1> HIDE DEF long, n, m
<1> QED BY <1>1, <1>2, <1>3, <1>4

LEMMA QueuesFit ==
  ASSUME TypeOK, PlaceInv, Known, Booked, Announced, Undisturbed, IsFiniteSet(DOMAIN entries)
  PROVE  RowFits
<1>1. ASSUME NEW q \in Queues
      PROVE  TextLength(queues[q]) <= CntChars
  BY QueuesDistinct, TextFits DEF Known
<1>2. ASSUME NEW d \in Devices
      PROVE  TextLength(blocked_queue[d]) <= CntChars
  <2>1. blocked_queue[d] \in Seq(Pids) /\ Distinct(blocked_queue[d])
    BY HeldValues, ContainerKinds DEF TypeOK, PlaceInv, Placed
  <2> QED BY <2>1, TextFits DEF Known
<1> QED BY <1>1, <1>2 DEF RowFits

-------------------------------------------------------------------------------
(***************************************************************************)
(* The row: which processes are in which column                            *)
(***************************************************************************)

\* The containers that have a column with a spid in it, and the spids held in any.
Shown(c)    == {sim_pid[p] : p \in Items(Held[c])}
Title(c)    == IF c[1] = "device" THEN "cp" ELSE c[1]
ColumnOf(c) == <<Title(c), c[2], Shown(c)>>
Users       == {Cpu} \cup {Device(d) : d \in Devices}

LEMMA ShownValues ==
  ASSUME TypeOK
  PROVE  Shown(Cpu) = Running /\ \A d \in Devices : Shown(Device(d)) = Using(d)
<1>1. \A p \in Pids : Items(Single(p)) = {p}
  BY ItemsSingle, PidsType
<1>2. Items(Single(None)) = {}
  BY ItemsEmpty DEF Single
<1>3. Shown(Cpu) = Running
  BY <1>1, <1>2, HeldValues DEF Shown, Running, TypeOK
<1>4. \A d \in Devices : Shown(Device(d)) = Using(d)
  BY <1>1, <1>2, HeldValues DEF Shown, Using, TypeOK
<1> QED BY <1>3, <1>4

\* The first ten processes are not seen in the text of a queue.
LEMMA TextBlank ==
  ASSUME TypeOK, Known, Booked, NEW q \in Seq(Pids), Items(q) \subseteq Live,
         sim_proc_count <= 10
  PROVE  QueueText(q) = {}
<1>1. ASSUME NEW i \in {Len(q)} \ {0}
      PROVE  ~(sim_pid[q[i]] >= 10)
  <2>1. i \in 1 .. Len(q)
    BY <1>1, LenProperties
  <2>2. q[i] \in Started
    BY <2>1 DEF Items, Live, Started
  <2>3. sim_pid[q[i]] \in Nat /\ sim_pid[q[i]] < sim_proc_count /\ sim_proc_count \in Nat
    BY <2>2, StartedSpids, ConstantsType DEF Booked, PlanType
  <2> QED BY <2>3
<1> QED BY <1>1 DEF QueueText

LEMMA QueuesBlank ==
  ASSUME TypeOK, PlaceInv, Known, Booked, Undisturbed, sim_proc_count <= 10
  PROVE  /\ \A q \in Queues : QueueText(queues[q]) = {}
         /\ \A d \in Devices : QueueText(blocked_queue[d]) = {}
<1>1. ASSUME NEW q \in Queues
      PROVE  queues[q] \in Seq(Pids) /\ Items(queues[q]) \subseteq Live
  BY HeldValues, ContainerKinds DEF TypeOK, PlaceInv, Placed
<1>2. ASSUME NEW d \in Devices
      PROVE  blocked_queue[d] \in Seq(Pids) /\ Items(blocked_queue[d]) \subseteq Live
  BY HeldValues, ContainerKinds DEF TypeOK, PlaceInv, Placed
<1> QED BY <1>1, <1>2, TextBlank

\* The columns a spid is found in.
LEMMA ColumnsShown ==
  ASSUME TypeOK, PlaceInv, Known, Booked, Undisturbed, sim_proc_count <= 10, NEW s
  PROVE  {x \in OtherColumns : s \in x[3]} = {ColumnOf(c) : c \in {e \in Users : s \in Shown(e)}}
<1>1. /\ ColumnOf(Cpu) = <<"cpu", 0, Running>> /\ Shown(Cpu) = Running
      /\ \A d \in Devices : /\ ColumnOf(Device(d)) = <<"cp", d, Using(d)>>
                            /\ Shown(Device(d)) = Using(d)
  BY ShownValues DEF ColumnOf, Title, Cpu, Device
<1>2. ASSUME NEW x \in OtherColumns, s \in x[3]
      PROVE  \E c \in Users : x = ColumnOf(c) /\ s \in Shown(c)
  BY <1>1, <1>2, QueuesBlank DEF OtherColumns, Users
<1>3. ASSUME NEW c \in Users
      PROVE  ColumnOf(c) \in OtherColumns /\ ColumnOf(c)[3] = Shown(c)
  BY <1>1 DEF OtherColumns, Users
<1> QED BY <1>2, <1>3

\* A process is in a column exactly when it is held there, and then it is one
\* that is shown with its time.
LEMMA ShownHeld ==
  ASSUME TypeOK, PlaceInv, Known, Booked, Undisturbed,
         NEW c \in Containers, NEW s \in Shown(c)
  PROVE  spid_pid[s] \in Items(Held[c]) /\ Column(s) = "time"
<1>1. PICK p \in Items(Held[c]) : s = sim_pid[p]
  BY DEF Shown
<1>2. p \in Live
  BY <1>1 DEF PlaceInv, Placed
<1>3. p \in Started /\ p \notin freed
  BY <1>2 DEF Live, Started
<1>4. spid_pid[s] = p /\ s < sim_proc_count /\ s \in Nat
  BY <1>1, <1>3, StartedSpids
<1>5. s \notin dead
  <2> SUFFICES ASSUME s \in dead PROVE FALSE
    OBVIOUS
  <2>1. PICK r \in freed : sim_pid[r] = s
    BY DEF Booked, Agreed, SameProcesses
  <2> QED BY <1>1, <1>3, <2>1, SpidsDiffer DEF Known
<1>6. sim_proc_count \in Nat
  BY ConstantsType DEF Booked, PlanType
<1>7. ~(s >= sim_proc_count)
  BY <1>4, <1>6
<1> QED BY <1>1, <1>4, <1>5, <1>7 DEF Column

\* Conversely, one shown with its time is held somewhere.
LEMMA TimeHeld ==
  ASSUME TypeOK, PlaceInv, Known, Booked, Taken, Undisturbed, phase = "begin",
         NEW s \in Nat, Column(s) = "time"
  PROVE  \E c \in Containers \ {FrameWait} : s \in Shown(c) /\ spid_pid[s] \in Items(Held[c])
<1>1. s \in 0 .. sim_proc_count - 1 /\ s \notin dead
  BY ConstantsType DEF Column, Booked, PlanType
<1>2. spid_pid[s] \in Started /\ sim_pid[spid_pid[s]] = s
  BY <1>1 DEF Taken, LedBack, AllCreated
<1>3. spid_pid[s] \notin freed
  BY <1>1, <1>2 DEF Booked, Agreed, SameProcesses
<1>4. spid_pid[s] \in Live
  BY <1>2, <1>3 DEF Live, Started
<1>5. PICK c \in Containers : spid_pid[s] \in Items(Held[c])
  BY <1>4 DEF PlaceInv, Placed
<1>6. c # FrameWait
  BY <1>5, HeldValues, ItemsEmpty DEF Undisturbed
<1> QED BY <1>2, <1>5, <1>6 DEF Shown

\* A spid held anywhere else waits.
LEMMA WaitingHeld ==
  ASSUME NEW c \in Containers \ {FrameWait}, NEW s \in Shown(c), s \notin Waiting
  PROVE  c \in Users
<1>1. CASE c = PageReady
  BY <1>1, HeldValues DEF Shown, Waiting
<1>2. ASSUME NEW q \in Queues, c = Ready(q)
      PROVE  FALSE
  BY <1>2, HeldValues DEF Shown, Waiting
<1>3. ASSUME NEW e \in Devices, c = Blocked(e)
      PROVE  FALSE
  <2>1. PICK r \in Items(blocked_queue[e]) : s = sim_pid[r]
    BY <1>3, HeldValues DEF Shown
  <2>2. r \in UNION {Items(blocked_queue[d]) : d \in Devices}
    BY <2>1
  <2> QED BY <1>3, <2>1, <2>2 DEF Waiting
<1> QED BY <1>1, <1>2, <1>3, ContainerKinds DEF Users

LEMMA RowsAgree ==
  ASSUME TypeOK, PlaceInv, Known, Booked, Taken, Undisturbed
  PROVE  RowConsistent
<1> SUFFICES ASSUME RowPrinted, sim_proc_count <= 10, NEW s \in 0 .. MaxProcesses - 1
             PROVE  LET shown == {x \in OtherColumns : s \in x[3]}
                    IN  /\ Column(s) # "time" => shown = {}
                        /\ Column(s) = "time" => Cardinality(shown) <= 1
                        /\ Column(s) = "time" /\ s \notin Waiting => shown # {}
  BY DEF RowConsistent
<1> DEFINE where == {e \in Users : s \in Shown(e)}
           shown == {x \in OtherColumns : s \in x[3]}
<1>1. phase = "begin" /\ s \in Nat
  BY ConstantsType DEF RowPrinted
<1>2. shown = {ColumnOf(c) : c \in where}
  BY ColumnsShown
<1>3. where \subseteq Containers
  BY ContainerKinds DEF Users
<1>4. \A c, e \in where : c = e
  <2> SUFFICES ASSUME NEW c \in where, NEW e \in where
               PROVE  c = e
    OBVIOUS
  <2>1. spid_pid[s] \in Items(Held[c]) /\ spid_pid[s] \in Items(Held[e])
    BY <1>3, ShownHeld
  <2> QED BY <1>3, <2>1 DEF PlaceInv, Placed
<1>5. ASSUME Column(s) # "time"
      PROVE  shown = {}
  <2>1. where = {}
    BY <1>3, <1>5, ShownHeld
  <2> QED BY <1>2, <2>1
<1>6. Cardinality(shown) <= 1
  <2>1. shown = {} \/ \E c \in where : shown = {ColumnOf(c)}
    BY <1>2, <1>4
  <2> HIDE DEF shown
  <2> QED BY <2>1, FS_EmptySet, FS_Singleton
<1>7. ASSUME Column(s) = "time", s \notin Waiting
      PROVE  shown # {}
  <2>1. PICK c \in Containers \ {FrameWait} : s \in Shown(c)
    BY <1>1, <1>7, TimeHeld
  <2>2. c \in where
    BY <1>7, <2>1, WaitingHeld
  <2> QED BY <1>2, <2>2
<1> QED BY <1>5, <1>6, <1>7

-------------------------------------------------------------------------------
(***************************************************************************)
(* main around the loop                                                    *)
(***************************************************************************)

\* The lines of the plan are read before the OS is started, and reading them
\* touches nothing of it.
LEMMA ReadPlanStep ==
  ASSUME ReadPlan
  PROVE  /\ outcome = "reading" /\ outcome' \in {"reading", "exit", "undefined"}
         /\ UNCHANGED <<simVars, heap>>
<1>1. UNCHANGED <<simVars, heap>> /\ F!ReadLine
  BY DEF ReadPlan
<1>2. outcome = "reading"
  BY <1>1 DEF F!ReadLine, F!DeviceEntry, F!TimelineEntry, F!ProcessEntry, F!OsEntry,
     F!SectionHead, F!ProcessHead, F!ProcessCopyHead, F!IgnoredLine, F!NextLine
<1>3. \A new, of : F!SetCopyOf(new, of) => outcome' \in {outcome, "undefined"}
  BY DEF F!SetCopyOf
<1>4. \A name, value : /\ F!NumberSetting(name, value) => outcome' \in {outcome, "undefined"}
                       /\ F!StringSetting(name, value) => outcome' \in {outcome, "exit"}
  BY DEF F!NumberSetting, F!StringSetting
<1>5. outcome' \in {outcome, "exit", "undefined"}
  BY <1>1, <1>3, <1>4
  DEF F!ReadLine, F!DeviceEntry, F!TimelineEntry, F!ProcessEntry, F!OsEntry,
     F!SectionHead, F!ProcessHead, F!ProcessCopyHead, F!IgnoredLine
<1> QED BY <1>1, <1>2, <1>5

LEMMA PrintPlanStep ==
  ASSUME PrintPlan
  PROVE  /\ outcome \in {"reading", "read"} /\ outcome' \in {"read", "printed", "undefined"}
         /\ UNCHANGED <<simVars, heap>>
BY DEF PrintPlan, F!EndOfFile, F!PrintPlan

\* The memory is freed and the program goes on, or it does not go on.
LEMMA FreeAllOutcome ==
  ASSUME NEW calls, NEW then, FreeAll(calls, then)
  PROVE  outcome' \in {then, "exit", "undefined"}
BY DEF FreeAll, H!After

LEMMA OtherSteps ==
  ASSUME ProgramNext
  PROVE  \/ ReadPlan \/ PrintPlan \/ Start \/ Simulate
         \/ UNCHANGED simVars /\ outcome' \in {"exit", "undefined", "disposed"}
<1>1. CASE NoSwapDevice \/ StartOutOfRange
  BY <1>1 DEF NoSwapDevice, StartOutOfRange
<1>2. CASE Dispose
  BY <1>2, FreeAllOutcome DEF Dispose
<1> QED BY <1>1, <1>2 DEF ProgramNext, RunPlan

\* What the OS and the plan's books are made of: all of Simulator but the
\* entries, which are those of the file once it has been read.
bookVars == <<vars, sim_proc_count, sim_pid, spid_pid, proc_time, dead>>

LEMMA ProgramStep ==
  ASSUME [ProgramNext]_programVars
  PROVE  [SimNext]_simVars \/ UNCHANGED bookVars
<1>1. CASE ReadPlan \/ PrintPlan
  BY <1>1, ReadPlanStep, PrintPlanStep
<1>2. CASE UNCHANGED simVars
  BY <1>2
<1>3. CASE Start
  BY <1>3 DEF Start, bookVars
<1>4. CASE Simulate
  BY <1>4 DEF Simulate
<1>5. CASE UNCHANGED programVars
  BY <1>5 DEF programVars
<1> QED BY <1>1, <1>2, <1>3, <1>4, <1>5, OtherSteps

\* The program around the loop changes nothing of the loop: what is proved of
\* the main loop holds of the program from its first step to its last.
THEOREM ProgramRunsOS ==
  ASSUME NEW files
  PROVE  ProgramSpec(files) => Spec
<1>1. ProgramInit(files) => Init
  BY DEF ProgramInit, SimInit
<1>2. [ProgramNext]_programVars => [Next]_vars
  BY ProgramStep, StepOfOS DEF bookVars
<1> QED BY <1>1, <1>2, PTL DEF ProgramSpec, Spec

LEMMA ProgramBooks ==
  ASSUME NEW files
  PROVE  ProgramSpec(files) => [](TypeOK /\ Known /\ Booked /\ Taken)
<1>1. ProgramInit(files) => Booked /\ Taken
  BY InitBooks, InitTaken DEF ProgramInit
<1>2. TypeOK /\ Known /\ Booked /\ Taken /\ [ProgramNext]_programVars => Booked' /\ Taken'
  <2> SUFFICES ASSUME TypeOK, Known, Booked, Taken, [ProgramNext]_programVars
               PROVE  Booked' /\ Taken'
    OBVIOUS
  <2>1. CASE [SimNext]_simVars
    BY <2>1, NextBooks, NextTaken
  <2>2. CASE UNCHANGED bookVars
    <3>1. Booked'
      BY <2>2, UnmovedBooks DEF bookVars, vars
    <3>2. Taken'
      BY <2>2 DEF bookVars, vars, Taken, LedBack, AllCreated, Started
    <3> QED BY <3>1, <3>2
  <2> QED BY <2>1, <2>2, ProgramStep
<1> QED BY <1>1, <1>2, ProgramRunsOS, AlwaysKnown, PTL DEF ProgramSpec

-------------------------------------------------------------------------------
(***************************************************************************)
(* Numbers                                                                 *)
(***************************************************************************)

LEMMA UpTo ==
  ASSUME NEW n \in Nat, NEW S \in SUBSET Nat, 0 \in S,
         \A i \in 0 .. n - 1 : i \in S => i + 1 \in S
  PROVE  0 .. n \subseteq S
<1> DEFINE rest == (0 .. n) \ S
<1> SUFFICES ASSUME rest # {} PROVE FALSE
  OBVIOUS
<1>1. rest \in SUBSET Nat
  OBVIOUS
<1> HIDE DEF rest
<1>2. PICK m \in rest : \A i \in rest : m <= i
  BY <1>1, Least
<1>3. m # 0 /\ m - 1 \in 0 .. n - 1
  BY DEF rest
<1>4. m - 1 \in S
  BY <1>2, <1>3 DEF rest
<1> QED BY <1>3, <1>4 DEF rest

LEMMA MinOf ==
  ASSUME NEW S \in SUBSET Nat, S # {}
  PROVE  F!Min(S) \in S /\ \A n \in S : F!Min(S) <= n
<1>1. \E m \in S : \A n \in S : m =< n
  BY Least
<1> QED BY <1>1 DEF F!Min

\* Of n numbers the k-th is the one with k - 1 below it.
LEMMA NthOf ==
  ASSUME NEW n \in Nat, NEW S \in SUBSET (1 .. n), NEW k \in 1 .. Cardinality(S)
  PROVE  /\ F!Nth(S, k) \in S
         /\ Cardinality({j \in S : j < F!Nth(S, k)}) = k - 1
<1> DEFINE below(m) == {j \in S : j < m}
           T == {m \in Nat : Cardinality(below(m)) >= k}
<1>0. \A j \in S : j \in Int /\ 1 <= j /\ j <= n
  OBVIOUS
<1>1. IsFiniteSet(S) /\ Cardinality(S) \in Nat
  <2>1. 1 \in Int /\ n \in Int
    OBVIOUS
  <2>2. IsFiniteSet(1 .. n)
    BY <2>1, FS_Interval
  <2> QED BY <2>2, FS_Subset, FS_CardinalityType
<1>2. \A m \in Nat : IsFiniteSet(below(m)) /\ Cardinality(below(m)) \in Nat
  <2> SUFFICES ASSUME NEW m \in Nat
               PROVE  IsFiniteSet(below(m)) /\ Cardinality(below(m)) \in Nat
    OBVIOUS
  <2>1. below(m) \in SUBSET S
    OBVIOUS
  <2> HIDE DEF below
  <2> QED BY <1>1, <2>1, FS_Subset, FS_CardinalityType
<1>3. n + 1 \in T
  <2>1. \A j \in S : j < n + 1
    BY <1>0
  <2>2. below(n + 1) = S
    BY <2>1
  <2> HIDE DEF below
  <2> QED BY <1>1, <2>2
<1>4. PICK m \in T : \A i \in T : m <= i
  <2>1. T \in SUBSET Nat /\ T # {}
    BY <1>3
  <2> HIDE DEF T
  <2> QED BY <2>1, Least
<1>5. m # 0
  <2>1. \A j \in S : ~(j < 0)
    BY <1>0
  <2>2. below(0) = {}
    BY <2>1
  <2>3. Cardinality(below(0)) = 0
    <3> HIDE DEF below
    <3> QED BY <2>2, FS_EmptySet
  <2> HIDE DEF below
  <2> QED BY <1>4, <2>3
<1>6. m - 1 \in Nat /\ m - 1 \notin T
  BY <1>4, <1>5
<1>7. Cardinality(below(m - 1)) < k
  <2> HIDE DEF below
  <2> QED BY <1>2, <1>6
<1>8. m - 1 \in S
  <2> SUFFICES ASSUME m - 1 \notin S PROVE FALSE
    OBVIOUS
  <2>1. \A j \in S : j < m <=> j < m - 1
    BY <1>0, <1>6
  <2>2. below(m) = below(m - 1)
    BY <2>1
  <2> HIDE DEF below
  <2> QED BY <1>2, <1>4, <1>6, <1>7, <2>2
<1>9. Cardinality(below(m - 1)) = k - 1
  <2>1. \A j \in S : j < m <=> j < m - 1 \/ j = m - 1
    BY <1>0, <1>6
  <2>2. m - 1 \in S /\ ~(m - 1 < m - 1)
    BY <1>6, <1>8
  <2>3. below(m) = below(m - 1) \cup {m - 1} /\ m - 1 \notin below(m - 1)
    BY <2>1, <2>2
  <2> HIDE DEF below
  <2>4. Cardinality(below(m)) = Cardinality(below(m - 1)) + 1
    BY <1>2, <1>6, <2>3, FS_AddElement
  <2> QED BY <1>2, <1>4, <1>6, <1>7, <2>4
<1>10. \E i \in S : Cardinality({j \in S : j < i}) = k - 1
  BY <1>8, <1>9
<1> HIDE DEF below
<1>11. F!Nth(S, k) = CHOOSE i \in S : Cardinality({j \in S : j < i}) = k - 1
  BY DEF F!Nth, F!Cardinality, Cardinality
<1> QED BY <1>10, <1>11

\* Further up there are more below.
LEMMA MoreBelow ==
  ASSUME NEW n \in Nat, NEW S \in SUBSET (1 .. n), NEW i \in S, NEW m \in S, i < m
  PROVE  Cardinality({j \in S : j < i}) # Cardinality({j \in S : j < m})
<1> DEFINE low == {j \in S : j < i}
           high == {j \in S : j < m}
<1>0. \A j \in S : j \in Int
  OBVIOUS
<1>1. IsFiniteSet(high)
  <2>1. IsFiniteSet(1 .. n)
    BY FS_Interval
  <2>2. high \in SUBSET (1 .. n)
    OBVIOUS
  <2> HIDE DEF high
  <2> QED BY <2>1, <2>2, FS_Subset
<1>2. low \in SUBSET high /\ i \in high /\ i \notin low
  <2>1. \A j \in S : j < i => j < m
    BY <1>0
  <2>2. ~(i < i)
    BY <1>0
  <2> QED BY <2>1, <2>2
<1>3. low # high
  BY <1>2
<1> HIDE DEF low, high
<1>4. Cardinality(low) # Cardinality(high)
  BY <1>1, <1>2, <1>3, FS_Subset
<1> QED BY <1>4 DEF low, high

\* There is one number with k - 1 below it.
LEMMA NthOnly ==
  ASSUME NEW n \in Nat, NEW S \in SUBSET (1 .. n), NEW k \in 1 .. Cardinality(S), NEW i \in S,
         Cardinality({j \in S : j < i}) = k - 1
  PROVE  i = F!Nth(S, k)
<1> DEFINE m == F!Nth(S, k)
<1>1. m \in S /\ Cardinality({j \in S : j < m}) = k - 1
  BY NthOf
<1> HIDE DEF m
<1>2. ~(i < m) /\ ~(m < i)
  BY <1>1, MoreBelow
<1>3. i \in Int /\ m \in Int
  BY <1>1
<1>4. i = m
  BY <1>2, <1>3
<1> QED BY <1>4 DEF m

\* The numbers d further up, of which there are as many.
Shifted(S, d) == {i + d : i \in S}

LEMMA ShiftCount ==
  ASSUME NEW n \in Nat, NEW S \in SUBSET (1 .. n), NEW d \in Nat
  PROVE  /\ IsFiniteSet(S) /\ Cardinality(S) \in Nat
         /\ Cardinality(Shifted(S, d)) = Cardinality(S)
<1> DEFINE f == [i \in S |-> i + d]
<1>1. IsFiniteSet(S) /\ Cardinality(S) \in Nat
  <2>1. IsFiniteSet(1 .. n)
    BY FS_Interval
  <2> QED BY <2>1, FS_Subset, FS_CardinalityType
<1>2. f \in Bijection(S, Shifted(S, d))
  <2>1. \A i, j \in S : i + d = j + d => i = j
    OBVIOUS
  <2>2. f \in [S -> Shifted(S, d)] /\ \A j \in Shifted(S, d) : \E i \in S : f[i] = j
    BY DEF Shifted
  <2>3. \A i, j \in S : f[i] = f[j] => i = j
    BY <2>1
  <2> HIDE DEF f
  <2>4. f \in Injection(S, Shifted(S, d))
    BY <2>2, <2>3 DEF Injection, IsInjective
  <2>5. f \in Surjection(S, Shifted(S, d))
    BY <2>2 DEF Surjection
  <2> QED BY <2>4, <2>5 DEF Bijection
<1> QED BY <1>1, <1>2, FS_Bijection DEF ExistsBijection

LEMMA NthShifted ==
  ASSUME NEW n \in Nat, NEW S \in SUBSET (1 .. n), NEW d \in Nat, NEW k \in 1 .. Cardinality(S)
  PROVE  F!Nth(Shifted(S, d), k) = F!Nth(S, k) + d
<1> DEFINE i == F!Nth(S, k)
           T == Shifted(S, d)
<1>1. i \in S /\ Cardinality({j \in S : j < i}) = k - 1
  BY NthOf
<1> HIDE DEF i
<1>2. T \in SUBSET (1 .. n + d) /\ i + d \in T
  BY <1>1 DEF Shifted
<1>3. {j \in T : j < i + d} = Shifted({j \in S : j < i}, d)
  <2>1. \A j \in S : j + d < i + d <=> j < i
    BY <1>1
  <2> QED BY <2>1 DEF Shifted
<1>4. Cardinality(Shifted({j \in S : j < i}, d)) = k - 1
  <2>1. {j \in S : j < i} \in SUBSET (1 .. n)
    OBVIOUS
  <2> QED BY <1>1, <2>1, ShiftCount
<1>5. Cardinality(T) = Cardinality(S)
  BY ShiftCount
<1> HIDE DEF T
<1>6. i + d = F!Nth(T, k)
  <2>1. Cardinality({j \in T : j < i + d}) = k - 1
    BY <1>3, <1>4
  <2>2. k \in 1 .. Cardinality(T) /\ n + d \in Nat
    BY <1>5
  <2> QED BY <1>2, <2>1, <2>2, NthOnly
<1> QED BY <1>6 DEF i, T

-------------------------------------------------------------------------------
(***************************************************************************)
(* A line                                                                  *)
(***************************************************************************)
Code == Seq(F!Token)

LEMMA RunEnds ==
  ASSUME NEW code \in Code, NEW starts \in SUBSET (1 .. Len(code)), NEW i \in starts
  PROVE  LET e == F!End(code, starts, i)
         IN  /\ e \in i .. Len(code)
             /\ \A j \in i + 1 .. e : code[j] # F!Blank /\ j \notin starts
             /\ e = Len(code) \/ code[e + 1] = F!Blank \/ e + 1 \in starts
<1> DEFINE stop(e) == e = Len(code) \/ code[e + 1] = F!Blank \/ e + 1 \in starts
           E == {e \in i .. Len(code) : stop(e)}
<1>1. Len(code) \in Nat /\ i \in 1 .. Len(code)
  BY LenProperties DEF Code
<1>2. E \in SUBSET Nat /\ Len(code) \in E
  BY <1>1
<1>3. PICK e \in E : \A j \in E : e <= j
  <2> HIDE DEF E
  <2> QED BY <1>2, Least
<1>4. ASSUME NEW j \in i + 1 .. e
      PROVE  code[j] # F!Blank /\ j \notin starts
  <2>1. j - 1 \in i .. Len(code) /\ j - 1 < e /\ j - 1 + 1 = j
    BY <1>1, <1>3
  <2>2. j - 1 \notin E
    <3> HIDE DEF E
    <3> QED BY <1>2, <1>3, <2>1
  <2>3. ~stop(j - 1)
    BY <2>1, <2>2
  <2> QED BY <2>1, <2>3
<1>5. /\ e \in i .. Len(code)
      /\ \A j \in i + 1 .. e : code[j] # F!Blank /\ j \notin starts
      /\ e = Len(code) \/ code[e + 1] = F!Blank \/ e + 1 \in starts
  BY <1>3, <1>4
<1> QED BY <1>5 DEF F!End

LEMMA EndOnly ==
  ASSUME NEW code \in Code, NEW starts \in SUBSET (1 .. Len(code)), NEW i \in starts,
         NEW e \in i .. Len(code),
         \A j \in i + 1 .. e : code[j] # F!Blank /\ j \notin starts,
         e = Len(code) \/ code[e + 1] = F!Blank \/ e + 1 \in starts
  PROVE  e = F!End(code, starts, i)
<1> DEFINE f == F!End(code, starts, i)
<1>0. Len(code) \in Nat /\ i \in 1 .. Len(code)
  BY LenProperties DEF Code
<1>1. /\ f \in i .. Len(code)
      /\ \A j \in i + 1 .. f : code[j] # F!Blank /\ j \notin starts
      /\ f = Len(code) \/ code[f + 1] = F!Blank \/ f + 1 \in starts
  BY RunEnds
<1> HIDE DEF f
<1>2. ~(e < f)
  <2> SUFFICES ASSUME e < f PROVE FALSE
    OBVIOUS
  <2>1. e + 1 \in i + 1 .. f /\ e # Len(code)
    BY <1>0, <1>1
  <2> QED BY <1>1, <2>1
<1>3. ~(f < e)
  <2> SUFFICES ASSUME f < e PROVE FALSE
    OBVIOUS
  <2>1. f + 1 \in i + 1 .. e /\ f # Len(code)
    BY <1>0, <1>1
  <2> QED BY <1>1, <2>1
<1>4. e = f
  BY <1>0, <1>1, <1>2, <1>3
<1> QED BY <1>4 DEF f

\* What is taken for a name or a number are pieces of the line, none empty.
LEMMA RunsType ==
  ASSUME NEW code \in Code, NEW first
  PROVE  /\ F!Runs(code, first) \in Seq(Code)
         /\ \A k \in DOMAIN F!Runs(code, first) : F!Runs(code, first)[k][1] \in F!Token
<1> DEFINE starts == F!Starts(code, first)
           n == Cardinality(starts)
           run(k) == F!RunAt(code, starts, F!Nth(starts, k))
<1>1. /\ Len(code) \in Nat /\ DOMAIN code = 1 .. Len(code)
      /\ \A i \in 1 .. Len(code) : code[i] \in F!Token
  BY LenProperties, ElementOfSeq DEF Code
<1>2. F!Runs(code, first) = [k \in 1 .. n |-> run(k)]
  BY DEF F!Runs, F!Cardinality, Cardinality
<1>3. starts \in SUBSET (1 .. Len(code)) /\ n \in Nat
  <2>1. starts \in SUBSET (1 .. Len(code))
    BY <1>1 DEF F!Starts
  <2>2. IsFiniteSet(1 .. Len(code))
    BY <1>1, FS_Interval
  <2> HIDE DEF starts
  <2> QED BY <2>1, <2>2, FS_Subset, FS_CardinalityType
<1> HIDE DEF starts
<1>4. ASSUME NEW k \in 1 .. n
      PROVE  run(k) \in Code /\ run(k)[1] \in F!Token
  <2> DEFINE i == F!Nth(starts, k)
             e == F!End(code, starts, i)
  <2>1. i \in starts
    BY <1>1, <1>3, NthOf
  <2>2. i \in 1 .. Len(code) /\ e \in i .. Len(code)
    BY <1>3, <2>1, RunEnds
  <2> HIDE DEF i, e
  <2>3. /\ i \in Int /\ e \in Int /\ i <= e
        /\ \A j \in i .. e : code[j] \in F!Token
    BY <1>1, <2>2
  <2>4. /\ SubSeq(code, i, e) \in Code
        /\ \A j \in 1 .. e - i + 1 : SubSeq(code, i, e)[j] = code[i + j - 1]
    BY <2>3, SubSeqProperties DEF Code
  <2>5. SubSeq(code, i, e)[1] = code[i] /\ code[i] \in F!Token
    BY <2>3, <2>4
  <2>6. run(k) = SubSeq(code, i, e)
    BY DEF F!RunAt, i, e
  <2> QED BY <2>4, <2>5, <2>6
<1> HIDE DEF run, n
<1>5. [k \in 1 .. n |-> run(k)] \in Seq(Code)
  BY <1>3, <1>4, IsASeq
<1> QED BY <1>2, <1>3, <1>4, <1>5

LEMMA Tokens ==
  ASSUME NEW t \in F!Token, F!IsNumber(t)
  PROVE  t[2] \in Nat
BY DEF F!Token, F!IsNumber

\* What is matched is in the order of the form: numbers and names.
LEMMA MatchType ==
  ASSUME NEW code \in Code, NEW form, NEW least \in Nat, form \in Seq({"number", "string"}),
         NEW e \in F!MatchEntry(code, form, least)
  PROVE  /\ e \in Seq(Nat \cup Code) /\ Len(e) \in least .. Len(form)
         /\ \A i \in 1 .. Len(e) : IF form[i] = "number" THEN e[i] \in Nat ELSE e[i] \in Code
<1> DEFINE runs == F!Runs(code, form[1])
           piece(i) == IF form[i] = "number" THEN runs[i][1][2] ELSE runs[i]
<1>1. /\ Len(runs) \in least .. Len(form)
      /\ \A i \in DOMAIN runs : form[i] = "number" => F!IsNumeral(runs[i])
      /\ e = [i \in DOMAIN runs |-> piece(i)]
  BY DEF F!MatchEntry
<1>2. /\ runs \in Seq(Code) /\ Len(runs) \in Nat /\ DOMAIN runs = 1 .. Len(runs)
      /\ \A i \in 1 .. Len(runs) : runs[i] \in Code /\ runs[i][1] \in F!Token
  BY RunsType, LenProperties, ElementOfSeq
<1> HIDE DEF runs
<1>3. \A i \in 1 .. Len(runs) : IF form[i] = "number" THEN piece(i) \in Nat ELSE piece(i) \in Code
  <2> SUFFICES ASSUME NEW i \in 1 .. Len(runs)
               PROVE  IF form[i] = "number" THEN piece(i) \in Nat ELSE piece(i) \in Code
    OBVIOUS
  <2>1. CASE form[i] = "number"
    <3>1. F!IsNumber(runs[i][1])
      BY <1>1, <1>2, <2>1 DEF F!IsNumeral
    <3> QED BY <1>2, <2>1, <3>1, Tokens
  <2>2. CASE form[i] # "number"
    BY <1>2, <2>2
  <2> QED BY <2>1, <2>2
<1>4. \A i \in 1 .. Len(runs) : piece(i) \in Nat \cup Code
  BY <1>3
<1> HIDE DEF piece
<1>5. e \in Seq(Nat \cup Code) /\ Len(e) = Len(runs)
  <2>1. [i \in 1 .. Len(runs) |-> piece(i)] \in Seq(Nat \cup Code)
    BY <1>2, <1>4, IsASeq
  <2>2. e \in Seq(Nat \cup Code) /\ DOMAIN e = 1 .. Len(runs)
    BY <1>1, <1>2, <2>1
  <2> QED BY <1>2, <2>2, LenProperties
<1> QED BY <1>1, <1>2, <1>3, <1>5

\* What stands in a header for a number is one of the line, or nothing.
LEMMA HeadType ==
  ASSUME NEW code \in Code, NEW name, NEW copy, NEW n \in F!Heads(code, name, copy)
  PROVE  F!Value(n[1]) \in Nat /\ F!Value(n[2]) \in Nat
<1>1. n \in F!NumberOrNone(code) \X F!NumberOrNone(code)
  BY DEF F!Heads
<1>2. ASSUME NEW m \in F!NumberOrNone(code)
      PROVE  F!Value(m) \in Nat
  <2>1. CASE m = <<>>
    BY <2>1 DEF F!Value
  <2>2. CASE m # <<>>
    <3>1. PICK t \in F!ToSet(code) : F!IsNumber(t) /\ m = <<t>>
      BY <1>2, <2>2 DEF F!NumberOrNone
    <3>2. t \in F!Token
      BY ElementOfSeq, LenProperties DEF F!ToSet, Code
    <3> QED BY <2>2, <3>1, <3>2, Tokens DEF F!Value
  <2> QED BY <2>1, <2>2
<1> QED BY <1>1, <1>2

LEMMA LineType ==
  ASSUME file \in F!Files, file # <<>>
  PROVE  F!Line \in Code /\ Tail(file) \in F!Files
<1>1. Head(file) \in Code /\ Tail(file) \in F!Files
  BY HeadTailProperties DEF F!Files, Code
<1> DEFINE s == Head(file)
           comments == {i \in DOMAIN s : s[i] = F!Comment}
<1>2. F!Line = IF comments = {} THEN s ELSE SubSeq(s, 1, F!Min(comments) - 1)
  BY DEF F!Line, F!Trim
<1>3. /\ DOMAIN s = 1 .. Len(s) /\ Len(s) \in Nat
      /\ \A i \in 1 .. Len(s) : s[i] \in F!Token
  BY <1>1, LenProperties, ElementOfSeq DEF Code
<1>4. CASE comments # {}
  <2>1. comments \in SUBSET Nat /\ comments \subseteq 1 .. Len(s)
    BY <1>3
  <2> DEFINE m == F!Min(comments)
  <2>2. m \in 1 .. Len(s)
    <3> HIDE DEF comments
    <3> QED BY <1>4, <2>1, MinOf
  <2> HIDE DEF m
  <2>3. m - 1 \in Int /\ 1 \in Int /\ \A i \in 1 .. m - 1 : s[i] \in F!Token
    BY <1>3, <2>2
  <2>4. SubSeq(s, 1, m - 1) \in Seq(F!Token)
    BY <2>3, SubSeqProperties
  <2> QED BY <1>1, <1>2, <1>4, <2>4 DEF m, Code
<1>5. CASE comments = {}
  BY <1>1, <1>2, <1>5
<1> QED BY <1>1, <1>4, <1>5

-------------------------------------------------------------------------------
(***************************************************************************)
(* The layout of a line: blanks around an entry, and a comment after it.   *)
(***************************************************************************)

\* Blanks may stand before the code, d of them, and after it.
Padded(line, code, d) ==
  /\ d + Len(code) <= Len(line)
  /\ \A i \in 1 .. Len(code) : line[i + d] = code[i]
  /\ \A i \in 1 .. Len(line) : i <= d \/ i > d + Len(code) => line[i] = F!Blank

\* Then the line may end, or a comment follow.
LaidOut(line, code, d) ==
  \E e \in d + Len(code) .. Len(line) :
    /\ Padded(SubSeq(line, 1, e), code, d)
    /\ e = Len(line) \/ line[e + 1] = F!Comment

LEMMA LineSizes ==
  ASSUME NEW line \in Code
  PROVE  /\ Len(line) \in Nat /\ DOMAIN line = 1 .. Len(line)
         /\ \A i \in 1 .. Len(line) : line[i] \in F!Token
BY LenProperties, ElementOfSeq DEF Code

LEMMA BlankIs == F!Blank # F!Comment /\ ~F!IsNumber(F!Blank)
BY DEF F!Blank, F!Comment, F!Word, F!IsNumber

\* What is cut off is the comment.
LEMMA TrimLaidOut ==
  ASSUME NEW line \in Code, NEW code \in Code, NEW d \in Nat, LaidOut(line, code, d),
         \A i \in 1 .. Len(code) : code[i] # F!Comment
  PROVE  F!Trim(line) \in Code /\ Padded(F!Trim(line), code, d)
<1> DEFINE comments == {i \in DOMAIN line : line[i] = F!Comment}
<1>1. PICK e \in d + Len(code) .. Len(line) :
        /\ Padded(SubSeq(line, 1, e), code, d)
        /\ e = Len(line) \/ line[e + 1] = F!Comment
  BY DEF LaidOut
<1>2. /\ e \in Nat /\ e <= Len(line)
      /\ \A i \in 1 .. e : line[i] \in F!Token
  BY <1>1, LineSizes
<1>3. /\ SubSeq(line, 1, e) \in Code /\ Len(SubSeq(line, 1, e)) = e
      /\ \A i \in 1 .. e : SubSeq(line, 1, e)[i] = line[i]
  <2>1. /\ SubSeq(line, 1, e) \in Code
        /\ Len(SubSeq(line, 1, e)) = IF 1 <= e THEN e - 1 + 1 ELSE 0
        /\ \A i \in 1 .. e - 1 + 1 : SubSeq(line, 1, e)[i] = line[1 + i - 1]
    BY <1>2, SubSeqProperties DEF Code
  <2> QED BY <1>2, <2>1
<1>4. \A i \in 1 .. e : line[i] # F!Comment
  <2> SUFFICES ASSUME NEW i \in 1 .. e PROVE SubSeq(line, 1, e)[i] # F!Comment
    BY <1>3
  <2>1. CASE i <= d \/ i > d + Len(code)
    BY <1>1, <1>3, <2>1, BlankIs DEF Padded
  <2>2. CASE i > d /\ i <= d + Len(code)
    <3>1. i - d \in 1 .. Len(code) /\ (i - d) + d = i
      BY <1>2, <2>2, LineSizes
    <3> QED BY <1>1, <3>1 DEF Padded
  <2> QED BY <1>2, <2>1, <2>2, LineSizes
<1>5. F!Trim(line) = SubSeq(line, 1, e)
  <2>1. F!Trim(line) = IF comments = {} THEN line ELSE SubSeq(line, 1, F!Min(comments) - 1)
    BY DEF F!Trim
  <2>2. CASE comments = {}
    <3>1. e = Len(line)
      BY <1>1, <1>2, <2>2, LineSizes
    <3>2. SubSeq(line, 1, e) = line
      BY <1>3, <3>1, SeqEqual DEF Code
    <3> QED BY <2>1, <2>2, <3>2
  <2>3. CASE comments # {}
    <3>1. comments \in SUBSET Nat /\ \A i \in comments : i \in 1 .. Len(line) /\ i >= e + 1
      BY <1>2, <1>4, LineSizes
    <3>2. F!Min(comments) \in comments /\ \A i \in comments : F!Min(comments) <= i
      <4> HIDE DEF comments
      <4> QED BY <2>3, <3>1, MinOf
    <3>3. e # Len(line)
      BY <1>2, <2>3, <3>1, LineSizes
    <3>4. e + 1 \in comments
      BY <1>1, <1>2, <3>3, LineSizes
    <3> DEFINE m == F!Min(comments)
    <3>5. m = e + 1
      <4>1. m \in Nat /\ m >= e + 1 /\ m <= e + 1
        BY <3>1, <3>2, <3>4
      <4> HIDE DEF m
      <4> QED BY <1>2, <4>1
    <3>6. m - 1 = e
      BY <1>2, <3>5
    <3> QED BY <2>1, <2>3, <3>6
  <2> QED BY <2>2, <2>3
<1> QED BY <1>1, <1>3, <1>5

LEMMA PaddedAt ==
  ASSUME NEW line \in Code, NEW code \in Code, NEW d \in Nat, Padded(line, code, d),
         NEW i \in 1 .. Len(line), line[i] # F!Blank
  PROVE  i - d \in 1 .. Len(code) /\ code[i - d] = line[i]
<1>1. i > d /\ i <= d + Len(code)
  BY LineSizes DEF Padded
<1>2. i - d \in 1 .. Len(code) /\ (i - d) + d = i
  BY <1>1, LineSizes
<1> QED BY <1>2 DEF Padded

\* The pieces begin where they did, d tokens further on.
LEMMA StartsPadded ==
  ASSUME NEW line \in Code, NEW code \in Code, NEW d \in Nat, Padded(line, code, d), NEW first
  PROVE  F!Starts(line, first) = Shifted(F!Starts(code, first), d)
<1> DEFINE begins(c, i) ==
             \/ i = 1
             \/ c[i - 1] = F!Blank
             \/ /\ first = "number" /\ F!IsNumber(c[i - 1])
                /\ \A j \in 1 .. i - 2 : c[j] = F!Blank
<1>0. /\ Len(code) \in Nat /\ Len(line) \in Nat /\ d + Len(code) <= Len(line)
      /\ DOMAIN code = 1 .. Len(code) /\ DOMAIN line = 1 .. Len(line)
  BY LineSizes DEF Padded
<1>1. \A c : F!Starts(c, first) = {i \in DOMAIN c : c[i] # F!Blank /\ begins(c, i)}
  BY DEF F!Starts
<1>2. ASSUME NEW i \in 1 .. Len(code)
      PROVE  begins(line, i + d) <=> begins(code, i)
  <2>1. CASE i = 1
    <3>1. d # 0 => d \in 1 .. Len(line) /\ line[d] = F!Blank
      BY <1>0 DEF Padded
    <3>2. i + d - 1 = d /\ (d = 0 => i + d = 1)
      BY <2>1
    <3> QED BY <2>1, <3>1, <3>2
  <2>2. CASE i # 1
    <3>1. i - 1 \in 1 .. Len(code) /\ i + d # 1 /\ (i - 1) + d = i + d - 1
      BY <1>0, <2>2
    <3>2. line[i + d - 1] = code[i - 1]
      BY <3>1 DEF Padded
    <3>3. (\A j \in 1 .. i + d - 2 : line[j] = F!Blank) <=> (\A j \in 1 .. i - 2 : code[j] = F!Blank)
      <4>1. ASSUME \A j \in 1 .. i + d - 2 : line[j] = F!Blank, NEW j \in 1 .. i - 2
            PROVE  code[j] = F!Blank
        <5>1. j \in 1 .. Len(code) /\ j + d \in 1 .. i + d - 2
          BY <1>0
        <5> QED BY <4>1, <5>1 DEF Padded
      <4>2. ASSUME \A j \in 1 .. i - 2 : code[j] = F!Blank, NEW j \in 1 .. i + d - 2
            PROVE  line[j] = F!Blank
        <5> SUFFICES ASSUME line[j] # F!Blank PROVE FALSE
          OBVIOUS
        <5>1. j \in 1 .. Len(line)
          BY <1>0
        <5>2. j - d \in 1 .. Len(code) /\ code[j - d] = line[j]
          BY <5>1, PaddedAt
        <5>3. j - d \in 1 .. i - 2
          BY <1>0, <5>2
        <5> QED BY <4>2, <5>2, <5>3
      <4> QED BY <4>1, <4>2
    <3> QED BY <2>2, <3>1, <3>2, <3>3
  <2> QED BY <2>1, <2>2
<1> HIDE DEF begins
<1>3. ASSUME NEW i \in F!Starts(line, first)
      PROVE  i \in Shifted(F!Starts(code, first), d)
  <2>1. i \in 1 .. Len(line) /\ line[i] # F!Blank /\ begins(line, i)
    BY <1>0, <1>1
  <2>2. i - d \in 1 .. Len(code) /\ code[i - d] = line[i]
    BY <2>1, PaddedAt
  <2>3. (i - d) + d = i
    BY <2>1
  <2>4. begins(code, i - d)
    BY <1>2, <2>1, <2>2, <2>3
  <2> QED BY <1>0, <1>1, <2>1, <2>2, <2>3, <2>4 DEF Shifted
<1>4. ASSUME NEW i \in F!Starts(code, first)
      PROVE  i + d \in F!Starts(line, first)
  <2>1. i \in 1 .. Len(code) /\ code[i] # F!Blank /\ begins(code, i)
    BY <1>0, <1>1
  <2>2. i + d \in 1 .. Len(line) /\ line[i + d] = code[i]
    BY <1>0, <2>1 DEF Padded
  <2> QED BY <1>0, <1>1, <1>2, <2>1, <2>2
<1> QED BY <1>3, <1>4 DEF Shifted

\* The same names and numbers are found.
LEMMA RunsPadded ==
  ASSUME NEW line \in Code, NEW code \in Code, NEW d \in Nat, Padded(line, code, d), NEW first
  PROVE  F!Runs(line, first) = F!Runs(code, first)
<1> DEFINE S == F!Starts(code, first)
           T == F!Starts(line, first)
<1>0. /\ Len(code) \in Nat /\ Len(line) \in Nat /\ d + Len(code) <= Len(line)
      /\ DOMAIN code = 1 .. Len(code) /\ DOMAIN line = 1 .. Len(line)
  BY LineSizes DEF Padded
<1>1. S \in SUBSET (1 .. Len(code)) /\ T \in SUBSET (1 .. Len(line)) /\ T = Shifted(S, d)
  <2>1. S \in SUBSET (1 .. Len(code)) /\ T \in SUBSET (1 .. Len(line))
    BY <1>0 DEF F!Starts
  <2> QED BY <2>1, StartsPadded
<1>2. /\ F!Runs(line, first) = [k \in 1 .. Cardinality(T) |-> F!RunAt(line, T, F!Nth(T, k))]
      /\ F!Runs(code, first) = [k \in 1 .. Cardinality(S) |-> F!RunAt(code, S, F!Nth(S, k))]
  BY DEF F!Runs, F!Cardinality, Cardinality
<1> HIDE DEF S, T
<1>3. Cardinality(T) = Cardinality(S)
  BY <1>0, <1>1, ShiftCount
<1>4. ASSUME NEW i \in S
      PROVE  F!RunAt(line, T, i + d) = F!RunAt(code, S, i)
  <2> DEFINE e == F!End(code, S, i)
  <2>1. /\ e \in i .. Len(code)
        /\ \A j \in i + 1 .. e : code[j] # F!Blank /\ j \notin S
        /\ e = Len(code) \/ code[e + 1] = F!Blank \/ e + 1 \in S
    BY <1>1, RunEnds
  <2> HIDE DEF e
  <2>2. i \in 1 .. Len(code) /\ e \in Int /\ i <= e /\ e <= Len(code)
    <3>1. i \in 1 .. Len(code)
      BY <1>1
    <3>2. e \in i .. Len(code) /\ Len(code) \in Nat
      BY <1>0, <2>1
    <3> QED BY <3>1, <3>2
  <2> /\ Len(code) \in Nat /\ Len(line) \in Nat /\ d + Len(code) <= Len(line)
      /\ e \in Nat
    BY <1>0, <2>2
  <2>3. ASSUME NEW j \in i + d + 1 .. e + d
        PROVE  line[j] # F!Blank /\ j \notin T
    <3>1. j - d \in i + 1 .. e /\ j - d \in 1 .. Len(code) /\ (j - d) + d = j
      BY <1>0, <2>2
    <3>2. line[j] = code[j - d]
      BY <3>1 DEF Padded
    <3>3. \A m \in S : m + d = j => m = j - d
      BY <1>1, <3>1
    <3> QED BY <1>1, <2>1, <3>1, <3>2, <3>3 DEF Shifted
  <2>4. e + d = Len(line) \/ line[e + d + 1] = F!Blank \/ e + d + 1 \in T
    <3>1. CASE e = Len(code) /\ e + d # Len(line)
      <4>1. \A m, n \in Nat : m + d <= n /\ m + d # n => m + d + 1 \in 1 .. n /\ m + d + 1 > d + m
        OBVIOUS
      <4>2. /\ e \in Nat /\ Len(line) \in Nat /\ e + d <= Len(line) /\ e + d # Len(line)
            /\ Len(code) = e
        BY <3>1
      <4>3. e + d + 1 \in 1 .. Len(line) /\ e + d + 1 > d + Len(code)
        BY <4>1, <4>2
      <4> QED BY <4>3 DEF Padded
    <3>2. CASE e # Len(code)
      <4>0. e \in Nat /\ e <= Len(code) /\ Len(code) \in Nat /\ e # Len(code)
        BY <2>2, <3>2
      <4>1. e + 1 \in 1 .. Len(code) /\ (e + 1) + d = e + d + 1
        BY <4>0
      <4>2. line[e + d + 1] = code[e + 1]
        BY <4>1 DEF Padded
      <4>3. e + 1 \in S => (e + 1) + d \in T
        BY <1>1 DEF Shifted
      <4> QED BY <2>1, <3>2, <4>1, <4>2, <4>3
    <3> QED BY <3>1, <3>2
  <2>5. e + d = F!End(line, T, i + d)
    <3>1. i + d \in T
      BY <1>1 DEF Shifted
    <3>2. e + d \in i + d .. Len(line)
      BY <1>0, <2>2
    <3> QED BY <1>1, <2>3, <2>4, <3>1, <3>2, EndOnly
  <2>6. SubSeq(line, i + d, e + d) = SubSeq(code, i, e)
    <3>1. /\ SubSeq(code, i, e) \in Code /\ Len(SubSeq(code, i, e)) = e - i + 1
          /\ \A j \in 1 .. e - i + 1 : SubSeq(code, i, e)[j] = code[i + j - 1]
      <4>1. \A j \in i .. e : code[j] \in F!Token
        BY <1>0, <2>2, LineSizes
      <4> QED BY <2>2, <4>1, SubSeqProperties DEF Code
    <3>2. /\ SubSeq(line, i + d, e + d) \in Code
          /\ Len(SubSeq(line, i + d, e + d)) = (e + d) - (i + d) + 1
          /\ \A j \in 1 .. (e + d) - (i + d) + 1 : SubSeq(line, i + d, e + d)[j] = line[i + d + j - 1]
      <4>1. \A j \in i + d .. e + d : line[j] \in F!Token
        BY <1>0, <2>2, LineSizes
      <4>2. i + d \in Int /\ e + d \in Int /\ i + d <= e + d
        BY <2>2
      <4> DEFINE m == i + d
                 n == e + d
      <4>3. m \in Int /\ n \in Int /\ m <= n /\ \A j \in m .. n : line[j] \in F!Token
        BY <4>1, <4>2
      <4> HIDE DEF m, n
      <4>4. /\ SubSeq(line, m, n) \in Seq(F!Token)
            /\ Len(SubSeq(line, m, n)) = n - m + 1
            /\ \A j \in 1 .. n - m + 1 : SubSeq(line, m, n)[j] = line[m + j - 1]
        BY <4>3, SubSeqProperties
      <4> QED BY <4>4 DEF Code, m, n
    <3>3. (e + d) - (i + d) + 1 = e - i + 1
      BY <2>2
    <3>4. \A j \in 1 .. e - i + 1 : line[i + d + j - 1] = code[i + j - 1]
      <4> SUFFICES ASSUME NEW j \in 1 .. e - i + 1 PROVE line[i + d + j - 1] = code[i + j - 1]
        OBVIOUS
      <4>1. i + j - 1 \in 1 .. Len(code) /\ (i + j - 1) + d = i + d + j - 1
        BY <1>0, <2>2
      <4> QED BY <4>1 DEF Padded
    <3> DEFINE u == SubSeq(line, i + d, e + d)
               v == SubSeq(code, i, e)
               n == e - i + 1
    <3>5. u \in Seq(F!Token) /\ v \in Seq(F!Token) /\ Len(u) = n /\ Len(v) = n
      BY <3>1, <3>2, <3>3 DEF Code
    <3>6. \A j \in 1 .. n : u[j] = v[j]
      BY <3>1, <3>2, <3>3, <3>4
    <3> HIDE DEF u, v, n
    <3>7. u = v
      BY <3>5, <3>6, SeqEqual
    <3> QED BY <3>7 DEF u, v
  <2> QED BY <2>5, <2>6 DEF F!RunAt, e
<1>5. ASSUME NEW k \in 1 .. Cardinality(S)
      PROVE  F!RunAt(line, T, F!Nth(T, k)) = F!RunAt(code, S, F!Nth(S, k))
  <2>1. F!Nth(S, k) \in S /\ F!Nth(T, k) = F!Nth(S, k) + d
    BY <1>0, <1>1, NthOf, NthShifted
  <2> QED BY <1>4, <2>1
<1> QED BY <1>2, <1>3, <1>5

\* The layout of an entry makes no difference: blanks before it and after it, and
\* a comment at the end of the line, are read over (trim, sim_plan_txt.c:644).
THEOREM LayoutIgnored ==
  ASSUME NEW line \in Code, NEW code \in Code, NEW d \in Nat, LaidOut(line, code, d),
         \A i \in 1 .. Len(code) : code[i] # F!Comment
  PROVE  /\ \A form, least :
              F!MatchEntry(F!Trim(line), form, least) = F!MatchEntry(code, form, least)
         /\ F!MatchOsEntry(F!Trim(line)) = F!MatchOsEntry(code)
<1>1. \A first : F!Runs(F!Trim(line), first) = F!Runs(code, first)
  BY TrimLaidOut, RunsPadded
<1>2. \A form, least : F!MatchEntry(F!Trim(line), form, least) = F!MatchEntry(code, form, least)
  BY <1>1 DEF F!MatchEntry
<1>3. F!MatchOsEntry(F!Trim(line)) = F!MatchOsEntry(code)
  BY <1>1 DEF F!MatchOsEntry
<1> QED BY <1>2, <1>3

-------------------------------------------------------------------------------
(***************************************************************************)
(* The entries                                                             *)
(***************************************************************************)

LEMMA DeviceOfType ==
  ASSUME devices \in Seq(F!DeviceEntries), NEW name
  PROVE  F!DeviceOf(name) \in Int /\ F!DeviceOf(name) < Len(devices)
<1> DEFINE named == {i \in DOMAIN devices : devices[i].name = name}
<1>1. F!DeviceOf(name) = IF named = {} THEN -1 ELSE F!Min(named) - 1
  BY DEF F!DeviceOf
<1>2. Len(devices) \in Nat /\ named \subseteq 1 .. Len(devices) /\ named \in SUBSET Nat
  BY LenProperties
<1>3. named # {} => F!Min(named) \in 1 .. Len(devices)
  <2> HIDE DEF named
  <2> QED BY <1>2, MinOf
<1> HIDE DEF named
<1> QED BY <1>1, <1>2, <1>3

LEMMA NewEntryType ==
  ASSUME devices \in Seq(F!DeviceEntries), NEW t \in Nat, NEW name, NEW spid \in Nat,
         NEW params \in Seq(Nat)
  PROVE  F!NewEntry(t, name, spid, params) \in Seq(F!TimelineEntries)
<1> DEFINE action == F!Action(name, params # <<>>)
           e == [time |-> t, action |-> action, sim_pid |-> spid,
                 device_id |-> IF action = "io" THEN F!DeviceOf(name) ELSE 0,
                 param1 |-> IF params = <<>> THEN 0 ELSE params[1], is_copy |-> FALSE]
<1>1. F!NewEntry(t, name, spid, params) = IF action = "none" THEN <<>> ELSE <<e>>
  BY DEF F!NewEntry
<1>2. /\ action \in F!Actions \cup {"none"}
      /\ action = "io" => F!DeviceOf(name) >= 0
  BY DEF F!Action, F!Actions, F!Word
<1>3. F!DeviceOf(name) \in Int /\ F!DeviceOf(name) < Len(devices)
  BY DeviceOfType
<1>4. (IF params = <<>> THEN 0 ELSE params[1]) \in Nat
  BY EmptySeq, ElementOfSeq
<1> HIDE DEF action
<1>5. action # "none" => e \in F!TimelineEntries
  BY <1>2, <1>3, <1>4 DEF F!TimelineEntries
<1> HIDE DEF e
<1> QED BY <1>1, <1>5

\* A function defined by recursion over 0 .. n exists.
Computed(f, n, S, a, step) ==
  f \in [0 .. n -> S] /\ f[0] = a /\ \A i \in 1 .. n : f[i] = step[i][f[i - 1]]

LEMMA Recursion ==
  ASSUME NEW n \in Nat, NEW S, NEW a \in S, NEW step \in [1 .. n -> [S -> S]]
  PROVE  \E f : Computed(f, n, S, a, step)
<1> DEFINE Upto(m, f) == f[0] = a /\ \A i \in 1 .. m : f[i] = step[i][f[i - 1]]
           T == {m \in Nat : m <= n => \E f \in [0 .. n -> S] : Upto(m, f)}
<1>1. 0 \in T
  <2>1. [i \in 0 .. n |-> a] \in [0 .. n -> S] /\ Upto(0, [i \in 0 .. n |-> a])
    OBVIOUS
  <2> QED BY <2>1
<1>2. ASSUME NEW m \in 0 .. n - 1, m \in T
      PROVE  m + 1 \in T
  <2>1. PICK f \in [0 .. n -> S] : Upto(m, f)
    BY <1>2
  <2> DEFINE g == [f EXCEPT ![m + 1] = step[m + 1][f[m]]]
  <2>2. g \in [0 .. n -> S] /\ g[0] = a /\ g[m + 1] = step[m + 1][f[m]]
        /\ \A i \in 0 .. m : g[i] = f[i]
    BY <2>1
  <2>3. ASSUME NEW i \in 1 .. m + 1
        PROVE  g[i] = step[i][g[i - 1]]
    <3>1. CASE i = m + 1
      BY <2>2, <3>1
    <3>2. CASE i \in 1 .. m
      BY <2>1, <2>2, <3>2
    <3> QED BY <3>1, <3>2
  <2> HIDE DEF g
  <2>4. Upto(m + 1, g) /\ m + 1 \in Nat
    BY <2>2, <2>3
  <2> QED BY <2>2, <2>4
<1>3. n \in T
  <2> HIDE DEF T
  <2>1. T \in SUBSET Nat
    BY DEF T
  <2>2. 0 .. n \subseteq T
    BY <1>1, <1>2, <2>1, UpTo
  <2> QED BY <2>2
<1> QED BY <1>3 DEF Computed

\* The copies are entries of the timeline for another process.
LEMMA CopiesType ==
  ASSUME proc_timeline \in Seq(F!TimelineEntries), NEW of, NEW spid \in Nat
  PROVE  F!Copies(of, spid) \in Seq(F!TimelineEntries)
<1> DEFINE count == Len(proc_timeline)
           S == Seq(F!TimelineEntries)
           copy(n) == [proc_timeline[n] EXCEPT !.sim_pid = spid, !.is_copy = TRUE]
           next(n, list) == IF proc_timeline[n].sim_pid # of THEN list ELSE Append(list, copy(n))
           step == [n \in 1 .. count |-> [list \in S |-> next(n, list)]]
           Copied(f) == f = [n \in 0 .. count |-> IF n = 0 THEN <<>> ELSE next(n, f[n - 1])]
           copied == CHOOSE f : Copied(f)
<1>1. F!Copies(of, spid) = copied[count]
  BY DEF F!Copies
<1>2. count \in Nat /\ <<>> \in S /\ \A n \in 1 .. count : proc_timeline[n] \in F!TimelineEntries
  BY LenProperties, EmptySeq, ElementOfSeq
<1>3. \A n \in 1 .. count : copy(n) \in F!TimelineEntries
  BY <1>2 DEF F!TimelineEntries
<1> HIDE DEF copy
<1>4. \A n \in 1 .. count : \A list \in S : next(n, list) \in S
  BY <1>3, AppendProperties
<1>5. step \in [1 .. count -> [S -> S]]
  <2> HIDE DEF next, count, S
  <2> QED BY <1>4
<1>6. PICK f \in [0 .. count -> S] : f[0] = <<>> /\ \A i \in 1 .. count : f[i] = step[i][f[i - 1]]
  <2>1. count \in Nat /\ <<>> \in S
    BY <1>2
  <2> HIDE DEF step, count, S
  <2>2. \E f : Computed(f, count, S, <<>>, step)
    BY <2>1, <1>5, Recursion
  <2> QED BY <2>2 DEF Computed
<1>7. Copied(f)
  <2>1. \A n \in 0 .. count : n # 0 => n \in 1 .. count /\ n - 1 \in 0 .. count
    BY <1>2
  <2> HIDE DEF next
  <2>2. \A n \in 0 .. count : f[n] = IF n = 0 THEN <<>> ELSE next(n, f[n - 1])
    BY <1>6, <2>1
  <2> QED BY <1>6, <2>2
<1>8. Copied(copied)
  <2> HIDE DEF Copied
  <2> QED BY <1>7
<1>9. copied[0] = <<>> /\ \A n \in 1 .. count : copied[n] = next(n, copied[n - 1])
  <2> HIDE DEF next, copied
  <2> QED BY <1>2, <1>8
<1> HIDE DEF next, copied, count, S
<1>10. copied[count] \in S
  <2> DEFINE T == {n \in Nat : n <= count => copied[n] \in S}
  <2>1. 0 \in T /\ T \in SUBSET Nat
    BY <1>2, <1>9
  <2>2. ASSUME NEW n \in 0 .. count - 1, n \in T
        PROVE  n + 1 \in T
    <3>1. n + 1 \in 1 .. count /\ n + 1 - 1 = n /\ copied[n] \in S
      BY <1>2, <2>2
    <3> QED BY <1>4, <1>9, <3>1
  <2> HIDE DEF T
  <2>3. 0 .. count \subseteq T
    BY <1>2, <2>1, <2>2, UpTo
  <2>4. count \in T
    BY <1>2, <2>3
  <2> QED BY <1>2, <2>4 DEF T
<1> QED BY <1>1, <1>10 DEF S

-------------------------------------------------------------------------------
(***************************************************************************)
(* What is read is well formed                                             *)
(***************************************************************************)

LEMMA SetCopyOfType ==
  ASSUME F!TypeOK, NEW new, NEW of \in Nat \cup {F!NoCopy}, F!SetCopyOf(new, of)
  PROVE  /\ copy_of' \in [0 .. MaxProcesses - 1 -> Nat \cup {F!NoCopy}]
         /\ outcome' \in F!Outcomes
BY DEF F!TypeOK, F!SetCopyOf, F!Outcomes

LEMMA NextLineType ==
  ASSUME F!TypeOK, F!NextLine
  PROVE  F!Line \in Code /\ file' \in F!Files
BY LineType DEF F!TypeOK, F!NextLine

LEMMA DeviceEntryType ==
  ASSUME F!TypeOK, F!DeviceEntry
  PROVE  F!TypeOK'
<1>1. PICK e \in F!MatchEntry(F!Line, F!DeviceForm, 3) :
        devices' = Append(devices, [name |-> e[1], duration |-> e[2], return_queue |-> e[3]])
  BY DEF F!DeviceEntry
<1>2. /\ F!Line \in Code /\ file' \in F!Files
      /\ UNCHANGED <<mode, current_sim_pid, settings, global_timeline, proc_timeline, copy_of, outcome>>
  BY NextLineType DEF F!DeviceEntry
<1>3. /\ F!DeviceForm \in Seq({"number", "string"}) /\ Len(F!DeviceForm) = 3
      /\ F!DeviceForm[1] = "string" /\ F!DeviceForm[2] = "number" /\ F!DeviceForm[3] = "number"
  BY DEF F!DeviceForm
<1>4. e[1] \in Code /\ e[2] \in Nat /\ e[3] \in Nat
  <2>1. /\ Len(e) \in 3 .. 3
        /\ \A i \in 1 .. Len(e) : IF F!DeviceForm[i] = "number" THEN e[i] \in Nat ELSE e[i] \in Code
    BY <1>2, <1>3, MatchType
  <2> QED BY <1>3, <2>1
<1>5. devices \in Seq(F!DeviceEntries) /\ devices' \in Seq(F!DeviceEntries)
      /\ Len(devices) \in Nat /\ Len(devices') = Len(devices) + 1
  <2>1. [name |-> e[1], duration |-> e[2], return_queue |-> e[3]] \in F!DeviceEntries
    BY <1>4 DEF F!DeviceEntries, Code
  <2> QED BY <1>1, <2>1, AppendProperties, LenProperties DEF F!TypeOK
<1>6. F!TimelineEntries \subseteq F!TimelineEntries'
  BY <1>5 DEF F!TimelineEntries
<1>7. F!DeviceEntries' = F!DeviceEntries
  BY DEF F!DeviceEntries
<1>8. /\ global_timeline' \in Seq(F!TimelineEntries') /\ proc_timeline' \in Seq(F!TimelineEntries')
  BY <1>2, <1>6, SeqMonotonic DEF F!TypeOK
<1> QED BY <1>2, <1>5, <1>7, <1>8 DEF F!TypeOK

LEMMA TimelineEntryType ==
  ASSUME F!TypeOK, F!TimelineEntry
  PROVE  F!TypeOK'
<1>1. PICK e \in F!MatchEntry(F!Line, F!TimelineForm, 3) :
        \E new \in {F!NewEntry(e[1], e[2], e[3], F!Drop(e, 3))} :
          /\ global_timeline' = global_timeline \o new
          /\ F!SetCopyOf(new, F!NoCopy)
  BY DEF F!TimelineEntry
<1> DEFINE new == F!NewEntry(e[1], e[2], e[3], F!Drop(e, 3))
<1>2. /\ F!Line \in Code /\ file' \in F!Files
      /\ UNCHANGED <<mode, current_sim_pid, settings, devices, proc_timeline>>
  BY NextLineType DEF F!TimelineEntry
<1>3. /\ F!TimelineForm \in Seq({"number", "string"}) /\ Len(F!TimelineForm) = 4
      /\ F!TimelineForm[1] = "number" /\ F!TimelineForm[2] = "string"
      /\ F!TimelineForm[3] = "number" /\ F!TimelineForm[4] = "number"
  BY DEF F!TimelineForm
<1>4. /\ e \in Seq(Nat \cup Code) /\ Len(e) \in 3 .. 4
      /\ \A i \in 1 .. Len(e) : IF F!TimelineForm[i] = "number" THEN e[i] \in Nat ELSE e[i] \in Code
  BY <1>2, <1>3, MatchType
<1>5. e[1] \in Nat /\ e[3] \in Nat /\ F!Drop(e, 3) \in Seq(Nat)
  <2>1. e[1] \in Nat /\ e[3] \in Nat /\ \A i \in 4 .. Len(e) : e[i] \in Nat
    BY <1>3, <1>4
  <2>2. SubSeq(e, 3 + 1, Len(e)) \in Seq(Nat)
    <3>1. 3 + 1 = 4 /\ 4 \in Int /\ Len(e) \in Int
      BY <1>4
    <3> QED BY <2>1, <3>1, SubSeqProperties
  <2> QED BY <2>1, <2>2 DEF F!Drop
<1>6. new \in Seq(F!TimelineEntries)
  BY <1>5, NewEntryType DEF F!TypeOK
<1> HIDE DEF new
<1>7. global_timeline' = global_timeline \o new /\ F!SetCopyOf(new, F!NoCopy)
  BY <1>1 DEF new
<1>8. /\ copy_of' \in [0 .. MaxProcesses - 1 -> Nat \cup {F!NoCopy}]
      /\ outcome' \in F!Outcomes
  BY <1>7, SetCopyOfType
<1>9. F!TimelineEntries' = F!TimelineEntries
  BY <1>2 DEF F!TimelineEntries
<1>10. global_timeline' \in Seq(F!TimelineEntries)
  BY <1>6, <1>7, ConcatProperties DEF F!TypeOK
<1> QED BY <1>2, <1>8, <1>9, <1>10 DEF F!TypeOK, F!DeviceEntries

LEMMA ProcessEntryType ==
  ASSUME F!TypeOK, F!ProcessEntry
  PROVE  F!TypeOK'
<1>1. PICK e \in F!MatchEntry(F!Line, F!ProcessForm, 2) :
        \E new \in {F!NewEntry(e[1], e[2], current_sim_pid, F!Drop(e, 2))} :
          /\ proc_timeline' = proc_timeline \o new
          /\ F!SetCopyOf(new, F!NoCopy)
  BY DEF F!ProcessEntry
<1> DEFINE new == F!NewEntry(e[1], e[2], current_sim_pid, F!Drop(e, 2))
<1>2. /\ F!Line \in Code /\ file' \in F!Files
      /\ UNCHANGED <<mode, current_sim_pid, settings, devices, global_timeline>>
  BY NextLineType DEF F!ProcessEntry
<1>3. /\ F!ProcessForm \in Seq({"number", "string"}) /\ Len(F!ProcessForm) = 3
      /\ F!ProcessForm[1] = "number" /\ F!ProcessForm[2] = "string" /\ F!ProcessForm[3] = "number"
  BY DEF F!ProcessForm
<1>4. /\ e \in Seq(Nat \cup Code) /\ Len(e) \in 2 .. 3
      /\ \A i \in 1 .. Len(e) : IF F!ProcessForm[i] = "number" THEN e[i] \in Nat ELSE e[i] \in Code
  BY <1>2, <1>3, MatchType
<1>5. e[1] \in Nat /\ F!Drop(e, 2) \in Seq(Nat)
  <2>1. e[1] \in Nat /\ \A i \in 3 .. Len(e) : e[i] \in Nat
    BY <1>3, <1>4
  <2>2. SubSeq(e, 2 + 1, Len(e)) \in Seq(Nat)
    <3>1. 2 + 1 = 3 /\ 3 \in Int /\ Len(e) \in Int
      BY <1>4
    <3> QED BY <2>1, <3>1, SubSeqProperties
  <2> QED BY <2>1, <2>2 DEF F!Drop
<1>6. new \in Seq(F!TimelineEntries)
  BY <1>5, NewEntryType DEF F!TypeOK
<1> HIDE DEF new
<1>7. proc_timeline' = proc_timeline \o new /\ F!SetCopyOf(new, F!NoCopy)
  BY <1>1 DEF new
<1>8. /\ copy_of' \in [0 .. MaxProcesses - 1 -> Nat \cup {F!NoCopy}]
      /\ outcome' \in F!Outcomes
  BY <1>7, SetCopyOfType
<1>9. F!TimelineEntries' = F!TimelineEntries
  BY <1>2 DEF F!TimelineEntries
<1>10. proc_timeline' \in Seq(F!TimelineEntries)
  BY <1>6, <1>7, ConcatProperties DEF F!TypeOK
<1> QED BY <1>2, <1>8, <1>9, <1>10 DEF F!TypeOK, F!DeviceEntries

\* A setting given as a number has one for its value.
LEMMA SettingsType ==
  ASSUME F!TypeOK, NEW name \in F!AllSettings, NEW value, name \in F!NumberSettings => value \in Nat,
         F!Set(name, value)
  PROVE  /\ DOMAIN settings' \subseteq F!AllSettings
         /\ \A s \in DOMAIN settings' \cap F!NumberSettings : settings'[s] \in Nat
<1>1. settings' = [s \in DOMAIN settings \cup {name} |-> IF s = name THEN value ELSE settings[s]]
  BY DEF F!Set
<1>2. DOMAIN settings' = DOMAIN settings \cup {name}
  BY <1>1
<1>3. \A s \in DOMAIN settings' : settings'[s] = IF s = name THEN value ELSE settings[s]
  BY <1>1
<1> QED BY <1>2, <1>3 DEF F!TypeOK

LEMMA OsEntryType ==
  ASSUME F!TypeOK, F!OsEntry
  PROVE  F!TypeOK'
<1>1. PICK e \in F!MatchOsEntry(F!Line) :
        \/ F!IsNumeral(e.value) /\ F!NumberSetting(e.name, e.value[1][2])
        \/ ~F!IsNumeral(e.value) /\ F!StringSetting(e.name, e.value)
  BY DEF F!OsEntry
<1>2. /\ F!Line \in Code /\ file' \in F!Files
      /\ UNCHANGED <<mode, current_sim_pid, devices, global_timeline, proc_timeline, copy_of>>
  BY NextLineType DEF F!OsEntry
<1>3. e.value[1] \in F!Token
  <2> DEFINE runs == F!Runs(F!Line, "string")
  <2>1. Len(runs) = 2 /\ e.value = runs[2]
    BY DEF F!MatchOsEntry
  <2>2. runs \in Seq(Code) /\ \A k \in DOMAIN runs : runs[k][1] \in F!Token
    BY <1>2, RunsType
  <2> HIDE DEF runs
  <2>3. 2 \in DOMAIN runs
    BY <2>1, <2>2, LenProperties
  <2> QED BY <2>1, <2>2, <2>3
<1>4. /\ DOMAIN settings' \subseteq F!AllSettings
      /\ \A s \in DOMAIN settings' \cap F!NumberSettings : settings'[s] \in Nat
      /\ outcome' \in F!Outcomes
  <2>1. CASE UNCHANGED settings
    <3>1. outcome' \in F!Outcomes
      BY <1>1 DEF F!NumberSetting, F!StringSetting, F!TypeOK, F!Outcomes
    <3> QED BY <2>1, <3>1 DEF F!TypeOK
  <2>2. CASE /\ F!IsNumeral(e.value) /\ UNCHANGED outcome
             /\ \E s \in F!NumberSettings : e.name = <<F!Word(s)>>
             /\ F!Set(e.name[1][2], e.value[1][2])
    <3>1. e.value[1][2] \in Nat
      BY <1>3, <2>2, Tokens DEF F!IsNumeral
    <3>2. PICK s \in F!NumberSettings : e.name = <<F!Word(s)>>
      BY <2>2
    <3>3. e.name[1][2] = s /\ s \in F!AllSettings
      BY <3>2 DEF F!Word, F!AllSettings
    <3> QED BY <2>2, <3>1, <3>3, SettingsType DEF F!TypeOK
  <2>3. CASE F!Set("swap_device", e.value) /\ UNCHANGED outcome
    <3>1. "swap_device" \in F!AllSettings /\ "swap_device" \notin F!NumberSettings
      BY DEF F!AllSettings, F!NumberSettings
    <3> QED BY <2>3, <3>1, SettingsType DEF F!TypeOK
  <2> QED BY <1>1, <2>1, <2>2, <2>3 DEF F!NumberSetting, F!StringSetting
<1> QED BY <1>2, <1>4 DEF F!TypeOK, F!TimelineEntries, F!DeviceEntries

LEMMA ProcessHeadType ==
  ASSUME F!TypeOK, F!ProcessHead
  PROVE  F!TypeOK'
<1>1. PICK n \in F!MatchHead(F!Line, "process") : current_sim_pid' = F!Value(n[1])
  BY DEF F!ProcessHead
<1>2. /\ F!Line \in Code /\ file' \in F!Files /\ mode' \in F!Modes
      /\ UNCHANGED <<settings, devices, global_timeline, proc_timeline, copy_of, outcome>>
  BY NextLineType DEF F!ProcessHead, F!Modes
<1>3. current_sim_pid' \in Nat
  BY <1>1, <1>2, HeadType DEF F!MatchHead
<1> QED BY <1>2, <1>3 DEF F!TypeOK, F!TimelineEntries, F!DeviceEntries

LEMMA ProcessCopyHeadType ==
  ASSUME F!TypeOK, F!ProcessCopyHead
  PROVE  F!TypeOK'
<1>1. PICK head \in F!MatchCopyHead(F!Line, "process") :
        \E new \in {F!Copies(F!Value(head[2]), F!Value(head[1]))} :
          /\ current_sim_pid' = F!Value(head[1])
          /\ proc_timeline' = proc_timeline \o new
          /\ F!SetCopyOf(new, F!Value(head[2]))
  BY DEF F!ProcessCopyHead
<1> DEFINE new == F!Copies(F!Value(head[2]), F!Value(head[1]))
<1>2. /\ F!Line \in Code /\ file' \in F!Files /\ mode' \in F!Modes
      /\ UNCHANGED <<settings, devices, global_timeline>>
  BY NextLineType DEF F!ProcessCopyHead, F!Modes
<1>3. F!Value(head[1]) \in Nat /\ F!Value(head[2]) \in Nat
  BY <1>1, <1>2, HeadType DEF F!MatchCopyHead
<1>4. new \in Seq(F!TimelineEntries)
  BY <1>3, CopiesType DEF F!TypeOK
<1> HIDE DEF new
<1>5. /\ current_sim_pid' = F!Value(head[1])
      /\ proc_timeline' = proc_timeline \o new /\ F!SetCopyOf(new, F!Value(head[2]))
  BY <1>1 DEF new
<1>6. /\ copy_of' \in [0 .. MaxProcesses - 1 -> Nat \cup {F!NoCopy}]
      /\ outcome' \in F!Outcomes
  BY <1>3, <1>5, SetCopyOfType
<1>7. F!TimelineEntries' = F!TimelineEntries
  BY <1>2 DEF F!TimelineEntries
<1>8. proc_timeline' \in Seq(F!TimelineEntries)
  BY <1>4, <1>5, ConcatProperties DEF F!TypeOK
<1> QED BY <1>2, <1>3, <1>5, <1>6, <1>7, <1>8 DEF F!TypeOK, F!DeviceEntries

\* The steps that add nothing to what has been read.
LEMMA SkippedLineType ==
  ASSUME F!TypeOK, F!SectionHead \/ F!IgnoredLine
  PROVE  F!TypeOK'
<1>1. file' \in F!Files
  BY NextLineType DEF F!SectionHead, F!IgnoredLine
<1>2. mode' \in F!Modes
  BY DEF F!SectionHead, F!IgnoredLine, F!HeadName, F!Modes, F!TypeOK
<1>3. UNCHANGED <<current_sim_pid, settings, devices, global_timeline, proc_timeline, copy_of, outcome>>
  BY DEF F!SectionHead, F!IgnoredLine
<1> QED BY <1>1, <1>2, <1>3 DEF F!TypeOK, F!TimelineEntries, F!DeviceEntries

LEMMA NextReadType == F!TypeOK /\ [ProgramNext]_programVars => F!TypeOK'
<1> SUFFICES ASSUME F!TypeOK, [ProgramNext]_programVars PROVE F!TypeOK'
  OBVIOUS
<1> DEFINE Kept == /\ UNCHANGED <<file, mode, current_sim_pid, settings, devices,
                                 global_timeline, proc_timeline, copy_of>>
                   /\ outcome' \in F!Outcomes
<1>1. Kept => F!TypeOK'
  BY DEF F!TypeOK, F!TimelineEntries, F!DeviceEntries
<1>2. CASE ReadPlan
  BY <1>2, DeviceEntryType, TimelineEntryType, ProcessEntryType, OsEntryType, ProcessHeadType,
     ProcessCopyHeadType, SkippedLineType
  DEF ReadPlan, F!ReadLine
<1>3. CASE RunPlan
  <2>1. Kept
    BY <1>3, FreeAllOutcome DEF RunPlan, PrintPlan, NoSwapDevice, StartOutOfRange, Start,
       Simulate, Dispose, F!EndOfFile, F!PrintPlan, F!Outcomes, F!TypeOK
  <2> QED BY <1>1, <2>1
<1>4. CASE UNCHANGED programVars
  <2>1. Kept
    BY <1>4 DEF programVars, fileVars, F!TypeOK
  <2> QED BY <1>1, <2>1
<1> QED BY <1>2, <1>3, <1>4 DEF ProgramNext

\* Whatever text the program is given as a plan.
THEOREM ReadTypeCorrect ==
  ASSUME NEW files \in SUBSET F!Files
  PROVE  ProgramSpec(files) => []ReadTypeOK
<1>1. ProgramInit(files) => F!TypeOK
  <2> SUFFICES ASSUME ProgramInit(files) PROVE F!TypeOK
    OBVIOUS
  <2>1. F!Init(files) /\ outcome \in F!Outcomes
    BY DEF ProgramInit, F!Outcomes
  <2>2. /\ global_timeline \in Seq(F!TimelineEntries) /\ proc_timeline \in Seq(F!TimelineEntries)
        /\ devices \in Seq(F!DeviceEntries)
    BY <2>1, EmptySeq DEF F!Init
  <2>3. DOMAIN settings \subseteq F!AllSettings /\ \A s \in DOMAIN settings : settings[s] \in Nat
    BY <2>1 DEF F!Init, F!AllSettings, F!NumberSettings
  <2> QED BY <2>1, <2>2, <2>3 DEF F!Init, F!TypeOK, F!Modes
<1>2. F!TypeOK <=> ReadTypeOK
  BY DEF ReadTypeOK
<1> QED BY <1>1, <1>2, NextReadType, PTL DEF ProgramSpec

-------------------------------------------------------------------------------
(***************************************************************************)
(* The plan that is run                                                    *)
(***************************************************************************)

PlanEntry == [scope : {"global", "process"}, time : Nat, action : {"new", "mem", "end", "io"},
              spid : Nat, arg : Nat]

LEMMA TimelineType ==
  ASSUME NEW list \in Seq(F!TimelineEntries), NEW scope \in {"global", "process"}
  PROVE  F!Timeline(list, scope) \in Seq(PlanEntry)
<1> DEFINE entry(i) == [scope |-> scope, time |-> list[i].time, action |-> list[i].action,
                        spid |-> list[i].sim_pid,
                        arg |-> CASE list[i].action = "io"  -> list[i].device_id
                                  [] list[i].action = "mem" -> list[i].param1
                                  [] OTHER -> 0]
<1>1. F!Timeline(list, scope) = [i \in DOMAIN list |-> entry(i)]
  BY DEF F!Timeline
<1>2. /\ Len(list) \in Nat /\ DOMAIN list = 1 .. Len(list)
      /\ \A i \in 1 .. Len(list) : list[i] \in F!TimelineEntries
  BY LenProperties, ElementOfSeq
<1>3. \A i \in 1 .. Len(list) : entry(i) \in PlanEntry
  BY <1>2 DEF PlanEntry, F!TimelineEntries, F!Actions
<1> HIDE DEF entry
<1> QED BY <1>1, <1>2, <1>3, IsASeq

LEMMA EntriesLegible ==
  ASSUME F!TypeOK
  PROVE  Legible(F!Entries)
<1>1. F!Entries \in Seq(PlanEntry)
  BY TimelineType, ConcatProperties DEF F!Entries, F!TypeOK
<1> DEFINE list == F!Entries
<1> HIDE DEF list
<1>2. /\ Len(list) \in Nat /\ DOMAIN list = 1 .. Len(list)
      /\ \A i \in 1 .. Len(list) : list[i] \in PlanEntry
  BY <1>1, LenProperties, ElementOfSeq DEF list
<1>3. IsFiniteSet(DOMAIN list)
  <2>1. 1 \in Int /\ Len(list) \in Int
    BY <1>2
  <2> QED BY <1>2, <2>1, FS_Interval
<1> QED BY <1>2, <1>3 DEF Legible, PlanEntry, list

\* Nothing has been taken from the plan before it is complete.
NotBegun ==
  outcome \in {"reading", "read", "printed"} =>
    phase = "begin" /\ sim_proc_count = 0 /\ done = {} /\ dead = {}

RunInv == PlanInv /\ EndInv /\ Announced /\ AllDead /\ NobodyToCome /\ NotBegun

\* The plan that is started is the one that has been read.
LEMMA StartRun ==
  ASSUME F!TypeOK, RunInv, Start
  PROVE  RunInv'
<1>1. /\ phase = "begin" /\ sim_proc_count = 0 /\ done = {} /\ dead = {}
      /\ entries' = F!Entries
      /\ outcome' = "running"
      /\ UNCHANGED <<vars, done, sim_proc_count, sim_pid, spid_pid, proc_time, dead>>
  BY DEF Start, RunInv, NotBegun
<1>2. UNCHANGED <<phase, next_pid, freed>>
  BY <1>1 DEF vars
<1>3. Legible(entries')
  BY <1>1, EntriesLegible
<1>4. Booked'
  BY <1>1, <1>2, UnmovedBooks DEF RunInv, PlanInv
<1>5. NothingOverlooked'
  <2>1. \A i \in P!Pending' : entries'[i].spid \in Nat
    BY <1>3 DEF Legible, P!Pending
  <2> QED BY <1>1, <2>1 DEF NothingOverlooked
<1>6. Asked' /\ Announced' /\ AllDead' /\ NobodyToCome' /\ NotBegun'
  BY <1>1, <1>2 DEF Asked, Announced, AllDead, NobodyToCome, NotBegun
<1>7. EndInv'
  BY <1>1 DEF EndInv, EndsKill, DeadInTime
<1> QED BY <1>3, <1>4, <1>5, <1>6, <1>7 DEF RunInv, PlanInv, Legible

LEMMA NextRun ==
  TypeOK /\ Known /\ RunsAlive /\ F!TypeOK /\ RunInv /\ [ProgramNext]_programVars => RunInv'
<1> SUFFICES ASSUME TypeOK, Known, RunsAlive, F!TypeOK, RunInv, [ProgramNext]_programVars
             PROVE  RunInv'
  OBVIOUS
<1>1. ASSUME UNCHANGED simVars,
             outcome' \in {"reading", "read", "printed"} => outcome \in {"reading", "read", "printed"}
      PROVE  RunInv'
  <2>1. PlanInv' /\ EndInv'
    BY <1>1, NextPlan, NextEnds DEF RunInv
  <2>2. Announced' /\ AllDead' /\ NobodyToCome'
    BY <1>1, NextAnnounced, NextAllDead, NextNobodyToCome DEF RunInv, PlanInv
  <2>3. NotBegun'
    BY <1>1 DEF RunInv, NotBegun, simVars, planVars, vars
  <2> QED BY <2>1, <2>2, <2>3 DEF RunInv
<1>2. CASE ReadPlan \/ PrintPlan
  BY <1>1, <1>2, ReadPlanStep, PrintPlanStep
<1>3. CASE UNCHANGED simVars /\ outcome' \in {"exit", "undefined", "disposed"}
  BY <1>1, <1>3
<1>4. CASE Start
  BY <1>4, StartRun
<1>5. CASE Simulate
  <2>1. SimNext /\ outcome' \in {"running", "exit", "undefined"}
    BY <1>5, FreeAllOutcome DEF Simulate
  <2>2. PlanInv' /\ EndInv'
    BY <2>1, NextPlan, NextEnds DEF RunInv
  <2>3. Announced' /\ AllDead' /\ NobodyToCome'
    BY <2>1, NextAnnounced, NextAllDead, NextNobodyToCome DEF RunInv, PlanInv
  <2> QED BY <2>1, <2>2, <2>3 DEF RunInv, NotBegun
<1>6. CASE UNCHANGED programVars
  BY <1>1, <1>6 DEF programVars, fileVars
<1> QED BY <1>2, <1>3, <1>4, <1>5, <1>6, OtherSteps

LEMMA RunKept ==
  ASSUME NEW files \in SUBSET F!Files
  PROVE  ProgramSpec(files) => [](TypeOK /\ Known /\ RunInv)
<1>1. ProgramInit(files) => RunInv
  <2> SUFFICES ASSUME ProgramInit(files) PROVE RunInv
    OBVIOUS
  <2>1. /\ SimInit /\ phase = "begin" /\ sim_proc_count = 0
        /\ done = {} /\ dead = {}
    BY DEF ProgramInit, SimInit, Init, P!Init
  <2> QED BY <2>1, InitPlan, InitEnds, InitTaken DEF RunInv, AllDead, NobodyToCome, NotBegun
<1>2. F!TypeOK <=> ReadTypeOK
  BY DEF ReadTypeOK
<1> QED BY <1>1, <1>2, NextRun, ProgramRunsOS, AlwaysKnown, AlwaysRunsAlive, ReadTypeCorrect, PTL
     DEF ProgramSpec

\* Whatever plan file the program is given, no entry of a live process is ever at
\* a time its process has run past.
THEOREM FileNoneOverlooked ==
  ASSUME NEW files \in SUBSET F!Files
  PROVE  ProgramSpec(files) => []NothingOverlooked
<1>1. RunInv => NothingOverlooked
  BY DEF RunInv, PlanInv
<1> QED BY <1>1, RunKept, PTL

\* Whatever plan file the program is given, a process runs for the time of its END
\* and dies then, unless the timeline ends it before.
THEOREM FileEndedInTime ==
  ASSUME NEW files \in SUBSET F!Files
  PROVE  ProgramSpec(files) => []RunsItsTime
<1>1. RunInv => RunsItsTime
  BY InTime DEF RunInv
<1> QED BY <1>1, RunKept, PTL

\* Whatever plan file the program is given, as long as nobody waits for a frame
\* every step within a time unit leaves less to do in it.
THEOREM FileUnitsAdvance ==
  ASSUME UnitsEnd, NEW files \in SUBSET F!Files
  PROVE  ProgramSpec(files) => UnitAdvances
<1>1. /\ TypeOK /\ TypeOK' /\ PlaceInv /\ FrameInv /\ RunInv /\ [ProgramNext]_programVars
      => [phase # "begin" /\ phase' # "begin" /\ Undisturbed' /\ ~exited'
            => UnitWork' \in 0 .. UnitWork - 1]_simVars
  <2> SUFFICES ASSUME TypeOK, TypeOK', PlaceInv, FrameInv, RunInv, [ProgramNext]_programVars,
                      phase # "begin", phase' # "begin", Undisturbed', ~exited'
               PROVE  UnitWork' \in 0 .. UnitWork - 1 \/ UNCHANGED simVars
    OBVIOUS
  <2>1. [SimNext]_simVars
    <3>1. CASE ReadPlan \/ PrintPlan
      BY <3>1, ReadPlanStep, PrintPlanStep
    <3>2. CASE UNCHANGED simVars
      BY <3>2
    <3>3. CASE Start
      BY <3>3 DEF Start, RunInv, NotBegun
    <3>4. CASE Simulate
      BY <3>4 DEF Simulate
    <3>5. CASE UNCHANGED programVars
      BY <3>5 DEF programVars
    <3> QED BY <3>1, <3>2, <3>3, <3>4, <3>5, OtherSteps
  <2>2. Legible(entries)
    BY DEF RunInv, PlanInv
  <2> QED BY <2>1, <2>2, UnitStep
<1> QED BY <1>1, RunKept, ProgramRunsOS, FrameInvHolds, PTL DEF ProgramSpec, UnitAdvances

\* Whatever plan file the program is given, it leaves the loop only when no
\* process is to come and none is left.
THEOREM FileStopsClean ==
  ASSUME NEW files \in SUBSET F!Files
  PROVE  ProgramSpec(files) => []StopsWhenDone
<1>1. TypeOK /\ Known /\ RunInv /\ OnePlace => StopsWhenDone
  BY StoppedDone DEF RunInv
<1> QED BY <1>1, RunKept, ProgramRunsOS, HeldOnce, PTL

-------------------------------------------------------------------------------
(***************************************************************************)
(* The rows of a run                                                       *)
(***************************************************************************)

\* As long as nobody has had to wait for a frame, whatever plan file the program
\* is given the text of each queue fits the buffer made for it, though nothing
\* checks the length while it is written (sim_plan_txt.c:780).
THEOREM TextsFitUndisturbed ==
  ASSUME TwoDigits, NEW files \in SUBSET F!Files
  PROVE  ProgramSpec(files) => [](Undisturbed => RowFits)
<1>1. RunInv => IsFiniteSet(DOMAIN entries) /\ Booked /\ Announced
  BY DEF RunInv, PlanInv, Legible
<1>2. /\ TypeOK /\ PlaceInv /\ Known /\ Booked /\ Announced /\ Undisturbed
      /\ IsFiniteSet(DOMAIN entries)
      => RowFits
  BY QueuesFit
<1> QED BY <1>1, <1>2, RunKept, ProgramRunsOS, FrameInvHolds, PTL

\* Where every page of every process can have a frame, that is always.
THEOREM TextsFit ==
  ASSUME EnoughMemory, TwoDigits, NEW files \in SUBSET F!Files
  PROVE  ProgramSpec(files) => []RowFits
BY TextsFitUndisturbed, ProgramRunsOS, NobodyWaits, PTL

\* As long as nobody has had to wait for a frame, the row is about the same
\* processes in all its columns (main.c:692): of the first ten, one shown with its
\* time is in at most one other column, and in one unless it waits in a queue, and the
\* others are in none.  So it is in every run of the program, whatever file it is given.
THEOREM RowsConsistentUndisturbed ==
  ASSUME NEW files
  PROVE  ProgramSpec(files) => [](Undisturbed => RowConsistent)
<1>1. /\ TypeOK /\ PlaceInv /\ Known /\ Booked /\ Taken /\ Undisturbed
      => RowConsistent
  BY RowsAgree
<1> QED BY <1>1, ProgramBooks, ProgramRunsOS, FrameInvHolds, PTL

\* Where every page of every process can have a frame, that is always.
THEOREM RowsConsistent ==
  ASSUME EnoughMemory, NEW files
  PROVE  ProgramSpec(files) => []RowConsistent
BY RowsConsistentUndisturbed, ProgramRunsOS, NobodyWaits, PTL

\* SameProcesses: the pid map and the plan's dead processes are right from the first line of
\* the file to the end of the program.
THEOREM ProgramAgrees ==
  ASSUME NEW files
  PROVE  ProgramSpec(files) => []SameProcesses
<1>1. Booked => SameProcesses
  BY DEF Booked, Agreed
<1> QED BY <1>1, ProgramBooks, PTL

-------------------------------------------------------------------------------
(***************************************************************************)
(* The memory: calls of safe_free one after another                        *)
(***************************************************************************)
Names ==
  {"NULL", "os", "devices", "scheduler", "queues", "queue_items", "page_ready_queue",
   "page_ready_queue_items", "frame_table", "require_frame_queue", "require_frame_queue_items",
   "blocked_queue", "blocked_queue_items", "os_map_list", "plan", "data", "sim_procs",
   "sim_proc_meta", "pid_map_list", "process", "page_table", "working_set", "queue", "device",
   "os.pid_map", "data.pid_map"}

Pair == Names \X Int
Call == [block : Pair, parent : Pair]

Blocks(list) == {list[i].block : i \in DOMAIN list}

\* Each call names the parent its block was allocated with.
ParentsKnown(list) == \A i \in DOMAIN list : list[i].parent = H!Owner(list[i].block)

\* No block is freed twice, and none is there its pointer is read from once freed.
Ordered(list) ==
  \A i \in DOMAIN list : \A j \in 1 .. i - 1 :
    list[j].block # list[i].block /\ list[j].block # H!Parent(list[i].block)

\* A list of calls that frees these blocks, as it should.
SafeList(list, blocks) ==
  list \in Seq(Call) /\ Blocks(list) = blocks /\ ParentsKnown(list) /\ Ordered(list)

\* Such a list can be released where the blocks are there.
LEMMA SafeReleasable ==
  ASSUME NEW list, NEW blocks, SafeList(list, blocks), blocks \subseteq heap
  PROVE  H!Releasable(list)
<1> SUFFICES ASSUME NEW i \in DOMAIN list
             PROVE  H!Legal(list, i)
  BY DEF H!Releasable, H!Illegal
<1>1. list[i].block \in heap
  BY DEF SafeList, Blocks
<1>2. list[i].parent = H!Owner(list[i].block)
  BY DEF SafeList, ParentsKnown
<1>3. \A j \in 1 .. i - 1 : list[j].block # list[i].block /\ list[j].block # H!Parent(list[i].block)
  BY DEF SafeList, Ordered
<1> QED BY <1>1, <1>2, <1>3 DEF H!Legal, H!There, H!Parent

\* The program goes on only if every call was legal, and then every block is freed.
LEMMA FreeAllBlocks ==
  ASSUME NEW calls, NEW then, FreeAll(calls, then), outcome' \notin {"exit", "undefined"}
  PROVE  outcome' = then /\ heap' = heap \ Blocks(calls)
<1>1. PICK illegal \in {H!Illegal(calls)} :
        H!Release(calls, illegal) /\ outcome' = H!After(calls, illegal, then)
  BY DEF FreeAll
<1>2. illegal = {} /\ outcome' = then
  BY <1>1 DEF H!After
<1>3. heap' = heap \ Blocks(calls)
  BY <1>1, <1>2 DEF H!Release, Blocks
<1> QED BY <1>2, <1>3

LEMMA Appended ==
  ASSUME NEW s, NEW t, NEW A, NEW B, SafeList(s, A), SafeList(t, B),
         A \cap B = {}, \A b \in B : H!Parent(b) \notin A
  PROVE  SafeList(s \o t, A \cup B)
<1> DEFINE m == Len(s)
           n == Len(t)
<1>1. /\ m \in Nat /\ n \in Nat /\ DOMAIN s = 1 .. m /\ DOMAIN t = 1 .. n
      /\ s \o t \in Seq(Call) /\ Len(s \o t) = m + n /\ DOMAIN (s \o t) = 1 .. m + n
      /\ \A i \in 1 .. m : (s \o t)[i] = s[i]
      /\ \A i \in 1 .. n : (s \o t)[m + i] = t[i]
  BY LenProperties, ConcatProperties DEF SafeList
<1>2. \A i \in 1 .. m + n : i \in 1 .. m \/ (i - m \in 1 .. n /\ (s \o t)[i] = t[i - m])
  <2> SUFFICES ASSUME NEW i \in 1 .. m + n, i \notin 1 .. m
               PROVE  i - m \in 1 .. n /\ (s \o t)[i] = t[i - m]
    OBVIOUS
  <2>1. i - m \in 1 .. n /\ m + (i - m) = i
    BY <1>1
  <2> HIDE DEF m, n
  <2> QED BY <1>1, <2>1
<1> HIDE DEF m, n
<1>3. Blocks(s) = A /\ Blocks(t) = B
  BY DEF SafeList
<1>4. Blocks(s \o t) = A \cup B
  <2>1. ASSUME NEW b \in Blocks(s \o t)
        PROVE  b \in A \cup B
    <3>1. PICK i \in 1 .. m + n : b = (s \o t)[i].block
      BY <1>1, <2>1 DEF Blocks
    <3> QED BY <1>1, <1>2, <1>3, <3>1 DEF Blocks
  <2>2. ASSUME NEW b \in A
        PROVE  b \in Blocks(s \o t)
    <3>1. PICK i \in 1 .. m : b = s[i].block
      BY <1>1, <1>3, <2>2 DEF Blocks
    <3>2. i \in DOMAIN (s \o t) /\ (s \o t)[i] = s[i]
      BY <1>1
    <3> QED BY <3>1, <3>2 DEF Blocks
  <2>3. ASSUME NEW b \in B
        PROVE  b \in Blocks(s \o t)
    <3>1. PICK i \in 1 .. n : b = t[i].block
      BY <1>1, <1>3, <2>3 DEF Blocks
    <3>2. m + i \in 1 .. m + n
      BY <1>1
    <3> QED BY <1>1, <3>1, <3>2 DEF Blocks
  <2> QED BY <2>1, <2>2, <2>3
<1>5. ParentsKnown(s \o t)
  BY <1>1, <1>2 DEF ParentsKnown, SafeList
<1>6. Ordered(s \o t)
  <2> DEFINE Fine(a, b) == a.block # b.block /\ a.block # H!Parent(b.block)
  <2> SUFFICES ASSUME NEW i \in 1 .. m + n, NEW j \in 1 .. i - 1
               PROVE  Fine((s \o t)[j], (s \o t)[i])
    BY <1>1 DEF Ordered
  <2>1. j \in 1 .. m + n
    BY <1>1
  <2>2. CASE i \in 1 .. m
    <3>1. i \in DOMAIN s /\ (s \o t)[i] = s[i] /\ (s \o t)[j] = s[j]
      BY <1>1, <2>2
    <3> QED BY <3>1 DEF SafeList, Ordered
  <2>3. CASE i \notin 1 .. m /\ j \in 1 .. m
    <3>1. (s \o t)[j] = s[j] /\ s[j].block \in A
      BY <1>1, <1>3, <2>3 DEF Blocks
    <3>2. (s \o t)[i] = t[i - m] /\ t[i - m].block \in B
      BY <1>1, <1>2, <1>3, <2>3 DEF Blocks
    <3> QED BY <3>1, <3>2
  <2>4. CASE i \notin 1 .. m /\ j \notin 1 .. m
    <3>1. /\ i - m \in 1 .. n /\ (s \o t)[i] = t[i - m]
          /\ j - m \in 1 .. n /\ (s \o t)[j] = t[j - m]
      BY <1>2, <2>1, <2>4
    <3>2. j - m \in 1 .. (i - m) - 1 /\ i - m \in DOMAIN t
      BY <1>1, <3>1
    <3> QED BY <3>1, <3>2 DEF SafeList, Ordered
  <2> QED BY <2>2, <2>3, <2>4
<1> QED BY <1>1, <1>4, <1>5, <1>6 DEF SafeList

\* A single call.
LEMMA OneCall ==
  ASSUME NEW name \in Names, NEW n \in Int, NEW address \in Pair,
         H!Owner(<<name, n>>) = address
  PROVE  SafeList(<<H!Free(name, n, address)>>, {<<name, n>>})
<1> DEFINE c == H!Free(name, n, address)
<1>1. c \in Call /\ c.block = <<name, n>> /\ c.parent = address
  BY DEF H!Free, Call, Pair
<1> HIDE DEF c
<1>2. /\ <<c>> \in Seq(Call) /\ DOMAIN <<c>> = {1} /\ <<c>>[1] = c
      /\ \A i \in {1} : 1 .. i - 1 = {}
  BY <1>1
<1> QED BY <1>1, <1>2 DEF SafeList, Blocks, ParentsKnown, Ordered, c

LEMMA Lists ==
  ASSUME NEW S, NEW f \in S, NEW g \in S, NEW h \in S
  PROVE  <<f>> \o <<g>> = <<f, g>> /\ <<f, g>> \o <<h>> = <<f, g, h>>
<1>1. <<f>> \o <<g>> = <<f, g>>
  <2>1. <<f>> \in Seq(S) /\ <<g>> \in Seq(S) /\ <<f, g>> \in Seq(S)
    OBVIOUS
  <2>2. /\ Len(<<f>> \o <<g>>) = 2 /\ Len(<<f, g>>) = 2
        /\ (<<f>> \o <<g>>)[1] = f /\ (<<f>> \o <<g>>)[2] = g
    BY <2>1, ConcatProperties
  <2>3. \A i \in 1 .. 2 : (<<f>> \o <<g>>)[i] = <<f, g>>[i]
    BY <2>2
  <2> QED BY <2>1, <2>2, <2>3, ConcatProperties, SeqEqual
<1>2. <<f, g>> \o <<h>> = <<f, g, h>>
  <2>1. <<f, g>> \in Seq(S) /\ <<h>> \in Seq(S) /\ <<f, g, h>> \in Seq(S)
    OBVIOUS
  <2>2. /\ Len(<<f, g>> \o <<h>>) = 3 /\ Len(<<f, g, h>>) = 3
        /\ (<<f, g>> \o <<h>>)[1] = f /\ (<<f, g>> \o <<h>>)[2] = g
        /\ (<<f, g>> \o <<h>>)[3] = h
    BY <2>1, ConcatProperties
  <2>3. \A i \in 1 .. 3 : (<<f, g>> \o <<h>>)[i] = <<f, g, h>>[i]
    <3>1. \A i \in 1 .. 3 : i = 1 \/ i = 2 \/ i = 3
      OBVIOUS
    <3> QED BY <2>2, <3>1
  <2> QED BY <2>1, <2>2, <2>3, ConcatProperties, SeqEqual
<1> QED BY <1>1, <1>2

LEMMA TwoCalls ==
  ASSUME NEW f, NEW g, NEW a, NEW b, SafeList(<<f>>, {a}), SafeList(<<g>>, {b}),
         a # b, H!Parent(b) # a
  PROVE  SafeList(<<f, g>>, {a, b})
<1>1. SafeList(<<f>> \o <<g>>, {a} \cup {b})
  BY Appended
<1>2. f \in Call /\ g \in Call
  BY ElementOfSeq, Len(<<f>>) = 1, Len(<<g>>) = 1 DEF SafeList
<1>3. <<f>> \o <<g>> = <<f, g>> /\ {a} \cup {b} = {a, b}
  BY <1>2, Lists
<1> QED BY <1>1, <1>3

LEMMA ThreeCalls ==
  ASSUME NEW f, NEW g, NEW h, NEW a, NEW b, NEW c,
         SafeList(<<f>>, {a}), SafeList(<<g>>, {b}), SafeList(<<h>>, {c}),
         a # b, a # c, b # c, H!Parent(b) # a, H!Parent(c) \notin {a, b}
  PROVE  SafeList(<<f, g, h>>, {a, b, c})
<1>1. SafeList(<<f, g>> \o <<h>>, {a, b} \cup {c})
  BY TwoCalls, Appended
<1>2. f \in Call /\ g \in Call /\ h \in Call
  BY ElementOfSeq, Len(<<f>>) = 1, Len(<<g>>) = 1, Len(<<h>>) = 1 DEF SafeList
<1>3. <<f, g>> \o <<h>> = <<f, g, h>> /\ {a, b} \cup {c} = {a, b, c}
  BY <1>2, Lists
<1> QED BY <1>1, <1>3


\* What each block is allocated with.
LEMMA Owners ==
  ASSUME NEW n
  PROVE  /\ \A name \in {"plan", "os"} : H!Owner(<<name, n>>) = <<"NULL", 0>>
         /\ H!Owner(<<"data", n>>) = <<"plan", 0>>
         /\ \A name \in {"sim_procs", "sim_proc_meta", "swap_device_name", "device_entry"} :
              H!Owner(<<name, n>>) = <<"data", 0>>
         /\ H!Owner(<<"pid_map_list", n>>) = <<"data.pid_map", 0>>
         /\ H!Owner(<<"name", n>>) = <<"device_entry", n>>
         /\ \A name \in {"devices", "scheduler", "frame_table", "require_frame_queue",
                         "process"} : H!Owner(<<name, n>>) = <<"os", 0>>
         /\ H!Owner(<<"os_map_list", n>>) = <<"os.pid_map", 0>>
         /\ \A name \in {"queues", "page_ready_queue"} : H!Owner(<<name, n>>) = <<"scheduler", 0>>
         /\ H!Owner(<<"blocked_queue", n>>) = <<"device", n>>
         /\ H!Owner(<<"queue_items", n>>) = <<"queue", n>>
         /\ H!Owner(<<"page_ready_queue_items", n>>) = <<"page_ready_queue", 0>>
         /\ H!Owner(<<"require_frame_queue_items", n>>) = <<"require_frame_queue", 0>>
         /\ H!Owner(<<"blocked_queue_items", n>>) = <<"blocked_queue", n>>
         /\ \A name \in {"page_table", "working_set"} : H!Owner(<<name, n>>) = <<"process", n>>
BY DEF H!Owner

\* The block that address points into.
LEMMA Parents ==
  ASSUME NEW n
  PROVE  /\ \A name \in {"plan", "os"} : H!Parent(<<name, n>>) = <<"NULL", 0>>
         /\ H!Parent(<<"data", n>>) = <<"plan", 0>>
         /\ \A name \in {"sim_procs", "sim_proc_meta", "pid_map_list", "swap_device_name",
                         "device_entry"} : H!Parent(<<name, n>>) = <<"data", 0>>
         /\ H!Parent(<<"name", n>>) = <<"device_entry", n>>
         /\ \A name \in {"devices", "os_map_list", "scheduler", "frame_table",
                         "require_frame_queue", "process"} : H!Parent(<<name, n>>) = <<"os", 0>>
         /\ \A name \in {"queues", "page_ready_queue"} : H!Parent(<<name, n>>) = <<"scheduler", 0>>
         /\ H!Parent(<<"blocked_queue", n>>) = <<"devices", 0>>
         /\ H!Parent(<<"queue_items", n>>) = <<"queues", 0>>
         /\ H!Parent(<<"page_ready_queue_items", n>>) = <<"page_ready_queue", 0>>
         /\ H!Parent(<<"require_frame_queue_items", n>>) = <<"require_frame_queue", 0>>
         /\ H!Parent(<<"blocked_queue_items", n>>) = <<"blocked_queue", n>>
         /\ \A name \in {"page_table", "working_set"} : H!Parent(<<name, n>>) = <<"process", n>>
<1>1. \A b : H!Parent(b) = H!Home(H!Owner(b))
  BY DEF H!Parent
<1>2. /\ H!Home(<<"data.pid_map", 0>>) = <<"data", 0>>
      /\ H!Home(<<"os.pid_map", 0>>) = <<"os", 0>>
      /\ H!Home(<<"device", n>>) = <<"devices", 0>>
      /\ H!Home(<<"queue", n>>) = <<"queues", 0>>
      /\ \A name \in {"NULL", "plan", "data", "os", "scheduler", "page_ready_queue",
                      "require_frame_queue"} : H!Home(<<name, 0>>) = <<name, 0>>
      /\ \A name \in {"device_entry", "blocked_queue", "process"} :
           H!Home(<<name, n>>) = <<name, n>>
  BY DEF H!Home
<1>3. /\ H!Parent(<<"data", n>>) = <<"plan", 0>>
      /\ H!Parent(<<"name", n>>) = <<"device_entry", n>>
      /\ H!Parent(<<"blocked_queue", n>>) = <<"devices", 0>>
      /\ H!Parent(<<"queue_items", n>>) = <<"queues", 0>>
      /\ H!Parent(<<"page_ready_queue_items", n>>) = <<"page_ready_queue", 0>>
      /\ H!Parent(<<"require_frame_queue_items", n>>) = <<"require_frame_queue", 0>>
      /\ H!Parent(<<"blocked_queue_items", n>>) = <<"blocked_queue", n>>
      /\ H!Parent(<<"pid_map_list", n>>) = <<"data", 0>>
      /\ H!Parent(<<"os_map_list", n>>) = <<"os", 0>>
  BY <1>1, <1>2, Owners
<1>4. /\ \A name \in {"plan", "os"} : H!Parent(<<name, n>>) = <<"NULL", 0>>
      /\ \A name \in {"sim_procs", "sim_proc_meta", "swap_device_name", "device_entry"} :
           H!Parent(<<name, n>>) = <<"data", 0>>
      /\ \A name \in {"devices", "scheduler", "frame_table", "require_frame_queue",
                      "process"} : H!Parent(<<name, n>>) = <<"os", 0>>
      /\ \A name \in {"queues", "page_ready_queue"} :
           H!Parent(<<name, n>>) = <<"scheduler", 0>>
      /\ \A name \in {"page_table", "working_set"} :
           H!Parent(<<name, n>>) = <<"process", n>>
  BY <1>1, <1>2, Owners
<1> QED BY <1>3, <1>4

\* What os_init leaves allocated, and what the plan does.
LEMMA InitialBlocks ==
  ASSUME NEW name, NEW n
  PROVE  /\ <<name, n>> \in H!PlanStrings <=>
              \/ name = "swap_device_name" /\ n = 0
              \/ name \in {"device_entry", "name"} /\ n \in Devices
         /\ <<name, n>> \in H!PlanBlocks <=>
              \/ name \in {"plan", "data", "sim_procs", "sim_proc_meta", "pid_map_list"} /\ n = 0
              \/ <<name, n>> \in H!PlanStrings
         /\ <<name, n>> \in H!OsBlocks <=>
              \/ /\ name \in {"os", "devices", "os_map_list", "scheduler", "page_ready_queue",
                             "page_ready_queue_items", "queues", "frame_table",
                             "require_frame_queue", "require_frame_queue_items"}
                 /\ n = 0
              \/ name = "queue_items" /\ n \in Queues
              \/ name \in {"blocked_queue", "blocked_queue_items"} /\ n \in Devices
BY DEF H!PlanStrings, H!PlanBlocks, H!OsBlocks, H!Single, H!Each, Devices, Queues

LEMMA QueueItemBlocks ==
  SafeList([i \in 1 .. QueueCount |-> H!Free("queue_items", i - 1, <<"queue", i - 1>>)],
           {"queue_items"} \X Queues)
<1> DEFINE s == [i \in 1 .. QueueCount |-> H!Free("queue_items", i - 1, <<"queue", i - 1>>)]
<1>1. QueueCount \in Nat
  BY ConstantsType
<1>2. /\ DOMAIN s = 1 .. QueueCount
      /\ \A i \in 1 .. QueueCount : /\ s[i].block = <<"queue_items", i - 1>>
                                    /\ s[i].parent = <<"queue", i - 1>>
  BY DEF H!Free
<1>3. s \in Seq(Call)
  <2>1. \A i \in 1 .. QueueCount : H!Free("queue_items", i - 1, <<"queue", i - 1>>) \in Call
    BY <1>1 DEF H!Free, Call, Pair, Names
  <2> QED BY <1>1, <2>1
<1> HIDE DEF s
<1>4. Blocks(s) = {"queue_items"} \X Queues
  <2>1. ASSUME NEW i \in 1 .. QueueCount
        PROVE  s[i].block \in {"queue_items"} \X Queues
    <3>1. i - 1 \in Queues
      BY <1>1 DEF Queues
    <3>2. s[i].block = <<"queue_items", i - 1>>
      BY <1>2
    <3> QED BY <3>1, <3>2
  <2>2. ASSUME NEW q \in Queues
        PROVE  <<"queue_items", q>> \in Blocks(s)
    <3> DEFINE i == q + 1
    <3>1. i \in 1 .. QueueCount /\ i - 1 = q
      BY <1>1 DEF Queues
    <3> HIDE DEF i
    <3> QED BY <1>2, <3>1 DEF Blocks
  <2> QED BY <1>2, <2>1, <2>2 DEF Blocks
<1>5. ParentsKnown(s)
  <2>1. \A n : H!Owner(<<"queue_items", n>>) = <<"queue", n>>
    BY Owners
  <2> QED BY <1>2, <2>1 DEF ParentsKnown
<1>6. Ordered(s)
  <2> SUFFICES ASSUME NEW i \in 1 .. QueueCount, NEW j \in 1 .. i - 1
               PROVE  s[j].block # s[i].block /\ s[j].block # H!Parent(s[i].block)
    BY <1>2 DEF Ordered
  <2>1. s[i].block = <<"queue_items", i - 1>> /\ s[j].block = <<"queue_items", j - 1>>
    BY <1>1, <1>2
  <2>2. H!Parent(<<"queue_items", i - 1>>) = <<"queues", 0>>
    BY Parents
  <2> QED BY <2>1, <2>2
<1> QED BY <1>3, <1>4, <1>5, <1>6 DEF SafeList, s

\* The blocks of the scheduler, of a device and of the rest.
SchedulerBlocks ==
  ({"queue_items"} \X Queues)
    \cup {<<"queues", 0>>, <<"page_ready_queue_items", 0>>, <<"page_ready_queue", 0>>}
DeviceBlocks(d) == {<<"blocked_queue_items", d>>, <<"blocked_queue", d>>}
FrameBlocks ==
  {<<"require_frame_queue_items", 0>>, <<"require_frame_queue", 0>>, <<"frame_table", 0>>}
MapBlocks == {<<"scheduler", 0>>, <<"os_map_list", 0>>}
RootBlocks == {<<"devices", 0>>, <<"os", 0>>}

OsDisposed ==
  FrameBlocks \cup SchedulerBlocks \cup MapBlocks
    \cup DeviceBlocks(2) \cup DeviceBlocks(1) \cup DeviceBlocks(0) \cup RootBlocks
PlanDisposed ==
  {<<"pid_map_list", 0>>, <<"sim_proc_meta", 0>>, <<"sim_procs", 0>>, <<"data", 0>>, <<"plan", 0>>}

LEMMA SchedulerDisposed == SafeList(H!SchedulerDispose, SchedulerBlocks)
<1> DEFINE c1 == H!Free("queues", 0, <<"scheduler", 0>>)
           c2 == H!Free("page_ready_queue_items", 0, <<"page_ready_queue", 0>>)
           c3 == H!Free("page_ready_queue", 0, <<"scheduler", 0>>)
           B == {<<"queues", 0>>, <<"page_ready_queue_items", 0>>, <<"page_ready_queue", 0>>}
           items == [i \in 1 .. QueueCount |-> H!Free("queue_items", i - 1, <<"queue", i - 1>>)]
<1>0. /\ H!Owner(<<"queues", 0>>) = <<"scheduler", 0>>
      /\ H!Owner(<<"page_ready_queue_items", 0>>) = <<"page_ready_queue", 0>>
      /\ H!Owner(<<"page_ready_queue", 0>>) = <<"scheduler", 0>>
  BY Owners
<1>1. /\ SafeList(<<c1>>, {<<"queues", 0>>})
      /\ SafeList(<<c2>>, {<<"page_ready_queue_items", 0>>})
      /\ SafeList(<<c3>>, {<<"page_ready_queue", 0>>})
  BY <1>0, OneCall DEF Pair, Names
<1>2. /\ H!Parent(<<"queues", 0>>) = <<"scheduler", 0>>
      /\ H!Parent(<<"page_ready_queue", 0>>) = <<"scheduler", 0>>
      /\ H!Parent(<<"page_ready_queue_items", 0>>) = <<"page_ready_queue", 0>>
  BY Parents
<1>3. /\ \A b \in B : H!Parent(b) \notin {"queue_items"} \X Queues
      /\ ({"queue_items"} \X Queues) \cap B = {}
  BY <1>2
<1>4. H!SchedulerDispose = items \o <<c1, c2, c3>>
  BY DEF H!SchedulerDispose
<1>5. SafeList(items, {"queue_items"} \X Queues)
  BY QueueItemBlocks
<1> HIDE DEF c1, c2, c3, items
<1>6. SafeList(<<c1, c2, c3>>, B)
  <2> DEFINE a == <<"queues", 0>>
             b == <<"page_ready_queue_items", 0>>
             c == <<"page_ready_queue", 0>>
  <2>1. a # b /\ a # c /\ b # c /\ H!Parent(b) # a /\ H!Parent(c) \notin {a, b}
    BY <1>2
  <2>2. SafeList(<<c1>>, {a}) /\ SafeList(<<c2>>, {b}) /\ SafeList(<<c3>>, {c})
    BY <1>1
  <2>3. B = {a, b, c}
    OBVIOUS
  <2> HIDE DEF a, b, c, B
  <2> QED BY <2>1, <2>2, <2>3, ThreeCalls
<1> HIDE DEF B
<1>7. SafeList(items \o <<c1, c2, c3>>, ({"queue_items"} \X Queues) \cup B)
  BY <1>3, <1>5, <1>6, Appended
<1> QED BY <1>4, <1>7 DEF SchedulerBlocks, B

LEMMA DeviceDisposed ==
  ASSUME NEW d \in Int
  PROVE  SafeList(H!DeviceDispose(d), DeviceBlocks(d))
<1> DEFINE c1 == H!Free("blocked_queue_items", d, <<"blocked_queue", d>>)
           c2 == H!Free("blocked_queue", d, <<"device", d>>)
<1>1. /\ SafeList(<<c1>>, {<<"blocked_queue_items", d>>})
      /\ SafeList(<<c2>>, {<<"blocked_queue", d>>})
  BY OneCall, Owners DEF Pair, Names
<1>2. H!Parent(<<"blocked_queue", d>>) = <<"devices", 0>>
  BY Parents
<1>3. H!DeviceDispose(d) = <<c1, c2>>
  BY DEF H!DeviceDispose
<1> HIDE DEF c1, c2
<1> DEFINE a == <<"blocked_queue_items", d>>
           b == <<"blocked_queue", d>>
<1>4. SafeList(<<c1, c2>>, {a, b})
  <2>1. a # b /\ H!Parent(b) # a
    BY <1>2
  <2> HIDE DEF a, b
  <2> QED BY <1>1, <2>1, TwoCalls DEF a, b
<1> QED BY <1>3, <1>4 DEF DeviceBlocks

LEMMA Hanging ==
  /\ \A b \in SchedulerBlocks :
       H!Parent(b) \in {<<"queues", 0>>, <<"scheduler", 0>>, <<"page_ready_queue", 0>>}
  /\ \A b \in MapBlocks : H!Parent(b) = <<"os", 0>>
  /\ \A d : \A b \in DeviceBlocks(d) : H!Parent(b) \in {<<"blocked_queue", d>>, <<"devices", 0>>}
  /\ \A b \in RootBlocks : H!Parent(b) \in {<<"os", 0>>, <<"NULL", 0>>}
  /\ \A b \in PlanDisposed : H!Parent(b) \in {<<"data", 0>>, <<"plan", 0>>, <<"NULL", 0>>}
<1>1. /\ H!Parent(<<"queues", 0>>) = <<"scheduler", 0>>
      /\ H!Parent(<<"page_ready_queue", 0>>) = <<"scheduler", 0>>
      /\ H!Parent(<<"page_ready_queue_items", 0>>) = <<"page_ready_queue", 0>>
      /\ H!Parent(<<"scheduler", 0>>) = <<"os", 0>>
      /\ H!Parent(<<"os_map_list", 0>>) = <<"os", 0>>
      /\ H!Parent(<<"devices", 0>>) = <<"os", 0>>
      /\ H!Parent(<<"os", 0>>) = <<"NULL", 0>>
  BY Parents
<1>2. \A q : H!Parent(<<"queue_items", q>>) = <<"queues", 0>>
  BY Parents
<1>3. \A d : /\ H!Parent(<<"blocked_queue_items", d>>) = <<"blocked_queue", d>>
             /\ H!Parent(<<"blocked_queue", d>>) = <<"devices", 0>>
  BY Parents
<1>4. /\ H!Parent(<<"pid_map_list", 0>>) = <<"data", 0>>
      /\ H!Parent(<<"sim_proc_meta", 0>>) = <<"data", 0>>
      /\ H!Parent(<<"sim_procs", 0>>) = <<"data", 0>>
      /\ H!Parent(<<"data", 0>>) = <<"plan", 0>>
      /\ H!Parent(<<"plan", 0>>) = <<"NULL", 0>>
  BY Parents
<1>5. \A b \in SchedulerBlocks :
        H!Parent(b) \in {<<"queues", 0>>, <<"scheduler", 0>>, <<"page_ready_queue", 0>>}
  BY <1>1, <1>2 DEF SchedulerBlocks
<1>6. \A d : \A b \in DeviceBlocks(d) :
        H!Parent(b) \in {<<"blocked_queue", d>>, <<"devices", 0>>}
  BY <1>3 DEF DeviceBlocks
<1> QED BY <1>1, <1>4, <1>5, <1>6 DEF MapBlocks, RootBlocks, PlanDisposed

LEMMA OsDisposes == SafeList(H!OsDispose, OsDisposed)
<1> DEFINE f1 == H!Free("require_frame_queue_items", 0, <<"require_frame_queue", 0>>)
           f2 == H!Free("require_frame_queue", 0, <<"os", 0>>)
           f3 == H!Free("frame_table", 0, <<"os", 0>>)
           m1 == H!Free("scheduler", 0, <<"os", 0>>)
           m2 == H!Free("os_map_list", 0, <<"os.pid_map", 0>>)
           r1 == H!Free("devices", 0, <<"os", 0>>)
           r2 == H!Free("os", 0, <<"NULL", 0>>)
           A1 == FrameBlocks \cup SchedulerBlocks
           A2 == A1 \cup MapBlocks
           A3 == A2 \cup DeviceBlocks(2)
           A4 == A3 \cup DeviceBlocks(1)
           A5 == A4 \cup DeviceBlocks(0)
<1>1. SafeList(<<f1, f2, f3>>, FrameBlocks)
  <2>0. /\ H!Owner(<<"require_frame_queue_items", 0>>) = <<"require_frame_queue", 0>>
        /\ H!Owner(<<"require_frame_queue", 0>>) = <<"os", 0>>
        /\ H!Owner(<<"frame_table", 0>>) = <<"os", 0>>
    BY Owners
  <2>1. /\ SafeList(<<f1>>, {<<"require_frame_queue_items", 0>>})
        /\ SafeList(<<f2>>, {<<"require_frame_queue", 0>>})
        /\ SafeList(<<f3>>, {<<"frame_table", 0>>})
    BY <2>0, OneCall DEF Pair, Names
  <2>2. /\ H!Parent(<<"require_frame_queue", 0>>) = <<"os", 0>>
        /\ H!Parent(<<"frame_table", 0>>) = <<"os", 0>>
    BY Parents
  <2> DEFINE a == <<"require_frame_queue_items", 0>>
             b == <<"require_frame_queue", 0>>
             c == <<"frame_table", 0>>
  <2>3. a # b /\ a # c /\ b # c /\ H!Parent(b) # a /\ H!Parent(c) \notin {a, b}
    BY <2>2
  <2>4. SafeList(<<f1>>, {a}) /\ SafeList(<<f2>>, {b}) /\ SafeList(<<f3>>, {c})
    BY <2>1
  <2>5. FrameBlocks = {a, b, c}
    BY DEF FrameBlocks
  <2> HIDE DEF f1, f2, f3, a, b, c
  <2> QED BY <2>3, <2>4, <2>5, ThreeCalls
<1>2. SafeList(<<m1, m2>>, MapBlocks)
  <2>0. /\ H!Owner(<<"scheduler", 0>>) = <<"os", 0>>
        /\ H!Owner(<<"os_map_list", 0>>) = <<"os.pid_map", 0>>
    BY Owners
  <2>1. SafeList(<<m1>>, {<<"scheduler", 0>>}) /\ SafeList(<<m2>>, {<<"os_map_list", 0>>})
    BY <2>0, OneCall DEF Pair, Names
  <2>2. H!Parent(<<"os_map_list", 0>>) = <<"os", 0>>
    BY Parents
  <2> DEFINE a == <<"scheduler", 0>>
             b == <<"os_map_list", 0>>
  <2>3. a # b /\ H!Parent(b) # a
    BY <2>2
  <2>4. SafeList(<<m1>>, {a}) /\ SafeList(<<m2>>, {b})
    BY <2>1
  <2>5. MapBlocks = {a, b}
    BY DEF MapBlocks
  <2> HIDE DEF m1, m2, a, b
  <2> QED BY <2>3, <2>4, <2>5, TwoCalls
<1>3. SafeList(<<r1, r2>>, RootBlocks)
  <2>0. /\ H!Owner(<<"devices", 0>>) = <<"os", 0>>
        /\ H!Owner(<<"os", 0>>) = <<"NULL", 0>>
    BY Owners
  <2>1. SafeList(<<r1>>, {<<"devices", 0>>}) /\ SafeList(<<r2>>, {<<"os", 0>>})
    BY <2>0, OneCall DEF Pair, Names
  <2>2. H!Parent(<<"os", 0>>) = <<"NULL", 0>>
    BY Parents
  <2> DEFINE a == <<"devices", 0>>
             b == <<"os", 0>>
  <2>3. a # b /\ H!Parent(b) # a
    BY <2>2
  <2>4. SafeList(<<r1>>, {a}) /\ SafeList(<<r2>>, {b})
    BY <2>1
  <2>5. RootBlocks = {a, b}
    BY DEF RootBlocks
  <2> HIDE DEF r1, r2, a, b
  <2> QED BY <2>3, <2>4, <2>5, TwoCalls
<1>4. (\A b \in SchedulerBlocks : H!Parent(b) \notin FrameBlocks)
        /\ FrameBlocks \cap SchedulerBlocks = {}
  BY Hanging DEF FrameBlocks, SchedulerBlocks
<1>5. (\A b \in MapBlocks : H!Parent(b) \notin A1) /\ A1 \cap MapBlocks = {}
  BY Hanging DEF SchedulerBlocks, FrameBlocks, MapBlocks
<1>6. \A d \in 0 .. 2 : \A b \in DeviceBlocks(d) :
        /\ H!Parent(b) \notin A2 /\ b \notin A2
        /\ \A e \in 0 .. 2 : d # e => H!Parent(b) \notin DeviceBlocks(e) /\ b \notin DeviceBlocks(e)
  <2> SUFFICES ASSUME NEW d \in 0 .. 2, NEW b \in DeviceBlocks(d)
               PROVE  /\ H!Parent(b) \notin A2 /\ b \notin A2
                      /\ \A e \in 0 .. 2 : d # e =>
                           H!Parent(b) \notin DeviceBlocks(e) /\ b \notin DeviceBlocks(e)
    OBVIOUS
  <2>1. H!Parent(b) = <<"blocked_queue", d>> \/ H!Parent(b) = <<"devices", 0>>
    BY Hanging
  <2>2. b = <<"blocked_queue", d>> \/ b = <<"blocked_queue_items", d>>
    BY DEF DeviceBlocks
  <2>3. H!Parent(b) \notin A2 /\ b \notin A2
    BY <2>1, <2>2 DEF SchedulerBlocks, FrameBlocks, MapBlocks
  <2>4. \A e \in 0 .. 2 : d # e =>
          H!Parent(b) \notin DeviceBlocks(e) /\ b \notin DeviceBlocks(e)
    BY <2>1, <2>2 DEF DeviceBlocks
  <2> QED BY <2>3, <2>4
<1>7. (\A b \in RootBlocks : H!Parent(b) \notin A5) /\ A5 \cap RootBlocks = {}
  BY Hanging DEF SchedulerBlocks, FrameBlocks, MapBlocks, DeviceBlocks, RootBlocks
<1>8. H!OsDispose = <<f1, f2, f3>> \o H!SchedulerDispose \o <<m1, m2>> \o H!DeviceDispose(2)
                      \o H!DeviceDispose(1) \o H!DeviceDispose(0) \o <<r1, r2>>
  BY DEF H!OsDispose
<1> HIDE DEF f1, f2, f3, m1, m2, r1, r2
<1> DEFINE frames == <<f1, f2, f3>>
           maps == <<m1, m2>>
           roots == <<r1, r2>>
<1> HIDE DEF frames, maps, roots
<1>9. SafeList(frames, FrameBlocks) /\ SafeList(maps, MapBlocks) /\ SafeList(roots, RootBlocks)
  BY <1>1, <1>2, <1>3 DEF frames, maps, roots
<1>10. SafeList(frames \o H!SchedulerDispose \o maps, A2)
  <2>1. SafeList(frames \o H!SchedulerDispose, A1)
    BY <1>4, <1>9, SchedulerDisposed, Appended
  <2> HIDE DEF A1
  <2> QED BY <1>5, <1>9, <2>1, Appended
<1> HIDE DEF A2
<1>11. SafeList(frames \o H!SchedulerDispose \o maps \o H!DeviceDispose(2), A3)
  <2>1. (\A b \in DeviceBlocks(2) : H!Parent(b) \notin A2) /\ A2 \cap DeviceBlocks(2) = {}
    BY <1>6
  <2> QED BY <1>10, <2>1, DeviceDisposed, Appended
<1>12. SafeList(frames \o H!SchedulerDispose \o maps \o H!DeviceDispose(2)
                 \o H!DeviceDispose(1), A4)
  <2>1. (\A b \in DeviceBlocks(1) : H!Parent(b) \notin A3) /\ A3 \cap DeviceBlocks(1) = {}
    BY <1>6
  <2> HIDE DEF A3
  <2> QED BY <1>11, <2>1, DeviceDisposed, Appended
<1>13. SafeList(frames \o H!SchedulerDispose \o maps \o H!DeviceDispose(2)
                 \o H!DeviceDispose(1) \o H!DeviceDispose(0), A5)
  <2>1. (\A b \in DeviceBlocks(0) : H!Parent(b) \notin A4) /\ A4 \cap DeviceBlocks(0) = {}
    BY <1>6
  <2> HIDE DEF A4
  <2> QED BY <1>12, <2>1, DeviceDisposed, Appended
<1> HIDE DEF A5
<1>14. SafeList(frames \o H!SchedulerDispose \o maps \o H!DeviceDispose(2)
                 \o H!DeviceDispose(1) \o H!DeviceDispose(0) \o roots, A5 \cup RootBlocks)
  BY <1>7, <1>9, <1>13, Appended
<1> QED BY <1>8, <1>14 DEF OsDisposed, frames, maps, roots, A2, A5

LEMMA PlanDisposes == SafeList(H!PlanDispose, PlanDisposed)
<1> DEFINE c1 == H!Free("pid_map_list", 0, <<"data.pid_map", 0>>)
           c2 == H!Free("sim_proc_meta", 0, <<"data", 0>>)
           c3 == H!Free("sim_procs", 0, <<"data", 0>>)
           c4 == H!Free("data", 0, <<"plan", 0>>)
           c5 == H!Free("plan", 0, <<"NULL", 0>>)
           A == {<<"pid_map_list", 0>>, <<"sim_proc_meta", 0>>, <<"sim_procs", 0>>}
           B == {<<"data", 0>>, <<"plan", 0>>}
<1>0. /\ H!Owner(<<"pid_map_list", 0>>) = <<"data.pid_map", 0>>
      /\ H!Owner(<<"sim_proc_meta", 0>>) = <<"data", 0>>
      /\ H!Owner(<<"sim_procs", 0>>) = <<"data", 0>>
      /\ H!Owner(<<"data", 0>>) = <<"plan", 0>>
      /\ H!Owner(<<"plan", 0>>) = <<"NULL", 0>>
  BY Owners
<1>1. /\ SafeList(<<c1>>, {<<"pid_map_list", 0>>}) /\ SafeList(<<c2>>, {<<"sim_proc_meta", 0>>})
      /\ SafeList(<<c3>>, {<<"sim_procs", 0>>})
      /\ SafeList(<<c4>>, {<<"data", 0>>}) /\ SafeList(<<c5>>, {<<"plan", 0>>})
  BY <1>0, OneCall DEF Pair, Names
<1>2. /\ H!Parent(<<"sim_proc_meta", 0>>) = <<"data", 0>>
      /\ H!Parent(<<"sim_procs", 0>>) = <<"data", 0>>
      /\ H!Parent(<<"data", 0>>) = <<"plan", 0>> /\ H!Parent(<<"plan", 0>>) = <<"NULL", 0>>
  BY Parents
<1>3. (\A b \in B : H!Parent(b) \notin A) /\ A \cap B = {}
  BY <1>2
<1>4. c1 \in Call /\ c2 \in Call /\ c3 \in Call /\ c4 \in Call /\ c5 \in Call
  BY DEF H!Free, Call, Pair, Names
<1>5. H!PlanDispose = <<c1, c2, c3, c4, c5>>
  BY DEF H!PlanDispose
<1> HIDE DEF c1, c2, c3, c4, c5
<1>6. SafeList(<<c1, c2, c3>>, A) /\ SafeList(<<c4, c5>>, B)
  <2> DEFINE a == <<"pid_map_list", 0>>
             b == <<"sim_proc_meta", 0>>
             c == <<"sim_procs", 0>>
             d == <<"data", 0>>
             e == <<"plan", 0>>
  <2>1. /\ a # b /\ a # c /\ b # c /\ H!Parent(b) # a /\ H!Parent(c) \notin {a, b}
        /\ d # e /\ H!Parent(e) # d
    BY <1>2
  <2>2. /\ SafeList(<<c1>>, {a}) /\ SafeList(<<c2>>, {b}) /\ SafeList(<<c3>>, {c})
        /\ SafeList(<<c4>>, {d}) /\ SafeList(<<c5>>, {e})
    BY <1>1
  <2>3. A = {a, b, c} /\ B = {d, e}
    OBVIOUS
  <2> HIDE DEF a, b, c, d, e, A, B
  <2>4. SafeList(<<c1, c2, c3>>, {a, b, c})
    BY <2>1, <2>2, ThreeCalls
  <2>5. SafeList(<<c4, c5>>, {d, e})
    BY <2>1, <2>2, TwoCalls
  <2> QED BY <2>3, <2>4, <2>5
<1> HIDE DEF A, B
<1>7. SafeList(<<c1, c2, c3>> \o <<c4, c5>>, A \cup B)
  BY <1>3, <1>6, Appended
<1>8. <<c1, c2, c3>> \o <<c4, c5>> = <<c1, c2, c3, c4, c5>>
  <2>1. /\ <<c1, c2, c3>> \in Seq(Call) /\ <<c4, c5>> \in Seq(Call)
        /\ <<c1, c2, c3, c4, c5>> \in Seq(Call)
    BY <1>4
  <2>2. /\ Len(<<c1, c2, c3>> \o <<c4, c5>>) = 5 /\ Len(<<c1, c2, c3, c4, c5>>) = 5
        /\ (<<c1, c2, c3>> \o <<c4, c5>>)[1] = c1 /\ (<<c1, c2, c3>> \o <<c4, c5>>)[2] = c2
        /\ (<<c1, c2, c3>> \o <<c4, c5>>)[3] = c3 /\ (<<c1, c2, c3>> \o <<c4, c5>>)[4] = c4
        /\ (<<c1, c2, c3>> \o <<c4, c5>>)[5] = c5
    BY <2>1, ConcatProperties
  <2>3. \A i \in 1 .. 5 : (<<c1, c2, c3>> \o <<c4, c5>>)[i] = <<c1, c2, c3, c4, c5>>[i]
    <3>1. \A i \in 1 .. 5 : i = 1 \/ i = 2 \/ i = 3 \/ i = 4 \/ i = 5
      OBVIOUS
    <3> QED BY <2>2, <3>1
  <2> QED BY <2>1, <2>2, <2>3, ConcatProperties, SeqEqual
<1>9. PlanDisposed = A \cup B
  BY DEF PlanDisposed, A, B
<1> QED BY <1>5, <1>7, <1>8, <1>9

\* The end of main frees each block once, before the one it hangs from.
LEMMA DisposesInOrder == SafeList(H!Disposals, OsDisposed \cup PlanDisposed)
<1>1. \A b \in PlanDisposed : H!Parent(b) \notin OsDisposed
  BY Hanging DEF OsDisposed, SchedulerBlocks, FrameBlocks, MapBlocks, DeviceBlocks,
     RootBlocks
<1>2. OsDisposed \cap PlanDisposed = {}
  BY DEF OsDisposed, PlanDisposed, SchedulerBlocks, FrameBlocks, MapBlocks, DeviceBlocks,
     RootBlocks
<1> QED BY <1>1, <1>2, OsDisposes, PlanDisposes, Appended DEF H!Disposals

\* And so does the end of a process.
LEMMA ProcessDisposed ==
  ASSUME NEW p \in Int
  PROVE  SafeList(H!ProcessDispose(p), H!ProcessBlocks(p))
<1> DEFINE c1 == H!Free("working_set", p, <<"process", p>>)
           c2 == H!Free("page_table", p, <<"process", p>>)
           c3 == H!Free("process", p, <<"os", 0>>)
<1>0. /\ H!Owner(<<"working_set", p>>) = <<"process", p>>
      /\ H!Owner(<<"page_table", p>>) = <<"process", p>>
      /\ H!Owner(<<"process", p>>) = <<"os", 0>>
  BY Owners
<1>1. /\ SafeList(<<c1>>, {<<"working_set", p>>}) /\ SafeList(<<c2>>, {<<"page_table", p>>})
      /\ SafeList(<<c3>>, {<<"process", p>>})
  BY <1>0, OneCall DEF Pair, Names
<1>2. /\ H!Parent(<<"page_table", p>>) = <<"process", p>>
      /\ H!Parent(<<"process", p>>) = <<"os", 0>>
  BY Parents
<1>3. H!ProcessDispose(p) = <<c1, c2, c3>>
  BY DEF H!ProcessDispose
<1> HIDE DEF c1, c2, c3
<1> DEFINE a == <<"working_set", p>>
           b == <<"page_table", p>>
           c == <<"process", p>>
<1>4. SafeList(<<c1, c2, c3>>, {a, b, c})
  <2>1. a # b /\ a # c /\ b # c /\ H!Parent(b) # a /\ H!Parent(c) \notin {a, b}
    BY <1>2
  <2>2. SafeList(<<c1>>, {a}) /\ SafeList(<<c2>>, {b}) /\ SafeList(<<c3>>, {c})
    BY <1>1
  <2> HIDE DEF a, b, c
  <2> QED BY <2>1, <2>2, ThreeCalls
<1>5. H!ProcessBlocks(p) = {<<"working_set", p>>, <<"page_table", p>>, <<"process", p>>}
  BY DEF H!ProcessBlocks
<1> QED BY <1>3, <1>4, <1>5

-------------------------------------------------------------------------------
(***************************************************************************)
(* The memory: what is allocated                                           *)
(***************************************************************************)

\* Before the OS starts nothing has happened to it.
NotStarted ==
  outcome \in {"reading", "read", "printed"} =>
    phase = "begin" /\ next_pid = 1 /\ freed = {}

\* While it runs the processes that live have their blocks, and no other.
ProcessMemory == {"working_set", "page_table", "process"} \X Live

Allocated ==
  outcome = "running" => heap = H!PlanBlocks \cup H!OsBlocks \cup ProcessMemory

\* A process comes to be or ends one at a time.
LEMMA LiveSteps ==
  ASSUME [SimNext]_simVars
  PROVE  \/ next_pid' = next_pid /\ freed' = freed
         \/ next_pid' = next_pid + 1 /\ freed' = freed
         \/ next_pid' = next_pid /\ freed' = freed \cup {current_process} /\ current_process # None
<1>1. CASE SimBegin \/ SimMemory \/ SimPreempt \/ SimRequestIO \/ SimRun
  BY <1>1 DEF SimBegin, SimMemory, SimPreempt, SimRequestIO, SimRun, BeginTimeUnit, Stop, Goto,
     otherVars, vars, AccessMemory, AccessMemoryFault, NoMemoryAccess, Preempt, RequestIO,
     RunOneTimeUnit, IdleTimeUnit
<1>2. CASE SimIncoming
  BY <1>2 DEF SimIncoming, IncomingProcess, PromoteWaitingProcesses, vars
<1>3. CASE SimDevices
  BY <1>3 DEF SimDevices, PageLoadFinished, JobDone, JobDoneStartNext, JobDoneOutOfMemory,
     CompleteOperation, DevicesHandled, SwapOutDone, SwapOutScan, NothingToSelect, Dispatch,
     DispatchFault, UseFreedProcess, Goto, otherVars
<1>4. CASE SimFinish
  BY <1>4 DEF SimFinish, FinishProcess
<1> QED BY <1>1, <1>2, <1>3, <1>4 DEF SimNext, simVars, vars

LEMMA SimulateAllocated ==
  ASSUME TypeOK, Known, Allocated, Simulate
  PROVE  Allocated'
<1> SUFFICES ASSUME outcome' = "running" PROVE Allocated'
  BY DEF Allocated
<1> DEFINE Of(p) == H!ProcessBlocks(p)
<1>1. /\ outcome = "running" /\ [SimNext]_simVars
      /\ \/ next_pid' # next_pid /\ heap' = heap \cup Of(next_pid)
         \/ freed' # freed /\ FreeAll(H!ProcessDispose(current_process), "running")
         \/ next_pid' = next_pid /\ freed' = freed /\ heap' = heap
  BY DEF Simulate, H!NewProcess
<1>2. next_pid \in Nat /\ Live = Started \ freed /\ freed \subseteq Started
  BY ConstantsType DEF TypeOK, Live, Started, Known
<1>3. /\ H!PlanBlocks' = H!PlanBlocks /\ H!OsBlocks' = H!OsBlocks
  BY DEF H!PlanBlocks, H!OsBlocks, H!PlanStrings, H!Single, H!Each
<1>4. \A p : Of(p) = {"working_set", "page_table", "process"} \X {p}
  BY DEF H!ProcessBlocks
<1>5. \A p : Of(p) \cap (H!PlanBlocks \cup H!OsBlocks) = {}
  BY <1>4, InitialBlocks
<1>6. CASE next_pid' = next_pid /\ freed' = freed
  BY <1>1, <1>3, <1>6 DEF Allocated, ProcessMemory, Live
<1>7. CASE next_pid' = next_pid + 1 /\ freed' = freed
  <2>1. Live' = Live \cup {next_pid}
    <3>1. next_pid \in Nat /\ next_pid >= 1
      BY ConstantsType DEF TypeOK
    <3>2. Started' = Started \cup {next_pid}
      BY <1>7, <3>1 DEF Started
    <3>3. next_pid \notin Started
      BY <3>1 DEF Started
    <3>4. Live' = Started' \ freed'
      BY DEF Live, Started
    <3> QED BY <1>2, <1>7, <3>2, <3>3, <3>4
  <2>2. heap' = heap \cup Of(next_pid)
    BY <1>1, <1>2, <1>7
  <2> QED BY <1>1, <1>3, <1>4, <2>1, <2>2 DEF Allocated, ProcessMemory
<1>8. CASE next_pid' = next_pid /\ freed' = freed \cup {current_process}
             /\ current_process # None /\ freed' # freed
  <2>1. Live' = Live \ {current_process}
    BY <1>8 DEF Live
  <2>2. heap' = heap \ Of(current_process)
    <3>1. current_process \in Int
      BY <1>8 DEF TypeOK, Pids
    <3>2. heap' = heap \ Blocks(H!ProcessDispose(current_process))
      BY <1>1, <1>8, FreeAllBlocks
    <3> QED BY <3>1, <3>2, ProcessDisposed DEF SafeList
  <2>3. ProcessMemory' = ProcessMemory \ Of(current_process)
    BY <1>4, <2>1 DEF ProcessMemory
  <2> QED BY <1>1, <1>3, <1>5, <2>2, <2>3 DEF Allocated
<1> QED BY <1>1, <1>6, <1>7, <1>8, LiveSteps

\* Blocks of the plan and the OS are pairs, so the facts above are about all of them.
LEMMA BlocksArePairs ==
  \A b \in H!PlanBlocks \cup H!OsBlocks : \E name, n : b = <<name, n>>
<1>1. \A b \in H!PlanStrings : \E name, n : b = <<name, n>>
  BY DEF H!PlanStrings, H!Single, H!Each
<1>2. \A b \in H!PlanBlocks : b \in H!PlanStrings \/ \E name, n : b = <<name, n>>
  BY DEF H!PlanBlocks, H!Single
<1>3. \A b \in H!OsBlocks : \E name, n : b = <<name, n>>
  BY DEF H!OsBlocks, H!Single, H!Each
<1> QED BY <1>1, <1>2, <1>3

\* Three devices are freed, however many there are.
LEMMA DisposedBlocks ==
  ASSUME NEW name, NEW n
  PROVE  /\ <<name, n>> \in OsDisposed <=>
              \/ /\ name \in {"os", "devices", "os_map_list", "scheduler", "page_ready_queue",
                             "page_ready_queue_items", "queues", "frame_table",
                             "require_frame_queue", "require_frame_queue_items"}
                 /\ n = 0
              \/ name = "queue_items" /\ n \in Queues
              \/ name \in {"blocked_queue", "blocked_queue_items"} /\ n \in 0 .. 2
         /\ <<name, n>> \in PlanDisposed <=>
              name \in {"plan", "data", "sim_procs", "sim_proc_meta", "pid_map_list"} /\ n = 0
         /\ <<name, n>> \in H!Left <=>
              \/ <<name, n>> \in H!PlanStrings
              \/ /\ name \in {"blocked_queue", "blocked_queue_items"}
                 /\ n \in 3 .. DeviceCount - 1
<1>1. \A m \in Int : m \in 0 .. 2 <=> m = 0 \/ m = 1 \/ m = 2
  OBVIOUS
<1>2. n \in 0 .. 2 <=> n = 0 \/ n = 1 \/ n = 2
  BY <1>1
<1> QED BY <1>2 DEF OsDisposed, FrameBlocks, SchedulerBlocks, MapBlocks, DeviceBlocks, RootBlocks,
     PlanDisposed, H!Left, H!Each

LEMMA DisposedAll ==
  (H!PlanBlocks \cup H!OsBlocks) \ (OsDisposed \cup PlanDisposed) = H!Left
<1>1. DeviceCount \in Nat
  BY ConstantsType
<1>2. \A m : m \in 3 .. DeviceCount - 1 <=> m \in Devices /\ m \notin 0 .. 2
  BY <1>1 DEF Devices
<1>3. ASSUME NEW name, NEW n
      PROVE  /\ <<name, n>> \in H!PlanBlocks /\ <<name, n>> \notin OsDisposed \cup PlanDisposed
                  <=> <<name, n>> \in H!PlanStrings
             /\ <<name, n>> \in H!OsBlocks /\ <<name, n>> \notin OsDisposed \cup PlanDisposed
                  <=> name \in {"blocked_queue", "blocked_queue_items"} /\ n \in 3 .. DeviceCount - 1
  <2>1. n \in 3 .. DeviceCount - 1 <=> n \in Devices /\ n \notin 0 .. 2
    BY <1>2
  <2> QED BY <2>1, InitialBlocks, DisposedBlocks
<1>4. \A b \in H!Left : \E name, n : b = <<name, n>>
  <2>1. \A b \in H!PlanStrings : \E name, n : b = <<name, n>>
    BY DEF H!PlanStrings, H!Single, H!Each
  <2> QED BY <2>1 DEF H!Left, H!Each
<1>5. \A name, n : <<name, n>> \in (H!PlanBlocks \cup H!OsBlocks) \ (OsDisposed \cup PlanDisposed)
                     <=> <<name, n>> \in H!Left
  BY <1>3, DisposedBlocks
<1> QED BY <1>4, <1>5, BlocksArePairs

LEMMA StoppedMemory ==
  ASSUME TypeOK, Known, Booked, AllDead, Allocated, outcome = "running", phase = "stopped"
  PROVE  heap = H!PlanBlocks \cup H!OsBlocks
BY NobodyLeft DEF Allocated, ProcessMemory

LEMMA DisposeMemory ==
  ASSUME TypeOK, Known, Booked, AllDead, Allocated, Dispose
  PROVE  outcome' = "disposed" => heap' = H!Left
<1> SUFFICES ASSUME outcome' = "disposed" PROVE heap' = H!Left
  OBVIOUS
<1>1. outcome = "running" /\ phase = "stopped" /\ FreeAll(H!Disposals, "disposed")
  BY DEF Dispose
<1>2. heap' = heap \ (OsDisposed \cup PlanDisposed)
  <2>1. heap' = heap \ Blocks(H!Disposals)
    BY <1>1, FreeAllBlocks
  <2> QED BY <2>1, DisposesInOrder DEF SafeList
<1> QED BY <1>1, <1>2, DisposedAll, StoppedMemory

LEMMA NoneOrphaned ==
  ASSUME Allocated, outcome = "running"
  PROVE  H!NoOrphans
<1> DEFINE Hangs(b) == H!Parent(b) \in heap \cup {<<"NULL", 0>>}
<1>1. heap = H!PlanBlocks \cup H!OsBlocks \cup ProcessMemory
  BY DEF Allocated
<1>2. /\ <<"plan", 0>> \in heap /\ <<"data", 0>> \in heap /\ <<"os", 0>> \in heap
      /\ <<"scheduler", 0>> \in heap /\ <<"devices", 0>> \in heap /\ <<"queues", 0>> \in heap
      /\ <<"page_ready_queue", 0>> \in heap /\ <<"require_frame_queue", 0>> \in heap
      /\ \A d \in Devices : <<"device_entry", d>> \in heap /\ <<"blocked_queue", d>> \in heap
  BY <1>1, InitialBlocks
<1>3. ASSUME NEW name, NEW n, <<name, n>> \in H!PlanBlocks
      PROVE  Hangs(<<name, n>>)
  <2>1. \/ name = "plan" /\ H!Parent(<<name, n>>) = <<"NULL", 0>>
        \/ name = "data" /\ H!Parent(<<name, n>>) = <<"plan", 0>>
        \/ name = "name" /\ n \in Devices /\ H!Parent(<<name, n>>) = <<"device_entry", n>>
        \/ H!Parent(<<name, n>>) = <<"data", 0>>
    <3>1. \/ name \in {"plan", "data", "sim_procs", "sim_proc_meta", "pid_map_list",
                      "swap_device_name", "device_entry"}
          \/ name = "name" /\ n \in Devices
      BY <1>3, InitialBlocks
    <3>2. /\ H!Parent(<<"plan", n>>) = <<"NULL", 0>> /\ H!Parent(<<"data", n>>) = <<"plan", 0>>
          /\ H!Parent(<<"name", n>>) = <<"device_entry", n>>
          /\ \A other \in {"sim_procs", "sim_proc_meta", "pid_map_list", "swap_device_name",
                           "device_entry"} : H!Parent(<<other, n>>) = <<"data", 0>>
      BY Parents
    <3> QED BY <3>1, <3>2
  <2> QED BY <1>2, <2>1
<1>4. ASSUME NEW name, NEW n, <<name, n>> \in H!OsBlocks
      PROVE  Hangs(<<name, n>>)
  <2>1. \/ name = "os" /\ H!Parent(<<name, n>>) = <<"NULL", 0>>
        \/ n \in Devices /\ H!Parent(<<name, n>>) = <<"blocked_queue", n>>
        \/ H!Parent(<<name, n>>) \in
             {<<"os", 0>>, <<"scheduler", 0>>, <<"devices", 0>>, <<"queues", 0>>,
              <<"page_ready_queue", 0>>, <<"require_frame_queue", 0>>}
    <3>1. \/ name \in {"os", "devices", "os_map_list", "scheduler", "page_ready_queue",
                      "page_ready_queue_items", "queues", "frame_table",
                      "require_frame_queue", "require_frame_queue_items", "queue_items",
                      "blocked_queue"}
          \/ name = "blocked_queue_items" /\ n \in Devices
      BY <1>4, InitialBlocks
    <3>2. /\ H!Parent(<<"os", n>>) = <<"NULL", 0>>
          /\ \A other \in {"devices", "os_map_list", "scheduler", "frame_table",
                           "require_frame_queue"} : H!Parent(<<other, n>>) = <<"os", 0>>
          /\ \A other \in {"queues", "page_ready_queue"} :
               H!Parent(<<other, n>>) = <<"scheduler", 0>>
          /\ H!Parent(<<"blocked_queue", n>>) = <<"devices", 0>>
      BY Parents
    <3>3. /\ H!Parent(<<"queue_items", n>>) = <<"queues", 0>>
          /\ H!Parent(<<"page_ready_queue_items", n>>) = <<"page_ready_queue", 0>>
          /\ H!Parent(<<"require_frame_queue_items", n>>) = <<"require_frame_queue", 0>>
          /\ H!Parent(<<"blocked_queue_items", n>>) = <<"blocked_queue", n>>
      BY Parents
    <3> QED BY <3>1, <3>2, <3>3
  <2> QED BY <1>2, <2>1
<1>5. ASSUME NEW b \in ProcessMemory
      PROVE  Hangs(b)
  <2>1. PICK p \in Live : b = <<"process", p>> \/ b = <<"page_table", p>> \/ b = <<"working_set", p>>
    BY DEF ProcessMemory
  <2>2. H!Parent(b) = <<"os", 0>> \/ H!Parent(b) = <<"process", p>>
    BY <2>1, Parents
  <2>3. <<"process", p>> \in heap
    BY <1>1 DEF ProcessMemory
  <2> QED BY <1>2, <2>2, <2>3
<1> QED BY <1>1, <1>3, <1>4, <1>5, BlocksArePairs DEF H!NoOrphans

MemoryInv ==
  /\ NotStarted /\ AllDead /\ Allocated
  /\ outcome = "disposed" => heap = H!Left

LEMMA NextMemory ==
  TypeOK /\ Known /\ Booked /\ MemoryInv /\ [ProgramNext]_programVars => MemoryInv'
<1> SUFFICES ASSUME TypeOK, Known, Booked, MemoryInv, [ProgramNext]_programVars
             PROVE  MemoryInv'
  OBVIOUS
<1>0. H!PlanBlocks' = H!PlanBlocks /\ H!OsBlocks' = H!OsBlocks /\ H!Left' = H!Left
  BY DEF H!PlanBlocks, H!OsBlocks, H!PlanStrings, H!Single, H!Each, H!Left
<1>1. CASE ReadPlan
  <2>1. /\ outcome = "reading" /\ outcome' \in {"reading", "exit", "undefined"}
        /\ UNCHANGED <<phase, next_pid, freed, dead, sim_proc_count>>
    BY <1>1, ReadPlanStep DEF simVars, vars, planVars
  <2> QED BY <2>1 DEF MemoryInv, NotStarted, AllDead, Allocated
<1>2. CASE PrintPlan
  <2>1. /\ outcome \in {"reading", "read"} /\ outcome' \in {"read", "printed", "undefined"}
        /\ UNCHANGED <<phase, next_pid, freed, dead, sim_proc_count>>
    BY <1>2, PrintPlanStep DEF simVars, vars, planVars
  <2> QED BY <2>1 DEF MemoryInv, NotStarted, AllDead, Allocated
<1>3. CASE NoSwapDevice \/ StartOutOfRange
  <2>1. /\ outcome' \in {"exit", "undefined"}
        /\ UNCHANGED <<phase, next_pid, freed, dead, sim_proc_count>>
    BY <1>3 DEF NoSwapDevice, StartOutOfRange, simVars, vars, planVars
  <2> QED BY <2>1 DEF MemoryInv, NotStarted, AllDead, Allocated
<1>4. CASE Start
  <2>1. /\ outcome = "printed" /\ outcome' = "running"
        /\ heap' = H!PlanBlocks \cup H!OsBlocks
        /\ UNCHANGED <<phase, next_pid, freed, dead, sim_proc_count>>
    BY <1>4 DEF Start, H!StartUp, vars
  <2>2. ProcessMemory' = {}
    BY <2>1 DEF MemoryInv, NotStarted, ProcessMemory, Live
  <2> QED BY <1>0, <2>1, <2>2 DEF MemoryInv, NotStarted, AllDead, Allocated
<1>5. CASE Simulate
  <2>1. Allocated' /\ outcome' \in {"running", "exit", "undefined"} /\ [SimNext]_simVars
    <3>1. outcome = "running" /\ [SimNext]_simVars
      BY <1>5 DEF Simulate
    <3>2. outcome' \in {"running", "exit", "undefined"}
      BY <1>5, <3>1, FreeAllOutcome DEF Simulate
    <3> QED BY <1>5, <3>1, <3>2, SimulateAllocated DEF MemoryInv
  <2>2. AllDead'
    BY <2>1, NextAllDead DEF MemoryInv
  <2> QED BY <2>1, <2>2 DEF MemoryInv, NotStarted
<1>6. CASE Dispose
  <2>1. outcome' \in {"disposed", "exit", "undefined"}
    BY <1>6, FreeAllOutcome DEF Dispose
  <2>2. UNCHANGED <<phase, dead, sim_proc_count>>
    BY <1>6 DEF Dispose, simVars, vars, planVars
  <2>3. outcome' = "disposed" => heap' = H!Left
    BY <1>6, DisposeMemory DEF MemoryInv
  <2> QED BY <1>0, <2>1, <2>2, <2>3 DEF MemoryInv, NotStarted, AllDead, Allocated
<1>7. CASE UNCHANGED programVars
  <2>1. UNCHANGED <<outcome, heap, phase, next_pid, freed, dead, sim_proc_count>>
    BY <1>7 DEF programVars, fileVars, simVars, vars, planVars
  <2>2. ProcessMemory' = ProcessMemory
    BY <2>1 DEF ProcessMemory, Live
  <2> QED BY <1>0, <2>1, <2>2 DEF MemoryInv, NotStarted, AllDead, Allocated
<1> QED BY <1>1, <1>2, <1>3, <1>4, <1>5, <1>6, <1>7 DEF ProgramNext, RunPlan

LEMMA MemoryKept ==
  ASSUME NEW files
  PROVE  ProgramSpec(files) => [](TypeOK /\ Known /\ Booked /\ MemoryInv)
<1>1. ProgramInit(files) => MemoryInv
  BY DEF ProgramInit, SimInit, Init, MemoryInv, NotStarted, AllDead, Allocated
<1>2. TypeOK /\ Known /\ Booked /\ MemoryInv /\ [ProgramNext]_programVars => MemoryInv'
  BY NextMemory
<1> QED BY <1>1, <1>2, ProgramBooks, PTL DEF ProgramSpec

\* Whatever file the program is given and however many devices it connects: as
\* long as the plan runs every block hangs from one that is still there, and what
\* is left when the program has ended is the text the plan keeps of the file and
\* the queues of the devices from the fourth on.
THEOREM MemoryGivenBack ==
  ASSUME NEW files
  PROVE  ProgramSpec(files) => []MemoryReturned
<1>1. MemoryInv => MemoryReturned
  BY NoneOrphaned DEF MemoryInv, MemoryReturned
<1> QED BY <1>1, MemoryKept, PTL

LEMMA ProcessReleasable ==
  ASSUME TypeOK, Known, RunsAlive, Allocated, outcome = "running", current_process # None
  PROVE  H!Releasable(H!ProcessDispose(current_process))
<1>1. current_process \in Int /\ current_process \in Live
  BY DEF TypeOK, Pids, Known, RunsAlive, Live, Started
<1>2. H!ProcessBlocks(current_process) \subseteq heap
  BY <1>1 DEF Allocated, ProcessMemory, H!ProcessBlocks
<1> QED BY <1>1, <1>2, ProcessDisposed, SafeReleasable

LEMMA AllReleasable ==
  ASSUME TypeOK, Known, Booked, AllDead, Allocated, outcome = "running", phase = "stopped",
         DeviceCount >= 3
  PROVE  H!Releasable(H!Disposals)
<1>1. 0 .. 2 \subseteq Devices
  BY ConstantsType DEF Devices
<1>2. \A b \in OsDisposed \cup PlanDisposed : \E name, n : b = <<name, n>>
  BY DEF OsDisposed, FrameBlocks, SchedulerBlocks, MapBlocks, DeviceBlocks, RootBlocks,
     PlanDisposed
<1>3. \A name, n : <<name, n>> \in OsDisposed \cup PlanDisposed
                     => <<name, n>> \in H!PlanBlocks \cup H!OsBlocks
  BY <1>1, DisposedBlocks, InitialBlocks
<1>4. OsDisposed \cup PlanDisposed \subseteq heap
  BY <1>2, <1>3, StoppedMemory
<1> QED BY <1>4, DisposesInOrder, SafeReleasable

\* When a process ends, and with three devices or more at the end of main, each
\* call of safe_free finds its block, which nobody has freed before, and is given
\* the parent the block was allocated with.
THEOREM FreedInOrder ==
  ASSUME NEW files
  PROVE  ProgramSpec(files) => []FreedProperly
<1>1. TypeOK /\ Known /\ RunsAlive /\ Booked /\ MemoryInv => FreedProperly
  BY ProcessReleasable, AllReleasable DEF MemoryInv, FreedProperly
<1> QED BY <1>1, MemoryKept, ProgramRunsOS, AlwaysRunsAlive, PTL

===============================================================================

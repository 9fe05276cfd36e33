# Verification of the scheduler and memory manager simulator

The program (`src/src`) simulates an operating system with one CPU: priority
queues with promotion, devices with waiting queues, demand paging. What happens
comes from a plan, a text file that says which process starts when, and at which
of its running times it touches a page, asks for a device or ends. The program is
one C thread. Its difficulty is not parallelism but the number of places a
process can be in, the moves between them in one long loop body, and events that
are looked for by equality with the current time.

## The system

| component | source | state | operations | correct when |
|---|---|---|---|---|
| main loop | `main.c` 254-715 | `time`, the place in the body | a time unit: arrivals, promotion, finished jobs, swap-out, dispatch, memory accesses, end, preemption, I/O, run | every time unit ends; no process is lost, held twice or run without its page |
| scheduler | `os/os.c` 7-26, 151-177, `main.c` 78-94, 587-615 | ready queues, page-ready queue, running process, end of its slice | select, preempt, promote | nobody starves; no slice is overrun; loaded pages first |
| devices | `os/os.c` 28-46, 108-149, `main.c` 111-119, 352-475 | running job and its end, waiting queue | enqueue, execute, complete | a job's end is noticed; no idle device has a queue |
| paging | `main.c` 121-218, 450-455, 480-585, `os.c` 93-106 | page tables, frame table, locks, free counter, queue for frames | fault, load, completion, swap-out | a frame has one owner; the counter counts; locks are released |
| ring queue | `libs/queue.c` | array, start, count | enqueue, dequeue, get, two reverse calls | first in, first out across the wrap |
| pid map | `libs/map.c` | open hash table with chains | insert, get (grow and delete never run) | answers as a map for every hash function |
| text plan | `sim_plan_txt.c` 32-398 | timelines with done marks, simulated processes | callbacks of the main loop | nothing due is passed over; stops when done |
| plan parser | `sim_plan_txt.c` 399-655, 872-1143 | section being read, settings, devices, two timelines, copies | one branch per kind of line; printing the plan | what is read is what was written, whatever the layout |
| program | `main.c` around the loop | how far it has come | constants, plan, settings, start of the OS, loop, disposal | it ends; the OS that runs is the one the plan describes |
| allocation | `safe_alloc.h`, every `*_init` and `*_dispose` | blocks and their parents | allocate, free with the parent named | every block is freed once, with its parent, before its parent |
| printing | `sim_plan_txt.c` 678-861 | none of its own | a row per time unit | the row agrees with the processes and fits its buffers |
| random plan | `sim_plan_rand.c`, `rand*.c` | | | not modelled: dead code behind `if (0)` (`main.c:60`) |
| hashing, console, vendored headers | `hash.c`, `ansi_*.h`, `ut*.h` | none of its own | | not modelled |

The main loop calls the plan through the function pointers of `sim_plan.h` and
owns the OS structures; the queues hold pointers to processes and own none. There
are no threads, no signals, and nothing is persisted.

Hard behaviours, each listed with its line under `hazards` in `PROJECT.json`:
memory running out in the middle of the device loop (`main.c:463`); the swap-out
loop (`main.c:482`); job ends and slice ends tested with `==` (`main.c:116`, `655`);
the hand-kept `free_frame_count` (`os.c:124`); a page fault that leaves the inner
loop (`main.c:640`); promotion of queue heads only (`main.c:84`); the plan's
entries, which are seen only if asked for at their time; a parser that carries the
section, the process and its copies from line to line, and results that are read
without having been written (`sim_plan_txt.c:40`, `99`, `622`).

## Modules

- **`OS`** is the main loop with scheduler, devices and paging, under an arbitrary
  plan: whatever a callback may answer is a choice of `Next`. Each action is one
  pass through a part of the loop body, and `phase` is the part that runs next:
  `begin` (324), `incoming` (331-341), `devices` (352-478), `swapout` (480-585),
  `select` (587-615), `memory` (617-643), `cpu` (645-700). Variables are the C fields
  of the same names; `queues` are sequences, oldest first; a page table maps a page
  to its frame or to `Absent`; `used`, `locked` are the sets of frames whose flags are
  set; `freed` are the processes `free` has been called on.
- **`Lifecycle`** says what the loop promises of each process: the graph new, ready,
  running, waiting, paging, loaded, done, one CPU, loaded before ready.
  `OS!ImplementsLifecycle` maps a process to its state there by the place that
  holds it, and tells a process that is paging from one doing I/O by its pending operation,
  not by the state field by which the code sends it on (`main.c:440`).
- **`Queue`** is the ring buffer with its array, **`Deque`** the bounded queue it
  implements. `OS` uses sequences with `Enqueue` refusing when full; the refinement
  `Queue` => `Deque` is what justifies that.
- **`PidMap`** is the hash table for an arbitrary hash function, **`Mapping`** the map
  it implements. `TxtPlan` uses a function for it on the same ground.
- **`TxtPlan`** is the state of a text plan and its callbacks. **`Simulator`** composes
  it with `OS`: every action of `OS` that asks the plan is conjoined with the
  callback that answers, and the order of the questions in the loop body (memory,
  end, preemption, I/O, run) is in the guards.
- **`Report`** extends `Simulator` with the row printed at the end of a time unit: what
  each column shows, and how far the writing of a queue's text gets in its buffer.
  The two differ: `snprintf` is told the number of digits for the size of its buffer
  (`sim_plan_txt.c:792`, `837`), so it writes a NUL in the place of the last digit, and what
  is printed ends there. A queue of the first ten processes is printed as a blank
  (`QueueText`).
- **`PlanFile`** is the parser. A line is a sequence of tokens (numbers, words, blanks,
  brackets); one action is one line and one branch of the else-if chain in
  `plan_txt_init`. It ends with what the program asks of the plan before the loop:
  the printing of the plan, the settings, the devices.
- **`Heap`** holds the allocated blocks. `Owner` is the address a block is allocated with,
  which may be that of a part of a block (a queue in the array of queues); `Home` is the block
  it points into. A dispose function is a list of calls of `safe_free`, each with a block
  and the parent the code passes. The calls are made one after the other: the first whose
  block is there but has another parent ends the program, and the first whose block has been
  freed, or the block its pointer is read from, leads to `undefined`.
- **`Program`** is `main`: it composes `PlanFile`, `Report` (with `Simulator` and `OS`) and
  `Heap`. The timelines that `PlanFile` has read are the plan that `Simulator` runs;
  processes created and disposed of allocate and free blocks (`FreeAll`). `outcome` says how far the
  program has come: `reading`, `read`, `printed`, `running`, and `disposed`, `exit` or
  `undefined`.
- **`MCOS`**, **`MCSimulator`**, **`MCProgram`** give TLC instances; **`OSClaims`**, **`SimClaims`**,
  **`ProgramClaims`** state what comments and plans say and the code does not do.
- **`OSProofs`**, **`PlaceProofs`**, **`FrameProofs`**, **`LifecycleProofs`**, **`SimulatorProofs`**,
  **`ProgramProofs`**, **`QueueProofs`** and **`PidMapProofs`** hold the theorems; each of the first six uses
  those before it.

Definitions marked "Mutant" are plausible bugs in the definition that follows;
each property is checked to fail when one of them is put in its place.

What the model does with awkward code:

- Dereferencing a freed process (possible only after memory has run out) leads to the
  phase `undefined`, where nothing more is claimed. `Touched` is what the next part of the loop
  body dereferences, the printing of the row included (`sim_plan_txt.c:689-854`). The same holds for the scan of
  `main.c:554`, which reads the array of a ready queue without its start.
- `process_init` fills the working set with -1 and nothing else is ever stored in
  it, so `handle_page_fault` always finds a free entry, the LRU branch (133-197)
  runs only for `max_working_set` 0, where it finds no victim and drops the process.
  No operation but a page load is ever pending (`OSProofs!TypeCorrect`), so the
  completion of a swap-out (387-438) is left out.
- `main.c:372` compares instead of assigning; a page load is over in the pass that
  finishes it (`PageLoadFinished`).
- `map->count` never changes, so `map_grow` is not reached.
- `match_os_entry` leaves `has_str_value` unwritten for a number (line 622): reading a
  number setting may go on as it should or end in `undefined`. Printing a plan, or
  starting the OS, with a setting that was not given reads memory nobody wrote, and so
  does printing a `new` of a process section; both lead to `undefined`, and so does a
  `sim_pid` outside `sim_proc_meta`.
- Numbers of the plan that index an array without a check lead to `undefined` when the
  program starts (`StartOutOfRange`): a return queue (`main.c:448`), the number of the swap
  device or of a device an entry names (320, 669), a page (628), and fewer than the five
  frames `os_init` reserves (`os.c:64-69`).
- `os_dispose` disposes of three devices, whatever the plan connects; both shipped plans
  connect four. The queue of the fourth is never freed (`Heap!Left`). With fewer than three it
  reads pointers that are not set, and `Program!Dispose` leads to `undefined`.
- A plan starts at most `MaxProcesses` processes (`main.c:332`).

## Runs

| run | instance | shows |
|---|---|---|
| `Ample` | 3 processes, 2 pages, 6 frames free, swap device 2 units, I/O device immediate, 2 ready queues, slice 2, time <= 6 | type invariant; `OnePlace`: each live process is in exactly one place and a disposed one in none; `PageReadyIsResident`; refinement of `Lifecycle`; `TimeUnitEnds` |
| `Pressure` | as above, 3 frames free, slice 3, time <= 9 | memory runs out; `DeviceService`, `FramesExclusive`, `FramesAccounted`, `LocksInFlight`, `RunsOnResidentPage`, `SliceNotOverrun` hold all the same; until then `BoundedWait`: in the lowest queue the wait is bounded, by position; and `LivesUndisturbed`: every step is an edge of the life of one process, also the step that runs out of frames |
| `Queue` | 2 items, capacity 3 | the ring implements the bounded queue |
| `PidMap` | 4 keys, 4 slots, all 256 hash functions | the table implements the map, full to the last slot |
| `Simulation` | the whole program, with four devices, on 1162 plan files: 4 programs for two processes, the third one's following from theirs or copied, 3 arrival patterns, 4 extra timeline entries; or with a swap device nobody knows, a setting the program does not know, too few frames, a return queue or a page out of range; each written in two layouts | `ReadTypeOK`, `ReadAsWritten`, `NothingOverlooked`, `RunsItsTime`: a process runs for the time its END gives, unless the timeline ends it before; `UnitAdvances`: every step within a time unit lowers a measure of what is left to do in it; `SameProcesses`, `RowFits`, `RowConsistent`, `StopsWhenDone`, `Ends`; `FreedProperly`: every `safe_free` meets a block that is there, with its parent; `MemoryReturned`: nothing outlives its parent, and what is left at the end is the text of the plan and the queue of the fourth device |

These must find a violation; each is a finding in `PROJECT.json`:

| run | claim | what the code does |
|---|---|---|
| `LostProcess` | a process without a frame waits in the queue for frames (`os.c:117`) | `main.c:466` enqueues the finished process; the other is lost |
| `SwapOutSpins` | the swap-out loop ends | nobody is ever BLOCKED or READY, so it spins; `plans/mem_man_test_plan.txt` runs into this |
| `FramesLeak` | a finished process's resources are disposed of (`main.c:645`) | its frames stay used |
| `ImmediateSwap` | immediate devices work (`main.c:349`) | the fault of the running process leaves the loop; a job started there ends unseen |
| `PlanWhole` | the whole plan is printed (`sim_plan_txt.c:36`) | an entry after a copy header, or one of `[timeline]`, resets `copy_of` (1056, 1000): the copied entries are printed nowhere |
| `UnknownSetting` | what matches no rule is ignored (`sim_plan_txt.c:915`) | an unknown setting with a string value ends the program |
| `UnsetTime` | section times are relative to the process's running time | entries of a process not yet started are compared with an unset `proc_time` |

Read in the code and not given a run of their own: nothing is ever stored in the working set
(`main.c:126`), so `max_working_set`, "maximum number of frames that the OS can give to a single
process" (`plans/mem_man_test_plan.txt:7`), limits nothing; the texts of queues are cut off
(`Report!QueueText`); the break of `main.c:512` is the
opposite of its comment; `main.c:372` means `=`; `wait_frame_queue_capacity` is ignored by
`os_init`; after
memory has run out a page may be mapped to frame -1; a unit in which the running process
faults runs with the CPU free; with `max_working_set` 0 a faulting process is dropped;
with `time_slice` 0 a process is preempted before it runs; a page number is not checked
against the page table (`main.c:628`); `sim_plan_txt.c:124`, meant to check that every
process has an end, follows the return for the only time it asks about; `map_delete`
and `map_grow` lose keys (`map.c:199`, `30`), but nothing calls them.

### Bounds, and why they are enough

Three processes: one at a device, one behind it, one with the CPU, which is what the
out-of-memory path and the promotion bound need. Two ready queues is what the program
is built with (`MAX_PRIORITY_LEVEL`). Page 0 is the entry point; a second page gives
faults of the running process. The swap device takes time and the other is
immediate, the two kinds the plans have; `Simulation` has four devices, as both shipped plans,
so that one is left by `os_dispose`. `TimeBound` is the only constraint: the loop
counter is unbounded, and 6 or 9 units cover several page loads, slices and promotions
of all three processes. `Pressure` has three frames for up to six pages, `Ample` one
for each. Slice 2 lets a process run one unit without being preempted; with slice 3, in `Pressure`,
one process keeps the CPU for as long as the two others wait in the lowest queue, and the
bound of `BoundedWait` is reached: it is by the end of unit 9 that all three have been loaded
and two of them have waited. Deadlock is not checked where the program may stop (`stopped`, `undefined`) or the map is at the
bound of the run.

The plan files of `Simulation` are texts of documents: arrivals, extra entries and a
program for each process, of which any two programs meet. A document is written `Plain`,
section after section, and `Scattered`, with blanks everywhere but
after a time (`5mem 3`), comments, lines that mean nothing where they stand, a process section interrupted by another, and the timeline
last. The third process has its own section, copies that of process 0, or copies it
and goes on. What is read is compared with the document, so a token dropped, an entry
filed under the wrong process or a copy in the wrong place is seen. There is no time
bound: every plan has an end for each process, or one in the timeline that ends it early
or is fatal. That, and the frames there are, is what `Ends` rests on: without an END a process
runs for ever, and with no frame free the swap-out loop does. `exit` and `undefined` count as
ends there; of what leads to `undefined` nothing is claimed.

The row of `Simulation` is that of processes 0 to 2, whose queues print as blanks; that
`RowConsistent` holds with up to ten processes, the limit of `config.h`, is proved.

`Undisturbed` in `OnePlace`, `PageReadyIsResident`, `BoundedWait`, `LivesUndisturbed` and
`UnitAdvances` says that no process
has had to wait for a frame so far: after that the defect of `main.c:466` may break them
(`LostProcess`). In `Ample` it is never false, in `Pressure` the others do without it.

### Fairness

`FairSpec` assumes `WF(Next)`: the program runs. `WF(NoMemoryAccess)` and
`SF(RunOneTimeUnit)`: a plan has finitely many entries for a time and each is handed
out once, so the plan does not answer with an access or an I/O request for ever
within one unit. In `Program` the plan is there and needs no such help: `ProgramFairness`
says that lines are read as long as there are any and that the program then goes on,
which is what a single thread does.

## Proofs

For every value of the constants that satisfies `ConstantsAssumption` (at least one
queue, device and process, five frames, page 0 among the pages):

- `OSProofs!TypeCorrect`: `TypeOK`, inductive as it stands, one lemma per action. It
  carries the facts that make code unreachable: `pending_op` is never a swap operation,
  `proc_state` never READY or BLOCKED.
- `OSProofs!SliceKept`: `SliceNotOverrun`, inductive with `TypeOK`: time advances with
  a running process only when the slice end is not now.
- `OSProofs!RunsOnResident`: `RunsOnResidentPage` from `OnResidentPage`, which adds the
  phases between dispatch and run, and the lemma that a present page stays present.
- `OSProofs!DevicesServe`: `DeviceService`, under `TimedSwapDevice` (a page load takes
  time; `ImmediateSwap` shows it is needed), from `Served`, which distinguishes the
  phases before and after the device loop: after it a job's end is in the future, or
  the device is immediate and the loop is entered again before time moves.
- `PlaceProofs!HeldOnce`: `OnePlace`. The places are containers, each a sequence; the
  invariant `PlaceInv` says that none repeats a process, no two share one, and together
  they hold the live ones. Every handler takes the head of one container to the end
  of another, so that `MoveKeeps` is proved once and each action shown to be one such
  move, or two (a job done and the next one started), or as many as there are queues
  (promotion). That no container is full when a process comes is a pigeonhole argument.
- `FrameProofs!FramesAllAccounted`, `FramesNotShared`, `LocksKept`: the frame table, with or
  without memory left, and `LoadedPageFound`, while it suffices. `FrameInv` ties a frame
  being read to the process at the swap device and to its pending operation, and says that
  whoever has an operation pending has the state by which it is returned. Once a process
  has had to wait for a frame no read is in progress and no frame is free, and this stays so
  (`OutOfMemory`), which is why the first three need no `Undisturbed`.
- `LifecycleProofs!WaitBounded`: `BoundedWait`, with more than one ready queue. The lowest queue
  is ordered by the time its processes became ready, so if anybody is overdue the head
  is, and it leaves. If nobody is, the queue must be shorter than the number of
  processes, which `Elsewhere` gives: when a unit ends some process has the CPU, or is
  at a device, or nobody is ready.
- `LifecycleProofs!LifecycleImplemented`: OS implements `Lifecycle`, under `EnoughMemory` (a
  frame for every page of every process). Then a pigeonhole argument finds a frame for
  every fault, so nobody ever waits for one, and each action is shown to be one edge of
  the life of one process, or none.
  `LivesGoOn`: however few frames there are, that is so of every step until somebody
  has had to wait for one (`LivesUndisturbed`); no `EnoughMemory` is needed, the lemma
  about the steps (`StepOfLife`) is the same.
- `SimulatorProofs!PlanDrivesOS`: the loop driven by a text plan is one of the behaviours of
  `OS`, so the theorems above hold of it. `ProcessesAgree`, `NoneOverlooked`, `StopsClean`:
  `SameProcesses`, `NothingOverlooked`, `StopsWhenDone`, for every plan that
  `PlansAssumption` allows: finitely many entries, at times and of processes counted from
  0 (a `new` in a section is never asked for, and `NothingOverlooked` says nothing of it). The
  strengthening is `Known`, that the OS refers to no process the plan has not created, with
  `Booked`, that pid map and dead flags are right in every phase of a time unit; and
  `Asked`, that when a process is about to run a unit its entries for memory have been
  handed out; the guards of `SimRun` do the same for end and I/O.
- `SimulatorProofs!EndedInTime`: `RunsItsTime`. The strengthening is `EndInv`: an END of a
  section that has been handed out has killed its process, a dead process has an END
  handed out that was due at the time it had run, and none before that; the dead run no
  further. With `NothingOverlooked`
  the END cannot be passed, and nothing else of the section ends the process.
- `SimulatorProofs!UnitsAdvance`: `UnitAdvances`, for every plan and any number of processes,
  queues and devices, while nobody waits for a frame. It is the argument that a time
  unit ends (`TimeUnitEnds`, `main.c:343`) without its fairness: a variant. `LoopWork` counts
  ten for each page still to be loaded and for the preemption, and one for each process at
  a device, page load started, process to create and part of the loop body left; `UnitWork`
  adds ten for each entry of the plan not handed out, because an entry may put a process
  at a device, or send the loop back to its first part. Every step of the unit lowers
  `UnitWork`. It needs finitely many pages and
  a time slice above 0 (`UnitsEnd`): with 0 a process is preempted in the unit it gets the
  CPU, gets it again, and the unit need not end.
- `ProgramProofs!ProgramRunsOS`: reading the plan, starting and disposing change nothing of
  `OS`, so its theorems hold of the whole program, whatever file it reads. `ProgramAgrees`:
  `SameProcesses` of the whole program on the same ground.
- `ProgramProofs!ReadTypeCorrect`: for every file, that is every sequence of sequences of
  tokens, what the parser makes of it is well formed (`ReadTypeOK`), line by line. It needs
  that the matching functions return numbers where the form asks for them, and that the
  recursive copying of a section yields entries again (`CopiesType`).
  So the plan that is started satisfies what `SimulatorProofs` assumes of a plan, and
  `FileNoneOverlooked`, `FileEndedInTime`, `FileUnitsAdvance` and `FileStopsClean` state
  `NothingOverlooked`, `RunsItsTime`, `UnitAdvances` and `StopsWhenDone` for every plan file, with
  no assumption about its contents.
- `ProgramProofs!LayoutIgnored`: however many blanks stand around an entry, and whatever
  comment follows, the same names and numbers are matched. Pieces are found by where they
  begin, so the proof moves the beginnings, counts those below each (`NthShifted`) and shows
  that a piece has one end (`EndOnly`). It is the part of `ReadAsWritten` about the layout of
  entries, for every line; blanks in a header are dropped by `SelectSeq`, a recursive
  definition, which stays with TLC.
- `ProgramProofs!TextsFit`: `RowFits`, for every plan file, if memory suffices and pids have at
  most two digits (`TwoDigits`; the width of the buffer is computed for no more,
  `sim_plan_txt.c:753`). The processes of a queue are mapped one to one to the entries of
  the plan that announced them (`Announced`), which `cnt_chars` counts; a text is a sum over
  a queue's items, bounded by that count. `RowsConsistent`: `RowConsistent`, from
  `OnePlace` and `Taken`, that the processes whose times are shown are those the OS has
  created; it asks for at most ten processes, because from two digits on the text of
  a queue shows a digit that is not a pid. `TextsFitUndisturbed` and `RowsConsistentUndisturbed` say the same without
  enough memory, until somebody has to wait for a frame.
- `ProgramProofs!MemoryGivenBack`: `MemoryReturned`, for every plan file and any number of
  devices. The invariant (`MemoryInv`) says which blocks are there, for how far the program
  has come and for each process not yet freed. `FreedInOrder`: `FreedProperly`. A list of
  calls is `SafeList` if each call names the parent its block was allocated with and no
  block comes twice, or after the block its pointer is read from; appending such lists
  gives one again (`Appended`), which is shown of the disposals from single calls up. At the
  end of main it asks for three devices or more: with fewer the claim would be false, and
  `Dispose` leads to `undefined`.
- `QueueProofs!TypeCorrect`, `QueueProofs!Refinement`: the ring implements `Deque` for every
  capacity and item set. The arithmetic modulo the capacity is confined to `Wrap` and
  `SlotValue`; from there on the proof uses that slots are distinct and consecutive.
- `PidMapProofs!TypeCorrect`: the table's slots and links stay in range.
  `MappingImplemented`: the table implements `Mapping` for every hash function, capacity and
  set of keys; `SearchEnds`: `NeverFull`, the search for a free slot ends
  (`map.c:121`), because every slot in use holds a key of its own and the key to be inserted
  has none. The invariant (`MapInv`) gives each slot in use a rank that rises along the
  links, so that a chain cannot run in circles, and says that the chain of a key's home slot
  leads to it. Induction along a chain is done with sets: a set of naturals with a member
  has a least one (`Least`).

Only model-checked:

- `ReadAsWritten`, which compares with texts made from a document and is about the instance.
- Liveness (`TimeUnitEnds`, `Ends`) and everything that rests on fairness or `ENABLED`. What
  `UnitsAdvance` proves of it is that a unit cannot go on for ever; that it does not stop
  halfway, which is a matter of `ENABLED`, is what `TimeUnitEnds` and `Ends` add.

## Not modelled

- The random plan: `get_simulation_plan` chooses it under `if (0)`, and it does not set all
  the callbacks. `OS` allows any answer a plan could give.
- `map_grow` and `map_delete`: never called. The LRU branch of `handle_page_fault`, the
  completion of a swap-out and swapping a candidate out: never reached.
- The hash function (every function is tried), the layout of what is printed, colours,
  lines longer than the 1000 bytes of `fgets`, numbers too large for `atoi`, and
  allocation that fails.
- The vendored headers. Of them the program uses growing arrays only, which are
  sequences here.

## What is left

1. A plan under memory pressure: the finding of `main.c:466` seen from the plan, whose
   process never comes back, so that `Ends` fails.
2. The parser against a grammar instead of against texts made from documents.
3. What is left of `ReadAsWritten` as a theorem: that the order of the sections makes no
   difference to what is read.

---------------------------------- MODULE Heap ----------------------------------
(***************************************************************************)
(* The memory of the program.  Every block is allocated with the address   *)
(* of its parent, and safe_free is told the address again                  *)
(* (src/src/libs/safe_alloc.h): the blocks form trees, one under the plan  *)
(* and one under the OS.                                                   *)
(*                                                                         *)
(* A block is <<what it holds, number>>, the number being that of a        *)
(* process, a device or a ready queue, else 0.  So is an address: that of  *)
(* a block, or of a part of one.                                           *)
(***************************************************************************)
EXTENDS Integers, Sequences

CONSTANTS
  QueueCount,     \* MAX_PRIORITY_LEVEL
  DeviceCount     \* the devices the plan connects

VARIABLE heap     \* the blocks that are allocated

\* The address a block is allocated with.
Owner(b) ==
  LET name == b[1]
      In(container) == <<container, 0>>
      With(container) == <<container, b[2]>>
  IN  CASE name \in {"plan", "os"} -> In("NULL")
        [] name = "data" -> In("plan")
        [] name \in {"sim_procs", "sim_proc_meta", "swap_device_name", "device_entry"} ->
             In("data")
        [] name = "pid_map_list" -> In("data.pid_map")
        [] name = "name" -> With("device_entry")
        [] name \in {"devices", "scheduler", "frame_table", "require_frame_queue", "process"} ->
             In("os")
        [] name = "os_map_list" -> In("os.pid_map")
        [] name \in {"queues", "page_ready_queue"} -> In("scheduler")
        [] name = "blocked_queue" -> With("device")
        [] name = "queue_items" -> With("queue")
        [] name = "page_ready_queue_items" -> In("page_ready_queue")
        [] name = "require_frame_queue_items" -> In("require_frame_queue")
        [] name = "blocked_queue_items" -> With("blocked_queue")
        [] name \in {"page_table", "working_set"} -> With("process")

\* The block an address points into.
Home(address) ==
  CASE address[1] = "data.pid_map" -> <<"data", 0>>
    [] address[1] = "os.pid_map"   -> <<"os", 0>>
    [] address[1] = "device"       -> <<"devices", 0>>
    [] address[1] = "queue"        -> <<"queues", 0>>
    [] OTHER -> address

Parent(b) == Home(Owner(b))

Single(names)   == names \X {0}
Each(names, ns) == names \X ns

\* What the plan keeps of the text to the end: utarray_free does not know what
\* the elements point to.  Counted are the devices that get connected and the last
\* swap_device; lines beyond those leave their text behind too.
PlanStrings ==
  Each({"device_entry", "name"}, 0 .. DeviceCount - 1) \cup Single({"swap_device_name"})

\* plan_txt_init and map_init
PlanBlocks ==
  Single({"plan", "data", "sim_procs", "sim_proc_meta", "pid_map_list"}) \cup PlanStrings

\* os_init, scheduler_init, device_init, queue_init and map_init
OsBlocks ==
  Single({"os", "devices", "os_map_list", "scheduler", "page_ready_queue",
          "page_ready_queue_items", "queues", "frame_table", "require_frame_queue",
          "require_frame_queue_items"})
    \cup Each({"queue_items"}, 0 .. QueueCount - 1)
    \cup Each({"blocked_queue", "blocked_queue_items"}, 0 .. DeviceCount - 1)

\* A call of safe_free: the block, and the address given as its parent.
Free(name, n, parent) == [block |-> <<name, n>>, parent |-> parent]

\* The block of the i-th call is there, and so is what its pointer is read from.
There(list, i) ==
  /\ list[i].block \in heap
  /\ \A j \in 1 .. i - 1 : list[j].block \notin {list[i].block, Home(list[i].parent)}

Legal(list, i) == There(list, i) /\ list[i].parent = Owner(list[i].block)

Illegal(list)    == {i \in DOMAIN list : ~Legal(list, i)}
Releasable(list) == Illegal(list) = {}

\* The calls up to the first one that is not legal free their blocks.
Release(list, illegal) ==
  heap' = heap \ {list[i].block : i \in {k \in DOMAIN list : \A j \in illegal : k < j}}

\* What becomes of the program: safe_free exits where the parents do not match,
\* and reads or frees what is not there otherwise.
After(list, illegal, then) ==
  CASE illegal = {} -> then
    [] \E i \in illegal : There(list, i) /\ \A j \in illegal : i <= j -> "exit"
    [] OTHER -> "undefined"

\* Mutant: the page-ready queue is forgotten.
SchedulerDisposeReady ==
  [i \in 1 .. QueueCount |-> Free("queue_items", i - 1, <<"queue", i - 1>>)]
    \o <<Free("queues", 0, <<"scheduler", 0>>)>>

\* scheduler_dispose
SchedulerDispose ==
  [i \in 1 .. QueueCount |-> Free("queue_items", i - 1, <<"queue", i - 1>>)]
    \o <<Free("queues", 0, <<"scheduler", 0>>),
         Free("page_ready_queue_items", 0, <<"page_ready_queue", 0>>),
         Free("page_ready_queue", 0, <<"scheduler", 0>>)>>

\* Mutant: the queue goes before its items.
DeviceDisposeQueueFirst(d) ==
  <<Free("blocked_queue", d, <<"device", d>>),
    Free("blocked_queue_items", d, <<"blocked_queue", d>>)>>

DeviceDispose(d) ==
  <<Free("blocked_queue_items", d, <<"blocked_queue", d>>),
    Free("blocked_queue", d, <<"device", d>>)>>

\* os_dispose and the free of `os': three devices, however many there are.
OsDispose ==
  <<Free("require_frame_queue_items", 0, <<"require_frame_queue", 0>>),
    Free("require_frame_queue", 0, <<"os", 0>>), Free("frame_table", 0, <<"os", 0>>)>>
    \o SchedulerDispose
    \o <<Free("scheduler", 0, <<"os", 0>>), Free("os_map_list", 0, <<"os.pid_map", 0>>)>>
    \o DeviceDispose(2) \o DeviceDispose(1) \o DeviceDispose(0)
    \o <<Free("devices", 0, <<"os", 0>>), Free("os", 0, <<"NULL", 0>>)>>

\* plan_txt_dispose and the free of `plan'
PlanDispose ==
  <<Free("pid_map_list", 0, <<"data.pid_map", 0>>), Free("sim_proc_meta", 0, <<"data", 0>>),
    Free("sim_procs", 0, <<"data", 0>>), Free("data", 0, <<"plan", 0>>),
    Free("plan", 0, <<"NULL", 0>>)>>

\* process_init, and the block of the process itself
ProcessBlocks(p) == {"working_set", "page_table", "process"} \X {p}

\* process_dispose, and the free of the process
ProcessDispose(p) ==
  <<Free("working_set", p, <<"process", p>>), Free("page_table", p, <<"process", p>>),
    Free("process", p, <<"os", 0>>)>>

--------------------------------------------------------------------------------
Init          == heap = {}
StartUp       == heap' = PlanBlocks \cup OsBlocks
NewProcess(p) == heap' = heap \cup ProcessBlocks(p)

\* The end of main.
Disposals == OsDispose \o PlanDispose

\* Nothing outlives the block it hangs from.
NoOrphans == \A b \in heap : Parent(b) \in heap \cup {<<"NULL", 0>>}

\* What the program never frees: the plan's text, and the queues of the devices
\* from the fourth on.
Left ==
  PlanStrings \cup Each({"blocked_queue", "blocked_queue_items"}, 3 .. DeviceCount - 1)

================================================================================

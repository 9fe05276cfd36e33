-------------------------------- MODULE PlanFile --------------------------------
(***************************************************************************)
(* Reading a plan file: plan_txt_init of src/src/sim_plan_txt.c, and what   *)
(* is made of the plan read before the simulation starts.  One action is   *)
(* one line of the file and one branch of the else-if chain (921-1128).    *)
(*                                                                         *)
(* A line is a sequence of tokens, each a <<kind, value>>: a number, or a  *)
(* word, a blank, a bracket, a `#'.  No two numbers are side by side.      *)
(* What the code takes for a name is a run of tokens other than blanks,    *)
(* and is kept as that run.                                                *)
(***************************************************************************)
EXTENDS Integers, SequencesExt

CONSTANT MaxProcesses    \* MAX_PROCESSES

VARIABLES
  file,              \* the lines still to be read
  mode,              \* the section the current line belongs to
  current_sim_pid,   \* the process of a [process N] section
  settings,          \* the settings given so far, by name
  devices,           \* the device entries
  global_timeline, proc_timeline,
  copy_of,           \* sim_proc_meta[].copy_of, NoCopy for none
  outcome            \* how far the program has come

Word(w)     == <<"word", w>>
Number(n)   == <<"number", n>>
IsNumber(t) == t[1] = "number"
Blank    == Word(" ")
Comment  == Word("#")
Open     == Word("[")
Close    == Word("]")
NoCopy   == -1
Modes    == {"none", "device", "timeline", "process", "os"}
Outcomes == {"reading", "read", "printed", "running", "disposed", "exit", "undefined"}

\* The files: lines of tokens.
Token == ({"word"} \X STRING) \cup ({"number"} \X Nat)
Files == Seq(Seq(Token))

fileVars == <<file, mode, current_sim_pid, settings, devices, global_timeline,
              proc_timeline, copy_of, outcome>>

--------------------------------------------------------------------------------
(***************************************************************************)
(* Matching a line                                                         *)
(***************************************************************************)

\* Mutant: a comment is not cut off.
WholeLine(s) == SelectSeq(s, LAMBDA t : t # Comment)

\* The line up to its comment.  The blanks around it, which trim removes too,
\* make no difference to the matching below (LayoutIgnored in ProgramProofs).
Trim(s) ==
  LET comments == {i \in DOMAIN s : s[i] = Comment}
  IN  IF comments = {} THEN s ELSE SubSeq(s, 1, Min(comments) - 1)

\* Where a run of tokens other than blanks begins.  A number that is looked for at
\* the beginning of the line ends where its digits do.
Starts(code, first) ==
  {i \in DOMAIN code :
     /\ code[i] # Blank
     /\ \/ i = 1
        \/ code[i - 1] = Blank
        \/ /\ first = "number" /\ IsNumber(code[i - 1])
           /\ \A j \in 1 .. i - 2 : code[j] = Blank}

Nth(starts, k) == CHOOSE i \in starts : Cardinality({j \in starts : j < i}) = k - 1

\* Where the run that begins at i ends.
End(code, starts, i) ==
  CHOOSE e \in i .. Len(code) :
    /\ \A j \in i + 1 .. e : code[j] # Blank /\ j \notin starts
    /\ e = Len(code) \/ code[e + 1] = Blank \/ e + 1 \in starts

RunAt(code, starts, i) == SubSeq(code, i, End(code, starts, i))

Runs(code, first) ==
  [k \in 1 .. Cardinality(Starts(code, first)) |->
     RunAt(code, Starts(code, first), Nth(Starts(code, first), k))]

IsNumeral(run) == Len(run) = 1 /\ IsNumber(run[1])

\* match_entry: the pieces matched, in the order of the form; the last ones may
\* be missing, but nothing of the line may be left.  Empty for fewer than least.
MatchEntry(code, form, least) ==
  {[i \in DOMAIN runs |-> IF form[i] = "number" THEN runs[i][1][2] ELSE runs[i]] :
     runs \in {r \in {Runs(code, form[1])} :
                 /\ Len(r) \in least .. Len(form)
                 /\ \A i \in DOMAIN r : form[i] = "number" => IsNumeral(r[i])}}

DeviceForm   == <<"string", "number", "number">>
TimelineForm == <<"number", "string", "number", "number">>
ProcessForm  == <<"number", "string", "number">>

\* match_os_entry: a name and a number, or a name and a string.
MatchOsEntry(code) ==
  {[name |-> runs[1], value |-> runs[2]] :
     runs \in {r \in {Runs(code, "string")} :
                 Len(r) = 2 /\ (IsNumber(r[2][1]) => IsNumeral(r[2]))}}

(***************************************************************************)
(* match_head: blanks may stand anywhere between the parts and anything    *)
(* after the bracket; a number left out is 0.                              *)
(***************************************************************************)
Drop(s, n) == SubSeq(s, n + 1, Len(s))
Value(n) == IF n = <<>> THEN 0 ELSE n[1][2]

\* A number, or none.
NumberOrNone(code) == {<<>>} \cup {<<t>> : t \in {u \in ToSet(code) : IsNumber(u)}}

HeadOf(name, copy, n) == <<Open, Word(name)>> \o n[1] \o copy \o n[2] \o <<Close>>

\* The numbers that may stand in a header, after its name and after `copy'.
Heads(code, name, copy) ==
  {n \in NumberOrNone(code) \X NumberOrNone(code) :
     IsPrefix(HeadOf(name, copy, n), SelectSeq(code, LAMBDA t : t # Blank))}

MatchHead(code, name)     == {n \in Heads(code, name, <<>>) : n[2] = <<>>}
MatchCopyHead(code, name) == Heads(code, name, <<Word("copy")>>)

--------------------------------------------------------------------------------
(***************************************************************************)
(* Reading the file                                                        *)
(***************************************************************************)
Init(files) ==
  /\ file \in files
  /\ mode = "none"
  /\ current_sim_pid = 0
  /\ settings = [s \in {"time_slice"} |-> 4]
  /\ devices = <<>>
  /\ global_timeline = <<>>
  /\ proc_timeline = <<>>
  /\ copy_of = [s \in 0 .. MaxProcesses - 1 |-> NoCopy]

\* The line fgets reads next.
Line == Trim(Head(file))

NextLine == outcome = "reading" /\ file # <<>> /\ file' = Tail(file)

\* The device of that name, -1 when there is none (yet).
DeviceOf(name) ==
  LET named == {i \in DOMAIN devices : devices[i].name = name}
  IN  IF named = {} THEN -1 ELSE Min(named) - 1

\* What the name in an entry stands for: `mem' has one more number.
Action(name, param) ==
  IF ~param /\ name \in {<<Word("new")>>, <<Word("end")>>} THEN name[1][2]
  ELSE IF param /\ name = <<Word("mem")>> THEN "mem"
  ELSE IF ~param /\ DeviceOf(name) >= 0 THEN "io"
  ELSE "none"

\* Mutant: an entry whose name means nothing is kept.
AnyEntry(time, name, spid, params) ==
  <<[time |-> time, action |-> Action(name, params # <<>>), sim_pid |-> spid, device_id |-> 0,
     param1 |-> IF params = <<>> THEN 0 ELSE params[1], is_copy |-> FALSE]>>

\* The entry of the line, if it means anything.
NewEntry(time, name, spid, params) ==
  LET Entry(action) ==
        [time |-> time, action |-> action, sim_pid |-> spid,
         device_id |-> IF action = "io" THEN DeviceOf(name) ELSE 0,
         param1 |-> IF params = <<>> THEN 0 ELSE params[1], is_copy |-> FALSE]
  IN  IF Action(name, params # <<>>) = "none" THEN <<>>
      ELSE <<Entry(Action(name, params # <<>>))>>

\* What is written to sim_proc_meta for new entries.  It has MAX_PROCESSES
\* elements, and the sim_pid from the file is not checked.
SetCopyOf(new, of) ==
  LET spids == {new[i].sim_pid : i \in DOMAIN new}
  IN  /\ copy_of' = [s \in DOMAIN copy_of |-> IF s \in spids THEN of ELSE copy_of[s]]
      /\ IF spids \subseteq DOMAIN copy_of THEN UNCHANGED outcome ELSE outcome' = "undefined"

DeviceEntry ==
  /\ NextLine /\ mode = "device"
  /\ \E e \in MatchEntry(Line, DeviceForm, 3) :
       devices' = Append(devices, [name |-> e[1], duration |-> e[2], return_queue |-> e[3]])
  /\ UNCHANGED <<mode, current_sim_pid, settings, global_timeline, proc_timeline, copy_of, outcome>>

TimelineEntry ==
  /\ NextLine /\ mode = "timeline"
  /\ \E e \in MatchEntry(Line, TimelineForm, 3) :
       \E new \in {NewEntry(e[1], e[2], e[3], Drop(e, 3))} :
         /\ global_timeline' = global_timeline \o new
         /\ SetCopyOf(new, NoCopy)
  /\ UNCHANGED <<mode, current_sim_pid, settings, devices, proc_timeline>>

ProcessEntry ==
  /\ NextLine /\ mode = "process"
  /\ \E e \in MatchEntry(Line, ProcessForm, 2) :
       \E new \in {NewEntry(e[1], e[2], current_sim_pid, Drop(e, 2))} :
         /\ proc_timeline' = proc_timeline \o new
         /\ SetCopyOf(new, NoCopy)
  /\ UNCHANGED <<mode, current_sim_pid, settings, devices, global_timeline>>

NumberSettings == {"time_slice", "memory_frames", "wait_frame_queue_capacity", "max_working_set"}
Set(name, value) ==
  settings' = [s \in DOMAIN settings \cup {name} |-> IF s = name THEN value ELSE settings[s]]

\* A number.  match_os_entry then reads has_str_value, which it has not written;
\* if it is not zero, neither are the string and its length that are used.
NumberSetting(name, value) ==
  \/ /\ UNCHANGED outcome
     /\ IF \E s \in NumberSettings : name = <<Word(s)>>
        THEN Set(name[1][2], value) ELSE UNCHANGED settings
  \/ outcome' = "undefined" /\ UNCHANGED settings

\* A string.  One that is not kept was allocated for `data' and is freed as
\* nobody's, which safe_free answers with exit.
StringSetting(name, value) ==
  IF name = <<Word("swap_device")>> THEN Set("swap_device", value) /\ UNCHANGED outcome
  ELSE outcome' = "exit" /\ UNCHANGED settings

OsEntry ==
  /\ NextLine /\ mode = "os"
  /\ \E e \in MatchOsEntry(Line) :
       \/ IsNumeral(e.value) /\ NumberSetting(e.name, e.value[1][2])
       \/ ~IsNumeral(e.value) /\ StringSetting(e.name, e.value)
  /\ UNCHANGED <<mode, current_sim_pid, devices, global_timeline, proc_timeline, copy_of>>

\* The line is an entry of the current section, so no header is looked for.
IsEntry ==
  \/ mode = "device"   /\ MatchEntry(Line, DeviceForm, 3) # {}
  \/ mode = "timeline" /\ MatchEntry(Line, TimelineForm, 3) # {}
  \/ mode = "process"  /\ MatchEntry(Line, ProcessForm, 2) # {}
  \/ mode = "os"       /\ MatchOsEntry(Line) # {}

HeadName == [device |-> "devices", timeline |-> "timeline", os |-> "os"]

SectionHead ==
  /\ NextLine /\ ~IsEntry
  /\ \E m \in DOMAIN HeadName : MatchHead(Line, HeadName[m]) # {} /\ mode' = m
  /\ UNCHANGED <<current_sim_pid, settings, devices, global_timeline, proc_timeline, copy_of, outcome>>

ProcessHead ==
  /\ NextLine /\ ~IsEntry
  /\ \E n \in MatchHead(Line, "process") : current_sim_pid' = Value(n[1])
  /\ mode' = "process"
  /\ UNCHANGED <<settings, devices, global_timeline, proc_timeline, copy_of, outcome>>

\* The entries process `of' has so far, as entries of spid: the timeline as it
\* is when the header is met is gone through once.
Copies(of, spid) ==
  LET copied[n \in 0 .. Len(proc_timeline)] ==
        IF n = 0 THEN <<>>
        ELSE IF proc_timeline[n].sim_pid # of THEN copied[n - 1]
        ELSE Append(copied[n - 1],
                    [proc_timeline[n] EXCEPT !.sim_pid = spid, !.is_copy = TRUE])
  IN  copied[Len(proc_timeline)]

ProcessCopyHead ==
  /\ NextLine /\ ~IsEntry
  /\ mode' = "process"
  /\ \E head \in MatchCopyHead(Line, "process") :
       \E new \in {Copies(Value(head[2]), Value(head[1]))} :
         /\ current_sim_pid' = Value(head[1])
         /\ proc_timeline' = proc_timeline \o new
         /\ SetCopyOf(new, Value(head[2]))
  /\ UNCHANGED <<settings, devices, global_timeline>>

\* A line without anything, or one that matches no rule.
IgnoredLine ==
  /\ NextLine
  /\ ~IsEntry
  /\ \A m \in DOMAIN HeadName : MatchHead(Line, HeadName[m]) = {}
  /\ MatchHead(Line, "process") = {} /\ MatchCopyHead(Line, "process") = {}
  /\ UNCHANGED <<mode, current_sim_pid, settings, devices, global_timeline, proc_timeline,
                 copy_of, outcome>>

EndOfFile ==
  /\ outcome = "reading" /\ file = <<>>
  /\ outcome' = "read"
  /\ UNCHANGED <<file, mode, current_sim_pid, settings, devices, global_timeline, proc_timeline,
                 copy_of>>

--------------------------------------------------------------------------------
(***************************************************************************)
(* The plan is printed: set_time(-1).                                      *)
(***************************************************************************)
Section(spid) == SelectSeq(proc_timeline, LAMBDA e : e.sim_pid = spid)

\* The processes whose sections are printed: as many as the timeline starts.
ProcCount == Len(SelectSeq(global_timeline, LAMBDA e : e.action = "new"))
Printed   == {s \in 0 .. ProcCount - 1 : Section(s) # <<>>}

\* The lines printed under the header of a process: what it has copied is left out.
OwnEntries(spid) == SelectSeq(Section(spid), LAMBDA e : ~e.is_copy)

\* The name printed for a `new' of a process is a variable not written.
Unnamed == \E s \in Printed : \E e \in ToSet(OwnEntries(s)) : e.action = "new"

AllSettings == NumberSettings \cup {"swap_device"}

\* Printing uses every setting and so does starting the OS: one that was not
\* given is read from memory nobody wrote.
PrintPlan ==
  /\ outcome = "read"
  /\ outcome' = IF Unnamed \/ DOMAIN settings # AllSettings THEN "undefined" ELSE "printed"
  /\ UNCHANGED <<file, mode, current_sim_pid, settings, devices, global_timeline, proc_timeline,
                 copy_of>>

ReadLine ==
  \/ DeviceEntry \/ TimelineEntry \/ ProcessEntry \/ OsEntry
  \/ SectionHead \/ ProcessHead \/ ProcessCopyHead
  \/ IgnoredLine

(***************************************************************************)
(* What the OS asks the plan for when it starts                            *)
(***************************************************************************)
GetOsSettings == [s \in NumberSettings |-> settings[s]]

\* The device of an index, none if there is none.
CreateDevice(index) == {devices[i] : i \in {index + 1} \cap DOMAIN devices}

GetSwapDevice == DeviceOf(settings["swap_device"])

\* The OS sees [timeline] and [process N] entries through find_entry only; a
\* device or a page is what an entry hands out.
Timeline(list, scope) ==
  [i \in DOMAIN list |->
     [scope |-> scope, time |-> list[i].time, action |-> list[i].action,
      spid |-> list[i].sim_pid,
      arg |-> CASE list[i].action = "io"  -> list[i].device_id
                [] list[i].action = "mem" -> list[i].param1
                [] OTHER -> 0]]
Entries == Timeline(global_timeline, "global") \o Timeline(proc_timeline, "process")

(***************************************************************************)
(* What is read of any file                                                *)
(***************************************************************************)
Actions       == {"new", "end", "mem", "io"}
DeviceEntries == [name : Seq(Token), duration : Nat, return_queue : Nat]
TimelineEntries ==
  {e \in [time : Nat, action : Actions, sim_pid : Nat, device_id : Nat, param1 : Nat,
          is_copy : BOOLEAN] :
     e.action = "io" => e.device_id < Len(devices)}

\* Whatever the file says, the timelines hold entries the callbacks understand,
\* at times and of processes counted from 0, an I/O entry is for a device read
\* before it, and every setting that is a number is one (txt_sim_data,
\* sim_plan_txt.h:39).
TypeOK ==
  /\ file \in Files
  /\ mode \in Modes
  /\ current_sim_pid \in Nat
  /\ DOMAIN settings \subseteq AllSettings
  /\ \A s \in DOMAIN settings \cap NumberSettings : settings[s] \in Nat
  /\ devices \in Seq(DeviceEntries)
  /\ global_timeline \in Seq(TimelineEntries)
  /\ proc_timeline \in Seq(TimelineEntries)
  /\ copy_of \in [0 .. MaxProcesses - 1 -> Nat \cup {NoCopy}]
  /\ outcome \in Outcomes

================================================================================

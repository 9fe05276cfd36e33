------------------------------- MODULE MCProgram -------------------------------
(***************************************************************************)
(* Instance of Program for TLC: plans are written out as text, in two      *)
(* layouts, and read, run and disposed of.                                 *)
(***************************************************************************)
EXTENDS Program, MCSimulator, SequencesExt

W(w)          == F!Word(w)
N(n)          == F!Number(n)
DeviceName(d) == F!Word(<<"disk", "tape", "print", "net">>[d + 1])

NoPlans == {<<>>}       \* the timelines are read, not given

(***************************************************************************)
(* A document: the processes of the timeline, its extra entries, what each *)
(* process does, whether the last one copies process 0, and more lines in  *)
(* [os] and [devices].  Any two programs meet in some document.            *)
(***************************************************************************)
Document(t, e, a, b, c, o, d) ==
  [times |-> t, extra |-> e, programs |-> <<a, b, IF a + b > 4 THEN a + b - 4 ELSE a + b>>,
   copy |-> c, os |-> o, devices |-> d]
Simple(e, o, d) == Document(<<0, 0, 0>>, e, 1, 1, "no", o, d)

\* Plans with a setting nobody knows, and with numbers that lead out of an array:
\* frames, a return queue, a page.
OddDocuments ==
  {Simple(<<>>, <<<<W("swap_device"), W("lp")>>>>, <<>>),
   Simple(<<>>, <<<<W("colour"), W("blue")>>>>, <<>>),
   Simple(<<>>, <<<<W("memory_frames"), N(3)>>>>, <<>>),
   Simple(<<>>, <<>>, <<<<W("scanner"), N(1), N(9)>>>>),
   Simple(<<Entry("global", 1, "mem", 0, 9)>>, <<>>, <<>>)}

Documents ==
  {Document(t, e, a, b, c, <<>>, <<>>) :
     t \in Arrivals, e \in Extras, a \in 1 .. 4, b \in 1 .. 4, c \in {"no", "yes", "and more"}}
    \cup OddDocuments

More == <<Entry("process", 0, "mem", 2, 1)>>

\* The entries the document means, those of the timeline and those of process s.
GlobalMeant(doc)     == New(doc.times) \o doc.extra
ProcessMeant(doc, s) ==
  IF s < 2 \/ doc.copy = "no" THEN Program(doc.programs[s + 1], s)
  ELSE Program(doc.programs[1], 2) \o IF doc.copy = "yes" THEN <<>> ELSE More

(***************************************************************************)
(* Its text.  A line is given by its words; a number in front of them needs *)
(* no blank after it.                                                      *)
(***************************************************************************)
Spaced(words)  == FlattenSeq([i \in DOMAIN words |-> <<words[i], F!Blank>>])
Loose(words)   ==
  FlattenSeq([i \in DOMAIN words |->
                IF i = 2 /\ F!IsNumber(words[1]) THEN <<words[i]>>
                ELSE <<F!Blank, F!Blank, words[i]>>])
    \o <<F!Blank, W("#"), N(0), F!Blank, W("end"), F!Blank, N(1)>>

EntryWord(e) == IF e.action = "io" THEN DeviceName(e.arg) ELSE W(e.action)
Params(e) == (IF e.scope = "global" THEN <<N(e.spid)>> ELSE <<>>)
               \o (IF e.action = "mem" THEN <<N(e.arg)>> ELSE <<>>)
EntryWords(e)      == <<N(e.time), EntryWord(e)>> \o Params(e)
EntryLines(list)   == [i \in DOMAIN list |-> EntryWords(list[i])]

OsLines(doc) ==
  <<<<W("time_slice"), N(TimeSlice)>>, <<W("max_working_set"), N(MaxWorkingSet)>>,
    <<W("memory_frames"), N(FrameCount)>>, <<W("swap_device"), DeviceName(SwapDevice)>>,
    <<W("wait_frame_queue_capacity"), N(1)>>>> \o doc.os
DeviceLines(doc) ==
  [i \in 1 .. DeviceCount |-> <<DeviceName(i - 1), N(JobDuration[i - 1]), N(RetQueue[i - 1])>>]
    \o doc.devices

Header(s, copy) ==
  <<W("["), W("process"), N(s)>> \o (IF copy THEN <<W("copy"), N(0)>> ELSE <<>>) \o <<W("]")>>

\* Lines that mean nothing where they stand.
NoiseBefore   == <<<<N(7), W("end"), N(1)>>>>
NoiseOs       == <<<<W("colour"), N(3)>>>>
NoiseDevices  == <<<<W("lp"), N(1)>>>>
NoiseTimeline == <<<<N(3), W("new")>>, <<N(3), W("lp"), N(0)>>>>
NoiseProcess  == <<<<N(0), W("mem")>>, <<N(0), W("print"), N(1)>>, <<W("["), W("comment"), W("]")>>>>

\* The sections one after the other, headers without blanks.
Plain(doc) ==
  LET Lines(header, lines) ==
        <<header>> \o [i \in DOMAIN lines |-> Spaced(lines[i])]
      Copied == doc.copy # "no"
      Own(s) == IF s < 2 \/ ~Copied THEN ProcessMeant(doc, s)
                ELSE IF doc.copy = "yes" THEN <<>> ELSE More
  IN  Lines(<<W("["), W("os"), W("]")>>, OsLines(doc)) \o Lines(<<W("["), W("devices"), W("]")>>, DeviceLines(doc))
        \o Lines(<<W("["), W("timeline"), W("]")>>, EntryLines(GlobalMeant(doc)))
        \o Lines(Header(0, FALSE), EntryLines(Own(0)))
        \o Lines(Header(1, FALSE), EntryLines(Own(1)))
        \o Lines(Header(2, Copied), EntryLines(Own(2)))

\* With blanks, comments and noise; the section of process 0 is interrupted by
\* that of process 1, and the timeline comes last.
Scattered(doc) ==
  LET Lines(header, lines, noise) ==
        [i \in 1 .. Len(noise) + Len(lines) + 1 |->
           Loose(IF i = 1 THEN header ELSE (noise \o lines)[i - 1])] \o <<<<F!Blank>>>>
      Copied == doc.copy # "no"
      zero   == EntryLines(ProcessMeant(doc, 0))
      last   == IF ~Copied THEN ProcessMeant(doc, 2)
                ELSE IF doc.copy = "yes" THEN <<>> ELSE More
  IN  [i \in DOMAIN NoiseBefore |-> Loose(NoiseBefore[i])]
        \o Lines(<<W("["), W("os"), W("]")>>, OsLines(doc), NoiseOs)
        \o Lines(<<W("["), W("devices"), W("]")>>, DeviceLines(doc), NoiseDevices)
        \o Lines(Header(0, FALSE), SubSeq(zero, 1, 1), NoiseProcess)
        \o Lines(Header(1, FALSE), EntryLines(ProcessMeant(doc, 1)), <<>>)
        \o Lines(Header(0, FALSE), Tail(zero), <<>>)
        \o Lines(Header(2, Copied), EntryLines(last), NoiseProcess)
        \o Lines(<<W("["), W("timeline"), W("]")>>, EntryLines(GlobalMeant(doc)), NoiseTimeline)

VARIABLE document      \* the document the file was written from

MCInit ==
  /\ document \in Documents
  /\ ProgramInit({Plain(document), Scattered(document)})

MCSpec ==
  /\ MCInit
  /\ [][ProgramNext /\ UNCHANGED document]_<<programVars, document>>
  /\ ProgramFairness

\* What is read is what was meant, whatever the layout: the timeline in its
\* order, and the entries of every process in theirs, those of a copy in front
\* (plan_txt_init, sim_plan_txt.c:921).
ReadAsWritten ==
  outcome = "read" =>
    /\ F!Timeline(global_timeline, "global") = GlobalMeant(document)
    /\ \A s \in 0 .. 2 : F!Timeline(F!Section(s), "process") = ProcessMeant(document, s)

================================================================================

---------------------------- MODULE ConverterGUI ----------------------------
(***************************************************************************)
(* The conversion control of Movie2DNGGUIView.java: the handlers of Select *)
(* Source, Convert and Stop, which run one at a time on the event dispatch *)
(* thread, the reader thread each Convert starts, and the movie2dng        *)
(* processes with the pipes of their standard output.  The threads share   *)
(* the fields of the view without any synchronisation.                     *)
(*                                                                         *)
(* Conversion number n, the n-th click on Convert, has the process n and   *)
(* the reader thread n.  Line k of process p's output is <<p, k>>: 0 is    *)
(* the number of frames, k in 1..Frames the report of the k-th frame,      *)
(* Frames + 1 the empty line of the end, and Text any other output.        *)
(***************************************************************************)
EXTENDS Integers, Sequences

CONSTANTS
  MaxConversions,  \* bound on the clicks on Convert
  Frames,          \* number of frames a conversion reports
  LinesPerTurn,    \* lines a reader takes before it sleeps (11 in the code)
  PipeCapacity,    \* lines that fit in the pipe of a process
  Outputs          \* what a process may write

OutputKinds == {"frames", "failed", "text", "nothing"}

ASSUME GUIAssumption == /\ MaxConversions \in Nat
                        /\ Frames \in Nat
                        /\ LinesPerTurn \in Nat \ {0}
                        /\ PipeCapacity \in Nat \ {0}
                        /\ Outputs \subseteq OutputKinds

Conversions == 1..MaxConversions
Null == 0
EndLine == Frames + 1
Text == -1
Lines == Conversions \X (0..EndLine \cup {Text})
NoLine == <<Null, Text>>

VARIABLES
  (* the view *)
  ConvertEnabled, StopEnabled,  \* the two buttons
  StopLabel,                    \* the text of StopButton
  Converting,
  ConvertProcess,               \* number of the process, or Null
  ReadConvertProgress,          \* number of the reader thread, or Null
  converter_firstline, conversion_complete,
  ClipFrameCountTotal, ClipFrameCountConverted,  \* the lines they came from
  (* the event dispatch thread *)
  edt,        \* where it is in the handler of Convert, "idle" outside
  clicks,     \* number of clicks on Convert so far
  (* the processes *)
  child,      \* child[p] \in ChildStates
  output,     \* output[p]: what process p writes
  sent,       \* sent[p]: number of lines it has written
  pipe,       \* pipe[p]: the lines written and not yet read
  (* the readers *)
  reader,     \* reader[r]: where thread r is
  stream,     \* stream[r]: the process whose output its BufferedReader reads
  buffer,     \* buffer[r]: the lines the BufferedReader has read ahead
  line,       \* line[r]: the line readLine() returned
  taken,      \* taken[r]: the variable j of run()
  (* history *)
  mixed,      \* the last conversion can see the output of another one
  lost,       \* processes with a BufferedReader dropped with lines in it
  reselected  \* a source was selected while a process was running

viewVars == <<ConvertEnabled, StopEnabled, StopLabel, Converting>>
sharedVars == <<ConvertProcess, ReadConvertProgress, converter_firstline,
                conversion_complete, ClipFrameCountTotal,
                ClipFrameCountConverted>>
childVars == <<child, output, sent, pipe>>
readerVars == <<reader, stream, buffer, line, taken>>
vars == <<viewVars, sharedVars, edt, clicks, childVars, readerVars, mixed,
          lost, reselected>>

ChildStates == {"none", "running", "exited", "destroyed"}
\* The reader's turn: test the loop condition, make a BufferedReader, read a
\* line, look at converter_firstline, use the line, sleep and look at
\* conversion_complete.  "dead": an exception left run().
ReaderStates == {"none", "test", "open", "read", "got", "first", "later",
                 "sleep", "ended", "dead"}
Gone == {"none", "ended", "dead"}

\* movie2dng --gui ends after the announcement, one line per frame and an
\* empty line, with an error after the announcement, after its help text, or
\* with an error before any output.
Script(p) == CASE output[p] = "frames"  ->
                      [k \in 1..(Frames + 2) |-> <<p, k - 1>>]
               [] output[p] = "failed"  -> <<<<p, 0>>>>
               [] output[p] = "text"    -> <<<<p, Text>>>>
               [] output[p] = "nothing" -> <<>>

Init ==
  /\ ConvertEnabled = FALSE /\ StopEnabled = FALSE /\ StopLabel = "Stop"
  /\ Converting = FALSE
  /\ ConvertProcess = Null /\ ReadConvertProgress = Null
  /\ converter_firstline = TRUE /\ conversion_complete = FALSE
  /\ ClipFrameCountTotal = NoLine /\ ClipFrameCountConverted = NoLine
  /\ edt = "idle" /\ clicks = 0
  /\ child = [p \in Conversions |-> "none"]
  /\ output = [p \in Conversions |-> "nothing"]
  /\ sent = [p \in Conversions |-> 0]
  /\ pipe = [p \in Conversions |-> <<>>]
  /\ reader = [r \in Conversions |-> "none"]
  /\ stream = [r \in Conversions |-> Null]
  /\ buffer = [r \in Conversions |-> <<>>]
  /\ line = [r \in Conversions |-> NoLine]
  /\ taken = [r \in Conversions |-> 0]
  /\ mixed = FALSE /\ lost = {} /\ reselected = FALSE

-----------------------------------------------------------------------------
(* The event dispatch thread. *)

SelectSource ==
  /\ edt = "idle"
  /\ ConvertEnabled' = TRUE
  /\ reselected' = (reselected \/ \E p \in Conversions : child[p] = "running")
  /\ UNCHANGED <<StopEnabled, StopLabel, Converting, sharedVars, edt, clicks,
                 childVars, readerVars, mixed, lost>>

\* Output of earlier conversions that a reader may still come across.
Busy(r) == reader[r] \in {"got", "first", "later"} \/ buffer[r] # <<>>
InFlight == \/ \E p \in Conversions : child[p] = "running" \/ pipe[p] # <<>>
            \/ \E r \in Conversions : reader[r] \notin Gone /\ Busy(r)

\* Mutant: the Convert button stays enabled.
ConvertKeepsButton ==
  /\ edt = "idle"
  /\ ConvertEnabled
  /\ clicks < MaxConversions
  /\ clicks' = clicks + 1
  /\ UNCHANGED ConvertEnabled
  /\ StopEnabled' = TRUE
  /\ Converting' = TRUE
  /\ converter_firstline' = TRUE
  /\ mixed' = InFlight
  /\ edt' = "reset"
  /\ UNCHANGED <<StopLabel, ConvertProcess, ReadConvertProgress,
                 conversion_complete, ClipFrameCountTotal,
                 ClipFrameCountConverted, childVars, readerVars, lost,
                 reselected>>

\* Mutant: the next line is not taken for the announcement.
ConvertKeepsFirstLine ==
  /\ edt = "idle"
  /\ ConvertEnabled
  /\ clicks < MaxConversions
  /\ clicks' = clicks + 1
  /\ ConvertEnabled' = FALSE
  /\ StopEnabled' = TRUE
  /\ Converting' = TRUE
  /\ UNCHANGED converter_firstline
  /\ mixed' = InFlight
  /\ edt' = "reset"
  /\ UNCHANGED <<StopLabel, ConvertProcess, ReadConvertProgress,
                 conversion_complete, ClipFrameCountTotal,
                 ClipFrameCountConverted, childVars, readerVars, lost,
                 reselected>>

\* ConvertButtonActionPerformed, in the steps other threads can observe.
Convert ==
  /\ edt = "idle"
  /\ ConvertEnabled
  /\ clicks < MaxConversions
  /\ clicks' = clicks + 1
  /\ ConvertEnabled' = FALSE
  /\ StopEnabled' = TRUE
  /\ Converting' = TRUE
  /\ converter_firstline' = TRUE
  /\ mixed' = InFlight
  /\ edt' = "reset"
  /\ UNCHANGED <<StopLabel, ConvertProcess, ReadConvertProgress,
                 conversion_complete, ClipFrameCountTotal,
                 ClipFrameCountConverted, childVars, readerVars, lost,
                 reselected>>

\* The number of frames is not a number: parseInt throws before anything but
\* the buttons and Converting has changed, and the handler ends.
ConvertBadLimit ==
  /\ edt = "idle"
  /\ ConvertEnabled
  /\ ConvertEnabled' = FALSE
  /\ StopEnabled' = TRUE
  /\ Converting' = TRUE
  /\ UNCHANGED <<StopLabel, sharedVars, edt, clicks, childVars, readerVars,
                 mixed, lost, reselected>>

\* Mutant: conversion_complete is not reset.
ResetNothing ==
  /\ edt = "reset"
  /\ UNCHANGED conversion_complete
  /\ edt' = "forget"
  /\ UNCHANGED <<viewVars, ConvertProcess, ReadConvertProgress,
                 converter_firstline, ClipFrameCountTotal,
                 ClipFrameCountConverted, clicks, childVars, readerVars, mixed,
                 lost, reselected>>

ResetComplete ==
  /\ edt = "reset"
  /\ conversion_complete' = FALSE
  /\ edt' = "forget"
  /\ UNCHANGED <<viewVars, ConvertProcess, ReadConvertProgress,
                 converter_firstline, ClipFrameCountTotal,
                 ClipFrameCountConverted, clicks, childVars, readerVars, mixed,
                 lost, reselected>>

ForgetProcess ==
  /\ edt = "forget"
  /\ ConvertProcess' = Null
  /\ edt' = "exec"
  /\ UNCHANGED <<viewVars, ReadConvertProgress, converter_firstline,
                 conversion_complete, ClipFrameCountTotal,
                 ClipFrameCountConverted, clicks, childVars, readerVars, mixed,
                 lost, reselected>>

\* Without movie2dng exec throws an IOException, and the handler goes on; an
\* empty command is an IllegalArgumentException, which ends the handler.
Exec ==
  /\ edt = "exec"
  /\ \/ /\ ConvertProcess' = clicks
        /\ child' = [child EXCEPT ![clicks] = "running"]
        /\ \E o \in Outputs : output' = [output EXCEPT ![clicks] = o]
        /\ edt' = "start"
     \/ /\ UNCHANGED <<ConvertProcess, child, output>>
        /\ edt' \in {"start", "idle"}
  /\ UNCHANGED <<viewVars, ReadConvertProgress, converter_firstline,
                 conversion_complete, ClipFrameCountTotal,
                 ClipFrameCountConverted, clicks, sent, pipe, readerVars,
                 mixed, lost, reselected>>

StartReader ==
  /\ edt = "start"
  /\ ReadConvertProgress' = clicks
  /\ reader' = [reader EXCEPT ![clicks] = "test"]
  /\ edt' = "idle"
  /\ UNCHANGED <<viewVars, ConvertProcess, converter_firstline,
                 conversion_complete, ClipFrameCountTotal,
                 ClipFrameCountConverted, clicks, childVars, stream, buffer,
                 line, taken, mixed, lost, reselected>>

\* Without a process, destroy() is a NullPointerException: nothing changes.
\* It kills the process if that still runs and closes its streams in any case,
\* which may or may not discard what is left in the pipe.
Stop ==
  /\ edt = "idle"
  /\ StopEnabled
  /\ Converting
  /\ ConvertProcess # Null
  /\ child' = [child EXCEPT ![ConvertProcess] = "destroyed"]
  /\ UNCHANGED pipe \/ pipe' = [pipe EXCEPT ![ConvertProcess] = <<>>]
  /\ ConvertEnabled' = TRUE
  /\ StopEnabled' = FALSE
  /\ Converting' = FALSE
  /\ UNCHANGED <<StopLabel, sharedVars, edt, clicks, output, sent, readerVars,
                 mixed, lost, reselected>>

-----------------------------------------------------------------------------
(* The processes. *)

Write(p) ==
  /\ child[p] = "running"
  /\ sent[p] < Len(Script(p))
  /\ Len(pipe[p]) < PipeCapacity
  /\ pipe' = [pipe EXCEPT ![p] = Append(@, Script(p)[sent[p] + 1])]
  /\ sent' = [sent EXCEPT ![p] = @ + 1]
  /\ UNCHANGED <<viewVars, sharedVars, edt, clicks, child, output, readerVars,
                 mixed, lost, reselected>>

Exit(p) ==
  /\ child[p] = "running"
  /\ sent[p] = Len(Script(p))
  /\ child' = [child EXCEPT ![p] = "exited"]
  /\ UNCHANGED <<viewVars, sharedVars, edt, clicks, output, sent, pipe,
                 readerVars, mixed, lost, reselected>>

-----------------------------------------------------------------------------
(* The readers: run(). *)

GotoR(r, state) == reader' = [reader EXCEPT ![r] = state]

\* Mutant: while (true).
TestNothing(r) ==
  /\ reader[r] = "test"
  /\ GotoR(r, "open")
  /\ UNCHANGED <<viewVars, sharedVars, edt, clicks, childVars, stream, buffer,
                 line, taken, mixed, lost, reselected>>

Test(r) ==
  /\ reader[r] = "test"
  /\ GotoR(r, IF ReadConvertProgress = r THEN "open" ELSE "ended")
  /\ UNCHANGED <<viewVars, sharedVars, edt, clicks, childVars, stream, buffer,
                 line, taken, mixed, lost, reselected>>

Open(r) ==
  /\ reader[r] = "open"
  /\ IF ConvertProcess = Null
     THEN GotoR(r, "dead") /\ UNCHANGED <<stream, mixed>>
     ELSE /\ GotoR(r, "read")
          /\ stream' = [stream EXCEPT ![r] = ConvertProcess]
          /\ mixed' = (mixed \/ ConvertProcess # r)
  /\ UNCHANGED <<viewVars, sharedVars, edt, clicks, childVars, buffer, line,
                 taken, lost, reselected>>

\* The end of the outer loop's body, or of run(): j and the BufferedReader go,
\* with the lines it has read ahead.
EndTurn(r, state) ==
  /\ GotoR(r, state)
  /\ stream' = [stream EXCEPT ![r] = Null]
  /\ buffer' = [buffer EXCEPT ![r] = <<>>]
  /\ taken' = [taken EXCEPT ![r] = 0]
  /\ lost' = IF buffer[r] = <<>> THEN lost ELSE lost \cup {stream[r]}

\* readLine(): a line read ahead, or all that the pipe holds, or null at the
\* end, or an IOException on a stream that destroy() has closed; both of the
\* latter end the turn.  With an open and empty pipe the thread is blocked.
ReadLine(r) ==
  /\ reader[r] = "read"
  /\ LET s == stream[r] IN
       \/ /\ buffer[r] # <<>>
          /\ line' = [line EXCEPT ![r] = Head(buffer[r])]
          /\ buffer' = [buffer EXCEPT ![r] = Tail(@)]
          /\ GotoR(r, "got")
          /\ UNCHANGED <<pipe, stream, taken, lost>>
       \/ /\ buffer[r] = <<>>
          /\ pipe[s] # <<>>
          /\ line' = [line EXCEPT ![r] = Head(pipe[s])]
          /\ buffer' = [buffer EXCEPT ![r] = Tail(pipe[s])]
          /\ pipe' = [pipe EXCEPT ![s] = <<>>]
          /\ GotoR(r, "got")
          /\ UNCHANGED <<stream, taken, lost>>
       \/ /\ buffer[r] = <<>>
          /\ child[s] # "running"
          /\ pipe[s] = <<>> \/ child[s] = "destroyed"
          /\ EndTurn(r, "sleep")
          /\ UNCHANGED <<line, pipe>>
  /\ UNCHANGED <<viewVars, sharedVars, edt, clicks, child, output, sent,
                 mixed, reselected>>

CheckFirstLine(r) ==
  /\ reader[r] = "got"
  /\ GotoR(r, IF converter_firstline THEN "first" ELSE "later")
  /\ UNCHANGED <<viewVars, sharedVars, edt, clicks, childVars, stream, buffer,
                 line, taken, mixed, lost, reselected>>

\* Integer.parseInt succeeds.
IsNumber(l) == l[2] \in 0..Frames

\* Mutant: one line too many, j > 11.
NextLineTooMany(r, ok) ==
  /\ line' = [line EXCEPT ![r] = NoLine]
  /\ IF ok /\ taken[r] < LinesPerTurn
     THEN /\ GotoR(r, "read")
          /\ taken' = [taken EXCEPT ![r] = @ + 1]
          /\ UNCHANGED <<stream, buffer, lost>>
     ELSE EndTurn(r, IF ok THEN "sleep" ELSE "dead")

\* The next line, or the end of the turn; parseInt throws on any other text
\* and the exception, which nobody catches, ends the thread.
NextLine(r, ok) ==
  /\ line' = [line EXCEPT ![r] = NoLine]
  /\ IF ok /\ taken[r] + 1 < LinesPerTurn
     THEN /\ GotoR(r, "read")
          /\ taken' = [taken EXCEPT ![r] = @ + 1]
          /\ UNCHANGED <<stream, buffer, lost>>
     ELSE EndTurn(r, IF ok THEN "sleep" ELSE "dead")

FirstLine(r) ==
  /\ reader[r] = "first"
  /\ IF IsNumber(line[r])
     THEN ClipFrameCountTotal' = line[r] /\ converter_firstline' = FALSE
     ELSE UNCHANGED <<ClipFrameCountTotal, converter_firstline>>
  /\ NextLine(r, IsNumber(line[r]))
  /\ UNCHANGED <<viewVars, ConvertProcess, ReadConvertProgress,
                 conversion_complete, ClipFrameCountConverted, edt, clicks,
                 childVars, mixed, reselected>>

\* Mutant: the empty line is skipped.
LaterLineSkipsEnd(r) ==
  /\ reader[r] = "later"
  /\ UNCHANGED conversion_complete
  /\ IF IsNumber(line[r])
     THEN ClipFrameCountConverted' = line[r]
     ELSE UNCHANGED ClipFrameCountConverted
  /\ NextLine(r, line[r][2] # Text)
  /\ UNCHANGED <<viewVars, ConvertProcess, ReadConvertProgress,
                 converter_firstline, ClipFrameCountTotal, edt, clicks,
                 childVars, mixed, reselected>>

LaterLine(r) ==
  /\ reader[r] = "later"
  /\ IF line[r][2] = EndLine
     THEN conversion_complete' = TRUE ELSE UNCHANGED conversion_complete
  /\ IF IsNumber(line[r])
     THEN ClipFrameCountConverted' = line[r]
     ELSE UNCHANGED ClipFrameCountConverted
  /\ NextLine(r, line[r][2] # Text)
  /\ UNCHANGED <<viewVars, ConvertProcess, ReadConvertProgress,
                 converter_firstline, ClipFrameCountTotal, edt, clicks,
                 childVars, mixed, reselected>>

Sleep(r) ==
  /\ reader[r] = "sleep"
  /\ StopLabel' = IF conversion_complete THEN "Convert" ELSE StopLabel
  /\ GotoR(r, "test")
  /\ UNCHANGED <<ConvertEnabled, StopEnabled, Converting, sharedVars, edt,
                 clicks, childVars, stream, buffer, line, taken,
                 mixed, lost, reselected>>

-----------------------------------------------------------------------------
RestOfConvert == ResetComplete \/ ForgetProcess \/ Exec \/ StartReader

User == SelectSource \/ Convert \/ ConvertBadLimit \/ Stop
Process(p) == Write(p) \/ Exit(p)
Run(r) == \/ Test(r) \/ Open(r) \/ ReadLine(r) \/ CheckFirstLine(r)
          \/ FirstLine(r) \/ LaterLine(r) \/ Sleep(r)

Next == \/ User
        \/ RestOfConvert
        \/ \E n \in Conversions : Process(n) \/ Run(n)

\* Threads and processes keep running; the user need not do anything.
Fairness == /\ WF_vars(RestOfConvert)
            /\ \A n \in Conversions : WF_vars(Process(n)) /\ WF_vars(Run(n))

Spec == Init /\ [][Next]_vars
FairSpec == Spec /\ Fairness

-----------------------------------------------------------------------------
(* Properties. *)

TypeOK ==
  /\ {ConvertEnabled, StopEnabled, Converting, converter_firstline,
      conversion_complete, mixed, reselected} \subseteq BOOLEAN
  /\ lost \subseteq Conversions
  /\ StopLabel \in {"Stop", "Convert"}
  /\ ConvertProcess \in Conversions \cup {Null}
  /\ ReadConvertProgress \in Conversions \cup {Null}
  /\ ClipFrameCountTotal \in Lines \cup {NoLine}
  /\ ClipFrameCountConverted \in Lines \cup {NoLine}
  /\ edt \in {"idle", "reset", "forget", "exec", "start"}
  /\ clicks \in 0..MaxConversions
  /\ child \in [Conversions -> ChildStates]
  /\ output \in [Conversions -> Outputs \cup {"nothing"}]
  /\ sent \in [Conversions -> 0..(Frames + 2)]
  /\ pipe \in [Conversions -> Seq(Lines)]
  /\ \A p \in Conversions : Len(pipe[p]) <= PipeCapacity
  /\ reader \in [Conversions -> ReaderStates]
  /\ stream \in [Conversions -> Conversions \cup {Null}]
  /\ buffer \in [Conversions -> Seq(Lines)]
  /\ line \in [Conversions -> Lines \cup {NoLine}]
  /\ taken \in [Conversions -> 0..(LinesPerTurn - 1)]

\* Two conversions never write to the disk at the same time, and Stop reaches
\* the one that runs, unless a source was selected while movie2dng was running:
\* that enables Convert at any time.
OneConversion ==
  ~reselected =>
    \A p \in Conversions : child[p] = "running" => p = ConvertProcess

\* Between conversions that do not overlap, the shared fields describe the
\* current one: the total comes from its announcement, and it is complete only
\* when its process has written everything.
ProgressIsCurrent ==
  ~mixed /\ edt = "idle" /\ ConvertProcess # Null =>
    /\ ~converter_firstline => ClipFrameCountTotal = <<ConvertProcess, 0>>
    /\ conversion_complete => sent[ConvertProcess] = Frames + 2

\* The progress shown never goes back within a conversion, nor to an earlier
\* conversion, as long as no conversion can see the output of another.
ProgressGoesOn ==
  [][ ~mixed' /\ ClipFrameCountConverted' # ClipFrameCountConverted =>
        LET old == ClipFrameCountConverted
            new == ClipFrameCountConverted'
        IN /\ new[1] = ConvertProcess
           /\ new[2] > 0
           /\ old[1] = new[1] => old[2] < new[2] ]_vars

\* A conversion whose process is not stopped ends and is noticed to be
\* complete, except when a BufferedReader with lines of it was thrown away at
\* the end of a turn, or conversions overlapped.
ConversionNoticed ==
  \A p \in Conversions :
    (child[p] = "running" /\ output[p] = "frames") ~>
      (conversion_complete \/ child[p] = "destroyed" \/ p \in lost \/ mixed)

\* The reader thread of an earlier conversion ends, whatever stream it reads.
OldReadersEnd ==
  \A r \in Conversions :
    (reader[r] \notin Gone /\ ReadConvertProgress # r) ~> (reader[r] \in Gone)
=============================================================================

------------------------- MODULE ConverterGUI_proofs -------------------------
(***************************************************************************)
(* The theorems about the window: the types, one conversion at a time, and *)
(* what of a conversion's lines reaches its progress bar, for any number of*)
(* conversions, frames and lines.                                          *)
(***************************************************************************)
EXTENDS ConverterGUI, TLAPS

NoneRunning == \A p \in Conversions : child[p] # "running"

\* What the argument needs of the types.
ChildType ==
  /\ clicks \in Nat
  /\ clicks <= MaxConversions
  /\ child \in [Conversions -> ChildStates]

\* During the handler of Convert the button is as Convert left it.
Handling == edt # "idle" => clicks >= 1 /\ ~ConvertEnabled

\* Convert finds no process running, because what enables it either stopped
\* the process or found none running, or else set reselected; and from there to
\* Exec none is started.
Exclusive ==
  ~reselected =>
    /\ ConvertEnabled \/ edt \in {"reset", "forget", "exec"} => NoneRunning
    /\ \A p \in Conversions : child[p] = "running" => p = ConvertProcess

ExclusionInv == ChildType /\ Handling /\ Exclusive

\* The steps of the readers and of Write do not touch what the invariant is
\* about.
exclusionVars == <<ConvertEnabled, ConvertProcess, edt, clicks, child,
                   reselected>>

LEMMA ReadersOutside ==
  ASSUME NEW n \in Conversions, Run(n) \/ Write(n)
  PROVE  UNCHANGED exclusionVars
  <1> USE DEF exclusionVars, viewVars, sharedVars, childVars
  <1>1. CASE Write(n) BY <1>1 DEF Write
  <1>2. CASE Test(n) BY <1>2 DEF Test
  <1>3. CASE Open(n) BY <1>3 DEF Open
  <1>4. CASE ReadLine(n) BY <1>4 DEF ReadLine
  <1>5. CASE CheckFirstLine(n) BY <1>5 DEF CheckFirstLine
  <1>6. CASE FirstLine(n) BY <1>6 DEF FirstLine
  <1>7. CASE LaterLine(n) BY <1>7 DEF LaterLine
  <1>8. CASE Sleep(n) BY <1>8 DEF Sleep
  <1> QED BY <1>1, <1>2, <1>3, <1>4, <1>5, <1>6, <1>7, <1>8 DEF Run

LEMMA ExclusionInit == Init => ExclusionInv
  BY GUIAssumption
  DEF Init, ExclusionInv, ChildType, ChildStates, Handling, Exclusive,
      NoneRunning

LEMMA ExclusionStep == ExclusionInv /\ [Next]_vars => ExclusionInv'
  <1> SUFFICES ASSUME ExclusionInv, [Next]_vars
               PROVE  ExclusionInv'
    OBVIOUS
  <1> USE GUIAssumption
          DEF ExclusionInv, ChildType, ChildStates, Handling, Exclusive,
              NoneRunning, viewVars, sharedVars, childVars
  <1>1. CASE SelectSource BY <1>1 DEF SelectSource
  <1>2. CASE Convert BY <1>2 DEF Convert
  <1>3. CASE ResetComplete BY <1>3 DEF ResetComplete
  <1>4. CASE ForgetProcess BY <1>4 DEF ForgetProcess
  <1>5. CASE Exec
    <2>1. clicks \in Conversions /\ (~reselected => NoneRunning)
      BY <1>5 DEF Exec, Conversions
    <2>2. CASE UNCHANGED <<ConvertProcess, child>>
      BY <1>5, <2>2 DEF Exec
    <2>3. CASE /\ ConvertProcess' = clicks
               /\ child' = [child EXCEPT ![clicks] = "running"]
      BY <1>5, <2>1, <2>3 DEF Exec
    <2> QED BY <1>5, <2>2, <2>3 DEF Exec
  <1>6. CASE StartReader BY <1>6 DEF StartReader
  <1>7. CASE Stop
    <2>1. child' = [child EXCEPT ![ConvertProcess] = "destroyed"]
      BY <1>7 DEF Stop
    <2>2. ~reselected => NoneRunning'
      BY <1>7, <2>1 DEF Stop
    <2> QED BY <1>7, <2>1, <2>2 DEF Stop
  <1>8. ASSUME NEW n \in Conversions, Exit(n)
        PROVE  ExclusionInv'
    BY <1>8 DEF Exit
  <1>9. ASSUME NEW n \in Conversions, Run(n) \/ Write(n)
        PROVE  ExclusionInv'
    BY <1>9, ReadersOutside DEF exclusionVars
  <1>10. CASE ConvertBadLimit BY <1>10 DEF ConvertBadLimit
  <1>11. CASE UNCHANGED vars BY <1>11 DEF vars
  <1> QED
    BY <1>1, <1>2, <1>3, <1>4, <1>5, <1>6, <1>7, <1>8, <1>9, <1>10, <1>11
    DEF Next, User, RestOfConvert, Process

\* Unless a source is selected during a conversion, at most one movie2dng runs
\* and it is the one that Stop destroys, whatever the reader threads do.
THEOREM OneAtATime == Spec => []OneConversion
  <1>1. ExclusionInv => OneConversion
    BY DEF ExclusionInv, Exclusive, OneConversion
  <1> QED BY <1>1, ExclusionInit, ExclusionStep, PTL DEF Spec

-----------------------------------------------------------------------------
(* Types. *)

Using == {"got", "first", "later"}
Reading == Using \cup {"read"}

\* A reader in its turn has a stream; between its turns it has no lines.
Attached ==
  \A r \in Conversions :
    /\ reader[r] \in Reading => stream[r] \in Conversions
    /\ reader[r] \notin Reading => stream[r] = Null /\ buffer[r] = <<>>

\* A reader is started at the end of its handler of Convert.
NoReaderYet ==
  \A r \in Conversions :
    r > clicks \/ (r = clicks /\ edt # "idle") => reader[r] = "none"

GUITypes == /\ TypeOK /\ Attached /\ NoReaderYet
            /\ edt # "idle" => clicks \in Conversions

\* A process numbers its lines in the order it writes them, after at most one
\* line of other text.
LEMMA ScriptLines ==
  ASSUME TypeOK, NEW p \in Conversions
  PROVE  /\ Script(p) \in Seq(Lines)
         /\ Len(Script(p)) \in 0..(Frames + 2)
         /\ \A k \in 1..Len(Script(p)) :
              Script(p)[k] = <<p, k - 1>> \/ (k = 1 /\ Script(p)[k] = <<p, Text>>)
  <1>1. output[p] \in OutputKinds
    BY GUIAssumption DEF TypeOK, OutputKinds
  <1>2. \A k \in 0..EndLine : <<p, k>> \in Lines
    BY DEF Lines
  <1>3. <<p, Text>> \in Lines
    BY DEF Lines
  <1>4. CASE output[p] = "frames"
    <2>1. Script(p) = [k \in 1..(Frames + 2) |-> <<p, k - 1>>]
      BY <1>4 DEF Script
    <2>2. Script(p) \in [1..(Frames + 2) -> Lines]
      BY <2>1, <1>2, GUIAssumption DEF EndLine
    <2>3. Script(p) \in Seq(Lines)
      BY <2>2, GUIAssumption, Frames + 2 \in Nat
    <2>4. Len(Script(p)) = Frames + 2
      BY <2>2, GUIAssumption
    <2> QED BY <2>1, <2>3, <2>4, GUIAssumption
  <1>5. CASE output[p] = "failed"
    <2>1. Script(p) = <<<<p, 0>>>>
      BY <1>5 DEF Script
    <2>2. <<p, 0>> \in Lines
      BY <1>2, GUIAssumption DEF EndLine
    <2> QED BY <2>1, <2>2, GUIAssumption
  <1>6. CASE output[p] = "text"
    <2>1. Script(p) = <<<<p, Text>>>>
      BY <1>6 DEF Script
    <2> QED BY <2>1, <1>3, GUIAssumption
  <1>7. CASE output[p] = "nothing"
    <2>1. Script(p) = <<>>
      BY <1>7 DEF Script
    <2> QED BY <2>1, GUIAssumption
  <1> QED BY <1>1, <1>4, <1>5, <1>6, <1>7 DEF OutputKinds

LEMMA GUITypesInit == Init => GUITypes
  <1> SUFFICES ASSUME Init PROVE GUITypes
    OBVIOUS
  <1>1. /\ <<>> \in Seq(Lines) /\ Len(<<>>) <= PipeCapacity
        /\ 0 \in 0..(LinesPerTurn - 1) /\ 0 \in 0..(Frames + 2)
        /\ 0 \in 0..MaxConversions
    BY GUIAssumption
  <1>2. /\ child \in [Conversions -> ChildStates]
        /\ output \in [Conversions -> Outputs \cup {"nothing"}]
        /\ sent \in [Conversions -> 0..(Frames + 2)]
        /\ pipe \in [Conversions -> Seq(Lines)]
        /\ \A p \in Conversions : Len(pipe[p]) <= PipeCapacity
    BY <1>1 DEF Init, ChildStates
  <1>3. /\ reader \in [Conversions -> ReaderStates]
        /\ stream \in [Conversions -> Conversions \cup {Null}]
        /\ buffer \in [Conversions -> Seq(Lines)]
        /\ line \in [Conversions -> Lines \cup {NoLine}]
        /\ taken \in [Conversions -> 0..(LinesPerTurn - 1)]
    BY <1>1 DEF Init, ReaderStates
  <1>4. Attached /\ NoReaderYet
    BY DEF Init, Attached, NoReaderYet, Reading, Using
  <1> QED BY <1>1, <1>2, <1>3, <1>4 DEF Init, GUITypes, TypeOK

\* Thread r runs its own turn: it touches no other thread, and of the rest only
\* the pipe it reads and the fields of the progress.
LEMMA RunIsLocal ==
  ASSUME TypeOK, NEW r \in Conversions, Run(r)
  PROVE  /\ reader[r] \notin Gone
         /\ UNCHANGED <<edt, clicks, child, output, sent, ConvertProcess,
                        ReadConvertProgress>>
         /\ \A q \in Conversions : q # r =>
              /\ reader'[q] = reader[q] /\ stream'[q] = stream[q]
              /\ buffer'[q] = buffer[q] /\ line'[q] = line[q]
              /\ taken'[q] = taken[q]
  <1> USE DEF TypeOK, viewVars, sharedVars, childVars, readerVars, Gone, GotoR
  <1>1. CASE Test(r) BY <1>1 DEF Test
  <1>2. CASE Open(r) BY <1>2 DEF Open
  <1>3. CASE ReadLine(r) BY <1>3 DEF ReadLine, EndTurn
  <1>4. CASE CheckFirstLine(r) BY <1>4 DEF CheckFirstLine
  <1>5. CASE FirstLine(r) BY <1>5 DEF FirstLine, NextLine, EndTurn
  <1>6. CASE LaterLine(r) BY <1>6 DEF LaterLine, NextLine, EndTurn
  <1>7. CASE Sleep(r) BY <1>7 DEF Sleep
  <1> QED BY <1>1, <1>2, <1>3, <1>4, <1>5, <1>6, <1>7 DEF Run

LEMMA NoReaderRun ==
  ASSUME GUITypes, NEW r \in Conversions, Run(r)
  PROVE  NoReaderYet'
  BY RunIsLocal DEF GUITypes, NoReaderYet, Gone

\* The end of a turn, in the types.
LEMMA EndTurnTypes ==
  ASSUME GUITypes, NEW r \in Conversions, reader[r] \in Reading,
         NEW state \in {"sleep", "dead"}, EndTurn(r, state)
  PROVE  /\ reader' \in [Conversions -> ReaderStates]
         /\ stream' \in [Conversions -> Conversions \cup {Null}]
         /\ buffer' \in [Conversions -> Seq(Lines)]
         /\ taken' \in [Conversions -> 0..(LinesPerTurn - 1)]
         /\ lost' \subseteq Conversions
         /\ Attached'
  <1>1. stream[r] \in Conversions
    BY DEF GUITypes, Attached
  <1>2. <<>> \in Seq(Lines) /\ 0 \in 0..(LinesPerTurn - 1)
    BY GUIAssumption
  <1>3. state \in ReaderStates /\ state \notin Reading
    BY DEF ReaderStates, Reading, Using
  <1>4. /\ reader' \in [Conversions -> ReaderStates]
        /\ stream' \in [Conversions -> Conversions \cup {Null}]
        /\ buffer' \in [Conversions -> Seq(Lines)]
        /\ taken' \in [Conversions -> 0..(LinesPerTurn - 1)]
        /\ lost' \subseteq Conversions
    BY <1>1, <1>2, <1>3 DEF GUITypes, TypeOK, EndTurn, GotoR
  <1>5. Attached'
    BY <1>3 DEF GUITypes, TypeOK, EndTurn, GotoR, Attached
  <1> QED BY <1>4, <1>5

\* A line has been used: the reader goes on in its turn, or ends it.
LEMMA NextLineTypes ==
  ASSUME GUITypes, NEW r \in Conversions, reader[r] \in Reading,
         NEW ok \in BOOLEAN, NextLine(r, ok)
  PROVE  /\ reader' \in [Conversions -> ReaderStates]
         /\ stream' \in [Conversions -> Conversions \cup {Null}]
         /\ buffer' \in [Conversions -> Seq(Lines)]
         /\ line' \in [Conversions -> Lines \cup {NoLine}]
         /\ taken' \in [Conversions -> 0..(LinesPerTurn - 1)]
         /\ lost' \subseteq Conversions
         /\ Attached'
  <1>1. line' \in [Conversions -> Lines \cup {NoLine}]
    BY DEF NextLine, GUITypes, TypeOK
  <1>2. CASE ok /\ taken[r] + 1 < LinesPerTurn
    <2>1. /\ reader' = [reader EXCEPT ![r] = "read"]
          /\ taken' = [taken EXCEPT ![r] = @ + 1]
          /\ UNCHANGED <<stream, buffer, lost>>
      BY <1>2 DEF NextLine, GotoR
    <2>2. taken[r] + 1 \in 0..(LinesPerTurn - 1)
      <3>1. taken[r] \in 0..(LinesPerTurn - 1)
        BY DEF GUITypes, TypeOK
      <3> QED BY <1>2, <3>1, GUIAssumption
    <2>3. /\ reader' \in [Conversions -> ReaderStates]
          /\ taken' \in [Conversions -> 0..(LinesPerTurn - 1)]
      BY <2>1, <2>2 DEF GUITypes, TypeOK, ReaderStates
    <2> QED
      BY <1>1, <2>1, <2>3 DEF GUITypes, TypeOK, Attached, Reading, Using
  <1>3. CASE ~(ok /\ taken[r] + 1 < LinesPerTurn)
    <2>1. EndTurn(r, "sleep") \/ EndTurn(r, "dead")
      BY <1>3 DEF NextLine
    <2> QED BY <1>1, <2>1, EndTurnTypes
  <1> QED BY <1>2, <1>3

\* readLine() returns a line of the pipe or the buffer, or ends the turn.
LEMMA ReadLineTypes ==
  ASSUME GUITypes, NEW r \in Conversions, ReadLine(r)
  PROVE  GUITypes'
  <1>n. NoReaderYet'
    BY RunIsLocal, NoReaderRun DEF Run
  <1> DEFINE s == stream[r]
  <1>1. reader[r] = "read" /\ reader[r] \in Reading /\ s \in Conversions
    BY DEF ReadLine, GUITypes, Attached, Reading
  <1>2. /\ buffer[r] \in Seq(Lines) /\ pipe[s] \in Seq(Lines)
        /\ <<>> \in Seq(Lines)
    BY <1>1 DEF GUITypes, TypeOK
  <1>3. /\ \A q \in Seq(Lines) : q # <<>> => Head(q) \in Lines
                                              /\ Tail(q) \in Seq(Lines)
        /\ Len(<<>>) <= PipeCapacity
    BY GUIAssumption
  <1>4. CASE /\ buffer[r] # <<>>
             /\ line' = [line EXCEPT ![r] = Head(buffer[r])]
             /\ buffer' = [buffer EXCEPT ![r] = Tail(@)]
             /\ GotoR(r, "got")
             /\ UNCHANGED <<pipe, stream, taken, lost>>
    <2>1. /\ line' \in [Conversions -> Lines \cup {NoLine}]
          /\ buffer' \in [Conversions -> Seq(Lines)]
          /\ reader' \in [Conversions -> ReaderStates]
          /\ \A q \in Conversions : q # r => /\ reader'[q] = reader[q]
                                             /\ buffer'[q] = buffer[q]
          /\ reader'[r] = "got"
      BY <1>2, <1>3, <1>4 DEF GUITypes, TypeOK, GotoR, ReaderStates
    <2>2. Attached'
      BY <1>1, <1>4, <2>1 DEF GUITypes, Attached, Reading, Using
    <2> QED
      BY <1>4, <2>1, <2>2, <1>n DEF ReadLine, GUITypes, TypeOK, viewVars, sharedVars
  <1>5. CASE /\ pipe[s] # <<>>
             /\ line' = [line EXCEPT ![r] = Head(pipe[s])]
             /\ buffer' = [buffer EXCEPT ![r] = Tail(pipe[s])]
             /\ pipe' = [pipe EXCEPT ![s] = <<>>]
             /\ GotoR(r, "got")
             /\ UNCHANGED <<stream, taken, lost>>
    <2>1. /\ line' \in [Conversions -> Lines \cup {NoLine}]
          /\ buffer' \in [Conversions -> Seq(Lines)]
          /\ reader' \in [Conversions -> ReaderStates]
          /\ \A q \in Conversions : q # r => /\ reader'[q] = reader[q]
                                             /\ buffer'[q] = buffer[q]
          /\ reader'[r] = "got"
      BY <1>2, <1>3, <1>5 DEF GUITypes, TypeOK, GotoR, ReaderStates
    <2>2. Attached'
      BY <1>1, <1>5, <2>1 DEF GUITypes, Attached, Reading, Using
    <2>3. /\ pipe' \in [Conversions -> Seq(Lines)]
          /\ \A p \in Conversions : Len(pipe'[p]) <= PipeCapacity
      BY <1>1, <1>2, <1>3, <1>5 DEF GUITypes, TypeOK
    <2> QED
      BY <1>5, <2>1, <2>2, <2>3, <1>n
      DEF ReadLine, GUITypes, TypeOK, viewVars, sharedVars
  <1>6. CASE EndTurn(r, "sleep") /\ UNCHANGED <<line, pipe>>
    BY <1>1, <1>6, <1>n, EndTurnTypes
    DEF ReadLine, GUITypes, TypeOK, viewVars, sharedVars
  <1> QED BY <1>4, <1>5, <1>6 DEF ReadLine

LEMMA GUITypesStep == GUITypes /\ [Next]_vars => GUITypes'
  <1> SUFFICES ASSUME GUITypes, [Next]_vars PROVE GUITypes'
    OBVIOUS
  <1>n. ASSUME NEW r \in Conversions, Run(r) PROVE NoReaderYet'
    BY <1>n, NoReaderRun
  <1> USE DEF viewVars, sharedVars, childVars, readerVars
  <1>1. CASE SelectSource
    BY <1>1 DEF SelectSource, GUITypes, TypeOK, Attached, NoReaderYet
  <1>2. CASE Convert
    <2>1. clicks' \in Conversions /\ clicks' \in 0..MaxConversions
      BY <1>2, GUIAssumption DEF Convert, GUITypes, TypeOK, Conversions
    <2>2. mixed' \in BOOLEAN
      BY <1>2 DEF Convert, InFlight
    <2>3. NoReaderYet'
      <3>1. clicks' = clicks + 1 /\ reader' = reader /\ clicks \in Nat
        BY <1>2, GUIAssumption DEF Convert, GUITypes, TypeOK
      <3>2. \A r \in Conversions : r >= clicks + 1 => r > clicks
        BY <3>1 DEF Conversions
      <3> QED BY <3>1, <3>2 DEF GUITypes, NoReaderYet, Conversions
    <2> QED
      BY <1>2, <2>1, <2>2, <2>3 DEF Convert, GUITypes, TypeOK, Attached
  <1>3. CASE ConvertBadLimit
    BY <1>3 DEF ConvertBadLimit, GUITypes, TypeOK, Attached, NoReaderYet
  <1>4. CASE Stop
    <2>1. ConvertProcess \in Conversions
      BY <1>4 DEF Stop, GUITypes, TypeOK
    <2>2. child' \in [Conversions -> ChildStates]
      BY <1>4, <2>1 DEF Stop, GUITypes, TypeOK, ChildStates
    <2>3. /\ pipe' \in [Conversions -> Seq(Lines)]
          /\ \A p \in Conversions : Len(pipe'[p]) <= PipeCapacity
      <3>1. CASE UNCHANGED pipe
        BY <3>1 DEF GUITypes, TypeOK
      <3>2. CASE pipe' = [pipe EXCEPT ![ConvertProcess] = <<>>]
        <4>1. <<>> \in Seq(Lines) /\ Len(<<>>) <= PipeCapacity
          BY GUIAssumption
        <4> QED BY <2>1, <3>2, <4>1 DEF GUITypes, TypeOK
      <3> QED BY <1>4, <3>1, <3>2 DEF Stop
    <2> QED
      BY <1>4, <2>2, <2>3 DEF Stop, GUITypes, TypeOK, Attached, NoReaderYet
  <1>5. CASE ResetComplete
    BY <1>5 DEF ResetComplete, GUITypes, TypeOK, Attached, NoReaderYet
  <1>6. CASE ForgetProcess
    BY <1>6 DEF ForgetProcess, GUITypes, TypeOK, Attached, NoReaderYet
  <1>7. CASE Exec
    <2>1. clicks \in Conversions
      BY <1>7 DEF Exec, GUITypes
    <2>2. /\ child' \in [Conversions -> ChildStates]
          /\ output' \in [Conversions -> Outputs \cup {"nothing"}]
          /\ ConvertProcess' \in Conversions \cup {Null}
      <3>1. CASE UNCHANGED <<ConvertProcess, child, output>>
        BY <3>1 DEF GUITypes, TypeOK
      <3>2. ASSUME NEW o \in Outputs, ConvertProcess' = clicks,
                   child' = [child EXCEPT ![clicks] = "running"],
                   output' = [output EXCEPT ![clicks] = o]
            PROVE  /\ child' \in [Conversions -> ChildStates]
                   /\ output' \in [Conversions -> Outputs \cup {"nothing"}]
                   /\ ConvertProcess' \in Conversions \cup {Null}
        BY <2>1, <3>2 DEF GUITypes, TypeOK, ChildStates
      <3> QED BY <1>7, <3>1, <3>2 DEF Exec
    <2> QED
      BY <1>7, <2>1, <2>2 DEF Exec, GUITypes, TypeOK, Attached, NoReaderYet
  <1>8. CASE StartReader
    <2>1. clicks \in Conversions
      BY <1>8 DEF StartReader, GUITypes
    <2>2. reader' \in [Conversions -> ReaderStates]
      BY <1>8, <2>1 DEF StartReader, GUITypes, TypeOK, ReaderStates
    <2>3. reader[clicks] = "none"
      BY <1>8, <2>1 DEF StartReader, GUITypes, NoReaderYet
    <2>4. Attached' /\ NoReaderYet'
      BY <1>8, <2>1, <2>3
      DEF StartReader, GUITypes, TypeOK, Attached, NoReaderYet, Reading, Using
    <2> QED BY <1>8, <2>1, <2>2, <2>4 DEF StartReader, GUITypes, TypeOK
  <1>9. ASSUME NEW p \in Conversions, Write(p)
        PROVE  GUITypes'
    <2>1. Script(p)[sent[p] + 1] \in Lines /\ sent[p] + 1 \in 0..(Frames + 2)
      <3>1. /\ Script(p) \in Seq(Lines)
            /\ Len(Script(p)) \in 0..(Frames + 2)
        BY ScriptLines DEF GUITypes
      <3>2. sent[p] \in Nat /\ sent[p] < Len(Script(p))
        BY <1>9 DEF Write, GUITypes, TypeOK
      <3>3. sent[p] + 1 \in 1..Len(Script(p))
        BY <3>1, <3>2, GUIAssumption
      <3>4. sent[p] + 1 \in 0..(Frames + 2)
        BY <3>1, <3>2, GUIAssumption
      <3> QED BY <3>1, <3>3, <3>4
    <2>2. pipe[p] \in Seq(Lines) /\ Len(pipe[p]) < PipeCapacity
      BY <1>9 DEF Write, GUITypes, TypeOK
    <2>3. /\ Append(pipe[p], Script(p)[sent[p] + 1]) \in Seq(Lines)
          /\ Len(Append(pipe[p], Script(p)[sent[p] + 1])) <= PipeCapacity
      BY <2>1, <2>2, GUIAssumption
    <2>4. /\ pipe' \in [Conversions -> Seq(Lines)]
          /\ \A q \in Conversions : Len(pipe'[q]) <= PipeCapacity
          /\ sent' \in [Conversions -> 0..(Frames + 2)]
      BY <1>9, <2>1, <2>3 DEF Write, GUITypes, TypeOK
    <2> QED
      BY <1>9, <2>4 DEF Write, GUITypes, TypeOK, Attached, NoReaderYet
  <1>10. ASSUME NEW p \in Conversions, Exit(p)
         PROVE  GUITypes'
    BY <1>10
    DEF Exit, GUITypes, TypeOK, Attached, NoReaderYet, ChildStates
  <1>11. ASSUME NEW r \in Conversions, Test(r)
         PROVE  GUITypes'
    BY <1>11, <1>n
    DEF Run, Test, GotoR, GUITypes, TypeOK, Attached, ReaderStates, Reading, Using
  <1>12. ASSUME NEW r \in Conversions, Open(r)
         PROVE  GUITypes'
    <2>1. CASE ConvertProcess = Null
      <3>1. /\ reader' = [reader EXCEPT ![r] = "dead"] /\ reader[r] = "open"
            /\ UNCHANGED <<viewVars, sharedVars, edt, clicks, childVars, stream,
                           buffer, line, taken, mixed, lost, reselected>>
        BY <1>12, <2>1 DEF Open, GotoR
      <3>2. reader' \in [Conversions -> ReaderStates] /\ Attached'
        BY <3>1 DEF GUITypes, TypeOK, Attached, ReaderStates, Reading, Using
      <3>3. NoReaderYet'
        BY <1>12, <1>n DEF Run
      <3> QED BY <3>1, <3>2, <3>3 DEF GUITypes, TypeOK
    <2>2. CASE ConvertProcess # Null
      <3>1. /\ reader' = [reader EXCEPT ![r] = "read"]
            /\ stream' = [stream EXCEPT ![r] = ConvertProcess]
            /\ mixed' = (mixed \/ ConvertProcess # r)
            /\ ConvertProcess \in Conversions
            /\ UNCHANGED <<viewVars, sharedVars, edt, clicks, childVars, buffer,
                           line, taken, lost, reselected>>
        BY <1>12, <2>2 DEF Open, GotoR, GUITypes, TypeOK
      <3>2. /\ reader' \in [Conversions -> ReaderStates]
            /\ stream' \in [Conversions -> Conversions \cup {Null}]
        BY <3>1 DEF GUITypes, TypeOK, ReaderStates
      <3>3. Attached'
        BY <3>1 DEF GUITypes, TypeOK, Attached, Reading, Using
      <3>4. NoReaderYet'
        BY <1>12, <1>n DEF Run
      <3> QED BY <3>1, <3>2, <3>3, <3>4 DEF GUITypes, TypeOK
    <2> QED BY <2>1, <2>2
  <1>13. ASSUME NEW r \in Conversions, ReadLine(r)
         PROVE  GUITypes'
    BY <1>13, ReadLineTypes
  <1>14. ASSUME NEW r \in Conversions, CheckFirstLine(r)
         PROVE  GUITypes'
    BY <1>14, <1>n
    DEF Run, CheckFirstLine, GotoR, GUITypes, TypeOK, Attached, ReaderStates,
        Reading, Using
  <1>15. ASSUME NEW r \in Conversions, FirstLine(r)
         PROVE  GUITypes'
    <2>1. NextLine(r, IsNumber(line[r])) /\ reader[r] \in Reading
      BY <1>15 DEF FirstLine, Reading, Using
    <2>2. IsNumber(line[r]) \in BOOLEAN
      BY DEF IsNumber
    <2>3. /\ ClipFrameCountTotal' \in Lines \cup {NoLine}
          /\ converter_firstline' \in BOOLEAN
      BY <1>15 DEF FirstLine, GUITypes, TypeOK
    <2> QED
      BY <1>15, <2>1, <2>2, <2>3, <1>n, NextLineTypes
      DEF Run, FirstLine, GUITypes, TypeOK
  <1>16. ASSUME NEW r \in Conversions, LaterLine(r)
         PROVE  GUITypes'
    <2>1. NextLine(r, line[r][2] # Text) /\ reader[r] \in Reading
      BY <1>16 DEF LaterLine, Reading, Using
    <2>2. /\ ClipFrameCountConverted' \in Lines \cup {NoLine}
          /\ conversion_complete' \in BOOLEAN
      BY <1>16 DEF LaterLine, GUITypes, TypeOK
    <2> QED
      BY <1>16, <2>1, <2>2, <1>n, NextLineTypes
      DEF Run, LaterLine, GUITypes, TypeOK
  <1>17. ASSUME NEW r \in Conversions, Sleep(r)
         PROVE  GUITypes'
    BY <1>17, <1>n
    DEF Run, Sleep, GotoR, GUITypes, TypeOK, Attached, ReaderStates, Reading, Using
  <1>18. CASE UNCHANGED vars
    BY <1>18 DEF vars, GUITypes, TypeOK, Attached, NoReaderYet
  <1> QED
    BY <1>1, <1>2, <1>3, <1>4, <1>5, <1>6, <1>7, <1>8, <1>9, <1>10, <1>11,
       <1>12, <1>13, <1>14, <1>15, <1>16, <1>17, <1>18
    DEF Next, User, RestOfConvert, Process, Run

\* Whatever the threads do to the unsynchronised fields, each keeps its type;
\* no pipe takes more lines than fit in it, and no reader more than a turn's.
THEOREM GUITypeCorrect == Spec => []TypeOK
  <1>1. GUITypes => TypeOK
    BY DEF GUITypes
  <1> QED BY <1>1, GUITypesInit, GUITypesStep, PTL DEF Spec

-----------------------------------------------------------------------------
(* The flow of the lines. *)

\* Past Exec the view knows the process it has just started, or none.
Started == {"idle", "start"}
CurrentProcess ==
  /\ ConvertProcess <= clicks
  /\ edt = "exec" => ConvertProcess = Null
  /\ edt \in Started => ConvertProcess \in {Null, clicks}

NotStarted ==
  \A p \in Conversions :
    p > clicks \/ (p = clicks /\ edt \notin Started) =>
      child[p] = "none" /\ sent[p] = 0 /\ pipe[p] = <<>>

\* The pipe holds the last lines its process has written, in their order.
PipeInOrder ==
  \A p \in Conversions :
    /\ Len(pipe[p]) <= sent[p]
    /\ sent[p] # 0 => sent[p] <= Len(Script(p))
    /\ \A i \in 1..Len(pipe[p]) :
         pipe[p][i] = Script(p)[sent[p] - Len(pipe[p]) + i]

\* No line comes from a conversion that has not begun.
OfPast(l) == l[1] <= clicks
LinesOfPast ==
  /\ OfPast(ClipFrameCountConverted)
  /\ \A r \in Conversions :
       /\ stream[r] <= clicks
       /\ OfPast(line[r])
       /\ \A i \in 1..Len(buffer[r]) : OfPast(buffer[r][i])

FlowInv == CurrentProcess /\ NotStarted /\ PipeInOrder /\ LinesOfPast

LEMMA SameScript ==
  ASSUME NEW p \in Conversions, output'[p] = output[p]
  PROVE  Script(p)' = Script(p)
  BY DEF Script

\* What is in a pipe was written by its process, which has been started.
LEMMA PipeLines ==
  ASSUME GUITypes, FlowInv, NEW p \in Conversions,
         NEW i \in 1..Len(pipe[p])
  PROVE  /\ p <= clicks
         /\ sent[p] - Len(pipe[p]) + i \in 1..Len(Script(p))
         /\ pipe[p][i] = Script(p)[sent[p] - Len(pipe[p]) + i]
         /\ OfPast(pipe[p][i])
  <1>1. /\ pipe[p] \in Seq(Lines) /\ sent[p] \in Nat
        /\ clicks \in Nat /\ p \in Nat
    BY GUIAssumption DEF GUITypes, TypeOK, Conversions
  <1>2. p <= clicks
    BY <1>1 DEF FlowInv, NotStarted
  <1>3. /\ Len(pipe[p]) <= sent[p] /\ sent[p] <= Len(Script(p))
        /\ pipe[p][i] = Script(p)[sent[p] - Len(pipe[p]) + i]
    BY <1>1 DEF FlowInv, PipeInOrder
  <1>4. /\ Len(Script(p)) \in Nat
        /\ \A k \in 1..Len(Script(p)) : Script(p)[k][1] = p
    BY ScriptLines, GUIAssumption DEF GUITypes
  <1>5. sent[p] - Len(pipe[p]) + i \in 1..Len(Script(p))
    BY <1>1, <1>3, <1>4
  <1> QED BY <1>2, <1>3, <1>4, <1>5 DEF OfPast

LEMMA FlowInit == Init => FlowInv
  BY DEF Init, FlowInv, CurrentProcess, NotStarted, PipeInOrder, LinesOfPast,
         OfPast, NoLine, Null

\* The pipes, at the steps that write to one, discard one or leave them.
LEMMA PipesStep ==
  ASSUME GUITypes, FlowInv, [Next]_vars
  PROVE  PipeInOrder'
  <1> USE DEF viewVars, sharedVars, childVars
  <1>t. /\ sent \in [Conversions -> Nat] /\ pipe \in [Conversions -> Seq(Lines)]
        /\ output \in [Conversions -> Outputs \cup {"nothing"}]
    BY GUIAssumption DEF GUITypes, TypeOK
  <1>1. ASSUME UNCHANGED <<output, sent>>,
               \A p \in Conversions : pipe'[p] \in {pipe[p], <<>>}
        PROVE  PipeInOrder'
    <2>1. \A p \in Conversions : Script(p)' = Script(p)
      BY <1>1, SameScript
    <2> QED BY <1>1, <1>t, <2>1 DEF FlowInv, PipeInOrder
  <1>2. CASE User
    <2>1. UNCHANGED <<output, sent>>
      BY <1>2 DEF User, SelectSource, Convert, ConvertBadLimit, Stop
    <2>2. \A p \in Conversions : pipe'[p] \in {pipe[p], <<>>}
      BY <1>2, <1>t
      DEF User, SelectSource, Convert, ConvertBadLimit, Stop
    <2> QED BY <1>1, <2>1, <2>2
  <1>3. CASE ResetComplete \/ ForgetProcess \/ StartReader \/ UNCHANGED vars
    BY <1>1, <1>3 DEF ResetComplete, ForgetProcess, StartReader, vars
  <1>4. CASE Exec
    <2>1. UNCHANGED <<sent, pipe>> /\ clicks \in Conversions
      BY <1>4 DEF Exec, GUITypes
    <2>2. sent[clicks] = 0 /\ pipe[clicks] = <<>>
      BY <1>4, <2>1 DEF Exec, FlowInv, NotStarted, Started
    <2>3. \A p \in Conversions : p # clicks => output'[p] = output[p]
      BY <1>4, <1>t DEF Exec
    <2>4. \A p \in Conversions : p # clicks => Script(p)' = Script(p)
      BY <2>3, SameScript
    <2> QED BY <2>1, <2>2, <2>4 DEF FlowInv, PipeInOrder
  <1>5. ASSUME NEW n \in Conversions, Write(n)
        PROVE  PipeInOrder'
    <2>1. /\ sent' = [sent EXCEPT ![n] = @ + 1]
          /\ pipe' = [pipe EXCEPT ![n] = Append(@, Script(n)[sent[n] + 1])]
          /\ sent[n] < Len(Script(n)) /\ UNCHANGED output
      BY <1>5 DEF Write
    <2>2. \A p \in Conversions : Script(p)' = Script(p)
      BY <2>1, SameScript
    <2>3. ASSUME NEW p \in Conversions, p # n
          PROVE  pipe'[p] = pipe[p] /\ sent'[p] = sent[p]
      BY <2>1, <2>3, <1>t
    <2>4. /\ Script(n)[sent[n] + 1] \in Lines /\ Len(Script(n)) \in Nat
          /\ sent[n] + 1 <= Len(Script(n))
      BY <2>1, <1>t, ScriptLines, GUIAssumption DEF GUITypes
    <2>5. /\ Len(pipe'[n]) = Len(pipe[n]) + 1 /\ sent'[n] = sent[n] + 1
          /\ \A i \in 1..Len(pipe[n]) : pipe'[n][i] = pipe[n][i]
          /\ pipe'[n][Len(pipe[n]) + 1] = Script(n)[sent[n] + 1]
      BY <2>1, <2>4, <1>t
    <2>6. /\ Len(pipe'[n]) <= sent'[n]
          /\ \A i \in 1..Len(pipe'[n]) :
               pipe'[n][i] = Script(n)[sent'[n] - Len(pipe'[n]) + i]
      <3>1. /\ Len(pipe[n]) <= sent[n]
            /\ \A i \in 1..Len(pipe[n]) :
                 pipe[n][i] = Script(n)[sent[n] - Len(pipe[n]) + i]
            /\ Len(pipe[n]) \in Nat /\ sent[n] \in Nat
        BY <1>t DEF FlowInv, PipeInOrder
      <3>2. sent'[n] - Len(pipe'[n]) = sent[n] - Len(pipe[n])
        BY <2>5, <3>1
      <3>3. ASSUME NEW i \in 1..Len(pipe'[n])
            PROVE  pipe'[n][i] = Script(n)[sent'[n] - Len(pipe'[n]) + i]
        <4>1. CASE i \in 1..Len(pipe[n])
          BY <2>5, <3>1, <3>2, <4>1
        <4>2. CASE i = Len(pipe[n]) + 1
          <5>1. sent'[n] - Len(pipe'[n]) + i = sent[n] + 1
            BY <2>5, <3>1, <4>2
          <5> QED BY <2>5, <4>2, <5>1
        <4> QED BY <2>5, <3>1, <4>1, <4>2
      <3> QED BY <2>5, <3>1, <3>3
    <2> QED BY <2>2, <2>3, <2>4, <2>5, <2>6 DEF FlowInv, PipeInOrder
  <1>6. ASSUME NEW n \in Conversions, Exit(n)
        PROVE  PipeInOrder'
    BY <1>1, <1>6 DEF Exit
  <1>7. ASSUME NEW n \in Conversions, Run(n)
        PROVE  PipeInOrder'
    <2>1. UNCHANGED <<output, sent>>
      BY <1>7, RunIsLocal DEF GUITypes
    <2>2. \A p \in Conversions : pipe'[p] \in {pipe[p], <<>>}
      BY <1>7, <1>t
      DEF Run, Test, Open, ReadLine, CheckFirstLine, FirstLine, LaterLine, Sleep
    <2> QED BY <1>1, <2>1, <2>2
  <1> QED
    BY <1>2, <1>3, <1>4, <1>5, <1>6, <1>7 DEF Next, RestOfConvert, Process

\* A reader takes its lines from the pipes.
LEMMA LinesStep ==
  ASSUME GUITypes, FlowInv, [Next]_vars
  PROVE  LinesOfPast'
  <1> USE DEF viewVars, sharedVars, childVars, readerVars
  <1>t. /\ clicks \in Nat /\ ConvertProcess <= clicks
        /\ stream \in [Conversions -> Conversions \cup {Null}]
        /\ buffer \in [Conversions -> Seq(Lines)]
        /\ line \in [Conversions -> Lines \cup {NoLine}]
        /\ \A p \in Conversions : pipe[p] \in Seq(Lines)
    <2>1. clicks \in Nat
      BY GUIAssumption DEF GUITypes, TypeOK
    <2> QED BY <2>1 DEF GUITypes, TypeOK, FlowInv, CurrentProcess
  <1>1. clicks' \in {clicks, clicks + 1}
    BY DEF Next, User, SelectSource, Convert, ConvertBadLimit, Stop,
           RestOfConvert, ResetComplete, ForgetProcess, Exec, StartReader,
           Process, Write, Exit, Run, Test, Open, ReadLine, CheckFirstLine,
           FirstLine, LaterLine, Sleep, vars
  <1>2. OfPast(NoLine) /\ \A l \in Lines \cup {NoLine} : OfPast(l) => OfPast(l)'
    BY <1>1, <1>t DEF OfPast, NoLine, Lines, Null, Conversions
  <1>3. CASE UNCHANGED <<stream, buffer, line, ClipFrameCountConverted>>
    <2>1. ClipFrameCountConverted \in Lines \cup {NoLine}
      BY DEF GUITypes, TypeOK
    <2>2. ASSUME NEW r \in Conversions
          PROVE  /\ line[r] \in Lines \cup {NoLine}
                 /\ \A i \in 1..Len(buffer[r]) : buffer[r][i] \in Lines
                 /\ stream[r] \in Nat
      BY <1>t, GUIAssumption DEF Conversions, Null
    <2>3. \A n \in Nat : n <= clicks => n <= clicks'
      BY <1>1, <1>t
    <2> QED BY <1>2, <1>3, <2>1, <2>2, <2>3 DEF FlowInv, LinesOfPast
  <1>4. ASSUME NEW r \in Conversions, Run(r)
        PROVE  LinesOfPast'
    <2>1. /\ clicks' = clicks
          /\ \A q \in Conversions : q # r =>
               /\ stream'[q] = stream[q] /\ buffer'[q] = buffer[q]
               /\ line'[q] = line[q]
      BY <1>4, RunIsLocal DEF GUITypes
    <2>2. SUFFICES /\ OfPast(ClipFrameCountConverted')
                   /\ stream'[r] <= clicks
                   /\ OfPast(line'[r])
                   /\ \A i \in 1..Len(buffer'[r]) : OfPast(buffer'[r][i])
      BY <2>1 DEF FlowInv, LinesOfPast, OfPast
    <2>3. /\ OfPast(ClipFrameCountConverted) /\ stream[r] <= clicks
          /\ OfPast(line[r]) /\ \A i \in 1..Len(buffer[r]) : OfPast(buffer[r][i])
      BY DEF FlowInv, LinesOfPast
    <2>4. ASSUME NEW ok \in BOOLEAN, NextLine(r, ok)
          PROVE  /\ line'[r] = NoLine
                 /\ stream'[r] \in {stream[r], Null}
                 /\ buffer'[r] \in {buffer[r], <<>>}
      BY <2>4, <1>t DEF NextLine, EndTurn
    <2>5. CASE Test(r) \/ CheckFirstLine(r) \/ Sleep(r)
      BY <2>3, <2>5 DEF Test, CheckFirstLine, Sleep
    <2>6. CASE Open(r)
      BY <2>3, <2>6, <1>t DEF Open
    <2>7. CASE FirstLine(r)
      <3>1. /\ NextLine(r, IsNumber(line[r])) /\ IsNumber(line[r]) \in BOOLEAN
            /\ UNCHANGED ClipFrameCountConverted
        BY <2>7 DEF FirstLine, IsNumber
      <3>2. Null <= clicks
        BY <1>t DEF Null
      <3> QED BY <3>1, <3>2, <2>3, <2>4, <1>2
    <2>8. CASE LaterLine(r)
      <3> DEFINE ok == line[r][2] # Text
      <3>1. /\ NextLine(r, ok) /\ ok \in BOOLEAN
            /\ ClipFrameCountConverted' \in {ClipFrameCountConverted, line[r]}
        BY <2>8 DEF LaterLine
      <3>2. Null <= clicks
        BY <1>t DEF Null
      <3> HIDE DEF ok
      <3>3. /\ line'[r] = NoLine
            /\ stream'[r] \in {stream[r], Null}
            /\ buffer'[r] \in {buffer[r], <<>>}
        BY <3>1, <2>4
      <3> QED BY <3>1, <3>2, <3>3, <2>3, <1>2
    <2>9. CASE ReadLine(r)
      <3> DEFINE s == stream[r]
      <3>1. /\ s \in Conversions /\ UNCHANGED ClipFrameCountConverted
            /\ buffer[r] \in Seq(Lines) /\ pipe[s] \in Seq(Lines)
        BY <2>9 DEF ReadLine, GUITypes, TypeOK, Attached, Reading
      <3>2. /\ \A i \in 1..Len(pipe[s]) : OfPast(pipe[s][i])
        BY <3>1, PipeLines
      <3>3. ASSUME NEW q \in Seq(Lines), q # <<>>,
                   \A i \in 1..Len(q) : OfPast(q[i])
            PROVE  /\ OfPast(Head(q))
                   /\ \A i \in 1..Len(Tail(q)) : OfPast(Tail(q)[i])
        BY <3>3
      <3>4. \/ /\ buffer[r] # <<>> /\ line'[r] = Head(buffer[r])
               /\ buffer'[r] = Tail(buffer[r]) /\ UNCHANGED stream
            \/ /\ pipe[s] # <<>> /\ line'[r] = Head(pipe[s])
               /\ buffer'[r] = Tail(pipe[s]) /\ UNCHANGED stream
            \/ buffer'[r] = <<>> /\ stream'[r] = Null /\ UNCHANGED line
        BY <2>9, <1>t DEF ReadLine, EndTurn
      <3>5. Null <= clicks
        BY <1>t DEF Null
      <3>6. CASE buffer'[r] = <<>> /\ stream'[r] = Null /\ UNCHANGED line
        BY <3>1, <3>5, <3>6, <2>3
      <3>7. CASE /\ buffer[r] # <<>> /\ line'[r] = Head(buffer[r])
                 /\ buffer'[r] = Tail(buffer[r]) /\ UNCHANGED stream
        BY <3>1, <3>3, <3>7, <2>3
      <3>8. CASE /\ pipe[s] # <<>> /\ line'[r] = Head(pipe[s])
                 /\ buffer'[r] = Tail(pipe[s]) /\ UNCHANGED stream
        BY <3>1, <3>2, <3>3, <3>8, <2>3
      <3> QED BY <3>4, <3>6, <3>7, <3>8
    <2> QED BY <1>4, <2>5, <2>6, <2>7, <2>8, <2>9 DEF Run
  <1>5. CASE User \/ RestOfConvert \/ UNCHANGED vars
    BY <1>3, <1>5
    DEF User, SelectSource, Convert, ConvertBadLimit, Stop, RestOfConvert,
        ResetComplete, ForgetProcess, Exec, StartReader, vars
  <1>6. ASSUME NEW p \in Conversions, Process(p)
        PROVE  LinesOfPast'
    BY <1>3, <1>6 DEF Process, Write, Exit
  <1> QED BY <1>4, <1>5, <1>6 DEF Next

LEMMA FlowStep == GUITypes /\ FlowInv /\ [Next]_vars => FlowInv'
  <1> SUFFICES ASSUME GUITypes, FlowInv, [Next]_vars PROVE FlowInv'
    OBVIOUS
  <1>p. PipeInOrder' /\ LinesOfPast'
    BY PipesStep, LinesStep
  <1> USE DEF CurrentProcess, NotStarted, Started, viewVars, sharedVars, childVars
  <1>t. /\ clicks \in Nat /\ ConvertProcess \in Nat
        /\ child \in [Conversions -> ChildStates]
        /\ sent \in [Conversions -> Nat] /\ pipe \in [Conversions -> Seq(Lines)]
        /\ Conversions \subseteq Nat
    BY GUIAssumption DEF GUITypes, TypeOK, Conversions, Null
  <1>1. CASE SelectSource BY <1>1, <1>p DEF SelectSource, FlowInv
  <1>2. CASE Convert BY <1>2, <1>p, <1>t DEF Convert, FlowInv
  <1>3. CASE ConvertBadLimit BY <1>3, <1>p DEF ConvertBadLimit, FlowInv
  <1>4. CASE Stop
    <2>1. ConvertProcess = clicks /\ clicks # Null
      BY <1>4 DEF Stop, FlowInv
    <2> QED BY <1>4, <1>p, <1>t, <2>1 DEF Stop, FlowInv
  <1>5. CASE ResetComplete BY <1>5, <1>p DEF ResetComplete, FlowInv
  <1>6. CASE ForgetProcess
    BY <1>6, <1>p, <1>t DEF ForgetProcess, FlowInv, Null
  <1>7. CASE Exec BY <1>7, <1>p, <1>t DEF Exec, FlowInv
  <1>8. CASE StartReader BY <1>8, <1>p DEF StartReader, FlowInv
  <1>9. ASSUME NEW p \in Conversions, Process(p)
        PROVE  FlowInv'
    <2>1. child[p] = "running" /\ UNCHANGED <<clicks, edt, ConvertProcess>>
      BY <1>9 DEF Process, Write, Exit
    <2>2. ~(p > clicks \/ (p = clicks /\ edt \notin Started))
      BY <2>1 DEF FlowInv
    <2>3. \A q \in Conversions : q # p =>
            child'[q] = child[q] /\ sent'[q] = sent[q] /\ pipe'[q] = pipe[q]
      BY <1>9, <1>t DEF Process, Write, Exit
    <2> QED BY <1>p, <2>1, <2>2, <2>3 DEF FlowInv
  <1>10. ASSUME NEW r \in Conversions, Run(r)
         PROVE  FlowInv'
    <2>1. UNCHANGED <<edt, clicks, child, sent, ConvertProcess>>
      BY <1>10, RunIsLocal DEF GUITypes
    <2>2. \A p \in Conversions : pipe'[p] \in {pipe[p], <<>>}
      BY <1>10, <1>t
      DEF Run, Test, Open, ReadLine, CheckFirstLine, FirstLine, LaterLine, Sleep
    <2> QED BY <1>p, <2>1, <2>2 DEF FlowInv
  <1>11. CASE UNCHANGED vars BY <1>11, <1>p DEF vars, FlowInv
  <1> QED
    BY <1>1, <1>2, <1>3, <1>4, <1>5, <1>6, <1>7, <1>8, <1>9, <1>10, <1>11
    DEF Next, User, RestOfConvert

-----------------------------------------------------------------------------
(* One conversion among what others have left.  The last click is number     *)
(* clicks; mixed says that it can see the output of another conversion.      *)

\* Nothing is left of the others but readers that will find no line.
Alone ==
  /\ \A p \in Conversions \ {clicks} : child[p] # "running" /\ pipe[p] = <<>>
  /\ \A r \in Conversions \ {clicks} :
       /\ reader[r] \notin Using /\ buffer[r] = <<>>
       /\ reader[r] = "read" => stream[r] < clicks

OwnStream ==
  reader[clicks] \in Reading => ConvertProcess = clicks /\ stream[clicks] = clicks

\* As long as the first line is to come, the reader has not taken any.
FirstLineNext ==
  converter_firstline /\ reader[clicks] \notin Using \cup {"dead", "ended"} =>
    /\ buffer[clicks] = <<>>
    /\ child[clicks] = "running" \/ pipe[clicks] # <<>> =>
         Len(pipe[clicks]) = sent[clicks]

SharedFields ==
  /\ reader[clicks] = "first" => converter_firstline
  /\ reader[clicks] = "later" => ~converter_firstline
  /\ ~converter_firstline => ClipFrameCountTotal = <<clicks, 0>>
  /\ conversion_complete /\ edt # "reset" => sent[clicks] = Frames + 2

\* readLine() has returned the first n lines, except those that were thrown
\* away with a buffer or a pipe; the last of them is line while it is used.
LineUpTo(n) ==
  /\ n + Len(buffer[clicks]) + Len(pipe[clicks]) <= sent[clicks]
  /\ \A i \in 1..Len(buffer[clicks]) :
       buffer[clicks][i] = Script(clicks)[n + i]
  /\ reader[clicks] \in Using =>
       /\ n > 0 /\ line[clicks] = Script(clicks)[n]
       /\ converter_firstline => n = 1
  /\ ClipFrameCountConverted[1] = clicks =>
       ClipFrameCountConverted[2] + (IF reader[clicks] \in Using THEN 2 ELSE 1)
         <= n
  /\ ~converter_firstline => n >= (IF reader[clicks] \in Using THEN 2 ELSE 1)

Conversion == /\ OwnStream /\ FirstLineNext /\ SharedFields
              /\ \E n \in 0..sent[clicks] : LineUpTo(n)

UnmixedInv == ~mixed => Alone /\ (clicks > 0 => Conversion)

ProgressInv == GUITypes /\ FlowInv /\ UnmixedInv

\* The types, for the current conversion.
LEMMA CurrentTypes ==
  ASSUME GUITypes, clicks > 0
  PROVE  /\ clicks \in Conversions /\ clicks \in Nat
         /\ sent[clicks] \in Nat
         /\ pipe[clicks] \in Seq(Lines) /\ buffer[clicks] \in Seq(Lines)
         /\ line[clicks] \in Lines \cup {NoLine}
         /\ ClipFrameCountConverted \in Lines \cup {NoLine}
  BY GUIAssumption DEF GUITypes, TypeOK, Conversions

LEMMA UnmixedInit == Init => UnmixedInv
  BY GUIAssumption
  DEF Init, UnmixedInv, Alone, Using, Conversions

LEMMA LineNumbers == \A l \in Lines \cup {NoLine} : l[2] \in Int
  <1>1. \A l \in Lines : l[2] \in 0..EndLine \cup {Text}
    BY DEF Lines
  <1>2. NoLine[2] = Text
    BY DEF NoLine
  <1> QED BY <1>1, <1>2, GUIAssumption DEF EndLine, Text

\* Convert: what is not in flight cannot reach the new conversion.
LEMMA UnmixedConvert ==
  ASSUME GUITypes, FlowInv, Convert
  PROVE  UnmixedInv'
  <1> SUFFICES ASSUME ~mixed' PROVE Alone' /\ Conversion'
    BY DEF UnmixedInv
  <1> DEFINE c == clicks + 1
  <1>1. /\ clicks' = c /\ c \in Conversions /\ clicks \in Nat
        /\ converter_firstline' = TRUE /\ edt' = "reset"
        /\ UNCHANGED <<ConvertProcess, ClipFrameCountTotal, childVars,
                       readerVars, ClipFrameCountConverted>>
        /\ ~InFlight
    BY GUIAssumption DEF Convert, GUITypes, TypeOK, Conversions
  <1>2. \A p \in Conversions : child[p] # "running" /\ pipe[p] = <<>>
    BY <1>1 DEF InFlight
  <1>3. \A r \in Conversions : reader[r] \notin Using /\ buffer[r] = <<>>
    BY <1>1 DEF InFlight, Busy, Using, Reading, Gone, GUITypes, Attached
  <1>4. \A r \in Conversions : stream[r] < c
    <2>1. \A r \in Conversions : stream[r] \in Conversions \cup {Null}
      BY DEF GUITypes, TypeOK
    <2>2. \A r \in Conversions : stream[r] \in Nat
      BY <2>1, GUIAssumption DEF Conversions, Null
    <2>3. \A r \in Conversions : stream[r] <= clicks
      BY DEF FlowInv, LinesOfPast
    <2> QED BY <2>2, <2>3, <1>1
  <1>5. Alone'
    BY <1>1, <1>2, <1>3, <1>4 DEF Alone, childVars, readerVars
  <1>6. /\ sent[c] = 0 /\ reader[c] = "none" /\ c > clicks
    BY <1>1 DEF GUITypes, NoReaderYet, FlowInv, NotStarted
  <1>7. ClipFrameCountConverted[1] # c
    <2>1. \A l \in Lines \cup {NoLine} : l[1] \in Nat
      <3>1. \A l \in Lines : l[1] \in Conversions
        BY DEF Lines
      <3>2. NoLine[1] = 0
        BY DEF NoLine, Null
      <3> QED BY <3>1, <3>2, GUIAssumption DEF Conversions
    <2>2. ClipFrameCountConverted[1] \in Nat
      BY <2>1 DEF GUITypes, TypeOK
    <2> QED BY <2>2, <1>1 DEF FlowInv, LinesOfPast, OfPast
  <1>8. OwnStream' /\ FirstLineNext' /\ SharedFields'
    BY <1>1, <1>2, <1>3, <1>6
    DEF OwnStream, FirstLineNext, SharedFields, Reading, Using, childVars,
        readerVars
  <1>9. LineUpTo(0)' /\ 0 \in 0..sent'[clicks']
    <2>1. /\ sent'[clicks'] = 0 /\ pipe'[clicks'] = <<>>
          /\ buffer'[clicks'] = <<>> /\ reader'[clicks'] \notin Using
          /\ ClipFrameCountConverted'[1] # clicks'
      BY <1>1, <1>2, <1>3, <1>6, <1>7 DEF childVars, readerVars
    <2> QED BY <1>1, <2>1 DEF LineUpTo
  <1> QED BY <1>5, <1>8, <1>9 DEF Conversion

\* The rest of the handler: the new process has written nothing.
LEMMA UnmixedHandler ==
  ASSUME GUITypes, FlowInv, UnmixedInv, RestOfConvert
  PROVE  UnmixedInv'
  <1> SUFFICES ASSUME ~mixed' PROVE Alone' /\ Conversion'
    BY DEF UnmixedInv
  <1> USE DEF viewVars, sharedVars, childVars, readerVars
  <1>1. /\ edt # "idle" /\ clicks \in Conversions /\ clicks > 0
        /\ UNCHANGED <<clicks, mixed, sent, pipe, stream, buffer, line,
                       converter_firstline, ClipFrameCountTotal,
                       ClipFrameCountConverted>>
    BY GUIAssumption
    DEF RestOfConvert, ResetComplete, ForgetProcess, Exec, StartReader,
        GUITypes, Conversions
  <1>2. Alone /\ Conversion
    BY <1>1 DEF UnmixedInv
  <1>3. /\ reader[clicks] = "none" /\ buffer[clicks] = <<>>
    BY <1>1 DEF GUITypes, NoReaderYet, Attached, Reading, Using
  <1>4. /\ reader'[clicks] \in {"none", "test"}
        /\ \A r \in Conversions : r # clicks => reader'[r] = reader[r]
    BY <1>1, <1>3
    DEF RestOfConvert, ResetComplete, ForgetProcess, Exec, StartReader,
        GUITypes, TypeOK
  <1>5. /\ child'[clicks] \in {child[clicks], "running"}
        /\ \A p \in Conversions : p # clicks => child'[p] = child[p]
        /\ child'[clicks] = child[clicks] \/ edt = "exec"
    BY <1>1
    DEF RestOfConvert, ResetComplete, ForgetProcess, Exec, StartReader,
        GUITypes, TypeOK
  <1>6. Alone'
    BY <1>1, <1>2, <1>4, <1>5 DEF Alone
  <1>7. OwnStream'
    BY <1>1, <1>4 DEF OwnStream, Reading, Using
  <1>8. FirstLineNext'
    <2>1. edt = "exec" => sent[clicks] = 0 /\ pipe[clicks] = <<>>
      BY <1>1 DEF FlowInv, NotStarted, Started
    <2> QED
      BY <1>1, <1>2, <1>3, <1>4, <1>5, <2>1
      DEF Conversion, FirstLineNext, Using
  <1>9. SharedFields'
    <2>1. /\ conversion_complete' /\ edt' # "reset" =>
               conversion_complete /\ edt # "reset"
      BY DEF RestOfConvert, ResetComplete, ForgetProcess, Exec, StartReader
    <2> QED BY <1>1, <1>2, <1>4, <2>1 DEF Conversion, SharedFields
  <1>10. PICK n \in 0..sent[clicks] : LineUpTo(n)
    BY <1>2 DEF Conversion
  <1>11. LineUpTo(n)' /\ n \in 0..sent'[clicks']
    BY <1>1, <1>3, <1>4, <1>10 DEF LineUpTo, Using
  <1> QED BY <1>6, <1>7, <1>8, <1>9, <1>11 DEF Conversion

\* Stop: the process of the last click ends, and may lose what is in its pipe.
LEMMA UnmixedStop ==
  ASSUME GUITypes, FlowInv, UnmixedInv, Stop
  PROVE  UnmixedInv'
  <1> SUFFICES ASSUME ~mixed' PROVE Alone' /\ Conversion'
    BY DEF UnmixedInv
  <1>1. /\ UNCHANGED <<edt, clicks, mixed, output, sent, sharedVars, readerVars>>
        /\ child' = [child EXCEPT ![ConvertProcess] = "destroyed"]
        /\ pipe' \in {pipe, [pipe EXCEPT ![ConvertProcess] = <<>>]}
        /\ ConvertProcess = clicks /\ clicks > 0
    <2>1. ConvertProcess = clicks /\ clicks # Null
      BY DEF Stop, FlowInv, CurrentProcess, Started
    <2>2. clicks \in Nat
      BY GUIAssumption DEF GUITypes, TypeOK
    <2> QED BY <2>1, <2>2 DEF Stop, Null
  <1>2. Alone /\ Conversion
    BY <1>1 DEF UnmixedInv
  <1>3. /\ pipe'[clicks] \in {pipe[clicks], <<>>}
        /\ child'[clicks] = "destroyed"
        /\ \A p \in Conversions : p # clicks => /\ pipe'[p] = pipe[p]
                                                /\ child'[p] = child[p]
    BY <1>1, CurrentTypes DEF GUITypes, TypeOK
  <1>4. Alone'
    BY <1>1, <1>2, <1>3 DEF Alone, readerVars
  <1>5. OwnStream' /\ FirstLineNext' /\ SharedFields'
    BY <1>1, <1>2, <1>3
    DEF Conversion, OwnStream, FirstLineNext, SharedFields, sharedVars,
        readerVars
  <1>6. PICK n \in 0..sent[clicks] : LineUpTo(n)
    BY <1>2 DEF Conversion
  <1>7. LineUpTo(n)'
    <2>1. Script(clicks)' = Script(clicks)
      BY <1>1, SameScript, CurrentTypes
    <2>3. /\ Len(pipe'[clicks]) \in Nat /\ Len(pipe[clicks]) \in Nat
          /\ Len(pipe'[clicks]) <= Len(pipe[clicks])
          /\ Len(buffer[clicks]) \in Nat /\ sent[clicks] \in Nat
      BY <1>1, <1>3, CurrentTypes
    <2>2. n + Len(buffer[clicks]) + Len(pipe'[clicks]) <= sent[clicks]
      <3>1. n + Len(buffer[clicks]) + Len(pipe[clicks]) <= sent[clicks]
        BY <1>6 DEF LineUpTo
      <3> DEFINE b == Len(buffer[clicks])
                 q == Len(pipe[clicks])
                 r == Len(pipe'[clicks])
                 m == sent[clicks]
      <3>2. b \in Nat /\ q \in Nat /\ r \in Nat /\ m \in Nat /\ r <= q
        BY <2>3
      <3>3. n + b + q <= m /\ n \in 0..m
        BY <3>1
      <3> HIDE DEF b, q, r, m
      <3>4. n + b + r <= m
        BY <3>2, <3>3
      <3> QED BY <3>4 DEF b, r, m
    <2> QED BY <1>1, <1>6, <2>1, <2>2 DEF LineUpTo, sharedVars, readerVars
  <1> QED BY <1>1, <1>4, <1>5, <1>7 DEF Conversion

\* The current process writes a line, or ends.
LEMMA UnmixedProcess ==
  ASSUME GUITypes, FlowInv, UnmixedInv, NEW p \in Conversions, Process(p)
  PROVE  UnmixedInv'
  <1> SUFFICES ASSUME ~mixed' PROVE Alone' /\ Conversion'
    BY DEF UnmixedInv
  <1>1. /\ UNCHANGED <<edt, clicks, mixed, output, sharedVars, readerVars>>
        /\ child[p] = "running"
    BY DEF Process, Write, Exit
  <1>2. Alone /\ p = clicks /\ clicks > 0
    <2>1. Alone
      BY <1>1 DEF UnmixedInv
    <2> QED BY <1>1, <2>1, GUIAssumption DEF Alone, Conversions
  <1>3. Conversion
    BY <1>1, <1>2 DEF UnmixedInv
  <1>4. \A q \in Conversions : q # clicks => child'[q] = child[q]
                                              /\ pipe'[q] = pipe[q]
    BY <1>2 DEF Process, Write, Exit, GUITypes, TypeOK
  <1>5. Alone' /\ OwnStream'
    BY <1>1, <1>2, <1>3, <1>4
    DEF Alone, Conversion, OwnStream, sharedVars, readerVars
  <1>t. /\ sent[clicks] \in Nat /\ pipe[clicks] \in Seq(Lines)
        /\ buffer[clicks] \in Seq(Lines)
    BY <1>2, CurrentTypes
  <1>6. /\ \/ /\ sent'[clicks] = sent[clicks] + 1
              /\ Len(pipe'[clicks]) = Len(pipe[clicks]) + 1
              /\ sent[clicks] < Len(Script(clicks))
           \/ sent'[clicks] = sent[clicks] /\ pipe'[clicks] = pipe[clicks]
    <2>1. CASE Write(p)
      BY <1>2, <2>1, <1>t DEF Write, GUITypes, TypeOK
    <2>2. CASE Exit(p)
      BY <1>2, <2>2 DEF Exit
    <2> QED BY <2>1, <2>2 DEF Process
  <1>7. FirstLineNext'
    BY <1>1, <1>2, <1>3, <1>6
    DEF Conversion, FirstLineNext, sharedVars, readerVars
  <1>8. SharedFields'
    <2>1. Len(Script(clicks)) \in 0..(Frames + 2)
      BY <1>2, ScriptLines DEF GUITypes
    <2>2. sent[clicks] = Frames + 2 => sent'[clicks] = Frames + 2
      BY <2>1, <1>6, GUIAssumption
    <2> QED
      BY <1>1, <1>3, <2>2 DEF Conversion, SharedFields, sharedVars, readerVars
  <1>9. PICK n \in 0..sent[clicks] : LineUpTo(n)
    BY <1>3 DEF Conversion
  <1>10. LineUpTo(n)' /\ n \in 0..sent'[clicks']
    <2>1. Script(clicks)' = Script(clicks)
      BY <1>1, <1>2, SameScript
    <2>2. /\ n + Len(buffer[clicks]) + Len(pipe'[clicks]) <= sent'[clicks]
          /\ n \in 0..sent'[clicks]
      <3>1. n + Len(buffer[clicks]) + Len(pipe[clicks]) <= sent[clicks]
        BY <1>9 DEF LineUpTo
      <3>2. Len(buffer[clicks]) \in Nat /\ Len(pipe[clicks]) \in Nat
        BY <1>t
      <3>3. CASE /\ sent'[clicks] = sent[clicks] + 1
                 /\ Len(pipe'[clicks]) = Len(pipe[clicks]) + 1
        <4>1. PICK b \in Nat, k \in Nat : b = Len(buffer[clicks])
                                         /\ k = Len(pipe[clicks])
          BY <3>2
        <4>2. n + b + k <= sent[clicks]
          BY <3>1, <4>1
        <4>3. n + b + (k + 1) <= sent[clicks] + 1 /\ n \in 0..(sent[clicks] + 1)
          BY <1>t, <4>2
        <4> QED BY <3>3, <4>1, <4>3
      <3>4. CASE sent'[clicks] = sent[clicks] /\ pipe'[clicks] = pipe[clicks]
        BY <3>1, <3>4
      <3> QED BY <1>6, <3>3, <3>4
    <2> QED BY <1>1, <1>9, <2>1, <2>2 DEF LineUpTo, sharedVars, readerVars
  <1> QED BY <1>5, <1>7, <1>8, <1>10 DEF Conversion

\* A reader left by an earlier conversion finds no line, or is a witness that
\* the conversions are mixed.
LEMMA UnmixedOtherReader ==
  ASSUME GUITypes, FlowInv, UnmixedInv,
         NEW r \in Conversions \ {clicks}, Run(r)
  PROVE  UnmixedInv'
  <1> SUFFICES ASSUME ~mixed' PROVE Alone' /\ (clicks > 0 => Conversion')
    BY RunIsLocal DEF UnmixedInv, GUITypes
  <1> USE DEF viewVars, sharedVars, childVars, readerVars, GotoR
  <1>1. ~mixed
    BY DEF Run, Test, Open, ReadLine, CheckFirstLine, FirstLine, LaterLine, Sleep
  <1>2. /\ Alone /\ (clicks > 0 => Conversion)
        /\ reader[r] \notin Using /\ buffer[r] = <<>>
    BY <1>1 DEF UnmixedInv, Alone
  <1>t. /\ reader \in [Conversions -> ReaderStates]
        /\ stream \in [Conversions -> Conversions \cup {Null}]
        /\ buffer \in [Conversions -> Seq(Lines)]
    BY DEF GUITypes, TypeOK
  <1>3. /\ UNCHANGED <<childVars, sharedVars, edt, clicks>>
        /\ reader'[r] \notin Using /\ buffer'[r] = <<>>
        /\ reader'[r] = "read" => stream'[r] < clicks
    <2>1. CASE Test(r) \/ Sleep(r)
      BY <1>2, <1>t, <2>1 DEF Test, Sleep, Using
    <2>2. CASE Open(r)
      <3>1. CASE ConvertProcess = Null
        BY <1>2, <1>t, <2>2, <3>1 DEF Open, Using
      <3>2. CASE ConvertProcess # Null
        <4>1. ConvertProcess = r /\ stream'[r] = r
          BY <1>t, <2>2, <3>2 DEF Open
        <4>2. r <= clicks /\ r \in Nat /\ clicks \in Nat
          BY <4>1, GUIAssumption
          DEF FlowInv, CurrentProcess, GUITypes, TypeOK, Conversions
        <4> QED BY <1>2, <1>t, <2>2, <3>2, <4>1, <4>2 DEF Open, Using
      <3> QED BY <3>1, <3>2
    <2>3. CASE ReadLine(r)
      <3>1. /\ reader[r] = "read" /\ stream[r] \in Conversions
            /\ stream[r] < clicks
        BY <1>2, <2>3 DEF ReadLine, Alone, GUITypes, Attached, Reading
      <3>2. clicks \in Nat /\ stream[r] # clicks
        BY <3>1, GUIAssumption DEF GUITypes, TypeOK, Conversions
      <3>3. pipe[stream[r]] = <<>>
        BY <1>2, <3>1, <3>2 DEF Alone
      <3>4. EndTurn(r, "sleep") /\ UNCHANGED <<line, pipe>>
        BY <1>2, <2>3, <3>3 DEF ReadLine
      <3> QED BY <1>t, <2>3, <3>4 DEF ReadLine, EndTurn, Using
    <2> QED
      BY <1>2, <2>1, <2>2, <2>3
      DEF Run, CheckFirstLine, FirstLine, LaterLine, Using
  <1>4. \A q \in Conversions : q # r =>
          /\ reader'[q] = reader[q] /\ stream'[q] = stream[q]
          /\ buffer'[q] = buffer[q] /\ line'[q] = line[q]
    BY RunIsLocal DEF GUITypes
  <1>5. Alone'
    BY <1>2, <1>3, <1>4 DEF Alone
  <1>6. ASSUME clicks > 0 PROVE Conversion'
    <2>1. /\ clicks \in Conversions /\ clicks # r
          /\ Script(clicks)' = Script(clicks)
      BY <1>3, <1>6, CurrentTypes, SameScript
    <2>2. OwnStream' /\ FirstLineNext' /\ SharedFields'
      BY <1>2, <1>3, <1>4, <1>6, <2>1
      DEF Conversion, OwnStream, FirstLineNext, SharedFields
    <2>3. PICK n \in 0..sent[clicks] : LineUpTo(n)
      BY <1>2, <1>6 DEF Conversion
    <2>4. LineUpTo(n)' /\ n \in 0..sent'[clicks']
      BY <1>3, <1>4, <2>1, <2>3 DEF LineUpTo
    <2> QED BY <2>2, <2>4 DEF Conversion
  <1> QED BY <1>5, <1>6

\* The reader after it has used a line.
LEMMA NextLineEffect ==
  ASSUME TypeOK, NEW r \in Conversions, NEW ok \in BOOLEAN, NextLine(r, ok)
  PROVE  /\ reader'[r] \in {"read", "sleep", "dead"}
         /\ ~ok => reader'[r] = "dead"
         /\ reader'[r] = "read" => stream'[r] = stream[r]
         /\ buffer'[r] \in {buffer[r], <<>>}
  BY DEF NextLine, EndTurn, GotoR, TypeOK

\* The reader of the last conversion, outside readLine() and the line's use.
LEMMA UnmixedTurn ==
  ASSUME GUITypes, FlowInv, UnmixedInv, clicks > 0,
         Test(clicks) \/ Open(clicks) \/ CheckFirstLine(clicks) \/ Sleep(clicks),
         ~mixed'
  PROVE  Alone' /\ Conversion'
  <1> USE DEF viewVars, sharedVars, childVars, readerVars, GotoR
  <1>t. /\ clicks \in Conversions
        /\ reader \in [Conversions -> ReaderStates]
        /\ stream \in [Conversions -> Conversions \cup {Null}]
    BY CurrentTypes DEF GUITypes, TypeOK
  <1>1. /\ Alone /\ Conversion
        /\ UNCHANGED <<childVars, sharedVars, edt, clicks, buffer, line>>
    BY DEF UnmixedInv, Test, Open, CheckFirstLine, Sleep
  <1>2. \A q \in Conversions : q # clicks =>
          /\ reader'[q] = reader[q] /\ stream'[q] = stream[q]
    BY <1>t DEF Test, Open, CheckFirstLine, Sleep
  <1>3. /\ reader'[clicks] \in Using <=> reader[clicks] \in Using
        /\ reader'[clicks] = "first" => converter_firstline
        /\ reader'[clicks] = "later" => ~converter_firstline
        /\ reader[clicks] \notin {"dead", "ended"}
    BY <1>t DEF Test, Open, CheckFirstLine, Sleep, Using
  <1>4. OwnStream'
    <2>1. CASE Test(clicks) \/ Sleep(clicks)
      BY <1>t, <2>1 DEF Test, Sleep, OwnStream, Reading, Using
    <2>2. CASE CheckFirstLine(clicks)
      BY <1>t, <1>1, <2>2
      DEF CheckFirstLine, Conversion, OwnStream, Reading, Using
    <2>3. CASE Open(clicks)
      BY <1>t, <2>3 DEF Open, OwnStream, Reading, Using
    <2> QED BY <2>1, <2>2, <2>3
  <1>5. Alone'
    BY <1>1, <1>2 DEF Alone
  <1>6. FirstLineNext' /\ SharedFields'
    BY <1>1, <1>3 DEF Conversion, FirstLineNext, SharedFields
  <1>7. PICK n \in 0..sent[clicks] : LineUpTo(n)
    BY <1>1 DEF Conversion
  <1>8. LineUpTo(n)' /\ n \in 0..sent'[clicks']
    <2>1. Script(clicks)' = Script(clicks)
      BY <1>t, <1>1, SameScript
    <2> QED BY <1>1, <1>3, <1>7, <2>1 DEF LineUpTo
  <1> QED BY <1>4, <1>5, <1>6, <1>8 DEF Conversion

\* readLine(): one line more has been returned, or none was there.
LEMMA UnmixedRead ==
  ASSUME GUITypes, FlowInv, UnmixedInv, clicks > 0, ReadLine(clicks), ~mixed'
  PROVE  Alone' /\ Conversion'
  <1> DEFINE c == clicks
  <1> USE DEF viewVars, sharedVars, GotoR
  <1>t. /\ c \in Conversions /\ sent[c] \in Nat
        /\ reader \in [Conversions -> ReaderStates]
        /\ stream \in [Conversions -> Conversions \cup {Null}]
        /\ buffer \in [Conversions -> Seq(Lines)]
        /\ pipe \in [Conversions -> Seq(Lines)]
        /\ line \in [Conversions -> Lines \cup {NoLine}]
        /\ ClipFrameCountConverted[1] = c => ClipFrameCountConverted[2] \in Int
    BY CurrentTypes, LineNumbers DEF GUITypes, TypeOK
  <1>1. /\ Alone /\ Conversion /\ reader[c] = "read" /\ stream[c] = c
        /\ UNCHANGED <<sharedVars, edt, clicks, child, output, sent>>
        /\ ConvertProcess = c
    BY DEF UnmixedInv, Conversion, OwnStream, ReadLine, Reading
  <1>2. Script(c)' = Script(c)
    BY <1>t, <1>1, SameScript
  <1>3. PICK n \in 0..sent[c] : LineUpTo(n)
    BY <1>1 DEF Conversion
  <1>4. /\ n + Len(buffer[c]) + Len(pipe[c]) <= sent[c]
        /\ \A i \in 1..Len(buffer[c]) : buffer[c][i] = Script(c)[n + i]
        /\ ClipFrameCountConverted[1] = c => ClipFrameCountConverted[2] + 1 <= n
        /\ ~converter_firstline => n >= 1
    BY <1>1, <1>3 DEF LineUpTo, Using
  <1>5. converter_firstline =>
          /\ buffer[c] = <<>>
          /\ pipe[c] # <<>> => Len(pipe[c]) = sent[c]
    BY <1>1 DEF Conversion, FirstLineNext, Using
  <1>6. \A q \in Conversions : q # c =>
          /\ reader'[q] = reader[q] /\ stream'[q] = stream[q]
          /\ buffer'[q] = buffer[q] /\ pipe'[q] = pipe[q]
    BY <1>t, <1>1 DEF ReadLine, EndTurn
  <1>7. Alone'
    BY <1>1, <1>6 DEF Alone
  <1>8. CASE /\ buffer[c] # <<>>
             /\ line' = [line EXCEPT ![c] = Head(buffer[c])]
             /\ buffer' = [buffer EXCEPT ![c] = Tail(@)]
             /\ GotoR(c, "got")
             /\ UNCHANGED <<pipe, stream, taken, lost>>
    <2>1. /\ line'[c] = Head(buffer[c]) /\ buffer'[c] = Tail(buffer[c])
          /\ reader'[c] = "got"
      BY <1>t, <1>8
    <2>2. /\ Len(buffer'[c]) = Len(buffer[c]) - 1 /\ Len(buffer[c]) > 0
          /\ line'[c] = buffer[c][1]
          /\ \A i \in 1..Len(buffer'[c]) : buffer'[c][i] = buffer[c][i + 1]
          /\ Len(buffer[c]) \in Nat /\ Len(pipe[c]) \in Nat
      BY <1>t, <1>8, <2>1
    <2>3. /\ line'[c] = Script(c)[n + 1]
          /\ \A i \in 1..Len(buffer'[c]) : buffer'[c][i] = Script(c)[n + 1 + i]
      <3>1. ASSUME NEW i \in 1..Len(buffer'[c])
            PROVE  buffer'[c][i] = Script(c)[n + 1 + i]
        <4>1. i + 1 \in 1..Len(buffer[c]) /\ n + (i + 1) = n + 1 + i
          BY <2>2
        <4> QED BY <1>4, <2>2, <4>1
      <3> QED BY <1>4, <2>2, <3>1
    <2>4. n + 1 \in 0..sent[c]
      BY <1>t, <1>4, <2>2
    <2>5. n + 1 + Len(buffer'[c]) + Len(pipe[c]) <= sent[c]
      <3>1. PICK b \in Nat, k \in Nat : b = Len(buffer[c]) /\ k = Len(pipe[c])
        BY <2>2
      <3>2. n + b + k <= sent[c] /\ Len(buffer'[c]) = b - 1
        BY <1>4, <2>2, <3>1
      <3>3. n + 1 + (b - 1) + k <= sent[c]
        BY <1>t, <3>2
      <3> QED BY <3>1, <3>2, <3>3
    <2>6. LineUpTo(n + 1)'
      BY <1>t, <1>1, <1>2, <1>4, <1>5, <1>8, <2>1, <2>3, <2>4, <2>5
      DEF LineUpTo, Using
    <2>7. OwnStream' /\ FirstLineNext' /\ SharedFields'
      BY <1>1, <1>8, <2>1
      DEF Conversion, OwnStream, FirstLineNext, SharedFields, Reading, Using
    <2> QED BY <1>1, <1>7, <2>4, <2>6, <2>7 DEF Conversion
  <1>9. CASE /\ buffer[c] = <<>> /\ pipe[c] # <<>>
             /\ line' = [line EXCEPT ![c] = Head(pipe[c])]
             /\ buffer' = [buffer EXCEPT ![c] = Tail(pipe[c])]
             /\ pipe' = [pipe EXCEPT ![c] = <<>>]
             /\ GotoR(c, "got")
             /\ UNCHANGED <<stream, taken, lost>>
    <2>k. PICK k \in Nat : k = Len(pipe[c])
      BY <1>t
    <2>m. PICK m \in Int : m = sent[c] - k + 1
      BY <1>t
    <2>1. /\ line'[c] = Head(pipe[c]) /\ buffer'[c] = Tail(pipe[c])
          /\ reader'[c] = "got" /\ pipe'[c] = <<>>
      BY <1>t, <1>9
    <2>2. /\ Len(buffer'[c]) = Len(pipe[c]) - 1 /\ Len(pipe[c]) > 0
          /\ line'[c] = pipe[c][1] /\ Len(pipe'[c]) = 0
          /\ \A i \in 1..Len(buffer'[c]) : buffer'[c][i] = pipe[c][i + 1]
          /\ Len(pipe[c]) \in Nat
      BY <1>t, <1>9, <2>1
    <2>3. /\ Len(pipe[c]) <= sent[c]
          /\ \A i \in 1..Len(pipe[c]) :
               pipe[c][i] = Script(c)[sent[c] - Len(pipe[c]) + i]
      BY <1>t DEF FlowInv, PipeInOrder
    <2>4. /\ line'[c] = Script(c)[m]
          /\ \A i \in 1..Len(buffer'[c]) : buffer'[c][i] = Script(c)[m + i]
      <3>1. ASSUME NEW i \in 1..Len(buffer'[c])
            PROVE  buffer'[c][i] = Script(c)[m + i]
        <4>1. i + 1 \in 1..Len(pipe[c])
          BY <2>2
        <4>2. sent[c] - Len(pipe[c]) + (i + 1) = m + i
          BY <1>t, <2>k, <2>m
        <4> QED BY <2>2, <2>3, <4>1, <4>2
      <3>2. line'[c] = Script(c)[m]
        BY <1>t, <2>k, <2>m, <2>2, <2>3
      <3> QED BY <3>1, <3>2
    <2>5. m \in 0..sent[c] /\ m > 0 /\ m >= n + 1
      <3>1. n + k <= sent[c] /\ k <= sent[c] /\ k > 0
        <4>1. Len(buffer[c]) = 0
          BY <1>9
        <4> QED BY <1>4, <2>k, <2>2, <2>3, <4>1
      <3> QED BY <1>t, <2>m, <3>1
    <2>6. m + Len(buffer'[c]) + Len(pipe'[c]) <= sent[c]
      BY <1>t, <2>k, <2>m, <2>2, <2>3
    <2>7. converter_firstline => m = 1
      BY <1>t, <1>5, <1>9, <2>k, <2>m, <2>2
    <2>8. LineUpTo(m)'
      <3>1. ClipFrameCountConverted[1] = c =>
              ClipFrameCountConverted[2] + 2 <= m
        BY <1>t, <1>4, <2>5
      <3>2. ~converter_firstline => m >= 2
        BY <1>t, <1>4, <2>5
      <3> QED
        BY <1>1, <1>2, <2>1, <2>4, <2>5, <2>6, <2>7, <3>1, <3>2
        DEF LineUpTo, Using
    <2>9. OwnStream' /\ FirstLineNext' /\ SharedFields'
      BY <1>1, <1>9, <2>1
      DEF Conversion, OwnStream, FirstLineNext, SharedFields, Reading, Using
    <2> QED BY <1>1, <1>7, <2>5, <2>8, <2>9 DEF Conversion
  <1>10. CASE /\ buffer[c] = <<>> /\ EndTurn(c, "sleep")
              /\ UNCHANGED <<line, pipe>>
    <2>1. reader'[c] = "sleep" /\ buffer'[c] = <<>>
      BY <1>t, <1>10 DEF EndTurn
    <2>2. LineUpTo(n)'
      BY <1>1, <1>2, <1>4, <1>10, <2>1 DEF LineUpTo, Using
    <2>3. OwnStream' /\ FirstLineNext' /\ SharedFields'
      BY <1>1, <1>10, <2>1
      DEF Conversion, OwnStream, FirstLineNext, SharedFields, Reading, Using
    <2> QED BY <1>1, <1>7, <2>2, <2>3 DEF Conversion
  <1> QED
    BY <1>1, <1>8, <1>9, <1>10 DEF ReadLine

\* What the last conversion's reader knows of the line it uses: the n-th line
\* of the output, so its number is n - 1, and only the first may be other text.
LEMMA LineUsed ==
  ASSUME GUITypes, FlowInv, UnmixedInv, ~mixed, clicks > 0,
         reader[clicks] \in {"first", "later"}
  PROVE  /\ ConvertProcess = clicks
         /\ (reader[clicks] = "first") <=> converter_firstline
         /\ \E n \in 1..sent[clicks] :
              /\ n <= Frames + 2
              /\ LineUpTo(n)
              /\ converter_firstline <=> n = 1
              /\ \/ line[clicks] = <<clicks, n - 1>>
                 \/ n = 1 /\ line[clicks] = <<clicks, Text>>
  <1>1. Conversion /\ reader[clicks] \in Using /\ reader[clicks] \in Reading
    BY DEF UnmixedInv, Using, Reading
  <1>2. ConvertProcess = clicks
    BY <1>1 DEF Conversion, OwnStream
  <1>3. (reader[clicks] = "first") <=> converter_firstline
    BY <1>1 DEF Conversion, SharedFields
  <1>4. PICK n \in 0..sent[clicks] : LineUpTo(n)
    BY <1>1 DEF Conversion
  <1>5. /\ n > 0 /\ line[clicks] = Script(clicks)[n]
        /\ converter_firstline <=> n = 1
    BY <1>1, <1>4 DEF LineUpTo
  <1>6. /\ clicks \in Conversions /\ sent[clicks] \in Nat
    BY CurrentTypes
  <1>7. /\ Len(Script(clicks)) \in 0..(Frames + 2)
        /\ \A k \in 1..Len(Script(clicks)) :
             \/ Script(clicks)[k] = <<clicks, k - 1>>
             \/ k = 1 /\ Script(clicks)[k] = <<clicks, Text>>
    BY <1>6, ScriptLines DEF GUITypes
  <1>8. sent[clicks] <= Len(Script(clicks))
    BY <1>5, <1>6 DEF FlowInv, PipeInOrder
  <1>9. n \in 1..Len(Script(clicks)) /\ n <= Frames + 2 /\ n \in 1..sent[clicks]
    BY <1>5, <1>6, <1>7, <1>8, GUIAssumption
  <1> QED BY <1>2, <1>3, <1>4, <1>5, <1>7, <1>9

\* The line is used: as the announcement, as a report, or as the end.
LEMMA UnmixedUse ==
  ASSUME GUITypes, FlowInv, UnmixedInv, clicks > 0,
         FirstLine(clicks) \/ LaterLine(clicks), ~mixed'
  PROVE  Alone' /\ Conversion'
  <1> DEFINE c == clicks
  <1> USE DEF viewVars, sharedVars, childVars
  <1>t. /\ c \in Conversions /\ sent[c] \in Nat
        /\ buffer[c] \in Seq(Lines) /\ pipe[c] \in Seq(Lines)
    BY CurrentTypes
  <1>1. /\ Alone /\ Conversion /\ ~mixed
        /\ UNCHANGED <<childVars, edt, clicks, ConvertProcess>>
        /\ reader[c] \in {"first", "later"}
    BY DEF UnmixedInv, FirstLine, LaterLine
  <1>2. ConvertProcess = c /\ ((reader[c] = "first") <=> converter_firstline)
    BY <1>1, LineUsed
  <1>3. PICK n \in 1..sent[c] :
          /\ n <= Frames + 2
          /\ LineUpTo(n)
          /\ converter_firstline => n = 1
          /\ line[c] = <<c, n - 1>> \/ (n = 1 /\ line[c] = <<c, Text>>)
    BY <1>1, LineUsed
  <1>4. PICK ok \in BOOLEAN : /\ NextLine(c, ok)
                              /\ FirstLine(c) => ok = IsNumber(line[c])
    <2>1. IsNumber(line[c]) \in BOOLEAN /\ (line[c][2] # Text) \in BOOLEAN
      BY DEF IsNumber
    <2> QED BY <1>1, <2>1 DEF FirstLine, LaterLine
  <1>5. /\ reader'[c] \in {"read", "sleep", "dead"}
        /\ ~ok => reader'[c] = "dead"
        /\ reader'[c] = "read" => stream'[c] = stream[c]
        /\ buffer'[c] \in {buffer[c], <<>>}
    BY <1>t, <1>4, NextLineEffect DEF GUITypes
  <1>6. Alone'
    <2>1. \A q \in Conversions : q # c =>
            /\ reader'[q] = reader[q] /\ stream'[q] = stream[q]
            /\ buffer'[q] = buffer[q]
      BY <1>t, RunIsLocal DEF Run, GUITypes
    <2> QED BY <1>1, <2>1 DEF Alone
  <1>7. OwnStream'
    <2>1. stream[c] = c
      BY <1>1 DEF Conversion, OwnStream, Reading, Using
    <2> QED BY <1>1, <1>2, <1>5, <2>1 DEF OwnStream, Reading, Using
  <1>8. /\ converter_firstline' => reader'[c] = "dead"
        /\ ~converter_firstline' => ClipFrameCountTotal' = <<c, 0>>
        /\ reader'[c] \notin Using
    <2>1. CASE FirstLine(c)
      <3>1. converter_firstline /\ n = 1
        BY <1>2, <1>3, <2>1 DEF FirstLine
      <3>2. CASE IsNumber(line[c])
        <4>1. line[c] = <<c, 0>>
          BY <1>3, <3>1, <3>2, GUIAssumption DEF IsNumber, Text
        <4> QED BY <1>5, <2>1, <3>2, <4>1 DEF FirstLine, Using
      <3>3. CASE ~IsNumber(line[c])
        BY <1>4, <1>5, <2>1, <3>1, <3>3 DEF FirstLine, Using
      <3> QED BY <3>2, <3>3
    <2>2. CASE LaterLine(c)
      BY <1>1, <1>2, <1>5, <2>2
      DEF LaterLine, Conversion, SharedFields, Using
    <2> QED BY <2>1, <2>2
  <1>9. FirstLineNext'
    BY <1>1, <1>8 DEF FirstLineNext
  <1>10. SharedFields'
    <2>1. conversion_complete' =>
            conversion_complete \/ sent[c] = Frames + 2
      <3>1. CASE FirstLine(c)
        BY <3>1 DEF FirstLine
      <3>2. CASE LaterLine(c) /\ line[c][2] = EndLine
        <4>1. n - 1 = Frames + 1
          BY <1>3, <3>2, GUIAssumption DEF EndLine, Text
        <4>2. sent[c] <= Frames + 2
          BY <1>t, GUIAssumption DEF GUITypes, TypeOK
        <4> QED BY <1>t, <1>3, <4>1, <4>2, GUIAssumption
      <3>3. CASE LaterLine(c) /\ line[c][2] # EndLine
        BY <3>3 DEF LaterLine
      <3> QED BY <3>1, <3>2, <3>3
    <2> QED BY <1>1, <1>5, <1>8, <2>1 DEF Conversion, SharedFields, Using
  <1>11. LineUpTo(n)'
    <2>1. Script(c)' = Script(c)
      BY <1>t, <1>1, SameScript
    <2>2. /\ n + Len(buffer[c]) + Len(pipe[c]) <= sent[c]
          /\ \A i \in 1..Len(buffer[c]) : buffer[c][i] = Script(c)[n + i]
          /\ ClipFrameCountConverted[1] = c =>
               ClipFrameCountConverted[2] + 2 <= n
      BY <1>1, <1>3 DEF LineUpTo, Using
    <2>3. /\ n + Len(buffer'[c]) + Len(pipe[c]) <= sent[c]
          /\ \A i \in 1..Len(buffer'[c]) : buffer'[c][i] = Script(c)[n + i]
      <3>1. CASE buffer'[c] = buffer[c]
        BY <2>2, <3>1
      <3>2. CASE buffer'[c] = <<>>
        <4>1. PICK b \in Nat, k \in Nat : b = Len(buffer[c]) /\ k = Len(pipe[c])
          BY <1>t
        <4>2. Len(buffer'[c]) = 0
          BY <3>2
        <4>3. n + 0 + k <= sent[c]
          <5>1. n + b + k <= sent[c]
            BY <2>2, <4>1
          <5> QED BY <1>t, <5>1
        <4>4. \A i \in 1..Len(buffer'[c]) : buffer'[c][i] = Script(c)[n + i]
          BY <4>2
        <4> QED BY <4>1, <4>2, <4>3, <4>4
      <3> QED BY <1>5, <3>1, <3>2
    <2>4. ClipFrameCountConverted'[1] = c =>
            ClipFrameCountConverted'[2] + 1 <= n
      <3>1. CASE ClipFrameCountConverted' = ClipFrameCountConverted
        BY <2>2, <3>1, LineNumbers DEF GUITypes, TypeOK
      <3>2. CASE ClipFrameCountConverted' = line[c] /\ IsNumber(line[c])
        BY <1>3, <3>2, GUIAssumption DEF IsNumber, Text
      <3> QED BY <3>1, <3>2 DEF FirstLine, LaterLine
    <2>5. n >= 1
      BY <1>t
    <2> QED BY <1>1, <1>8, <2>1, <2>3, <2>4, <2>5 DEF LineUpTo
  <1> QED
    BY <1>t, <1>1, <1>6, <1>7, <1>9, <1>10, <1>11 DEF Conversion

LEMMA UnmixedStep ==
  GUITypes /\ FlowInv /\ UnmixedInv /\ [Next]_vars => UnmixedInv'
  <1> SUFFICES ASSUME GUITypes, FlowInv, UnmixedInv, [Next]_vars
               PROVE  UnmixedInv'
    OBVIOUS
  <1>1. CASE Convert BY <1>1, UnmixedConvert
  <1>2. CASE RestOfConvert BY <1>2, UnmixedHandler
  <1>3. CASE Stop BY <1>3, UnmixedStop
  <1>4. CASE SelectSource \/ ConvertBadLimit \/ UNCHANGED vars
    <2>1. UNCHANGED <<sharedVars, edt, clicks, childVars, readerVars, mixed>>
      BY <1>4 DEF SelectSource, ConvertBadLimit, vars
    <2>2. clicks > 0 => Script(clicks)' = Script(clicks)
      BY <2>1, CurrentTypes, SameScript DEF childVars
    <2>3. Alone => Alone'
      BY <2>1 DEF Alone, childVars, readerVars
    <2>4. ASSUME clicks > 0, Conversion PROVE Conversion'
      <3>1. OwnStream' /\ FirstLineNext' /\ SharedFields'
        BY <2>1, <2>4
        DEF Conversion, OwnStream, FirstLineNext, SharedFields, sharedVars,
            childVars, readerVars
      <3>2. PICK n \in 0..sent[clicks] : LineUpTo(n)
        BY <2>4 DEF Conversion
      <3>3. LineUpTo(n)' /\ n \in 0..sent'[clicks']
        BY <2>1, <2>2, <2>4, <3>2
        DEF LineUpTo, sharedVars, childVars, readerVars
      <3> QED BY <3>1, <3>3 DEF Conversion
    <2> QED BY <2>1, <2>3, <2>4 DEF UnmixedInv
  <1>5. ASSUME NEW n \in Conversions, Process(n)
        PROVE  UnmixedInv'
    BY <1>5, UnmixedProcess
  <1>6. ASSUME NEW r \in Conversions, Run(r)
        PROVE  UnmixedInv'
    <2>1. CASE r # clicks
      BY <1>6, <2>1, UnmixedOtherReader
    <2>2. CASE r = clicks
      <3>1. clicks > 0
        BY <2>2, GUIAssumption DEF Conversions
      <3>2. \/ Test(clicks) \/ Open(clicks) \/ CheckFirstLine(clicks)
            \/ Sleep(clicks) \/ ReadLine(clicks)
            \/ FirstLine(clicks) \/ LaterLine(clicks)
        BY <1>6, <2>2 DEF Run
      <3>3. ~mixed' => Alone' /\ Conversion'
        BY <3>1, <3>2, UnmixedTurn, UnmixedRead, UnmixedUse
      <3> QED BY <3>3 DEF UnmixedInv
    <2> QED BY <2>1, <2>2
  <1> QED BY <1>1, <1>2, <1>3, <1>4, <1>5, <1>6 DEF Next, User

LEMMA ProgressInvariant == Spec => []ProgressInv
  <1>1. Init => ProgressInv
    BY GUITypesInit, FlowInit, UnmixedInit DEF ProgressInv
  <1>2. ProgressInv /\ [Next]_vars => ProgressInv'
    BY GUITypesStep, FlowStep, UnmixedStep DEF ProgressInv
  <1> QED BY <1>1, <1>2, PTL DEF Spec

\* When no conversion can see the output of another, the fields the threads
\* share tell of the current one: the total is the number its movie2dng has
\* announced, and it is complete only when that has written its last line.
THEOREM ProgressOfCurrent == Spec => []ProgressIsCurrent
  <1>1. ProgressInv => ProgressIsCurrent
    <2> SUFFICES ASSUME ProgressInv, ~mixed, edt = "idle", ConvertProcess # Null
                 PROVE  /\ ~converter_firstline =>
                             ClipFrameCountTotal = <<ConvertProcess, 0>>
                        /\ conversion_complete =>
                             sent[ConvertProcess] = Frames + 2
      BY DEF ProgressIsCurrent
    <2>1. ConvertProcess = clicks
      BY DEF ProgressInv, FlowInv, CurrentProcess, Started
    <2>2. clicks > 0
      BY <2>1, GUIAssumption DEF ProgressInv, GUITypes, TypeOK, Null
    <2> QED BY <2>1, <2>2 DEF ProgressInv, UnmixedInv, Conversion, SharedFields
  <1> QED BY <1>1, ProgressInvariant, PTL

\* Under the same condition a report that reaches the progress bar is of the
\* current conversion, is no announcement, and is later than the one before.
THEOREM ProgressNeverBack == Spec => ProgressGoesOn
  <1> DEFINE old == ClipFrameCountConverted
             new == ClipFrameCountConverted'
             Forward == ~mixed' /\ new # old =>
                          /\ new[1] = ConvertProcess
                          /\ new[2] > 0
                          /\ old[1] = new[1] => old[2] < new[2]
  <1>1. ProgressInv /\ [Next]_vars => [Forward]_vars
    <2> SUFFICES ASSUME ProgressInv, Next, ~mixed', new # old
                 PROVE  /\ new[1] = ConvertProcess
                        /\ new[2] > 0
                        /\ old[1] = new[1] => old[2] < new[2]
      BY DEF vars, sharedVars
    <2>1. PICK r \in Conversions : LaterLine(r)
      BY DEF Next, User, SelectSource, Convert, ConvertBadLimit, Stop,
             RestOfConvert, ResetComplete, ForgetProcess, Exec, StartReader,
             Process, Write, Exit, Run, Test, Open, ReadLine, CheckFirstLine,
             FirstLine, LaterLine, Sleep, vars, sharedVars
    <2>2. /\ ~mixed /\ new = line[r] /\ IsNumber(line[r])
          /\ reader[r] = "later"
      BY <2>1 DEF LaterLine
    <2>3. r = clicks /\ clicks > 0
      <3>1. Alone
        BY <2>2 DEF ProgressInv, UnmixedInv
      <3> QED BY <2>2, <3>1, GUIAssumption DEF Alone, Using, Conversions
    <2>4. /\ ConvertProcess = clicks
          /\ ~converter_firstline
      BY <2>2, <2>3, LineUsed DEF ProgressInv
    <2>5. PICK n \in 1..sent[clicks] :
            /\ LineUpTo(n) /\ n # 1
            /\ line[clicks] = <<clicks, n - 1>>
      <3>1. PICK n \in 1..sent[clicks] :
              /\ LineUpTo(n)
              /\ converter_firstline <=> n = 1
              /\ \/ line[clicks] = <<clicks, n - 1>>
                 \/ n = 1 /\ line[clicks] = <<clicks, Text>>
        BY <2>2, <2>3, LineUsed DEF ProgressInv
      <3> QED BY <2>4, <3>1
    <2>6. old[1] = clicks => old[2] + 2 <= n
      BY <2>2, <2>3, <2>5 DEF LineUpTo, Using
    <2>7. new[1] = clicks /\ new[2] = n - 1
      BY <2>2, <2>3, <2>5
    <2>8. old[2] \in Int
      BY LineNumbers DEF ProgressInv, GUITypes, TypeOK
    <2> QED BY <2>4, <2>5, <2>6, <2>7, <2>8
  <1> QED BY <1>1, ProgressInvariant, PTL DEF Spec, ProgressGoesOn
=============================================================================

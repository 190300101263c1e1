------------------------------- MODULE MCTools -------------------------------
(***************************************************************************)
(* The command line of movie2dng and the programs that call it, for TLC:   *)
(* the parts of them that do not share state in one run.  One part, chosen *)
(* at first, takes its steps; the others are at rest.                      *)
(***************************************************************************)
EXTENDS CommandLine, GUICommand, JP4Proxy, BatchProcess

VARIABLE part

MovWord  == Word(<<"clip.mov">>, 0, FALSE, FALSE, 0)
ShotWord == Word(<<"shot.jp4">>, 0, FALSE, TRUE, 0)
Dash     == Word(<<"-">>, 0, TRUE, FALSE, 0)
DestWord == Word(<<"frame-%05d">>, 0, FALSE, FALSE, 1)
Two      == Word(<<"2">>, 2, FALSE, FALSE, 0)
Many     == Word(<<"999">>, 999, FALSE, FALSE, 0)

(* Each kind of word and of option, and values that are allowed and not.     *)
MCArguments ==
  {Bare(w) : w \in {MovWord, ShotWord, Dash, DestWord}} \cup
  {Opt(o) : o \in {"dng", "pgm", "jpeg", "jp4", "stdout", "frames"}} \cup
  {OptIs("shift", Two), OptIs("jpeg-quality", Many), OptIs("gui", Two),
   OptIs("frames", Two), Opt("help")}

Entry(dir, name, isDir, ext, spaced) ==
  [dir |-> dir, name |-> name, isDir |-> isDir, ext |-> ext, spaced |-> spaced]

(* A clip, one with a blank in its name, and two directories, one of them    *)
(* with a dot in its name.                                                   *)
MCSources == {Entry(<<"film">>, "clip", FALSE, TRUE, FALSE),
              Entry(<<"film">>, "my clip", FALSE, TRUE, TRUE),
              Entry(<<"film">>, "old", TRUE, FALSE, FALSE),
              Entry(<<"film">>, "old.d", TRUE, TRUE, FALSE)}

MCDirectories == {<<"film">>, <<"out">>, <<"out", "day1">>}

MCFieldTexts == {NoWord, Two}
MCShifts == {-1, 2}

(* Results and trailing data on either side of what a pipe holds.            *)
MCOutSizes == 1..(2 * Capacity)
MCTrailing == 0..(Capacity + 1)

Chars(text) == [i \in 1..Len(text) |-> SubSeq(text, i, i)]

(* A clip and a copy of it, whose folder gets the name of the clip; a clip,  *)
(* and one with a blank, whose first word is the folder of the clip; names   *)
(* that begin with ".mov", or whose last four characters are no extension.   *)
MCStocks == {{Chars(text) : text \in texts} :
  texts \in {{"a.mov", "a.mov.bak"}, {"a.mov", "a b.mov"},
             {".mov", "a.mov.x"}}}

-----------------------------------------------------------------------------

(* A part at rest: before its first step or, where it has to come to an end, *)
(* after the camera could not be reached.                                    *)
MainRests     == argv = <<>> /\ MainFresh
ProxyRests    == /\ arriving = Image /\ outSize = 1 /\ proxyPc = "failed"
                 /\ copied = 0 /\ output = 0
                 /\ stdin = 0 /\ stdinOpen = TRUE /\ stdout = 0
                 /\ child = "none" /\ taken = 0 /\ written = 0
BatchRests    == extracts = TRUE /\ given = {} /\ BatchFresh

Init ==
  /\ part \in {"main", "settings", "proxy", "batch"}
  /\ IF part = "main"  THEN MainInit  ELSE MainRests
  /\ SettingsInit
  /\ IF part = "proxy" THEN ProxyInit ELSE ProxyRests
  /\ IF part = "batch" THEN BatchInit ELSE BatchRests

Next ==
  /\ UNCHANGED part
  /\ \/ /\ part = "main" /\ MainNext
        /\ UNCHANGED <<settingsVars, proxyAllVars, batchVars>>
     \/ /\ part = "settings" /\ SettingsNext
        /\ UNCHANGED <<mainVars, proxyAllVars, batchVars>>
     \/ /\ part = "proxy" /\ ProxyNext
        /\ UNCHANGED <<mainVars, settingsVars, batchVars>>
     \/ /\ part = "batch" /\ BatchNext
        /\ UNCHANGED <<mainVars, settingsVars, proxyAllVars>>

vars == <<part, mainVars, settingsVars, proxyAllVars, batchVars>>

Spec ==
  /\ Init /\ [][Next]_vars
  /\ WF_proxyAllVars(Script) /\ WF_proxyAllVars(Child)
=============================================================================

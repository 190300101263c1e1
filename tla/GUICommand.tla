----------------------------- MODULE GUICommand -----------------------------
(***************************************************************************)
(* The settings of src/Movie2DNGGUI/.../Movie2DNGGUIView.java and the      *)
(* command line that UpdateCommand builds from them after each change,     *)
(* read back with movie2dng's own option parser.  Runtime.exec cuts the    *)
(* line at the blanks, as many as there are.                               *)
(***************************************************************************)
EXTENDS OptionParser, SequencesExt

CONSTANTS
  Sources,      \* what can be chosen in the file chooser: records
                \* [dir, name, isDir, ext, spaced]
  Directories,  \* the directories to choose as destination: paths
  FieldTexts,   \* numbers typed into the frame limit, NoWord among them
  Boxes,        \* the formats whose check boxes are tried, of all four
  Shifts        \* the entries of the Bayer shift list tried; -1: autodetect

\* The window has four check boxes and five entries in the list.
ASSUME GUICommandAssumption ==
  /\ Boxes \subseteq Formats
  /\ Shifts \subseteq -1..3

NoSource ==
  [dir |-> <<>>, name |-> "", isDir |-> FALSE, ext |-> FALSE, spaced |-> FALSE]

VARIABLES
  settings,     \* the check boxes, radio buttons, list and field
  source,       \* SourcePath, SourceFilename and DestinationPath
  DestinationCustomPath,
  fc,           \* what the file chooser shared by both buttons lets choose
  command       \* the text Convert executes, as the arguments exec makes of it

settingsVars == <<settings, source, DestinationCustomPath, fc, command>>

SettingsInit ==
  /\ settings = [formats |-> {"dng"}, shift |-> -1, limited |-> FALSE,
                 field |-> NoWord, dest |-> "same"]
  /\ source = NoSource
  /\ DestinationCustomPath = <<>>
  /\ fc = "files"
  /\ command = <<>>

-----------------------------------------------------------------------------
(* UpdateCommand. *)

PathWord(path) == Word(path, 0, FALSE, FALSE, 0)
PathOf(src) == Append(src.dir, src.name)

\* replaceAll(" ", "\\ ") leaves a blank as it is; exec cuts the path there.
Words(path, spaced) ==
  IF spaced THEN <<Bare(PathWord(Append(path, "1st part"))),
                   Bare(PathWord(Append(path, "2nd part")))>>
            ELSE <<Bare(PathWord(path))>>

\* The frames go beside the clip, or to a folder of its name, or elsewhere.
DestPath(s, src, custom) ==
  CASE s.dest = "same" -> src.dir \o <<src.name \o "_NNNNN">>
    [] s.dest = "subfolder" -> src.dir \o <<src.name, src.name \o "_NNNNN">>
    [] s.dest = "different" -> custom \o <<src.name \o "_NNNNN">>

CommandFor(s, src, custom) ==
  <<Opt("gui")>>
  \o SetToSeq({Opt(f) : f \in s.formats})
  \o (IF s.shift = -1 THEN <<>>
      ELSE <<OptIs("shift", Word(<<"n">>, s.shift, FALSE, FALSE, 0))>>)
  \o (IF ~s.limited THEN <<>>
      ELSE <<Opt("frames")>> \o (IF s.field = NoWord THEN <<>>
                                 ELSE <<Bare(s.field)>>))
  \o (IF src = NoSource THEN <<>>
      ELSE Words(PathOf(src), src.spaced)
           \o Words(DestPath(s, src, custom), src.spaced))

\* substring(0, lastIndexOf('.')) throws when the name has no dot, and the
\* handler ends with the old text in place.
UpdateCommand(s, src, custom) ==
  IF src # NoSource /\ ~src.ext
  THEN UNCHANGED command
  ELSE command' = CommandFor(s, src, custom)

-----------------------------------------------------------------------------
(* The handlers.  The settings are enabled once a source is selected; the    *)
(* two buttons are mouse listeners, which are called in any case.            *)

SelectSource ==
  \E src \in Sources :
    /\ src.isDir = (fc = "directories")
    /\ source' = src
    /\ DestinationCustomPath' = src.dir
    /\ UpdateCommand(settings, src, src.dir)
    /\ UNCHANGED <<settings, fc>>

\* Approved or not, the chooser stays as this handler sets it.  Of the path
\* chosen the part up to the last separator is taken.
SelectDestination ==
  /\ fc' = "directories"
  /\ \/ UNCHANGED <<DestinationCustomPath, command>>
     \/ \E d \in Directories :
          /\ DestinationCustomPath' = Front(d)
          /\ UpdateCommand(settings, source, Front(d))
  /\ UNCHANGED <<settings, source>>

\* Mutant: the radio buttons of the destination change nothing but themselves.
ChangeSilently(s) ==
  /\ source # NoSource
  /\ settings' = s
  /\ IF s.dest = settings.dest
     THEN UpdateCommand(s, source, DestinationCustomPath)
     ELSE UNCHANGED command
  /\ UNCHANGED <<source, DestinationCustomPath, fc>>

Change(s) ==
  /\ source # NoSource
  /\ settings' = s
  /\ UpdateCommand(s, source, DestinationCustomPath)
  /\ UNCHANGED <<source, DestinationCustomPath, fc>>

\* CreateDNGs, CreatePGMs, CreateJPEGs and keepJP4s.
ToggleFormat ==
  \E f \in Boxes :
    Change([settings EXCEPT
              !.formats = IF f \in @ THEN @ \ {f} ELSE @ \cup {f}])

\* SameAsSource, subfolders and DifferentFolder.
ChooseDestination ==
  \E d \in {"same", "subfolder", "different"} :
    Change([settings EXCEPT !.dest = d])

BayerShift == \E n \in Shifts : Change([settings EXCEPT !.shift = n])

FrameLimiter == \E b \in BOOLEAN : Change([settings EXCEPT !.limited = b])

\* The handlers of the field do nothing when it is empty.
EditField ==
  /\ settings.limited
  /\ \E text \in FieldTexts :
       IF text = NoWord
       THEN /\ settings' = [settings EXCEPT !.field = text]
            /\ UNCHANGED <<source, DestinationCustomPath, fc, command>>
       ELSE Change([settings EXCEPT !.field = text])

SettingsNext ==
  \/ SelectSource \/ SelectDestination
  \/ ToggleFormat \/ ChooseDestination \/ BayerShift
  \/ FrameLimiter \/ EditField

SettingsSpec == SettingsInit /\ [][SettingsNext]_settingsVars

-----------------------------------------------------------------------------
(* Properties. *)

\* What movie2dng makes of the command when Convert is pressed.
Run == Complete(FoldLeft(GetOpt, NoOptions, command))

FieldFilled == settings.limited => settings.field # NoWord

\* movie2dng reads from the command exactly what the window shows, after any
\* sequence of handlers: the handlers that return early or fail in the middle
\* leave no other command behind than the one for an empty field or a source
\* without extension.
CommandMeansSettings ==
  source # NoSource /\ source.ext /\ ~source.spaced /\ FieldFilled =>
    /\ Run.exit = IF settings.formats = {} THEN "usage" ELSE "no"
    /\ Run.formats = settings.formats
    /\ Run.values["shift"] = settings.shift
    /\ Run.values["frames"] =
         IF settings.limited THEN settings.field.atoi ELSE 0
    /\ Run.args = <<PathWord(PathOf(source)),
                    PathWord(DestPath(settings, source,
                                      DestinationCustomPath))>>
=============================================================================

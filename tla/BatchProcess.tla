---------------------------- MODULE BatchProcess ----------------------------
(***************************************************************************)
(* src/BatchProcess/process.php: it walks over the directory it works in,  *)
(* moves each clip into a folder of its own and has movie2dng and          *)
(* elphel_dng make DNG files of its frames.  Commands run through a shell, *)
(* which cuts the names pasted into them at their blanks, and nobody looks *)
(* at their exit status: mkdir, movie2dng and elphel_dng may fail.  The    *)
(* script may be killed and started again.                                 *)
(***************************************************************************)
EXTENDS Integers, SequencesExt

CONSTANTS
  Stocks,     \* for each directory, the names of the clips in it at first:
              \* sequences of characters
  Frames,     \* numbers of the frames of a clip, each taken for a character
  MaxRuns     \* bound: starts of the script

ASSUME BatchProcessAssumption ==
  UNION Stocks \subseteq Seq(STRING) /\ Frames \subseteq STRING \ {" "}

VARIABLES
  extracts,  \* movie2dng takes a command line without a format; never changes
  fs,        \* for a path, what is there
  given,     \* history: clips put into the directory
  extracted, \* history: frames movie2dng has written
  allMade,   \* history: elphel_dng has not failed for a frame yet
  runs, batchPc,
  listed,    \* names readdir has returned
  present,   \* names that have been there since opendir
  file       \* the clip being worked on

batchVars == <<extracts, fs, given, extracted, allMade, runs, batchPc, listed,
               present, file>>

Dir == [kind |-> "dir"]
Clip(id) == [kind |-> "clip", id |-> id]
Frame(kind, id, k) == [kind |-> kind, id |-> id, k |-> k]

\* Paths are sequences of names.
At(p)    == IF p \in DOMAIN fs THEN fs[p].kind ELSE "none"
Below(p) == {q \in DOMAIN fs : IsPrefix(p, q)}
Top      == {p[1] : p \in {q \in DOMAIN fs : Len(q) = 1}}

Added(nodes)   == [p \in (DOMAIN fs) \cup (DOMAIN nodes) |->
                     IF p \in DOMAIN nodes THEN nodes[p] ELSE fs[p]]
Removed(paths) == [p \in (DOMAIN fs) \ paths |-> fs[p]]

BatchFresh ==
  /\ fs = [p \in {<<id[1]>> : id \in given} |-> Clip(<<p[1], 1>>)]
  /\ extracted = {} /\ allMade = TRUE /\ runs = 0 /\ batchPc = "idle"
  /\ listed = {} /\ present = {} /\ file = << >>

\* movie2dng wrote the frames without being told a format once; now it prints
\* its help and exits.
BatchInit ==
  /\ extracts \in BOOLEAN
  /\ \E names \in Stocks : given = {<<n, 1>> : n \in names}
  /\ BatchFresh

-----------------------------------------------------------------------------
(* The walk over the directory. *)

\* strpos finds ".mov" anywhere, but its 0 for the first place counts as false.
Finds(name, i) == SubSeq(name, i, i + 3) = <<".", "m", "o", "v">>
IsMovie(name) == /\ \E i \in 2..(Len(name) - 3) : Finds(name, i)
                 /\ ~Finds(name, 1)

\* substr takes the last four characters away, whatever they are.
Folder(name) == SubSeq(name, 1, Len(name) - 4)
dir_name == Folder(file)

StartBatch ==
  /\ batchPc \in {"idle", "killed"} /\ runs < MaxRuns
  /\ runs' = runs + 1
  /\ listed' = {} /\ present' = Top
  /\ batchPc' = "readdir"
  /\ UNCHANGED <<extracts, fs, given, extracted, allMade, file>>

\* A name that came or went since opendir may be returned or not.
ReadDir ==
  /\ batchPc = "readdir"
  /\ \E name \in (present \cup Top) \ listed :
       /\ listed' = listed \cup {name}
       /\ IF IsMovie(name) THEN file' = name /\ batchPc' = "mkdir"
                           ELSE UNCHANGED <<file, batchPc>>
  /\ UNCHANGED <<extracts, fs, given, extracted, allMade, runs, present>>

EndOfDir ==
  /\ batchPc = "readdir"
  /\ present \cap Top \subseteq listed
  /\ batchPc' = "idle"
  /\ UNCHANGED <<extracts, fs, given, extracted, allMade, runs, listed,
                 present, file>>

-----------------------------------------------------------------------------
(* What the shell makes of names that are pasted into a command. *)

Blanks(name) == {i \in DOMAIN name : name[i] = " "}

\* A blank ends a word.
Pieces(name) ==
  LET ends    == SetToSortSeq(Blanks(name) \cup {Len(name) + 1}, <)
      from(i) == IF i = 1 THEN 1 ELSE ends[i - 1] + 1
  IN  IF Blanks(name) = {}
      THEN <<name>>
      ELSE [i \in DOMAIN ends |-> SubSeq(name, from(i), ends[i] - 1)]

\* The arguments "name" and "dir/name" become.
Alone(name) == [i \in DOMAIN Pieces(name) |-> <<Pieces(name)[i]>>]
Pasted(dir, name) ==
  LET d == Pieces(dir)
      w == Pieces(name)
  IN  [i \in 1..(Len(d) + Len(w) - 1) |->
         CASE i < Len(d) -> <<d[i]>>
           [] i = Len(d) -> <<d[i], w[1]>>
           [] OTHER      -> <<w[i - Len(d) + 1]>>]

\* mv puts what was at s, and all below it, into dir.  It replaces a file by a
\* file and an empty directory by a directory.
CanMove(s, dir) ==
  LET to == Append(dir, Last(s))
  IN  /\ At(dir) = "dir" /\ At(s) # "none" /\ ~IsPrefix(s, dir)
      /\ \/ At(to) = "none"
         \/ At(s) # "dir" /\ At(to) # "dir"
         \/ At(s) = "dir" /\ At(to) = "dir" /\ Below(to) = {to}

\* What an argument stands for is a set of paths; of two things with the same
\* name the first that can be moved stays.
Moving(args, dir) ==
  {s \in UNION Range(args) : CanMove(s, dir) /\ \E i \in DOMAIN args :
     /\ s \in args[i]
     /\ \A j \in 1..(i - 1) : \A t \in args[j] :
          Last(t) = Last(s) => t = s \/ ~CanMove(t, dir)}

Arrives(s, dir, q) == dir \o SubSeq(q, Len(s), Len(q))

MovedInto(S, dir) ==
  LET old == UNION {Below(s) : s \in S}
      new == UNION {{Arrives(s, dir, q) : q \in Below(s)} : s \in S}
  IN  [p \in (DOMAIN fs \ old) \cup new |->
         IF p \in new
         THEN fs[CHOOSE q \in old :
                   \E s \in S : q \in Below(s) /\ Arrives(s, dir, q) = p]
         ELSE fs[p]]

Each(paths) == [i \in DOMAIN paths |-> {paths[i]}]

-----------------------------------------------------------------------------
(* One clip. *)

Continue(label) ==
  /\ batchPc' = label
  /\ UNCHANGED <<extracts, given, runs, listed, present, file>>

MakeFolder ==
  /\ batchPc = "mkdir"
  /\ \/ At(<<dir_name>>) = "none" /\ fs' = Added([p \in {<<dir_name>>} |-> Dir])
     \/ UNCHANGED fs
  /\ Continue("mv")
  /\ UNCHANGED <<extracted, allMade>>

\* mv FILE DIR/, where the last argument is the directory.
MoveClip ==
  /\ batchPc = "mv"
  /\ LET folder == Alone(dir_name)
         dir    == Last(folder)
     IN  fs' = MovedInto(Moving(Each(Alone(file) \o Front(folder)), dir), dir)
  /\ Continue("subfolders")
  /\ UNCHANGED <<extracted, allMade>>

Jp4s == <<"j", "p", "4", "s">>
Dngs == <<"d", "n", "g", "s">>

\* mkdir for a folder that file_exists does not find.
MakeSubfolders ==
  /\ batchPc = "subfolders"
  /\ LET asked == UNION {Range(Pasted(dir_name, sub)) :
                          sub \in {x \in {Jp4s, Dngs} : At(<<dir_name, x>>) # "dir"}}
     IN  \E S \in SUBSET {q \in asked : At(q) = "none"} :
           fs' = Added([p \in {q \in S : \/ Len(q) = 1
                                        \/ At(Front(q)) = "dir"
                                        \/ Front(q) \in S} |-> Dir])
  /\ Continue("extract")
  /\ UNCHANGED <<extracted, allMade>>

FrameName(name, k) == name \o <<"-", k, ".", "j", "p", "g">>

\* movie2dng SOURCE DEST, the first two arguments.  Where DEST is not the
\* pattern all frames go to one file.
clip == Pasted(dir_name, file)
FramePath(k) ==
  IF Len(clip) = 1 THEN <<dir_name, FrameName(file, k)>> ELSE clip[2]
Writable(p) == At(p) # "dir" /\ (Len(p) = 1 \/ At(Front(p)) = "dir")

Extract ==
  /\ batchPc = "extract"
  /\ \E S \in SUBSET {k \in Frames : Writable(FramePath(k))} :
       IF extracts /\ At(clip[1]) = "clip"
       THEN LET id == fs[clip[1]].id
            IN  /\ fs' = Added([p \in {FramePath(k) : k \in S} |->
                    Frame("jp4", id, CHOOSE k \in S : FramePath(k) = p)])
                /\ extracted' = extracted \cup {<<id, k>> : k \in S}
       ELSE UNCHANGED <<fs, extracted>>
  /\ Continue("collect")
  /\ UNCHANGED allMade

\* What the last argument stands for once "*.jpg" is pasted to it.
Matches(arg) ==
  {p \in DOMAIN fs :
     /\ Len(p) = Len(arg) /\ Front(p) = Front(arg)
     /\ Len(Last(p)) >= Len(Last(arg)) + 4
     /\ IsPrefix(Last(arg), Last(p)) /\ IsSuffix(<<".", "j", "p", "g">>, Last(p))}

\* mv DIR/FILE*.jpg DIR/jp4s/.
Collect ==
  /\ batchPc = "collect"
  /\ LET folder == Pasted(dir_name, Jp4s)
         args   == Append(Each(Front(clip)), Matches(Last(clip)))
                     \o Each(Front(folder))
     IN  fs' = MovedInto(Moving(args, Last(folder)), Last(folder))
  /\ Continue("convert")
  /\ UNCHANGED <<extracted, allMade>>

jp4s == <<dir_name, Jp4s>>
dngs == <<dir_name, Dngs>>

\* opendir and readdir take the path as it is.
Listed == {p \in DOMAIN fs : /\ Len(p) = 3 /\ IsPrefix(jp4s, p)
                             /\ fs[p].kind = "jp4"}

\* Mutant: one file only.
ToConvertFirst == IF Listed = {} THEN {} ELSE {CHOOSE p \in Listed : TRUE}

ToConvert == Listed

\* elphel_dng for each frame in jp4s/.
Convert ==
  /\ batchPc = "convert"
  /\ \E S \in SUBSET ToConvert :
       /\ allMade' = (allMade /\ S = ToConvert /\ (S = {} \/ At(dngs) = "dir"))
       /\ fs' = IF At(dngs) = "dir"
                THEN Added([p \in {Append(dngs, q[3]) : q \in S} |->
                              [fs[Append(jp4s, p[3])] EXCEPT !.kind = "dng"]])
                ELSE fs
  /\ Continue("remove")
  /\ UNCHANGED extracted

\* rm -r of all that "DIR/jp4s/" becomes.
ToRemoveAll == UNION {Below(p) : p \in Range(Pasted(dir_name, Jp4s))}

\* Mutant: the clip that was converted, too.
ToRemoveClip == ToRemoveAll \cup {<<dir_name, file>>}

ToRemove == ToRemoveAll

RemoveFrames ==
  /\ batchPc = "remove"
  /\ fs' = Removed(ToRemove)
  /\ Continue("readdir")
  /\ UNCHANGED <<extracted, allMade>>

Kill ==
  /\ batchPc \notin {"idle", "killed"}
  /\ batchPc' = "killed"
  /\ UNCHANGED <<extracts, fs, given, extracted, allMade, runs, listed,
                 present, file>>

\* Between two runs the user puts another clip into the directory, with the
\* name of one that was moved away.
NewClip ==
  /\ batchPc \in {"idle", "killed"} /\ runs > 0
  /\ \E n \in {id[1] : id \in given} \ Top :
       /\ <<n, 2>> \notin given
       /\ given' = given \cup {<<n, 2>>}
       /\ fs' = Added([p \in {<<n>>} |-> Clip(<<n, 2>>)])
  /\ UNCHANGED <<extracts, extracted, allMade, runs, batchPc, listed, present,
                 file>>

BatchNext ==
  \/ StartBatch \/ ReadDir \/ EndOfDir
  \/ MakeFolder \/ MoveClip \/ MakeSubfolders \/ Extract \/ Collect \/ Convert
  \/ RemoveFrames
  \/ Kill \/ NewClip

BatchSpec == BatchInit /\ [][BatchNext]_batchVars

-----------------------------------------------------------------------------
(* Properties. *)

Nodes == {fs[p] : p \in DOMAIN fs}

\* No clip has come later under the same name.
Newest(id) == <<id[1], id[2] + 1>> \notin given

\* No clip has a blank in its name.
Unspaced == \A id \in given : Blanks(id[1]) = {}

\* Whatever fails or is killed, and whatever names without a blank the clips
\* have, the last clip of a name is not lost: moving, making and removing
\* folders go past it.  A DNG file lies in the folder of a clip with the name
\* of the one it was made from.
LastClipKept ==
  Unspaced =>
    /\ \A id \in given : Newest(id) => Clip(id) \in Nodes
    /\ \A p \in DOMAIN fs : fs[p].kind = "dng" =>
         \E q \in DOMAIN fs : /\ fs[q].kind = "clip" /\ fs[q].id[1] = fs[p].id[1]
                              /\ Front(q) = Front(Front(p))

\* "convert each jpeg from the jp4s/ directory to a dng into dngs/" and only
\* then "remove the jp4s/ folder" (Readme.txt:17): as long as elphel_dng does
\* not fail and no name has a blank, a frame that was extracted stays, as it is
\* or converted, until a clip of the same name comes.
FramesKept ==
  Unspaced /\ allMade => \A f \in extracted : Newest(f[1]) =>
    \E kind \in {"jp4", "dng"} : Frame(kind, f[1], f[2]) \in Nodes

\* "remove the jp4s/ folder" (Readme.txt:18): the script takes nothing else
\* away.
OnlyJp4sRemoved ==
  [][batchPc = "remove" =>
       \A p \in DOMAIN fs \ DOMAIN fs' : IsPrefix(jp4s, p)]_batchVars
=============================================================================

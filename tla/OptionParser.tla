---------------------------- MODULE OptionParser ----------------------------
(***************************************************************************)
(* The getopt_long loop of main() in src/Movie2DNG/src/movie2dng.cpp, one  *)
(* argument at a time.  An argument is an option, an option with =value, or *)
(* a word; the words stay in order wherever they stand (getopt moves them  *)
(* to the end).  An option that takes a value and has no =value takes the  *)
(* next argument, whatever that is.                                        *)
(***************************************************************************)
EXTENDS Integers, Sequences, FiniteSets

Formats == {"jp4", "jpeg", "dng", "pgm"}
Flags == Formats \cup {"stdout", "gui", "help", "version"}
Valued == {"frames", "start", "count-start", "shift", "jpeg-quality"}

\* A word: its text, as a path of names, what atoi makes of it, whether it is
\* "-", whether ".jp4" is in it, and how many conversions printf finds in it.
Word(text, atoi, stdin, jp4, conversions) ==
  [text |-> text, atoi |-> atoi, stdin |-> stdin, jp4 |-> jp4,
   conversions |-> conversions]

NoWord == Word(<<>>, 0, FALSE, FALSE, 0)

\* The arguments "word", "--opt" and "--opt=word".
Bare(word) == [opt |-> "", word |-> word]
Opt(o) == [opt |-> o, word |-> NoWord]
OptIs(o, word) == [opt |-> o, word |-> word]

\* exit is how main() ends in the loop, or "no"; need is the option that waits
\* for its value, or "".
NoOptions ==
  [exit |-> "no", need |-> "", formats |-> {}, flags |-> {}, args |-> <<>>,
   values |-> [o \in Valued |-> CASE o = "jpeg-quality" -> 100
                                  [] o \in {"shift", "count-start"} -> -1
                                  [] OTHER -> 0]]

Exit(p, how) == [p EXCEPT !.exit = how]

Allowed(o, v) ==
  /\ o = "shift" => v \in 0..3
  /\ o = "jpeg-quality" => v \in 1..100

SetValue(p, o, v) ==
  LET set == [p EXCEPT !.need = "", !.values[o] = v]
  IN  IF Allowed(o, v) THEN set ELSE Exit(set, "wrong value")

\* Mutant: the value of an option stays among the words.
TakeValueTwice(p, argument) ==
  [SetValue(p, p.need, argument.word.atoi) EXCEPT
     !.args = Append(@, argument.word)]

\* What follows the option is its value; atoi makes 0 of another option.
TakeValue(p, argument) ==
  SetValue(p, p.need, IF argument.opt = "" THEN argument.word.atoi ELSE 0)

SetFlag(p, o) ==
  CASE o \in Formats -> [p EXCEPT !.formats = @ \cup {o}]
    [] o \in {"stdout", "gui"} -> [p EXCEPT !.flags = @ \cup {o}]
    [] OTHER -> Exit(p, "help")

Option(p, o, word) ==
  CASE o \in Flags /\ word = NoWord -> SetFlag(p, o)
    [] o \in Valued /\ word # NoWord -> SetValue(p, o, word.atoi)
    [] o \in Valued /\ word = NoWord -> [p EXCEPT !.need = o]
    [] OTHER -> Exit(p, "unknown")

GetOpt(p, argument) ==
  CASE p.exit # "no" -> p
    [] p.exit = "no" /\ p.need # "" -> TakeValue(p, argument)
    [] p.exit = "no" /\ p.need = "" /\ argument.opt = "" ->
         [p EXCEPT !.args = Append(@, argument.word)]
    [] OTHER -> Option(p, argument.opt, argument.word)

\* After the last argument: a missing value, source or format.
Complete(p) ==
  IF p.exit = "no" /\ (p.need # "" \/ p.args = <<>> \/ p.formats = {})
  THEN Exit(p, IF p.need # "" THEN "unknown" ELSE "usage")
  ELSE p
=============================================================================

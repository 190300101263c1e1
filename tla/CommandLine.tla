----------------------------- MODULE CommandLine -----------------------------
(***************************************************************************)
(* main() of src/Movie2DNG/src/movie2dng.cpp up to the conversion itself:  *)
(* it reads its options, finds out whether the source is a movie or one    *)
(* image, chooses the names of the output files, makes the directory for   *)
(* them, and converts the image.  Movie2DNG takes over for a movie.        *)
(***************************************************************************)
EXTENDS OptionParser

CONSTANTS Arguments, MaxArguments  \* the command lines tried, bounded

ASSUME CommandLineAssumption ==
  /\ Arguments \subseteq
       [opt : STRING,
        word : [text : Seq(STRING), atoi : Int, stdin : BOOLEAN,
                jp4 : BOOLEAN, conversions : Nat]]
  /\ MaxArguments \in Nat

VARIABLES
  argv, optind,  \* the command line, and the argument that is read next
  options,       \* what the options read so far say
  mainPc,
  frameName      \* "unset", "source" (made from its path) or "dest"

mainVars == <<argv, optind, options, mainPc, frameName>>

Source == options.args[1]
IsImage == Source.jp4 \/ Source.stdin
ToStdout == "stdout" \in options.flags

MainFresh ==
  /\ optind = 1
  /\ options = NoOptions
  /\ mainPc = "options"
  /\ frameName = "unset"

MainInit ==
  /\ argv \in UNION {[1..n -> Arguments] : n \in 0..MaxArguments}
  /\ MainFresh

MainGoto(label) == mainPc' = label

NextArgument ==
  /\ mainPc = "options"
  /\ options.exit = "no" /\ optind <= Len(argv)
  /\ options' = GetOpt(options, argv[optind])
  /\ optind' = optind + 1
  /\ UNCHANGED <<argv, mainPc, frameName>>

CheckUsage ==
  /\ mainPc = "options"
  /\ options.exit # "no" \/ optind > Len(argv)
  /\ options' = Complete(options)
  /\ MainGoto(IF options'.exit = "no" THEN "name" ELSE "exit")
  /\ UNCHANGED <<argv, optind, frameName>>

\* "use sourceFilename without extension as frame name": main() makes a
\* directory of that name, or finds one, or exits.
ChooseName ==
  /\ mainPc = "name"
  /\ \/ /\ Len(options.args) = 1 /\ ~Source.jp4 /\ ~ToStdout
        /\ \/ frameName' = "source" /\ MainGoto("source")
           \/ UNCHANGED frameName /\ MainGoto("exit")
     \/ /\ Len(options.args) >= 2
        /\ frameName' = "dest"
        /\ MainGoto("source")
     \/ /\ Len(options.args) = 1 /\ (Source.jp4 \/ ToStdout)
        /\ UNCHANGED frameName /\ MainGoto("source")
  /\ UNCHANGED <<argv, optind, options>>

Several(formats) ==
  \/ {"dng", "pgm"} \subseteq formats
  \/ {"dng", "jpeg"} \subseteq formats
  \/ {"pgm", "jpeg"} \subseteq formats

\* "Cannot choose --stdout and multiple output formats."
Refuse ==
  /\ mainPc = "source"
  /\ IsImage /\ Several(options.formats)
  /\ MainGoto("refused")
  /\ UNCHANGED <<argv, optind, options, frameName>>

\* The image goes to files in all formats said but JP4, or one of them to
\* standard output; JP4::open may end the process before.
ConvertImage ==
  /\ mainPc = "source"
  /\ IsImage /\ ~Several(options.formats)
  /\ MainGoto("converted") \/ MainGoto("exit")
  /\ UNCHANGED <<argv, optind, options, frameName>>

ConvertMovie ==
  /\ mainPc = "source"
  /\ ~IsImage
  /\ MainGoto("movie")
  /\ UNCHANGED <<argv, optind, options, frameName>>

MainNext ==
  \/ NextArgument \/ CheckUsage
  \/ ChooseName \/ Refuse \/ ConvertImage \/ ConvertMovie

MainSpec == MainInit /\ [][MainNext]_mainVars

-----------------------------------------------------------------------------
(* Properties. *)

\* The arguments that are not the value of the option before them.
OwnArguments ==
  LET own[i \in 1..Len(argv)] ==
        ~(/\ i > 1 /\ own[i - 1]
          /\ argv[i - 1].opt \in Valued /\ argv[i - 1].word = NoWord)
  IN  {i \in DOMAIN argv : own[i]}

Given(o) == {i \in OwnArguments : argv[i].opt = o}

\* The value that argument i gives its option: after the "=", or the argument
\* that follows, of which atoi makes 0 if it is an option.
ValueOf(i) ==
  IF argv[i].word # NoWord THEN argv[i].word.atoi
  ELSE IF argv[i + 1].opt = "" THEN argv[i + 1].word.atoi ELSE 0

\* Past the options, wherever they stood among the words: an argument that is
\* not the value of another is an option or a word.  The formats and flags are
\* the options of that name, an option that takes a value has the one said
\* last, and the words are the rest: no option's value is taken for the source.
ReadAsGiven ==
  mainPc = "name" =>
    /\ options.formats = {f \in Formats : Given(f) # {}}
    /\ options.flags = {f \in {"stdout", "gui"} : Given(f) # {}}
    /\ \A o \in Valued :
         \/ Given(o) = {} /\ options.values[o] = NoOptions.values[o]
         \/ \E i \in Given(o) : /\ \A j \in Given(o) : j <= i
                                /\ options.values[o] = ValueOf(i)
    /\ Len(options.args) = Cardinality(Given(""))
    /\ \A k \in DOMAIN options.args : \E i \in Given("") :
         /\ options.args[k] = argv[i].word
         /\ Cardinality({j \in Given("") : j < i}) = k - 1
=============================================================================

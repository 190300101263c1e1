---------------------------- MODULE Tools_proofs ----------------------------
(***************************************************************************)
(* Theorems about the command line of movie2dng and about programs that    *)
(* call it, and their proofs.  movie2dng takes the formats, the flags, the *)
(* values and the file names from every command line as its user means     *)
(* them.  For images, answers and pipes of any size, jp4-proxy.php answers *)
(* with all that movie2dng wrote, and the two processes never wait for     *)
(* each other on the two pipes, if what follows the image fits into one.   *)
(* However often it is killed and started again, process.php loses no clip *)
(* and no frame it could keep, if no clip has a blank in its name.  After  *)
(* any sequence of clicks movie2dng reads from the command of the window   *)
(* what the window shows, if the source has an extension and no blank and  *)
(* the field of the number in use is filled.                               *)
(***************************************************************************)
EXTENDS JP4Proxy, CommandLine, BatchProcess, GUICommand, FiniteSetTheorems,
        SequenceTheorems, WellFoundedInduction, TLAPS

-----------------------------------------------------------------------------
(* jp4-proxy.php. *)


ProxyTypes ==
  /\ arriving \in Nat /\ outSize \in Nat
  /\ proxyPc \in {"fetch", "spawn", "copy", "read", "answered", "failed"}
  /\ copied \in Nat /\ output \in Nat
  /\ stdin \in Nat /\ stdinOpen \in BOOLEAN /\ stdout \in Nat
  /\ child \in {"none", "reading", "writing", "exited"}
  /\ taken \in Nat /\ written \in Nat

\* What one process has put into a pipe, the other has taken out of it or it is
\* still there, and no pipe holds more than it can.
PipesHold ==
  /\ copied = stdin + taken /\ stdin <= Capacity
  /\ written = stdout + output /\ stdout <= Capacity
  /\ copied <= arriving /\ taken <= Image /\ written <= outSize

\* How far one process can be while the other is at a given point: movie2dng
\* exists from proc_open on, sees the end of its input only once the script
\* has stopped copying, and is gone when the script answers.
InStep ==
  /\ proxyPc \in {"fetch", "spawn", "failed"} <=> child = "none"
  /\ proxyPc \in {"fetch", "spawn", "copy"} => stdinOpen
  /\ proxyPc = "read" => ~stdinOpen
  /\ proxyPc = "copy" /\ child = "writing" => taken = Image
  /\ proxyPc = "answered" => child = "exited" /\ stdout = 0

ProxyInv == ProxyTypes /\ PipesHold /\ InStep

LEMMA ProxyInitInv == ProxyInit => ProxyInv
  <1> SUFFICES ASSUME ProxyInit PROVE ProxyInv
    OBVIOUS
  <1>1. arriving \in Nat /\ outSize \in Nat
    BY JP4ProxyAssumption DEF ProxyInit
  <1> QED
    BY <1>1, JP4ProxyAssumption
    DEF ProxyInit, ProxyFresh, ProxyInv, ProxyTypes, PipesHold, InStep

LEMMA ProxyNextInv == ProxyInv /\ [ProxyNext]_proxyAllVars => ProxyInv'
  <1> SUFFICES ASSUME ProxyInv, [ProxyNext]_proxyAllVars PROVE ProxyInv'
    OBVIOUS
  <1> USE JP4ProxyAssumption
      DEF ProxyInv, ProxyTypes, PipesHold, InStep, params, childVars
  <1>1. CASE Fetch
    BY <1>1 DEF Fetch, ProxyGoto
  <1>2. CASE Spawn
    <2>1. /\ UNCHANGED <<arriving, outSize, copied, output, stdin, stdinOpen,
                        stdout, taken, written>>
          /\ proxyPc = "spawn" /\ child = "none" /\ stdinOpen
          /\ \/ proxyPc' = "copy" /\ child' = "reading"
             \/ proxyPc' = "failed" /\ child' = child
      BY <1>2 DEF Spawn, ProxyGoto
    <2> QED BY <2>1
  <1>3. CASE Copy
    BY <1>3 DEF Copy
  <1>4. CASE CopyEnds
    BY <1>4 DEF CopyEnds, ProxyGoto
  <1>5. CASE Read
    BY <1>5 DEF Read
  <1>6. CASE Answer
    BY <1>6 DEF Answer, EndOfOutput, ProxyGoto
  <1>7. CASE Take
    BY <1>7 DEF Take, proxyVars
  <1>8. CASE Decode
    BY <1>8 DEF Decode, proxyVars
  <1>9. CASE Put
    BY <1>9 DEF Put, proxyVars
  <1>10. CASE ChildExits
    BY <1>10 DEF ChildExits, proxyVars
  <1>11. CASE UNCHANGED proxyAllVars
    BY <1>11 DEF proxyAllVars, proxyVars
  <1> QED
    BY <1>1, <1>2, <1>3, <1>4, <1>5, <1>6, <1>7, <1>8, <1>9, <1>10, <1>11
    DEF ProxyNext, Script, Child

\* Whenever the script answers, movie2dng has ended and all it wrote is in the
\* answer: no pause of movie2dng is taken for its end, whatever the lengths.
THEOREM AnswerComplete == ProxySpec => []AnswerIsComplete
  <1>1. ProxyInv => AnswerIsComplete
    BY DEF ProxyInv, ProxyTypes, PipesHold, InStep, AnswerIsComplete
  <1> QED BY <1>1, ProxyInitInv, ProxyNextInv, PTL DEF ProxySpec

\* What each process needs for its next step: the script a place in the pipe
\* to movie2dng, or the end of one of the streams; movie2dng data in that
\* pipe, or its end, and a place in the pipe back.
ScriptCanGo ==
  \/ proxyPc \in {"fetch", "spawn"}
  \/ /\ proxyPc = "copy"
     /\ copied = arriving \/ child = "exited" \/ stdin < Capacity
  \/ proxyPc = "read" /\ (stdout > 0 \/ child = "exited")

ChildCanGo ==
  \/ /\ child = "reading"
     /\ taken = Image \/ stdin > 0 \/ ~stdinOpen
  \/ child = "writing" /\ (written = outSize \/ stdout < Capacity)

\* The script writes all of the image before it reads any of the result, and
\* movie2dng never reads what follows the image.  That is safe as long as one
\* pipe holds what follows: then one of the two can always go on.
THEOREM NeverBothBlocked ==
  ProxySpec =>
    [](arriving <= Image + Capacity /\ ~Ended => ScriptCanGo \/ ChildCanGo)
  <1>1. ProxyInv =>
          (arriving <= Image + Capacity /\ ~Ended => ScriptCanGo \/ ChildCanGo)
    BY JP4ProxyAssumption
    DEF ProxyInv, ProxyTypes, PipesHold, InStep, Ended, ScriptCanGo, ChildCanGo
  <1> QED BY <1>1, ProxyInitInv, ProxyNextInv, PTL DEF ProxySpec

-----------------------------------------------------------------------------
(* The command line. *)

Exits == {"no", "wrong value", "help", "unknown", "usage"}
OtherFlags == {"stdout", "gui"}
WordsGiven == {a.word : a \in Arguments}

Parsers ==
  [exit : Exits, need : Valued \cup {""}, formats : SUBSET Formats,
   flags : SUBSET Flags, args : Seq(WordsGiven), values : [Valued -> Int]]

LEMMA NoOptionsIs == NoOptions \in Parsers
  <1>1. NoOptions.values \in [Valued -> Int]
    BY DEF NoOptions, Valued
  <1> QED BY <1>1 DEF NoOptions, Parsers, Exits

LEMMA SetFlagIs ==
  ASSUME NEW p \in Parsers, NEW o
  PROVE  /\ o \in Formats => SetFlag(p, o) = [p EXCEPT !.formats = @ \cup {o}]
         /\ o \in {"stdout", "gui"} =>
              SetFlag(p, o) = [p EXCEPT !.flags = @ \cup {o}]
         /\ o \notin Formats \cup {"stdout", "gui"} =>
              SetFlag(p, o) = Exit(p, "help")
  BY DEF SetFlag, Formats

LEMMA SetValueIs ==
  ASSUME NEW p \in Parsers, p.exit = "no", NEW o \in Valued, NEW v \in Int
  PROVE  /\ SetValue(p, o, v) \in Parsers
         /\ SetValue(p, o, v).need = ""
         /\ SetValue(p, o, v).formats = p.formats
         /\ SetValue(p, o, v).args = p.args
         /\ SetValue(p, o, v).flags = p.flags
         /\ SetValue(p, o, v).values = [p.values EXCEPT ![o] = v]
  <1> DEFINE set == [p EXCEPT !.need = "", !.values[o] = v]
  <1>1. /\ set \in Parsers
        /\ set.need = "" /\ set.formats = p.formats /\ set.args = p.args
        /\ set.flags = p.flags /\ set.values = [p.values EXCEPT ![o] = v]
    <2>1. [p.values EXCEPT ![o] = v] \in [Valued -> Int]
      BY DEF Parsers
    <2>2. set = [p EXCEPT !.need = "", !.values = [p.values EXCEPT ![o] = v]]
      BY DEF Parsers
    <2> QED BY <2>1, <2>2 DEF Parsers
  <1> HIDE DEF set
  <1>2. Exit(set, "wrong value") \in Parsers
    BY <1>1 DEF Exit, Parsers, Exits
  <1>3. /\ Exit(set, "wrong value").need = ""
        /\ Exit(set, "wrong value").formats = p.formats
        /\ Exit(set, "wrong value").args = p.args
        /\ Exit(set, "wrong value").flags = p.flags
        /\ Exit(set, "wrong value").values = [p.values EXCEPT ![o] = v]
    BY <1>1 DEF Exit, Parsers
  <1>4. SetValue(p, o, v) = IF Allowed(o, v) THEN set ELSE Exit(set, "wrong value")
    BY DEF SetValue, set
  <1> QED BY <1>1, <1>2, <1>3, <1>4

\* What an argument changes: it is the value the option before it waits for,
\* or a word, or an option of its own.  Where the loop ends, nothing more is
\* read.
LEMMA GetOptIs ==
  ASSUME NEW p \in Parsers, p.exit = "no", NEW a \in Arguments
  PROVE  LET q == GetOpt(p, a)
         IN  /\ q \in Parsers
             /\ p.need # "" =>
                  /\ q.need = "" /\ q.formats = p.formats /\ q.args = p.args
                  /\ q.flags = p.flags
                  /\ q.values = [p.values EXCEPT ![p.need] =
                                  IF a.opt = "" THEN a.word.atoi ELSE 0]
             /\ p.need = "" /\ a.opt = "" =>
                  /\ q.need = "" /\ q.formats = p.formats
                  /\ q.args = Append(p.args, a.word)
                  /\ q.flags = p.flags /\ q.values = p.values
             /\ p.need = "" /\ a.opt # "" /\ q.exit = "no" =>
                  /\ q.need = IF a.opt \in Valued /\ a.word = NoWord
                              THEN a.opt ELSE ""
                  /\ q.formats = p.formats \cup ({a.opt} \cap Formats)
                  /\ q.args = p.args
                  /\ q.flags = p.flags \cup ({a.opt} \cap OtherFlags)
                  /\ q.values = IF a.opt \in Valued /\ a.word # NoWord
                                THEN [p.values EXCEPT ![a.opt] = a.word.atoi]
                                ELSE p.values
  <1> DEFINE q == GetOpt(p, a)
  <1>1. a.opt \in STRING /\ a.word \in WordsGiven /\ a.word.atoi \in Int
    BY CommandLineAssumption DEF WordsGiven
  <1>2. ASSUME p.need # ""
        PROVE  /\ q \in Parsers
               /\ q.need = "" /\ q.formats = p.formats /\ q.args = p.args
               /\ q.flags = p.flags
               /\ q.values = [p.values EXCEPT ![p.need] =
                               IF a.opt = "" THEN a.word.atoi ELSE 0]
    <2>1. p.need \in Valued
      BY <1>2 DEF Parsers
    <2>2. q = SetValue(p, p.need, IF a.opt = "" THEN a.word.atoi ELSE 0)
      BY <1>2 DEF GetOpt, TakeValue
    <2> DEFINE v == IF a.opt = "" THEN a.word.atoi ELSE 0
    <2>3. v \in Int
      <3>1. CASE a.opt = ""
        BY <1>1, <3>1
      <3>2. CASE a.opt # ""
        <4>1. v = 0
          BY <3>2
        <4> HIDE DEF v
        <4> QED BY <4>1
      <3> QED BY <3>1, <3>2
    <2> HIDE DEF v
    <2>4. /\ SetValue(p, p.need, v) \in Parsers
          /\ SetValue(p, p.need, v).need = ""
          /\ SetValue(p, p.need, v).formats = p.formats
          /\ SetValue(p, p.need, v).args = p.args
          /\ SetValue(p, p.need, v).flags = p.flags
          /\ SetValue(p, p.need, v).values = [p.values EXCEPT ![p.need] = v]
      BY <2>1, <2>3, SetValueIs
    <2> QED BY <2>2, <2>4 DEF v
  <1>3. ASSUME p.need = "", a.opt = ""
        PROVE  /\ q \in Parsers
               /\ q.need = "" /\ q.formats = p.formats
               /\ q.args = Append(p.args, a.word)
               /\ q.flags = p.flags /\ q.values = p.values
    <2>1. q = [p EXCEPT !.args = Append(p.args, a.word)]
      BY <1>3 DEF GetOpt
    <2>2. Append(p.args, a.word) \in Seq(WordsGiven)
      <3>1. p.args \in Seq(WordsGiven)
        BY DEF Parsers
      <3> QED BY <1>1, <3>1
    <2> QED BY <1>3, <2>1, <2>2 DEF Parsers
  <1>4. ASSUME p.need = "", a.opt # ""
        PROVE  /\ q \in Parsers
               /\ q.exit = "no" =>
                    /\ q.need = IF a.opt \in Valued /\ a.word = NoWord
                                THEN a.opt ELSE ""
                    /\ q.formats = p.formats \cup ({a.opt} \cap Formats)
                    /\ q.args = p.args
                    /\ q.flags = p.flags \cup ({a.opt} \cap OtherFlags)
                    /\ q.values = IF a.opt \in Valued /\ a.word # NoWord
                                  THEN [p.values EXCEPT ![a.opt] = a.word.atoi]
                                  ELSE p.values
    <2>1. q = Option(p, a.opt, a.word)
      BY <1>4 DEF GetOpt
    <2>2. /\ Flags \cap Valued = {} /\ Formats \subseteq Flags /\ "" \notin Valued
          /\ Formats \cap OtherFlags = {}
      BY DEF Flags, Valued, Formats, OtherFlags
    <2>3. \A how \in Exits \ {"no"} :
            Exit(p, how) \in Parsers /\ Exit(p, how).exit # "no"
      BY DEF Exit, Parsers
    <2>4. CASE a.opt \in Flags /\ a.word = NoWord
      <3>1. q = SetFlag(p, a.opt)
        BY <2>1, <2>2, <2>4 DEF Option
      <3>2. CASE a.opt \in Formats
        <4>1. q = [p EXCEPT !.formats = p.formats \cup {a.opt}]
          BY <3>1, <3>2, SetFlagIs
        <4>2. p.formats \cup {a.opt} \in SUBSET Formats
          BY <3>2 DEF Parsers
        <4>3. /\ q \in Parsers /\ q.need = p.need /\ q.args = p.args
              /\ q.formats = p.formats \cup {a.opt}
              /\ q.flags = p.flags /\ q.values = p.values
          BY <4>1, <4>2 DEF Parsers
        <4> QED BY <1>4, <2>2, <2>4, <3>2, <4>3
      <3>3. CASE a.opt \in {"stdout", "gui"}
        <4>1. a.opt \notin Formats
          BY <3>3 DEF Formats
        <4>2. q = [p EXCEPT !.flags = p.flags \cup {a.opt}]
          BY <3>1, <3>3, SetFlagIs
        <4>3. p.flags \cup {a.opt} \in SUBSET Flags
          BY <2>4 DEF Parsers
        <4>4. /\ q \in Parsers /\ q.need = p.need /\ q.args = p.args
              /\ q.formats = p.formats
              /\ q.flags = p.flags \cup {a.opt} /\ q.values = p.values
          BY <4>2, <4>3 DEF Parsers
        <4> QED BY <1>4, <2>2, <2>4, <3>3, <4>1, <4>4 DEF OtherFlags
      <3>4. CASE a.opt \notin Formats /\ a.opt \notin {"stdout", "gui"}
        <4>1. q = Exit(p, "help")
          BY <3>1, <3>4, SetFlagIs
        <4> QED BY <2>3, <4>1 DEF Exits
      <3> QED BY <3>2, <3>3, <3>4
    <2>5. CASE a.opt \in Valued /\ a.word # NoWord
      <3>1. q = SetValue(p, a.opt, a.word.atoi)
        BY <2>1, <2>2, <2>5 DEF Option
      <3>2. /\ q \in Parsers /\ q.need = "" /\ q.formats = p.formats
            /\ q.args = p.args /\ q.flags = p.flags
            /\ q.values = [p.values EXCEPT ![a.opt] = a.word.atoi]
        <4> DEFINE v == a.word.atoi
        <4>1. v \in Int
          BY <1>1
        <4> HIDE DEF v
        <4>2. /\ SetValue(p, a.opt, v) \in Parsers
              /\ SetValue(p, a.opt, v).need = ""
              /\ SetValue(p, a.opt, v).formats = p.formats
              /\ SetValue(p, a.opt, v).args = p.args
              /\ SetValue(p, a.opt, v).flags = p.flags
              /\ SetValue(p, a.opt, v).values = [p.values EXCEPT ![a.opt] = v]
          BY <2>5, <4>1, SetValueIs
        <4> QED BY <3>1, <4>2 DEF v
      <3>3. {a.opt} \cap Formats = {} /\ {a.opt} \cap OtherFlags = {}
        BY <2>2, <2>5 DEF Valued, OtherFlags
      <3> QED BY <2>2, <2>5, <3>2, <3>3
    <2>6. CASE a.opt \in Valued /\ a.word = NoWord
      <3>1. q = [p EXCEPT !.need = a.opt]
        BY <2>1, <2>2, <2>6 DEF Option
      <3>2. {a.opt} \cap Formats = {} /\ {a.opt} \cap OtherFlags = {}
        BY <2>2, <2>6 DEF Valued, OtherFlags
      <3> QED BY <1>4, <2>2, <2>6, <3>1, <3>2 DEF Parsers
    <2>7. CASE /\ ~(a.opt \in Flags /\ a.word = NoWord)
               /\ a.opt \notin Valued
      <3>1. q = Exit(p, "unknown")
        BY <2>1, <2>7 DEF Option
      <3> QED BY <2>3, <3>1 DEF Exits
    <2> QED BY <2>4, <2>5, <2>6, <2>7
  <1> QED BY <1>2, <1>3, <1>4 DEF Parsers

\* The first n arguments, each told from the value of the option before it.
OwnUpTo(o, n) ==
  o = [i \in 1..n |->
         ~(/\ i > 1 /\ o[i - 1]
           /\ argv[i - 1].opt \in Valued /\ argv[i - 1].word = NoWord)]

\* The next argument is the value of the last of them.
Waits(o, n) ==
  n > 0 /\ o[n] /\ argv[n].opt \in Valued /\ argv[n].word = NoWord

GivenBy(o, n, t) == {i \in 1..n : o[i] /\ argv[i].opt = t}

\* Of the options of name t, those whose value has been read; what they set it
\* to.
Finished(o, n, t) == {i \in GivenBy(o, n, t) : argv[i].word # NoWord \/ i < n}

Says(D, v, t) ==
  \/ D = {} /\ v = NoOptions.values[t]
  \/ \E i \in D : (\A j \in D : j <= i) /\ v = ValueOf(i)

ValuesAsRead(o, n) ==
  \A t \in Valued : Says(Finished(o, n, t), options.values[t], t)

AsRead(o, n) ==
  /\ options.need = IF Waits(o, n) THEN argv[n].opt ELSE ""
  /\ options.formats = {f \in Formats : GivenBy(o, n, f) # {}}
  /\ options.flags = {f \in OtherFlags : GivenBy(o, n, f) # {}}
  /\ ValuesAsRead(o, n)
  /\ Len(options.args) = Cardinality(GivenBy(o, n, ""))
  /\ \A k \in DOMAIN options.args : \E i \in GivenBy(o, n, "") :
       /\ options.args[k] = argv[i].word
       /\ Cardinality({j \in GivenBy(o, n, "") : j < i}) = k - 1

\* However the arguments are told apart, the options say what they said; and
\* there is a way to tell them apart.
ReadUpTo(n) ==
  /\ \E o : OwnUpTo(o, n)
  /\ \A o : OwnUpTo(o, n) => AsRead(o, n)

LEMMA OwnIs ==
  ASSUME NEW n \in Nat, NEW o, OwnUpTo(o, n)
  PROVE  /\ o \in [1..n -> BOOLEAN]
         /\ \A i \in 1..n : o[i] = ~(i > 1 /\ Waits(o, i - 1))
  <1>1. \A i \in 1..n :
          o[i] = ~(/\ i > 1 /\ o[i - 1]
                   /\ argv[i - 1].opt \in Valued /\ argv[i - 1].word = NoWord)
    BY DEF OwnUpTo
  <1>2. \A i \in 1..n : o[i] \in BOOLEAN
    BY <1>1
  <1>3. o = [i \in 1..n |-> o[i]]
    BY DEF OwnUpTo
  <1>4. o \in [1..n -> BOOLEAN]
    BY <1>2, <1>3
  <1>5. ASSUME NEW i \in 1..n
        PROVE  o[i] = ~(i > 1 /\ Waits(o, i - 1))
    <2>1. i > 1 <=> i - 1 > 0 /\ i > 1
      OBVIOUS
    <2> QED BY <1>1, <2>1 DEF Waits
  <1> QED BY <1>4, <1>5

\* One argument more.
LEMMA OwnNext ==
  ASSUME NEW n \in Nat, NEW o, OwnUpTo(o, n)
  PROVE  LET next == [i \in 1..(n + 1) |-> IF i <= n THEN o[i] ELSE ~Waits(o, n)]
         IN  OwnUpTo(next, n + 1)
  <1> DEFINE next == [i \in 1..(n + 1) |-> IF i <= n THEN o[i] ELSE ~Waits(o, n)]
             body(q, i) == ~(/\ i > 1 /\ q[i - 1]
                             /\ argv[i - 1].opt \in Valued
                             /\ argv[i - 1].word = NoWord)
  <1>1. ASSUME NEW i \in 1..(n + 1)
        PROVE  next[i] = body(next, i)
    <2>1. CASE i <= n
      <3>1. i \in 1..n /\ next[i] = o[i]
        BY <2>1
      <3>2. o[i] = body(o, i)
        BY <3>1 DEF OwnUpTo
      <3>3. i > 1 => next[i - 1] = o[i - 1]
        BY <3>1
      <3> QED BY <3>1, <3>2, <3>3
    <2>2. CASE i = n + 1
      <3>1. next[i] = ~Waits(o, n)
        BY <2>2
      <3>2. i > 1 => next[i - 1] = o[n] /\ i - 1 = n
        BY <2>2
      <3>3. i > 1 <=> n > 0
        BY <2>2
      <3> HIDE DEF next
      <3> QED BY <3>1, <3>2, <3>3 DEF Waits
    <2> QED BY <2>1, <2>2
  <1>2. next = [i \in 1..(n + 1) |-> next[i]]
    OBVIOUS
  <1> HIDE DEF next
  <1>3. next = [i \in 1..(n + 1) |-> body(next, i)]
    BY <1>1, <1>2
  <1> QED BY <1>3 DEF OwnUpTo, next

\* Of the ways to tell one argument more apart, each extends one for less.
LEMMA OwnBefore ==
  ASSUME NEW n \in Nat, NEW o, OwnUpTo(o, n + 1)
  PROVE  LET before == [i \in 1..n |-> o[i]]
         IN  /\ OwnUpTo(before, n)
             /\ o[n + 1] = ~Waits(before, n)
             /\ \A t : GivenBy(o, n + 1, t) =
                         IF o[n + 1] /\ argv[n + 1].opt = t
                         THEN GivenBy(before, n, t) \cup {n + 1}
                         ELSE GivenBy(before, n, t)
             /\ \A t : GivenBy(before, n, t) \subseteq 1..n
  <1> DEFINE before == [i \in 1..n |-> o[i]]
             body(q, i) == ~(/\ i > 1 /\ q[i - 1]
                             /\ argv[i - 1].opt \in Valued
                             /\ argv[i - 1].word = NoWord)
  <1>1. \A i \in 1..(n + 1) : o[i] = body(o, i)
    BY DEF OwnUpTo
  <1>2. \A i \in 1..n : before[i] = o[i] /\ i \in 1..(n + 1)
    OBVIOUS
  <1>3. OwnUpTo(before, n)
    <2>1. ASSUME NEW i \in 1..n
          PROVE  o[i] = body(before, i)
      <3>1. i > 1 => before[i - 1] = o[i - 1]
        OBVIOUS
      <3>2. o[i] = body(o, i)
        BY <1>1, <1>2
      <3> QED BY <3>1, <3>2
    <2>2. before = [i \in 1..n |-> body(before, i)]
      BY <2>1
    <2> QED BY <2>2 DEF OwnUpTo
  <1>4. o[n + 1] = ~Waits(before, n)
    <2>1. n + 1 \in 1..(n + 1) /\ (n + 1) - 1 = n
      OBVIOUS
    <2>2. o[n + 1] = body(o, n + 1)
      BY <1>1, <2>1
    <2>3. n + 1 > 1 <=> n > 0
      OBVIOUS
    <2>4. n > 0 => before[n] = o[n]
      OBVIOUS
    <2> HIDE DEF before
    <2> QED BY <2>1, <2>2, <2>3, <2>4 DEF Waits
  <1>5. ASSUME NEW t
        PROVE  /\ GivenBy(o, n + 1, t) =
                    IF o[n + 1] /\ argv[n + 1].opt = t
                    THEN GivenBy(before, n, t) \cup {n + 1}
                    ELSE GivenBy(before, n, t)
               /\ GivenBy(before, n, t) \subseteq 1..n
    <2>1. \A i : i \in 1..(n + 1) <=> i \in 1..n \/ i = n + 1
      OBVIOUS
    <2>2. \A i \in 1..n : before[i] = o[i]
      BY <1>2
    <2> HIDE DEF before
    <2> QED BY <2>1, <2>2 DEF GivenBy
  <1> HIDE DEF before
  <1>6. /\ OwnUpTo(before, n)
        /\ o[n + 1] = ~Waits(before, n)
        /\ \A t : /\ GivenBy(o, n + 1, t) =
                       IF o[n + 1] /\ argv[n + 1].opt = t
                       THEN GivenBy(before, n, t) \cup {n + 1}
                       ELSE GivenBy(before, n, t)
                  /\ GivenBy(before, n, t) \subseteq 1..n
    BY <1>3, <1>4, <1>5
  <1> QED BY <1>6 DEF before

\* The value that argument n + 1 is or has.
LEMMA ValuesOne ==
  ASSUME NEW n \in Nat, n + 1 \in DOMAIN argv, argv[n + 1] \in Arguments,
         options \in Parsers, options.exit = "no",
         argv' = argv, options' = GetOpt(options, argv[n + 1]),
         options'.exit = "no",
         NEW before, NEW next, AsRead(before, n),
         next[n + 1] = ~Waits(before, n),
         \A t : /\ GivenBy(next, n + 1, t) =
                     IF next[n + 1] /\ argv[n + 1].opt = t
                     THEN GivenBy(before, n, t) \cup {n + 1}
                     ELSE GivenBy(before, n, t)
                /\ GivenBy(before, n, t) \subseteq 1..n
  PROVE  ValuesAsRead(next, n + 1)'
  <1> DEFINE a == argv[n + 1]
             B(t) == GivenBy(before, n, t)
             D(t) == Finished(before, n, t)
             E(t) == Finished(next, n + 1, t)
  <1>1. \A t \in Valued : Says(D(t), options.values[t], t)
    BY DEF AsRead, ValuesAsRead
  <1>2. options.values \in [Valued -> Int] /\ "" \notin Valued
    BY DEF Parsers, Valued
  <1>3. SUFFICES ASSUME NEW t \in Valued
                 PROVE  Says(E(t), options'.values[t], t)
    <2>1. ASSUME NEW x \in Valued
          PROVE  /\ Finished(next, n + 1, x)' = E(x)
                 /\ \A S, v : Says(S, v, x)' <=> Says(S, v, x)
      BY DEF Finished, GivenBy, Says, ValueOf
    <2> HIDE DEF E
    <2>2. ASSUME NEW x \in Valued
          PROVE  Says(Finished(next, n + 1, x), options.values[x], x)'
      <3>1. Says(E(x), options'.values[x], x)
        BY <1>3
      <3> QED BY <2>1, <3>1 DEF Says, ValueOf
    <2> QED BY <2>2 DEF ValuesAsRead
  <1>4. \A i \in B(t) : i \in 1..n /\ i < n + 1
    OBVIOUS
  <1>5. CASE Waits(before, n)
    <2>1. /\ n > 0 /\ before[n] /\ argv[n].word = NoWord
          /\ options.need = argv[n].opt /\ options.need \in Valued
      BY <1>5 DEF AsRead, Waits
    <2>2. options'.values = [options.values EXCEPT ![options.need] =
                               IF a.opt = "" THEN a.word.atoi ELSE 0]
      BY <1>2, <2>1, GetOptIs
    <2>3. E(t) = B(t)
      BY <1>4, <1>5 DEF Finished
    <2>4. CASE t = options.need
      <3>1. n \in B(t)
        BY <2>1, <2>4 DEF GivenBy
      <3>2. options'.values[t] = ValueOf(n)
        BY <1>2, <2>1, <2>2, <2>4 DEF ValueOf
      <3>3. \A j \in B(t) : j <= n
        BY <1>4
      <3> HIDE DEF B, E
      <3> QED BY <2>3, <3>1, <3>2, <3>3 DEF Says
    <2>5. CASE t # options.need
      <3>1. n \notin B(t)
        BY <2>1, <2>5 DEF GivenBy
      <3>2. \A i \in B(t) : i < n
        BY <1>4, <3>1
      <3>3. D(t) = B(t)
        BY <3>2 DEF Finished
      <3>4. options'.values[t] = options.values[t]
        BY <1>2, <2>2, <2>5
      <3> HIDE DEF B, D, E
      <3> QED BY <1>1, <2>3, <3>3, <3>4
    <2> QED BY <2>4, <2>5
  <1>6. CASE ~Waits(before, n)
    <2>1. options.need = "" /\ next[n + 1]
      BY <1>6 DEF AsRead
    <2>2. options'.values =
            IF a.opt \in Valued /\ a.word # NoWord
            THEN [options.values EXCEPT ![a.opt] = a.word.atoi]
            ELSE options.values
      BY <1>2, <2>1, GetOptIs
    <2>3. D(t) = B(t)
      <3>1. ASSUME NEW i \in B(t), i = n
            PROVE  argv[i].word # NoWord
        BY <1>4, <1>6, <3>1 DEF Waits, GivenBy
      <3>2. \A i \in B(t) : argv[i].word # NoWord \/ i < n
        BY <1>4, <3>1
      <3> QED BY <3>2 DEF Finished
    <2>4. CASE a.opt = t /\ a.word # NoWord
      <3>1. E(t) = B(t) \cup {n + 1}
        BY <1>4, <2>1, <2>4 DEF Finished
      <3>2. options'.values[t] = ValueOf(n + 1)
        BY <1>2, <2>2, <2>4 DEF ValueOf
      <3>3. \A j \in B(t) \cup {n + 1} : j <= n + 1
        BY <1>4
      <3> HIDE DEF B, E
      <3> QED BY <3>1, <3>2, <3>3 DEF Says
    <2>5. CASE ~(a.opt = t /\ a.word # NoWord)
      <3>1. E(t) = B(t)
        <4>1. CASE a.opt # t
          <5>1. GivenBy(next, n + 1, t) = B(t)
            BY <4>1
          <5> QED BY <1>4, <5>1 DEF Finished
        <4>2. CASE a.opt = t /\ a.word = NoWord
          <5>1. GivenBy(next, n + 1, t) = B(t) \cup {n + 1}
            BY <2>1, <4>2
          <5>2. ~(argv[n + 1].word # NoWord \/ n + 1 < n + 1)
            BY <4>2
          <5>3. \A i \in B(t) : i < n + 1 /\ i # n + 1
            BY <1>4
          <5> HIDE DEF B
          <5> QED BY <5>1, <5>2, <5>3 DEF Finished
        <4> QED BY <2>5, <4>1, <4>2
      <3>2. options'.values[t] = options.values[t]
        BY <1>2, <2>2, <2>5
      <3> HIDE DEF B, D, E
      <3> QED BY <1>1, <2>3, <3>1, <3>2
    <2> QED BY <2>4, <2>5
  <1> QED BY <1>5, <1>6

LEMMA OneWordMore ==
  ASSUME NEW n \in Nat, NEW S, S \subseteq 1..n
  PROVE  /\ Cardinality(S) \in Nat
         /\ Cardinality(S \cup {n + 1}) = Cardinality(S) + 1
         /\ \A i \in S \cup {n + 1} :
              {j \in S \cup {n + 1} : j < i} = IF i = n + 1 THEN S
                                               ELSE {j \in S : j < i}
  <1>1. IsFiniteSet(S)
    <2>1. IsFiniteSet(1..n)
      BY FS_Interval
    <2> QED BY <2>1, FS_Subset
  <1>2. n + 1 \notin S
    OBVIOUS
  <1>3. Cardinality(S) \in Nat /\ Cardinality(S \cup {n + 1}) = Cardinality(S) + 1
    BY <1>1, <1>2, FS_AddElement, FS_CardinalityType
  <1>4. ASSUME NEW i \in S \cup {n + 1}
        PROVE  {j \in S \cup {n + 1} : j < i} = IF i = n + 1 THEN S
                                                ELSE {j \in S : j < i}
    <2>1. \A j \in S : j \in Int /\ j < n + 1
      OBVIOUS
    <2>2. CASE i = n + 1
      <3>1. \A j \in S : j < i
        BY <2>1, <2>2
      <3>2. ~(n + 1 < i)
        BY <2>2
      <3>3. {j \in S \cup {n + 1} : j < i} = S
        BY <3>1, <3>2
      <3> QED BY <2>2, <3>3
    <2>3. CASE i # n + 1
      BY <2>1, <2>3
    <2> QED BY <2>2, <2>3
  <1> QED BY <1>3, <1>4

\* One argument is read, and the loop goes on.
LEMMA ReadsOne ==
  ASSUME NEW n \in Nat, n + 1 \in DOMAIN argv, argv[n + 1] \in Arguments,
         options \in Parsers, options.exit = "no", ReadUpTo(n),
         argv' = argv, options' = GetOpt(options, argv[n + 1]),
         options'.exit = "no"
  PROVE  ReadUpTo(n + 1)'
  <1> DEFINE a == argv[n + 1]
             q == options'
  <1>1. /\ options.need # "" =>
             /\ q.need = "" /\ q.formats = options.formats
             /\ q.args = options.args /\ q.flags = options.flags
        /\ options.need = "" /\ a.opt = "" =>
             /\ q.need = "" /\ q.formats = options.formats
             /\ q.args = Append(options.args, a.word) /\ q.flags = options.flags
        /\ options.need = "" /\ a.opt # "" =>
             /\ q.need = IF a.opt \in Valued /\ a.word = NoWord
                         THEN a.opt ELSE ""
             /\ q.formats = options.formats \cup ({a.opt} \cap Formats)
             /\ q.args = options.args
             /\ q.flags = options.flags \cup ({a.opt} \cap OtherFlags)
    BY GetOptIs
  <1>2. options.args \in Seq(WordsGiven)
    BY DEF Parsers
  <1>3. "" \notin Formats /\ "" \notin Valued /\ "" \notin OtherFlags
    BY DEF Formats, Valued, OtherFlags
  <1>4. PICK o : OwnUpTo(o, n)
    BY DEF ReadUpTo
  <1>5. \E next : OwnUpTo(next, n + 1)'
    <2>1. \E next : OwnUpTo(next, n + 1)
      BY <1>4, OwnNext
    <2> QED BY <2>1 DEF OwnUpTo
  <1>6. ASSUME NEW next, OwnUpTo(next, n + 1)
        PROVE  AsRead(next, n + 1)'
    <2> DEFINE some == [i \in 1..n |-> next[i]]
    <2>0. /\ OwnUpTo(some, n)
          /\ next[n + 1] = ~Waits(some, n)
          /\ \A t : GivenBy(next, n + 1, t) =
                      IF next[n + 1] /\ a.opt = t
                      THEN GivenBy(some, n, t) \cup {n + 1}
                      ELSE GivenBy(some, n, t)
          /\ \A t : GivenBy(some, n, t) \subseteq 1..n
      BY <1>6, OwnBefore
    <2> HIDE DEF some
    <2>1. PICK before :
            /\ OwnUpTo(before, n)
            /\ next[n + 1] = ~Waits(before, n)
            /\ \A t : /\ GivenBy(next, n + 1, t) =
                           IF next[n + 1] /\ a.opt = t
                           THEN GivenBy(before, n, t) \cup {n + 1}
                           ELSE GivenBy(before, n, t)
                      /\ GivenBy(before, n, t) \subseteq 1..n
      BY <2>0
    <2>2. AsRead(before, n)
      BY <2>1 DEF ReadUpTo
    <2>3. Waits(next, n + 1) <=>
            next[n + 1] /\ a.opt \in Valued /\ a.word = NoWord
      BY DEF Waits
    <2>4. next[n + 1] <=> options.need = ""
      BY <1>3, <2>1, <2>2 DEF AsRead, Waits
    <2>5. q.need = IF Waits(next, n + 1) THEN a.opt ELSE ""
      BY <1>1, <1>3, <2>3, <2>4
    <2>a. ValuesAsRead(next, n + 1)'
      BY <2>1, <2>2, ValuesOne
    <2>b. q.flags = {f \in OtherFlags : GivenBy(next, n + 1, f) # {}}
      <3>1. options.flags = {f \in OtherFlags : GivenBy(before, n, f) # {}}
        BY <2>2 DEF AsRead
      <3>2. CASE next[n + 1] /\ a.opt \in OtherFlags
        BY <1>1, <1>3, <2>1, <2>4, <3>1, <3>2
      <3>3. CASE ~next[n + 1]
        BY <1>1, <2>1, <2>4, <3>1, <3>3
      <3>4. CASE next[n + 1] /\ a.opt \notin OtherFlags
        <4>1. q.flags = options.flags
          BY <1>1, <2>4, <3>4
        <4>2. \A f \in OtherFlags : GivenBy(next, n + 1, f) = GivenBy(before, n, f)
          BY <2>1, <3>4
        <4> QED BY <3>1, <4>1, <4>2
      <3> QED BY <3>2, <3>3, <3>4
    <2>6. q.formats = {f \in Formats : GivenBy(next, n + 1, f) # {}}
      <3>1. options.formats = {f \in Formats : GivenBy(before, n, f) # {}}
        BY <2>2 DEF AsRead
      <3>2. CASE next[n + 1] /\ a.opt \in Formats
        BY <1>1, <1>3, <2>1, <2>4, <3>1, <3>2
      <3>3. CASE ~next[n + 1]
        BY <1>1, <2>1, <2>4, <3>1, <3>3
      <3>4. CASE next[n + 1] /\ a.opt \notin Formats
        <4>1. q.formats = options.formats
          BY <1>1, <2>4, <3>4
        <4>2. \A f \in Formats : GivenBy(next, n + 1, f) = GivenBy(before, n, f)
          BY <2>1, <3>4
        <4> QED BY <3>1, <4>1, <4>2
      <3> QED BY <3>2, <3>3, <3>4
    <2> DEFINE S == GivenBy(before, n, "")
               T == GivenBy(next, n + 1, "")
    <2>7. S \subseteq 1..n
      BY <2>1
    <2>8. /\ Len(options.args) = Cardinality(S)
          /\ \A k \in DOMAIN options.args : \E i \in S :
               /\ options.args[k] = argv[i].word
               /\ Cardinality({j \in S : j < i}) = k - 1
      BY <2>2 DEF AsRead
    <2> DEFINE Said ==
          /\ q.need = IF Waits(next, n + 1) THEN a.opt ELSE ""
          /\ q.formats = {f \in Formats : GivenBy(next, n + 1, f) # {}}
          /\ Len(q.args) = Cardinality(T)
          /\ \A k \in DOMAIN q.args : \E i \in T :
               /\ q.args[k] = argv[i].word
               /\ Cardinality({j \in T : j < i}) = k - 1
    <2>9. ASSUME next[n + 1] /\ a.opt = ""
         PROVE  Said
      <3>1. T = S \cup {n + 1} /\ q.args = Append(options.args, a.word)
        BY <1>1, <2>1, <2>4, <2>9
      <3> HIDE DEF S, T, q
      <3>2. /\ Cardinality(S) \in Nat
            /\ Cardinality(T) = Cardinality(S) + 1
            /\ \A i \in T :
                 {j \in T : j < i} = IF i = n + 1 THEN S
                                     ELSE {j \in S : j < i}
        BY <2>7, <3>1, OneWordMore
      <3>3. /\ Len(q.args) = Len(options.args) + 1
            /\ \A k \in DOMAIN options.args : q.args[k] = options.args[k]
            /\ q.args[Len(options.args) + 1] = a.word
            /\ \A k \in DOMAIN q.args :
                 k \in DOMAIN options.args \/ k = Len(options.args) + 1
        <4>1. a.word \in WordsGiven
          BY DEF WordsGiven
        <4> QED BY <1>2, <3>1, <4>1
      <3>4. Len(q.args) = Cardinality(T)
        BY <2>8, <3>2, <3>3
      <3>5. ASSUME NEW k \in DOMAIN q.args
            PROVE  \E i \in T : /\ q.args[k] = argv[i].word
                                /\ Cardinality({j \in T : j < i}) = k - 1
        <4>1. CASE k \in DOMAIN options.args
          <5>1. PICK i \in S : /\ options.args[k] = argv[i].word
                               /\ Cardinality({j \in S : j < i}) = k - 1
            BY <2>8, <4>1
          <5>2. i \in T /\ i # n + 1
            BY <2>7, <3>1
          <5>3. {j \in T : j < i} = {j \in S : j < i}
            BY <3>2, <5>2
          <5> QED BY <3>3, <4>1, <5>1, <5>2, <5>3
        <4>2. CASE k = Len(options.args) + 1
          <5>1. n + 1 \in T /\ {j \in T : j < n + 1} = S
            BY <3>1, <3>2
          <5>2. Cardinality({j \in T : j < n + 1}) = k - 1
            <6>1. Cardinality({j \in T : j < n + 1}) = Cardinality(S)
              BY <5>1
            <6>2. Cardinality(S) = k - 1
              BY <2>8, <3>2, <4>2
            <6> QED BY <6>1, <6>2
          <5> QED BY <3>3, <4>2, <5>1, <5>2
        <4> QED BY <3>3, <4>1, <4>2
      <3> QED BY <2>5, <2>6, <3>4, <3>5
    <2>10. ASSUME ~(next[n + 1] /\ a.opt = "")
          PROVE  Said
      <3>1. T = S /\ q.args = options.args
        BY <1>1, <2>1, <2>4, <2>10
      <3> HIDE DEF S, T, q
      <3>2. /\ Len(q.args) = Cardinality(T)
            /\ \A k \in DOMAIN q.args : \E i \in T :
                 /\ q.args[k] = argv[i].word
                 /\ Cardinality({j \in T : j < i}) = k - 1
        BY <2>8, <3>1
      <3> QED BY <2>5, <2>6, <3>2
    <2>11. Said
      <3> HIDE DEF Said
      <3> QED BY <2>9, <2>10
    <2>12. /\ Waits(next, n + 1)' <=> Waits(next, n + 1)
           /\ \A t : GivenBy(next, n + 1, t)' = GivenBy(next, n + 1, t)
      BY DEF Waits, GivenBy
    <2>13. /\ q.formats = {f \in Formats : GivenBy(next, n + 1, f)' # {}}
           /\ q.flags = {f \in OtherFlags : GivenBy(next, n + 1, f)' # {}}
      BY <2>b, <2>11, <2>12
    <2>14. T = GivenBy(next, n + 1, "")'
      BY <2>12
    <2> HIDE DEF T
    <2>15. /\ Len(q.args) = Cardinality(GivenBy(next, n + 1, "")')
           /\ \A k \in DOMAIN q.args : \E i \in GivenBy(next, n + 1, "")' :
                /\ q.args[k] = argv'[i].word
                /\ Cardinality({j \in GivenBy(next, n + 1, "")' : j < i}) = k - 1
      BY <2>11, <2>14
    <2> QED BY <2>a, <2>11, <2>12, <2>13, <2>15 DEF AsRead
  <1>7. \A next : OwnUpTo(next, n + 1)' => AsRead(next, n + 1)'
    BY <1>6 DEF OwnUpTo
  <1> QED BY <1>5, <1>7 DEF ReadUpTo

\* What has been read: every argument, before the name is chosen.
MainInv ==
  /\ argv \in Seq(Arguments)
  /\ options \in Parsers
  /\ optind \in 1..(Len(argv) + 1)
  /\ mainPc \in {"options", "name"} /\ options.exit = "no" =>
       \A n \in Nat : optind = n + 1 => ReadUpTo(n)
  /\ mainPc = "name" =>
       options.exit = "no" /\ options.need = "" /\ optind = Len(argv) + 1

LEMMA NothingRead ==
  ReadUpTo(0) <=> AsRead(<< >>, 0)
  <1>1. \A o : OwnUpTo(o, 0) <=> o = << >>
    <2>1. 1..0 = {}
      OBVIOUS
    <2> QED BY <2>1 DEF OwnUpTo
  <1> QED BY <1>1 DEF ReadUpTo

LEMMA MainStarts == MainInit => MainInv
  <1> SUFFICES ASSUME MainInit
               PROVE  MainInv
    OBVIOUS
  <1>1. argv \in Seq(Arguments)
    BY CommandLineAssumption DEF MainInit
  <1>2. options = NoOptions /\ optind = 1 /\ mainPc = "options"
    BY DEF MainInit, MainFresh
  <1>3. AsRead(<< >>, 0)
    <2>1. \A t : GivenBy(<< >>, 0, t) = {}
      BY DEF GivenBy
    <2>2. /\ options.need = "" /\ options.formats = {} /\ options.args = << >>
          /\ options.flags = {} /\ options.values = NoOptions.values
      BY <1>2 DEF NoOptions
    <2>3. ~Waits(<< >>, 0)
      BY DEF Waits
    <2>4. Len(options.args) = Cardinality(GivenBy(<< >>, 0, ""))
      <3>1. Len(<< >>) = 0 /\ Cardinality({}) = 0
        BY FS_EmptySet
      <3> QED BY <2>1, <2>2, <3>1
    <2>5. DOMAIN options.args = {}
      <3>1. DOMAIN << >> = {}
        OBVIOUS
      <3> QED BY <2>2, <3>1
    <2>6. ValuesAsRead(<< >>, 0)
      BY <2>1, <2>2 DEF ValuesAsRead, Says, Finished
    <2> QED BY <2>1, <2>2, <2>3, <2>4, <2>5, <2>6 DEF AsRead
  <1>4. \A n \in Nat : optind = n + 1 => ReadUpTo(n)
    <2>1. \A n \in Nat : optind = n + 1 => n = 0
      BY <1>2
    <2> QED BY <1>3, <2>1, NothingRead
  <1>5. options \in Parsers
    BY <1>2, NoOptionsIs
  <1>6. optind \in 1..(Len(argv) + 1)
    BY <1>1, <1>2
  <1> QED BY <1>1, <1>2, <1>4, <1>5, <1>6 DEF MainInv

LEMMA NextArgumentKeeps == MainInv /\ NextArgument => MainInv'
  <1> SUFFICES ASSUME MainInv, NextArgument
               PROVE  MainInv'
    OBVIOUS
  <1>1. /\ mainPc = "options" /\ options.exit = "no" /\ optind <= Len(argv)
        /\ options' = GetOpt(options, argv[optind])
        /\ optind' = optind + 1
        /\ argv' = argv /\ mainPc' = mainPc
    BY DEF NextArgument
  <1>2. argv \in Seq(Arguments) /\ options \in Parsers
        /\ optind \in 1..(Len(argv) + 1)
    BY DEF MainInv
  <1>3. optind \in DOMAIN argv /\ argv[optind] \in Arguments
        /\ optind' \in 1..(Len(argv) + 1)
    BY <1>1, <1>2
  <1>4. options' \in Parsers
    BY <1>1, <1>2, <1>3, GetOptIs
  <1>5. ASSUME options'.exit = "no", NEW m \in Nat, optind' = m + 1
        PROVE  ReadUpTo(m)'
    <2>1. PICK n \in Nat : optind = n + 1
      <3>1. optind - 1 \in Nat /\ optind = (optind - 1) + 1
        BY <1>2
      <3> QED BY <3>1
    <2>2. ReadUpTo(n)
      BY <1>1, <2>1 DEF MainInv
    <2>3. ReadUpTo(n + 1)'
      BY <1>1, <1>2, <1>3, <1>5, <2>1, <2>2, ReadsOne
    <2>4. m = n + 1
      BY <1>1, <1>5, <2>1
    <2> QED BY <2>3, <2>4
  <1> QED BY <1>1, <1>2, <1>3, <1>4, <1>5 DEF MainInv

\* Past the options, the options and the words stay.
LEMMA StaysRead ==
  ASSUME UNCHANGED <<argv, options>>, NEW n
  PROVE  ReadUpTo(n) => ReadUpTo(n)'
  <1>1. \A o : OwnUpTo(o, n)' <=> OwnUpTo(o, n)
    BY DEF OwnUpTo
  <1>2. \A o : /\ Waits(o, n)' <=> Waits(o, n)
               /\ \A t : GivenBy(o, n, t)' = GivenBy(o, n, t)
    BY DEF Waits, GivenBy
  <1>3. \A o : AsRead(o, n)' <=> AsRead(o, n)
    BY DEF AsRead, Waits, GivenBy, ValuesAsRead, Says, Finished, ValueOf
  <1> QED BY <1>1, <1>3 DEF ReadUpTo

LEMMA CheckUsageKeeps == MainInv /\ CheckUsage => MainInv'
  <1> SUFFICES ASSUME MainInv, CheckUsage
               PROVE  MainInv'
    OBVIOUS
  <1>1. /\ mainPc = "options"
        /\ options.exit # "no" \/ optind > Len(argv)
        /\ options' = Complete(options)
        /\ mainPc' = IF options'.exit = "no" THEN "name" ELSE "exit"
        /\ argv' = argv /\ optind' = optind
    BY DEF CheckUsage, MainGoto
  <1>2. argv \in Seq(Arguments) /\ options \in Parsers
        /\ optind \in 1..(Len(argv) + 1)
    BY DEF MainInv
  <1>3. \A how \in Exits \ {"no"} : Exit(options, how) \in Parsers
                                    /\ Exit(options, how).exit # "no"
    BY <1>2 DEF Exit, Parsers
  <1>4. /\ options' \in Parsers
        /\ options'.exit = "no" => options' = options /\ options.need = ""
    BY <1>1, <1>2, <1>3 DEF Complete, Exits
  <1>5. CASE options'.exit = "no"
    <2>1. options' = options /\ mainPc' = "name" /\ options'.need = ""
      BY <1>1, <1>4, <1>5
    <2>2. optind = Len(argv) + 1
      <3>1. Len(argv) \in Nat
        BY <1>2, LenProperties
      <3> DEFINE l == Len(argv)
      <3>2. l \in Nat /\ optind \in 1..(l + 1) /\ optind > l
        BY <1>1, <1>2, <1>5, <2>1, <3>1
      <3> HIDE DEF l
      <3>3. optind = l + 1
        BY <3>2
      <3> QED BY <3>3 DEF l
    <2>3. \A n \in Nat : optind' = n + 1 => ReadUpTo(n)'
      BY <1>1, <1>5, <2>1, StaysRead DEF MainInv
    <2> QED BY <1>1, <1>2, <1>5, <2>1, <2>2, <2>3 DEF MainInv
  <1>6. CASE options'.exit # "no"
    <2>1. mainPc' = "exit"
      BY <1>1, <1>6
    <2> QED BY <1>1, <1>2, <1>4, <2>1 DEF MainInv
  <1> QED BY <1>5, <1>6

LEMMA ConversionKeeps ==
  MainInv /\ (ChooseName \/ Refuse \/ ConvertImage \/ ConvertMovie) => MainInv'
  <1> SUFFICES ASSUME MainInv,
                      ChooseName \/ Refuse \/ ConvertImage \/ ConvertMovie
               PROVE  MainInv'
    OBVIOUS
  <1>1. mainPc' \notin {"options", "name"} /\ UNCHANGED <<argv, optind, options>>
    BY DEF ChooseName, Refuse, ConvertImage, ConvertMovie, MainGoto
  <1> QED BY <1>1 DEF MainInv

LEMMA MainStep == MainInv /\ [MainNext]_mainVars => MainInv'
  <1> SUFFICES ASSUME MainInv, [MainNext]_mainVars
               PROVE  MainInv'
    OBVIOUS
  <1>1. CASE NextArgument
    BY <1>1, NextArgumentKeeps
  <1>2. CASE CheckUsage
    BY <1>2, CheckUsageKeeps
  <1>3. CASE ChooseName \/ Refuse \/ ConvertImage \/ ConvertMovie
    BY <1>3, ConversionKeeps
  <1>4. CASE UNCHANGED mainVars
    <2>1. \A n : ReadUpTo(n) => ReadUpTo(n)'
      BY <1>4, StaysRead DEF mainVars
    <2> QED BY <1>4, <2>1 DEF mainVars, MainInv
  <1> QED BY <1>1, <1>2, <1>3, <1>4 DEF MainNext

LEMMA MainHolds == MainSpec => []MainInv
  BY MainStarts, MainStep, PTL DEF MainSpec

\* The arguments are told apart in one way only, so that the recursive
\* definition of OwnArguments finds those the loop has found.
LEMMA OwnAre ==
  ASSUME argv \in Seq(Arguments), NEW o, OwnUpTo(o, Len(argv))
  PROVE  \E own : /\ OwnUpTo(own, Len(argv))
                  /\ OwnArguments = {i \in DOMAIN argv : own[i]}
  BY DEF OwnArguments, OwnUpTo

\* However many arguments a command line has, and whatever they are: once they
\* are all read and main() goes on, the formats, flags and values are those said
\* by arguments that are not the value of another option, for each value the
\* last, and the words are the rest, in order.
THEOREM CommandLineRead == MainSpec => []ReadAsGiven
  <1>1. MainInv => ReadAsGiven
    <2> SUFFICES ASSUME MainInv, mainPc = "name"
                 PROVE  ReadAsGiven
      BY DEF ReadAsGiven
    <2>1. argv \in Seq(Arguments) /\ Len(argv) \in Nat
          /\ DOMAIN argv = 1..Len(argv) /\ ReadUpTo(Len(argv))
          /\ options.need = ""
      <3>1. argv \in Seq(Arguments)
        BY DEF MainInv
      <3>3. Len(argv) \in Nat /\ DOMAIN argv = 1..Len(argv)
        BY <3>1, LenProperties
      <3>2. /\ options.exit = "no" /\ options.need = "" /\ optind = Len(argv) + 1
            /\ \A n \in Nat : optind = n + 1 => ReadUpTo(n)
        BY DEF MainInv
      <3> QED BY <3>1, <3>2, <3>3
    <2>2. PICK own : /\ OwnUpTo(own, Len(argv))
                     /\ OwnArguments = {i \in DOMAIN argv : own[i]}
      BY <2>1, OwnAre DEF ReadUpTo
    <2>3. AsRead(own, Len(argv))
      BY <2>1, <2>2 DEF ReadUpTo
    <2>4. \A t : Given(t) = GivenBy(own, Len(argv), t)
      BY <2>1, <2>2 DEF Given, GivenBy
    <2>5. ASSUME NEW t \in Valued
          PROVE  Finished(own, Len(argv), t) = Given(t)
      <3>1. ~Waits(own, Len(argv))
        BY <2>1, <2>3 DEF AsRead, Waits, Valued
      <3>2. ASSUME NEW i \in Given(t)
            PROVE  argv[i].word # NoWord \/ i < Len(argv)
        <4>1. i \in 1..Len(argv) /\ own[i] /\ argv[i].opt = t
          BY <2>4, <3>2 DEF GivenBy
        <4> DEFINE l == Len(argv)
        <4>2. l \in Nat /\ i \in 1..l
          BY <2>1, <4>1
        <4>3. ~(l > 0 /\ own[l] /\ argv[l].opt \in Valued /\ argv[l].word = NoWord)
          BY <3>1 DEF Waits
        <4> HIDE DEF l
        <4>4. i = l => argv[i].word # NoWord
          BY <2>5, <4>1, <4>2, <4>3
        <4>5. argv[i].word # NoWord \/ i < l
          BY <4>2, <4>4
        <4> QED BY <4>5 DEF l
      <3> QED BY <2>4, <3>2 DEF Finished
    <2>6. ASSUME NEW t \in Valued
          PROVE  Says(Given(t), options.values[t], t)
      BY <2>3, <2>5 DEF AsRead, ValuesAsRead
    <2> QED BY <2>3, <2>4, <2>6 DEF AsRead, ReadAsGiven, Says, OtherFlags
  <1> QED BY <1>1, MainHolds, PTL

-----------------------------------------------------------------------------
(* process.php: names and paths. *)

\* Characters but the blank, with those the script adds; names.
OfScript  == {"j", "p", "4", "s", "d", "n", "g", "-", "."}
Parts   == (STRING \cup OfScript) \ {" "}
NameSet == Seq(Parts)
Paths   == Seq(NameSet)
Ids     == NameSet \X {1, 2}

Upto(p, n)    == SubSeq(p, 1, n)
Path1(a)      == <<a>>
Path2(a, b)   == <<a, b>>
Path3(a, b, c) == <<a, b, c>>

\* Where MoveClip puts a path: those of clip m, and what is below it, go to the
\* folder d.
Into(d, m, p) == IF p[1] = m THEN <<d>> \o p ELSE p

LEMMA UptoIs ==
  ASSUME NEW S, NEW p \in Seq(S), NEW n \in 0..Len(p)
  PROVE  /\ Upto(p, n) \in Seq(S) /\ Len(Upto(p, n)) = n
         /\ \A x \in 1..n : Upto(p, n)[x] = p[x]
  <1>1. Len(p) \in Nat /\ \A x \in 1..n : p[x] \in S
    BY LenProperties, ElementOfSeq
  <1>2. n \in Int /\ n - 1 + 1 = n
    BY <1>1
  <1> QED
    BY <1>1, <1>2, SubSeqProperties DEF Upto

LEMMA UptoUpto ==
  ASSUME NEW S, NEW p \in Seq(S), NEW n \in 0..Len(p), NEW l \in 0..n
  PROVE  Upto(Upto(p, n), l) = Upto(p, l)
  <1>0. Len(p) \in Nat /\ l \in 0..Len(p)
    BY LenProperties
  <1>1. /\ Upto(p, n) \in Seq(S) /\ Len(Upto(p, n)) = n
        /\ \A x \in 1..n : Upto(p, n)[x] = p[x]
    BY UptoIs
  <1>2. /\ Upto(Upto(p, n), l) \in Seq(S) /\ Len(Upto(Upto(p, n), l)) = l
        /\ \A x \in 1..l : Upto(Upto(p, n), l)[x] = Upto(p, n)[x]
    BY <1>1, UptoIs
  <1>3. /\ Upto(p, l) \in Seq(S) /\ Len(Upto(p, l)) = l
        /\ \A x \in 1..l : Upto(p, l)[x] = p[x]
    BY <1>0, UptoIs
  <1>4. \A x \in 1..l : Upto(Upto(p, n), l)[x] = Upto(p, l)[x]
    BY <1>0, <1>1, <1>2, <1>3
  <1> QED
    BY <1>2, <1>3, <1>4, SeqEqual

LEMMA PathsAre ==
  ASSUME NEW a \in NameSet, NEW b \in NameSet, NEW c \in NameSet
  PROVE  /\ Path1(a) \in Paths /\ Len(Path1(a)) = 1 /\ Path1(a)[1] = a
         /\ Path2(a, b) \in Paths /\ Len(Path2(a, b)) = 2
         /\ Path2(a, b)[1] = a /\ Path2(a, b)[2] = b
         /\ Path3(a, b, c) \in Paths /\ Len(Path3(a, b, c)) = 3
         /\ Path3(a, b, c)[1] = a /\ Path3(a, b, c)[2] = b
         /\ Path3(a, b, c)[3] = c
  BY DEF Path1, Path2, Path3, Paths

LEMMA NamesOf ==
  ASSUME NEW p \in Paths, NEW n \in 1..Len(p)
  PROVE  p[n] \in NameSet /\ Len(p) \in Nat
  BY ElementOfSeq, LenProperties DEF Paths

LEMMA PathIs ==
  ASSUME NEW p \in Paths
  PROVE  /\ Len(p) = 1 => p = Path1(p[1])
         /\ Len(p) = 2 => p = Path2(p[1], p[2])
         /\ Len(p) = 3 => p = Path3(p[1], p[2], p[3])
  <1>1. CASE Len(p) = 1
    <2>1. p[1] \in NameSet
      BY <1>1, NamesOf
    <2>2. /\ Path1(p[1]) \in Paths /\ Len(Path1(p[1])) = 1
          /\ \A x \in 1..1 : Path1(p[1])[x] = p[x]
      BY <2>1, PathsAre
    <2> QED
      BY <1>1, <2>2, SeqEqual DEF Paths
  <1>2. CASE Len(p) = 2
    <2>1. p[1] \in NameSet /\ p[2] \in NameSet
      BY <1>2, NamesOf
    <2>2. /\ Path2(p[1], p[2]) \in Paths /\ Len(Path2(p[1], p[2])) = 2
          /\ \A x \in 1..2 : Path2(p[1], p[2])[x] = p[x]
      BY <2>1, PathsAre
    <2> QED
      BY <1>2, <2>2, SeqEqual DEF Paths
  <1>3. CASE Len(p) = 3
    <2>1. p[1] \in NameSet /\ p[2] \in NameSet /\ p[3] \in NameSet
      BY <1>3, NamesOf
    <2> DEFINE q == Path3(p[1], p[2], p[3])
    <2>2. q \in Paths /\ Len(q) = 3 /\ \A x \in 1..3 : q[x] = p[x]
      BY <2>1, PathsAre
    <2> QED
      BY <1>3, <2>2, SeqEqual DEF Paths
  <1> QED
    BY <1>1, <1>2, <1>3

LEMMA UptoPath ==
  ASSUME NEW a \in NameSet, NEW b \in NameSet, NEW c \in NameSet
  PROVE  /\ Upto(Path2(a, b), 1) = Path1(a)
         /\ Upto(Path3(a, b, c), 1) = Path1(a)
         /\ Upto(Path3(a, b, c), 2) = Path2(a, b)
  <1> DEFINE p == Path2(a, b)
             q == Path3(a, b, c)
  <1>1. /\ p \in Paths /\ Len(p) = 2 /\ p[1] = a /\ p[2] = b
        /\ q \in Paths /\ Len(q) = 3 /\ q[1] = a /\ q[2] = b
    BY PathsAre
  <1> HIDE DEF p, q
  <1>2. /\ Upto(p, 1) \in Paths /\ Len(Upto(p, 1)) = 1 /\ Upto(p, 1)[1] = a
        /\ Upto(q, 1) \in Paths /\ Len(Upto(q, 1)) = 1 /\ Upto(q, 1)[1] = a
        /\ Upto(q, 2) \in Paths /\ Len(Upto(q, 2)) = 2
        /\ Upto(q, 2)[1] = a /\ Upto(q, 2)[2] = b
    <2>1. /\ Upto(p, 1) \in Paths /\ Len(Upto(p, 1)) = 1
          /\ \A x \in 1..1 : Upto(p, 1)[x] = p[x]
      BY <1>1, UptoIs, 1 \in 0..2 DEF Paths
    <2>2. /\ Upto(q, 1) \in Paths /\ Len(Upto(q, 1)) = 1
          /\ \A x \in 1..1 : Upto(q, 1)[x] = q[x]
      BY <1>1, UptoIs, 1 \in 0..3 DEF Paths
    <2>3. /\ Upto(q, 2) \in Paths /\ Len(Upto(q, 2)) = 2
          /\ \A x \in 1..2 : Upto(q, 2)[x] = q[x]
      BY <1>1, UptoIs, 2 \in 0..3 DEF Paths
    <2> QED
      BY <1>1, <2>1, <2>2, <2>3, 1 \in 1..1, 1 \in 1..2, 2 \in 1..2
  <1>3. /\ Upto(p, 1) = Path1(a) /\ Upto(q, 1) = Path1(a)
        /\ Upto(q, 2) = Path2(a, b)
    BY <1>2, PathIs
  <1> QED
    BY <1>3 DEF p, q

LEMMA IntoIs ==
  ASSUME NEW d \in NameSet, NEW m \in NameSet, NEW p \in Paths, Len(p) > 0
  PROVE  /\ Into(d, m, p) \in Paths
         /\ p[1] # m => Into(d, m, p) = p
         /\ p[1] = m => /\ Len(Into(d, m, p)) = Len(p) + 1
                        /\ Into(d, m, p)[1] = d
                        /\ \A x \in 1..Len(p) : Into(d, m, p)[x + 1] = p[x]
  <1>1. CASE p[1] # m
    BY <1>1 DEF Into
  <1>2. CASE p[1] = m
    <2> DEFINE q == <<d>> \o p
    <2>1. <<d>> \in Seq(NameSet) /\ Len(<<d>>) = 1 /\ <<d>>[1] = d
      OBVIOUS
    <2>2. Len(p) \in Nat
      BY LenProperties DEF Paths
    <2>3. /\ q \in Seq(NameSet) /\ Len(q) = 1 + Len(p)
          /\ \A x \in 1..(1 + Len(p)) : q[x] = IF x <= 1 THEN <<d>>[x] ELSE p[x - 1]
      BY <2>1, ConcatProperties, Zenon DEF Paths
    <2> HIDE DEF q
    <2>4. q[1] = d
      BY <2>1, <2>2, <2>3
    <2>5. ASSUME NEW x \in 1..Len(p) PROVE q[x + 1] = p[x]
      BY <2>2, <2>3
    <2>6. Into(d, m, p) = q
      BY <1>2 DEF Into, q
    <2> QED
      BY <1>2, <2>2, <2>3, <2>4, <2>5, <2>6 DEF Paths
  <1> QED
    BY <1>1, <1>2

\* The end of a path stays, and a part of it goes where the path goes.
LEMMA IntoEnd ==
  ASSUME NEW d \in NameSet, NEW m \in NameSet, NEW p \in Paths, Len(p) > 0,
         NEW q, q = Into(d, m, p)
  PROVE  /\ q \in Paths /\ Len(q) \in {Len(p), Len(p) + 1} /\ Len(p) \in Nat
         /\ q[Len(q)] = p[Len(p)]
         /\ Len(p) > 1 => q[Len(q) - 1] = p[Len(p) - 1]
  <1>1. Len(p) \in Nat
    BY LenProperties DEF Paths
  <1>2. CASE p[1] # m
    BY <1>1, <1>2, IntoIs
  <1>3. CASE p[1] = m
    <2>1. /\ q \in Paths /\ Len(q) = Len(p) + 1
          /\ \A x \in 1..Len(p) : q[x + 1] = p[x]
      BY <1>3, IntoIs
    <2>2. q[Len(p) + 1] = p[Len(p)]
      BY <1>1, <2>1
    <2>3. ASSUME Len(p) > 1 PROVE q[(Len(p) - 1) + 1] = p[Len(p) - 1]
      BY <1>1, <2>1, <2>3
    <2> QED
      BY <1>1, <2>1, <2>2, <2>3
  <1> QED
    BY <1>2, <1>3

LEMMA IntoUpto ==
  ASSUME NEW d \in NameSet, NEW m \in NameSet, NEW p \in Paths,
         NEW n \in 1..Len(p)
  PROVE  Upto(Into(d, m, p), n + (Len(Into(d, m, p)) - Len(p)))
           = Into(d, m, Upto(p, n))
  <1> DEFINE q == Into(d, m, p)
             u == Upto(p, n)
  <1>1. Len(p) \in Nat /\ Len(p) > 0
    BY LenProperties DEF Paths
  <1>2. u \in Paths /\ Len(u) = n /\ \A x \in 1..n : u[x] = p[x]
    BY <1>1, UptoIs DEF Paths
  <1>3. u[1] = p[1] /\ Len(u) > 0
    BY <1>1, <1>2
  <1>4. CASE p[1] # m
    <2>1. q = p /\ Into(d, m, u) = u
      BY <1>1, <1>2, <1>3, <1>4, IntoIs
    <2> QED
      BY <1>1, <2>1
  <1>5. CASE p[1] = m
    <2> DEFINE v == Into(d, m, u)
               w == Upto(q, n + 1)
    <2>1. /\ q \in Paths /\ Len(q) = Len(p) + 1 /\ q[1] = d
          /\ \A x \in 1..Len(p) : q[x + 1] = p[x]
      BY <1>1, <1>5, IntoIs
    <2>2. /\ v \in Paths /\ Len(v) = n + 1 /\ v[1] = d
          /\ \A x \in 1..n : v[x + 1] = u[x]
      BY <1>2, <1>3, <1>5, IntoIs
    <2>3. w \in Paths /\ Len(w) = n + 1 /\ \A x \in 1..(n + 1) : w[x] = q[x]
      <3>1. q \in Seq(NameSet) /\ n + 1 \in 0..Len(q)
        BY <1>1, <2>1 DEF Paths
      <3> HIDE DEF q
      <3> QED
        BY <3>1, UptoIs DEF Paths
    <2> HIDE DEF q, u, v, w
    <2>4. ASSUME NEW x \in 1..(n + 1) PROVE w[x] = v[x]
      <3>1. CASE x = 1
        BY <2>1, <2>2, <2>3, <3>1
      <3>2. CASE x # 1
        <4>1. PICK y \in 1..n : x = y + 1
          <5>1. x - 1 \in 1..n /\ x = (x - 1) + 1
            BY <1>1, <3>2
          <5> QED
            BY <5>1
        <4>2. y \in 1..Len(p)
          BY <1>1
        <4>3. w[x] = q[y + 1] /\ q[y + 1] = p[y]
          BY <2>1, <2>3, <4>1, <4>2
        <4>4. v[x] = u[y] /\ u[y] = p[y]
          BY <1>2, <2>2, <4>1
        <4> QED
          BY <4>3, <4>4
      <3> QED
        BY <3>1, <3>2
    <2>5. w = v
      BY <2>2, <2>3, <2>4, SeqEqual DEF Paths
    <2>6. n + (Len(q) - Len(p)) = n + 1
      BY <1>1, <2>1
    <2> QED
      BY <2>5, <2>6 DEF q, u, v, w
  <1> QED
    BY <1>4, <1>5

LEMMA FrameNameIs ==
  ASSUME NEW m \in NameSet, NEW k \in Parts
  PROVE  /\ FrameName(m, k) \in NameSet /\ Len(FrameName(m, k)) = Len(m) + 6
         /\ Len(m) \in Nat
         /\ \A x \in 1..Len(m) : FrameName(m, k)[x] = m[x]
         /\ FrameName(m, k)[Len(m) + 2] = k
  <1> DEFINE e == <<"-", k, ".", "j", "p", "g">>
             q == m \o e
  <1>1. /\ e \in Seq(Parts) /\ Len(e) = 6 /\ e[2] = k
    <2>1. {"-", ".", "j", "p", "g"} \subseteq Parts
      BY DEF Parts, OfScript
    <2> QED
      BY <2>1
  <1>2. Len(m) \in Nat /\ m \in Seq(Parts)
    BY LenProperties DEF NameSet
  <1> HIDE DEF e
  <1>3. /\ q \in Seq(Parts) /\ Len(q) = Len(m) + Len(e)
        /\ \A x \in 1..(Len(m) + Len(e)) :
             q[x] = IF x <= Len(m) THEN m[x] ELSE e[x - Len(m)]
    BY <1>1, <1>2, ConcatProperties, Zenon
  <1>4. FrameName(m, k) = q
    BY DEF FrameName, e
  <1> HIDE DEF q
  <1>5. Len(q) = Len(m) + 6 /\ \A x \in 1..Len(m) : q[x] = m[x]
    BY <1>1, <1>2, <1>3
  <1>6. q[Len(m) + 2] = k
    <2>1. /\ Len(m) + 2 \in 1..(Len(m) + Len(e)) /\ ~(Len(m) + 2 <= Len(m))
          /\ Len(m) + 2 - Len(m) = 2
      BY <1>1, <1>2
    <2>2. q[Len(m) + 2] = e[2]
      BY <1>3, <2>1
    <2> QED
      BY <1>1, <2>2
  <1> QED
    BY <1>2, <1>3, <1>4, <1>5, <1>6 DEF NameSet

LEMMA MovieIs ==
  ASSUME NEW m \in NameSet, IsMovie(m)
  PROVE  Len(m) \in Nat /\ Len(m) >= 5
  <1>1. Len(m) \in Nat
    BY LenProperties DEF NameSet
  <1>2. PICK x \in 2..(Len(m) - 3) : TRUE
    BY DEF IsMovie
  <1> QED
    BY <1>1, <1>2

LEMMA SubfoldersAre ==
  /\ Jp4s \in NameSet /\ Dngs \in NameSet /\ Jp4s # Dngs
  /\ Len(Jp4s) = 4 /\ Len(Dngs) = 4
  /\ ~IsMovie(Jp4s) /\ ~IsMovie(Dngs)
  <1>1. OfScript \subseteq Parts
    BY DEF Parts, OfScript
  <1>2. ASSUME NEW a \in Parts, NEW b \in Parts, NEW c \in Parts, NEW e \in Parts,
               NEW n, n = <<a, b, c, e>>
        PROVE  n \in NameSet /\ Len(n) = 4 /\ n[1] = a
    BY <1>2 DEF NameSet
  <1>3. /\ Jp4s \in NameSet /\ Len(Jp4s) = 4 /\ Jp4s[1] = "j"
        /\ Dngs \in NameSet /\ Len(Dngs) = 4 /\ Dngs[1] = "d"
    BY <1>1, <1>2 DEF Jp4s, Dngs, OfScript
  <1>4. Jp4s # Dngs
    BY <1>3
  <1>5. ~IsMovie(Jp4s) /\ ~IsMovie(Dngs)
    <2>1. ASSUME NEW n \in NameSet, Len(n) = 4, IsMovie(n) PROVE FALSE
      <3>1. Len(n) >= 5
        BY <2>1, MovieIs
      <3> QED
        BY <2>1, <3>1
    <2> QED
      BY <1>3, <2>1
  <1> QED
    BY <1>3, <1>4, <1>5

LEMMA FrameNameInjective ==
  ASSUME NEW m \in NameSet, NEW k \in Parts, NEW n \in NameSet, NEW l \in Parts,
         FrameName(m, k) = FrameName(n, l)
  PROVE  m = n /\ k = l
  <1>1. /\ Len(m) \in Nat /\ FrameName(m, k)[Len(m) + 2] = k
        /\ Len(FrameName(m, k)) = Len(m) + 6
        /\ \A x \in 1..Len(m) : FrameName(m, k)[x] = m[x]
    BY FrameNameIs
  <1>2. /\ Len(n) \in Nat /\ FrameName(n, l)[Len(n) + 2] = l
        /\ Len(FrameName(n, l)) = Len(n) + 6
        /\ \A x \in 1..Len(n) : FrameName(n, l)[x] = n[x]
    BY FrameNameIs
  <1>3. Len(m) = Len(n)
    <2>1. Len(m) + 6 = Len(n) + 6
      BY <1>1, <1>2, Zenon
    <2> QED
      BY <1>1, <1>2, <2>1
  <1>4. k = l
    BY <1>1, <1>2, <1>3
  <1>5. \A x \in 1..Len(m) : m[x] = n[x]
    BY <1>1, <1>2, <1>3
  <1>6. m = n
    BY <1>3, <1>5, SeqEqual DEF NameSet
  <1> QED
    BY <1>4, <1>6

\* The folder of a clip has a name of its own, and no frame has a clip's place.
LEMMA FolderIs ==
  ASSUME NEW m \in NameSet, IsMovie(m)
  PROVE  /\ Folder(m) \in NameSet /\ Folder(m) # m
         /\ Len(m) \in Nat /\ Len(m) >= 5 /\ Len(Folder(m)) = Len(m) - 4
         /\ \A k \in Parts : Folder(FrameName(m, k)) # Folder(m)
  <1>1. Len(m) \in Nat /\ Len(m) >= 5
    BY MovieIs
  <1>2. ASSUME NEW q \in Seq(Parts), Len(q) \in Nat, Len(q) >= 5
        PROVE  Folder(q) \in Seq(Parts) /\ Len(Folder(q)) = Len(q) - 4
    <2>1. Folder(q) = Upto(q, Len(q) - 4) /\ Len(q) - 4 \in 0..Len(q)
      BY <1>2 DEF Folder, Upto
    <2> QED
      BY <2>1, UptoIs
  <1>3. Folder(m) \in NameSet /\ Len(Folder(m)) = Len(m) - 4
    BY <1>1, <1>2 DEF NameSet
  <1>4. ASSUME NEW k \in Parts PROVE Folder(FrameName(m, k)) # Folder(m)
    <2> DEFINE q == FrameName(m, k)
    <2>1. q \in Seq(Parts) /\ Len(q) = Len(m) + 6
      BY FrameNameIs DEF NameSet
    <2> HIDE DEF q
    <2>2. Len(Folder(q)) = Len(q) - 4
      BY <1>1, <1>2, <2>1
    <2>3. Folder(q) # Folder(m)
      BY <1>1, <1>3, <2>1, <2>2
    <2> QED
      BY <2>3 DEF q
  <1>5. Folder(m) # m
    BY <1>1, <1>3
  <1> QED
    BY <1>1, <1>3, <1>4, <1>5

\* In a command, a name without a blank is one argument.
LEMMA OneArgument ==
  ASSUME NEW d \in NameSet, NEW m \in NameSet
  PROVE  /\ Alone(m) = <<Path1(m)>> /\ Pasted(d, m) = <<Path2(d, m)>>
  <1>1. ASSUME NEW n \in NameSet PROVE Pieces(n) = <<n>>
    <2>1. \A i \in DOMAIN n : n[i] # " "
      <3>1. DOMAIN n = 1..Len(n)
        BY LenProperties DEF NameSet
      <3>2. \A i \in 1..Len(n) : n[i] \in Parts
        BY ElementOfSeq DEF NameSet
      <3> QED
        BY <3>1, <3>2 DEF Parts
    <2>2. Blanks(n) = {}
      BY <2>1 DEF Blanks
    <2> QED
      BY <2>2 DEF Pieces
  <1>2. Alone(m) = [i \in DOMAIN <<m>> |-> << <<m>>[i] >>]
    BY <1>1 DEF Alone
  <1>3. Alone(m) = <<Path1(m)>>
    BY <1>2 DEF Path1
  <1>4. Pasted(d, m) = [i \in 1..1 |-> <<d, m>>]
    <2> DEFINE e == <<d>>
               w == <<m>>
    <2>1. Pasted(d, m) = [i \in 1..(Len(e) + Len(w) - 1) |->
                            CASE i < Len(e) -> <<e[i]>>
                              [] i = Len(e) -> <<e[i], w[1]>>
                              [] OTHER      -> <<w[i - Len(e) + 1]>>]
      <3>1. Pieces(d) = e /\ Pieces(m) = w
        BY <1>1
      <3> HIDE DEF e, w
      <3> QED
        BY <3>1 DEF Pasted
    <2>2. Len(e) = 1 /\ Len(w) = 1 /\ e[1] = d /\ w[1] = m
      OBVIOUS
    <2> HIDE DEF e, w
    <2>3. 1..(Len(e) + Len(w) - 1) = 1..1
      BY <2>2
    <2>4. \A i \in 1..1 : /\ i = Len(e) /\ ~(i < Len(e))
                          /\ <<e[i], w[1]>> = <<d, m>>
      <3>1. \A i \in 1..1 : i = 1
        OBVIOUS
      <3>2. ~(1 < 1)
        OBVIOUS
      <3> QED
        BY <2>2, <3>1, <3>2, Zenon
    <2> DEFINE V(i) == CASE i < Len(e) -> <<e[i]>>
                         [] i = Len(e) -> <<e[i], w[1]>>
                         [] OTHER      -> <<w[i - Len(e) + 1]>>
    <2>5. \A i \in 1..1 : V(i) = <<d, m>>
      BY <2>4
    <2>6. Pasted(d, m) = [i \in 1..1 |-> V(i)]
      BY <2>1, <2>3
    <2> HIDE DEF V
    <2> QED
      BY <2>5, <2>6
  <1>5. Pasted(d, m) = <<Path2(d, m)>>
    BY <1>4 DEF Path2
  <1> QED
    BY <1>3, <1>5

-----------------------------------------------------------------------------
(* process.php: what lies where. *)

NewestOf(id, ids) == <<id[1], id[2] + 1>> \notin ids

IsFrame(node) == node.kind \in {"jp4", "dng"}

Kinds(ids) ==
  {Dir} \cup {Clip(id) : id \in ids}
        \cup {Frame("jp4", x[1], x[2]) : x \in ids \X Frames}
        \cup {Frame("dng", x[1], x[2]) : x \in ids \X Frames}

\* The parent of a path is the folder of a clip, not jp4s/ or dngs/.
InFolder(p) == Len(p) = 2 \/ (Len(p) > 2 /\ IsMovie(p[Len(p) - 1]))

\* The path of a thing that MoveClip has moved to its folder.
Moved(p) == IsMovie(p[Len(p)]) /\ p[Len(p) - 1] = Folder(p[Len(p)])

\* A directory below the top is jp4s/ or dngs/ or was moved, and a clip that is
\* not in its folder is the last one with its name.
Placed(p, node, ids) ==
  /\ node.kind = "dir" /\ Len(p) > 1 =>
       InFolder(p) /\ (Moved(p) \/ p[Len(p)] \in {Jp4s, Dngs})
  /\ node.kind = "clip" =>
       /\ p[Len(p)] = node.id[1]
       /\ Len(p) = 1 => NewestOf(node.id, ids)
       /\ Len(p) > 1 => InFolder(p) /\ Moved(p)
  /\ IsFrame(node) => p[Len(p)] = FrameName(node.id[1], node.k)
  /\ node.kind = "jp4" => InFolder(p) \/ (Len(p) > 2 /\ p[Len(p) - 1] = Jp4s)
  /\ node.kind = "dng" => Len(p) > 2 /\ p[Len(p) - 1] = Dngs

\* All that a path goes through is a directory.
Rooted(p, f) ==
  \A n \in 1..(Len(p) - 1) : Upto(p, n) \in DOMAIN f /\ f[Upto(p, n)] = Dir

Tree(f, ids) ==
  \A p \in DOMAIN f : /\ p \in Paths /\ Len(p) > 0
                      /\ f[p] \in Kinds(ids) /\ Placed(p, f[p], ids)
                      /\ Rooted(p, f)

\* The folder of the clip a frame was made from, and how far it has got.
Home(p)  == Upto(p, Len(p) - (IF InFolder(p) THEN 1 ELSE 2))
Stage(p) == IF InFolder(p) THEN 0 ELSE IF p[Len(p) - 1] = Jp4s THEN 1 ELSE 2

\* Clip y at q lies in the folder of frame x at p, and is no older than it.
HomeClip(p, x, q, y) ==
  /\ y.kind = "clip" /\ Upto(q, Len(q) - 1) = Home(p)
  /\ y.id[1] = x.id[1] /\ x.id[2] <= y.id[2]

Homes(f) ==
  \A p \in DOMAIN f : IsFrame(f[p]) =>
    \E q \in DOMAIN f : HomeClip(p, f[p], q, f[q])

\* What has got further is no newer.
Ages(f) ==
  \A p, q \in DOMAIN f :
    (/\ IsFrame(f[p]) /\ IsFrame(f[q])
     /\ Home(p) = Home(q) /\ p[Len(p)] = q[Len(q)] /\ Stage(p) < Stage(q))
      => f[q].id[2] <= f[p].id[2]

ClipsIn(f, ids) ==
  \A id \in ids : NewestOf(id, ids) => \E p \in DOMAIN f : f[p] = Clip(id)

FramesIn(f, ids, done) ==
  \A x \in done : NewestOf(x[1], ids) =>
    \E p \in DOMAIN f : f[p] \in {Frame("jp4", x[1], x[2]), Frame("dng", x[1], x[2])}

\* In folder d, whatever lies in jp4s/ lies converted in dngs/.
MadeIn(f, d) ==
  \A p \in DOMAIN f : Len(p) = 3 /\ p[1] = d /\ p[2] = Jp4s =>
    /\ Path3(d, Dngs, p[3]) \in DOMAIN f
    /\ f[Path3(d, Dngs, p[3])] = [f[p] EXCEPT !.kind = "dng"]

LEMMA KindsAre ==
  ASSUME NEW ids, NEW node \in Kinds(ids)
  PROVE  /\ node.kind \in {"dir", "clip", "jp4", "dng"}
         /\ node.kind = "dir" <=> node = Dir
         /\ node.kind = "clip" => node.id \in ids /\ node = Clip(node.id)
         /\ IsFrame(node) => /\ node.id \in ids /\ node.k \in Frames
                             /\ node = Frame(node.kind, node.id, node.k)
  <1>1. CASE node = Dir
    BY <1>1 DEF Dir, IsFrame
  <1>2. ASSUME NEW id \in ids, node = Clip(id)
        PROVE  node.kind = "clip" /\ node.id = id /\ node # Dir
    BY <1>2 DEF Clip, Dir
  <1>3. ASSUME NEW x \in ids \X Frames, NEW kind \in {"jp4", "dng"},
               node = Frame(kind, x[1], x[2])
        PROVE  /\ node.kind = kind /\ node.id = x[1] /\ node.k = x[2]
               /\ node # Dir /\ x[1] \in ids /\ x[2] \in Frames
    BY <1>3 DEF Frame, Dir
  <1>4. \/ node = Dir \/ \E id \in ids : node = Clip(id)
        \/ \E x \in ids \X Frames, kind \in {"jp4", "dng"} :
             node = Frame(kind, x[1], x[2])
    BY DEF Kinds
  <1> QED
    BY <1>1, <1>2, <1>3, <1>4 DEF IsFrame

LEMMA NodesAre ==
  ASSUME NEW ids,
         NEW id \in ids, NEW k \in Frames, NEW kind \in {"jp4", "dng"}
  PROVE  /\ Dir \in Kinds(ids) /\ Dir.kind = "dir" /\ ~IsFrame(Dir)
         /\ Clip(id) \in Kinds(ids) /\ Clip(id).kind = "clip" /\ Clip(id).id = id
         /\ ~IsFrame(Clip(id))
         /\ Frame(kind, id, k) \in Kinds(ids) /\ Frame(kind, id, k).kind = kind
         /\ Frame(kind, id, k).id = id /\ Frame(kind, id, k).k = k
         /\ IsFrame(Frame(kind, id, k))
         /\ [Frame(kind, id, k) EXCEPT !.kind = "dng"] = Frame("dng", id, k)
  <1>1. /\ Dir.kind = "dir" /\ Clip(id).kind = "clip" /\ Clip(id).id = id
        /\ Frame(kind, id, k).kind = kind
        /\ Frame(kind, id, k).id = id /\ Frame(kind, id, k).k = k
        /\ [Frame(kind, id, k) EXCEPT !.kind = "dng"] = Frame("dng", id, k)
    BY DEF Dir, Clip, Frame
  <1>2. Dir \in Kinds(ids) /\ Clip(id) \in Kinds(ids)
    BY DEF Kinds
  <1>3. Frame(kind, id, k) \in Kinds(ids)
    <2>1. <<id, k>> \in ids \X Frames /\ <<id, k>>[1] = id /\ <<id, k>>[2] = k
      OBVIOUS
    <2> QED
      BY <2>1 DEF Kinds
  <1> QED
    BY <1>1, <1>2, <1>3 DEF IsFrame

LEMMA TreeAt ==
  ASSUME NEW f, NEW ids, Tree(f, ids), NEW p \in DOMAIN f
  PROVE  /\ p \in Paths /\ Len(p) \in Nat \ {0}
         /\ f[p] \in Kinds(ids) /\ Placed(p, f[p], ids)
         /\ \A n \in 1..(Len(p) - 1) :
              Upto(p, n) \in DOMAIN f /\ f[Upto(p, n)] = Dir
  <1>1. p \in Paths /\ Len(p) > 0
    BY DEF Tree
  <1>2. Len(p) \in Nat
    BY <1>1, LenProperties DEF Paths
  <1> QED
    BY <1>1, <1>2 DEF Tree, Rooted

LEMMA LengthIs ==
  ASSUME NEW n \in Nat
  PROVE  /\ n > 0 => n = 1 \/ n > 1
         /\ n > 1 => n > 0 /\ n # 1 /\ (n = 2 \/ n > 2)
         /\ n >= 2 => n = 2 \/ n > 2
         /\ n > 2 => n > 1 /\ n # 2 /\ (n = 3 \/ 3 \in 1..(n - 1))
  OBVIOUS

\* In jp4s/ and dngs/ there are frames only.
LEMMA InSubfolder ==
  ASSUME NEW f, NEW ids, Tree(f, ids), NEW p \in DOMAIN f, Len(p) > 2,
         NEW s \in {Jp4s, Dngs}, p[2] = s
  PROVE  /\ Len(p) = 3 /\ p = Path3(p[1], s, p[3]) /\ ~InFolder(p)
         /\ IsFrame(f[p]) /\ f[p].kind = (IF s = Jp4s THEN "jp4" ELSE "dng")
         /\ p[3] = FrameName(f[p].id[1], f[p].k)
  <1>0. ~IsMovie(s) /\ Jp4s # Dngs
    BY SubfoldersAre
  <1>1. /\ p \in Paths /\ Len(p) \in Nat \ {0}
        /\ f[p] \in Kinds(ids) /\ Placed(p, f[p], ids)
        /\ \A n \in 1..(Len(p) - 1) :
             Upto(p, n) \in DOMAIN f /\ f[Upto(p, n)] = Dir
    BY TreeAt
  <1>2. Len(p) = 3
    <2>0. Len(p) \in Nat
      BY <1>1
    <2> SUFFICES ASSUME Len(p) # 3 PROVE FALSE
      OBVIOUS
    <2>b. 3 \in 1..(Len(p) - 1)
      BY <2>0, LengthIs, Zenon
    <2> DEFINE u == Upto(p, 3)
    <2>1. u \in DOMAIN f /\ f[u] = Dir
      BY <1>1, <2>b
    <2>2. p \in Seq(NameSet) /\ 3 \in 0..Len(p) /\ 2 \in 1..3
      BY <1>1, <2>0 DEF Paths
    <2>3. Len(u) = 3 /\ u[2] = s
      <3>1. Len(u) = 3 /\ \A x \in 1..3 : u[x] = p[x]
        BY <2>2, UptoIs
      <3> HIDE DEF u
      <3> QED
        BY <2>2, <3>1
    <2> HIDE DEF u
    <2>4. Placed(u, f[u], ids)
      BY <2>1, TreeAt
    <2>5. f[u].kind = "dir"
      BY <2>1 DEF Dir
    <2>6. InFolder(u)
      BY <2>3, <2>4, <2>5 DEF Placed
    <2>7. Len(u) - 1 = 2
      BY <2>3
    <2>8. IsMovie(u[2])
      BY <2>3, <2>6, <2>7 DEF InFolder
    <2> QED
      BY <1>0, <2>3, <2>8
  <1>3. Len(p) - 1 = 2
    BY <1>2
  <1>4. ~InFolder(p)
    BY <1>0, <1>2, <1>3 DEF InFolder
  <1>5. f[p].kind \notin {"dir", "clip"}
    BY <1>1, <1>2, <1>4 DEF Placed
  <1>6. f[p].kind \in {"jp4", "dng"}
    BY <1>1, <1>5, KindsAre
  <1>7. f[p].kind = (IF s = Jp4s THEN "jp4" ELSE "dng")
    BY <1>0, <1>1, <1>3, <1>4, <1>6 DEF Placed
  <1>8. p[3] = FrameName(f[p].id[1], f[p].k)
    BY <1>1, <1>2, <1>6 DEF Placed, IsFrame
  <1>9. p = Path3(p[1], s, p[3])
    BY <1>1, <1>2, PathIs
  <1> QED
    BY <1>2, <1>4, <1>6, <1>7, <1>8, <1>9 DEF IsFrame

\* What lies where movie2dng writes a frame is one.
LEMMA FrameAt ==
  ASSUME NEW f, NEW ids, Tree(f, ids), ids \subseteq Ids,
         NEW m \in NameSet, IsMovie(m), NEW k \in Frames, Frames \subseteq Parts,
         NEW p, p = Path2(Folder(m), FrameName(m, k)), p \in DOMAIN f
  PROVE  /\ IsFrame(f[p]) /\ f[p].kind = "jp4"
         /\ f[p].id \in ids /\ f[p].id[1] = m /\ f[p].k = k
         /\ f[p] = Frame("jp4", f[p].id, k)
  <1>1. /\ FrameName(m, k) \in NameSet /\ Len(FrameName(m, k)) = Len(m) + 6
        /\ Len(m) \in Nat
    BY FrameNameIs
  <1>2. Folder(m) \in NameSet /\ Folder(FrameName(m, k)) # Folder(m)
    BY FolderIs
  <1>3. Len(p) = 2 /\ p[1] = Folder(m) /\ p[2] = FrameName(m, k)
    BY <1>1, <1>2, PathsAre
  <1>4. f[p] \in Kinds(ids) /\ Placed(p, f[p], ids)
    BY TreeAt
  <1>5. Len(p) - 1 = 1
    BY <1>3
  <1>6. ~Moved(p)
    BY <1>2, <1>3, <1>5 DEF Moved
  <1>7. p[2] \notin {Jp4s, Dngs}
    <2>1. Len(p[2]) = Len(m) + 6 /\ Len(m) + 6 # 4
      BY <1>1, <1>3
    <2> QED
      BY <2>1, SubfoldersAre
  <1>8. f[p].kind \notin {"dir", "clip", "dng"}
    BY <1>3, <1>4, <1>6, <1>7 DEF Placed
  <1>9. f[p].kind = "jp4"
    BY <1>4, <1>8, KindsAre
  <1>10. IsFrame(f[p])
    BY <1>9 DEF IsFrame
  <1>11. /\ f[p].id \in ids /\ f[p].k \in Frames
         /\ f[p] = Frame(f[p].kind, f[p].id, f[p].k)
    BY <1>4, <1>10, KindsAre
  <1>12. p[2] = FrameName(f[p].id[1], f[p].k)
    BY <1>3, <1>4, <1>10 DEF Placed
  <1>13. f[p].id[1] \in NameSet
    BY <1>11 DEF Ids
  <1>14. f[p].id[1] = m /\ f[p].k = k
    <2>1. k \in Parts /\ f[p].k \in Parts
      BY <1>11
    <2>2. FrameName(m, k) = FrameName(f[p].id[1], f[p].k)
      BY <1>3, <1>12
    <2> DEFINE n == f[p].id[1]
               l == f[p].k
    <2> HIDE DEF n, l
    <2>3. n \in NameSet /\ l \in Parts /\ FrameName(m, k) = FrameName(n, l)
      BY <1>13, <2>1, <2>2 DEF n, l
    <2>4. m = n /\ k = l
      BY <2>1, <2>3, FrameNameInjective
    <2> QED
      BY <2>4 DEF n, l
  <1> QED
    BY <1>9, <1>10, <1>11, <1>14

\* Frames that are written, moved or removed leave the rest as it is.
LEMMA FramesChange ==
  ASSUME NEW f, NEW g, NEW ids, Tree(f, ids), Homes(f), ClipsIn(f, ids),
         \A p \in DOMAIN f : ~IsFrame(f[p]) => p \in DOMAIN g /\ g[p] = f[p],
         \A p \in DOMAIN g :
           \/ p \in DOMAIN f /\ g[p] = f[p]
           \/ /\ p \in Paths /\ Len(p) > 0 /\ IsFrame(g[p])
              /\ g[p] \in Kinds(ids) /\ Placed(p, g[p], ids) /\ Rooted(p, f)
              /\ \E q \in DOMAIN f : HomeClip(p, g[p], q, f[q])
  PROVE  Tree(g, ids) /\ Homes(g) /\ ClipsIn(g, ids)
  <1>1. ~IsFrame(Dir)
    BY DEF IsFrame, Dir
  <1>2. ASSUME NEW p, Rooted(p, f) PROVE Rooted(p, g)
    BY <1>1, <1>2 DEF Rooted
  <1>3. Tree(g, ids)
    BY <1>2 DEF Tree
  <1>4. Homes(g)
    <2> SUFFICES ASSUME NEW p \in DOMAIN g, IsFrame(g[p])
                 PROVE  \E q \in DOMAIN g : HomeClip(p, g[p], q, g[q])
      BY DEF Homes
    <2>1. PICK q \in DOMAIN f : HomeClip(p, g[p], q, f[q])
      BY DEF Homes
    <2>2. ~IsFrame(f[q])
      BY <2>1 DEF HomeClip, IsFrame
    <2> QED
      BY <2>1, <2>2
  <1>5. ClipsIn(g, ids)
    <2> SUFFICES ASSUME NEW id \in ids, NewestOf(id, ids)
                 PROVE  \E p \in DOMAIN g : g[p] = Clip(id)
      BY DEF ClipsIn
    <2>1. PICK p \in DOMAIN f : f[p] = Clip(id)
      BY DEF ClipsIn
    <2>2. ~IsFrame(f[p])
      BY <2>1 DEF Clip, IsFrame
    <2> QED
      BY <2>1, <2>2
  <1> QED
    BY <1>3, <1>4, <1>5

LEMMA NewestIs ==
  ASSUME NEW ids, ids \subseteq Ids, NEW x \in ids, NEW y \in ids,
         x[1] = y[1], NewestOf(x, ids)
  PROVE  /\ y[2] <= x[2] /\ y[2] \in Nat /\ x[2] \in Nat
         /\ x[2] <= y[2] => x = y
  <1>1. /\ x[2] \in {1, 2} /\ y[2] \in {1, 2}
        /\ x = <<x[1], x[2]>> /\ y = <<y[1], y[2]>>
    BY DEF Ids
  <1>2. CASE y[2] = x[2] + 1
    BY <1>1, <1>2 DEF NewestOf
  <1>3. CASE y[2] # x[2] + 1
    <2>1. y[2] <= x[2]
      BY <1>1, <1>3
    <2>2. x[2] <= y[2] => x[2] = y[2]
      BY <1>1, <2>1
    <2> QED
      BY <1>1, <2>1, <2>2
  <1> QED
    BY <1>2, <1>3

LEMMA PrefixIs ==
  ASSUME NEW A, NEW s \in Seq(A), NEW p \in Seq(A)
  PROVE  IsPrefix(s, p) <=> Len(s) <= Len(p) /\ \A x \in 1..Len(s) : p[x] = s[x]
  <1>1. Len(s) \in Nat /\ Len(p) \in Nat
    BY LenProperties
  <1>2. CASE ~(Len(s) <= Len(p))
    BY <1>2 DEF IsPrefix
  <1>3. CASE Len(s) <= Len(p)
    <2> DEFINE n == Len(s)
    <2>1. /\ s \in Seq(A) /\ p \in Seq(A)
          /\ n \in 0..Len(s) /\ n \in 0..Len(p)
      BY <1>1, <1>3
    <2>2. /\ Upto(s, n) \in Seq(A) /\ Len(Upto(s, n)) = n
          /\ \A x \in 1..n : Upto(s, n)[x] = s[x]
      BY <2>1, UptoIs
    <2>3. /\ Upto(p, n) \in Seq(A) /\ Len(Upto(p, n)) = n
          /\ \A x \in 1..n : Upto(p, n)[x] = p[x]
      BY <2>1, UptoIs
    <2>4. (\A x \in 1..n : p[x] = s[x]) => Upto(s, n) = Upto(p, n)
      <3> SUFFICES ASSUME \A x \in 1..n : p[x] = s[x]
                   PROVE  Upto(s, n) = Upto(p, n)
        OBVIOUS
      <3>1. \A x \in 1..Len(Upto(s, n)) : Upto(s, n)[x] = Upto(p, n)[x]
        BY <2>2, <2>3
      <3> QED
        BY <2>2, <2>3, <3>1, SeqEqual
    <2>5. Upto(s, n) = Upto(p, n) => \A x \in 1..n : p[x] = s[x]
      BY <2>2, <2>3
    <2>6. IsPrefix(s, p) <=> Upto(s, n) = Upto(p, n)
      BY <1>3 DEF IsPrefix, Upto
    <2> QED
      BY <1>3, <2>4, <2>5, <2>6
  <1> QED
    BY <1>2, <1>3

LEMMA BelowIs ==
  ASSUME NEW a \in NameSet, NEW b \in NameSet, NEW p \in Paths
  PROVE  /\ Len(p) \in Nat
         /\ IsPrefix(Path1(a), p) <=> Len(p) >= 1 /\ p[1] = a
         /\ IsPrefix(Path2(a, b), p) <=> Len(p) >= 2 /\ p[1] = a /\ p[2] = b
  <1> DEFINE u == Path1(a)
             v == Path2(a, b)
  <1>1. /\ u \in Paths /\ Len(u) = 1 /\ u[1] = a
        /\ v \in Paths /\ Len(v) = 2 /\ v[1] = a /\ v[2] = b
    BY PathsAre
  <1>2. Len(p) \in Nat
    BY LenProperties DEF Paths
  <1> HIDE DEF u, v
  <1>3. IsPrefix(u, p) <=> Len(u) <= Len(p) /\ \A x \in 1..Len(u) : p[x] = u[x]
    BY <1>1, PrefixIs DEF Paths
  <1>4. IsPrefix(v, p) <=> Len(v) <= Len(p) /\ \A x \in 1..Len(v) : p[x] = v[x]
    BY <1>1, PrefixIs DEF Paths
  <1>5. IsPrefix(u, p) <=> Len(p) >= 1 /\ p[1] = a
    BY <1>1, <1>2, <1>3
  <1>6. IsPrefix(v, p) <=> Len(p) >= 2 /\ p[1] = a /\ p[2] = b
    <2>1. (\A x \in 1..2 : p[x] = v[x]) <=> p[1] = v[1] /\ p[2] = v[2]
      <3>1. 1 \in 1..2 /\ 2 \in 1..2 /\ \A x \in 1..2 : x = 1 \/ x = 2
        OBVIOUS
      <3> QED
        BY <3>1, Zenon
    <2> QED
      BY <1>1, <1>2, <1>4, <2>1
  <1> QED
    BY <1>2, <1>5, <1>6 DEF u, v

-----------------------------------------------------------------------------
(* process.php: moving a clip to its folder. *)

\* g is f after mv of m to the folder d.
MovesTo(f, g, d, m) ==
  LET old == {q \in DOMAIN f : IsPrefix(Path1(m), q)}
      new == {<<d>> \o q : q \in old}
  IN  /\ DOMAIN g = (DOMAIN f \ old) \cup new
      /\ \A q \in old : g[<<d>> \o q] = f[q]
      /\ \A p \in DOMAIN f \ old : p \notin new => g[p] = f[p]

\* Below the path p there is nothing.
Empty(f, p) == \A q \in DOMAIN f : IsPrefix(p, q) => q = p

\* mv finds the folder, and at its target nothing or, for a clip, a clip and,
\* for a directory, an empty one.
MayMove(f, d, m) ==
  /\ d \in NameSet /\ m \in NameSet /\ d # m
  /\ Path1(d) \in DOMAIN f /\ f[Path1(d)] = Dir
  /\ Path1(m) \in DOMAIN f
  /\ Path2(d, m) \in DOMAIN f =>
       \/ f[Path2(d, m)].kind = "clip" /\ f[Path1(m)].kind = "clip"
       \/ /\ f[Path2(d, m)] = Dir /\ f[Path1(m)] = Dir
          /\ Empty(f, Path2(d, m))

\* Nothing lies below the target.
LEMMA NothingBelow ==
  ASSUME NEW f, NEW ids, Tree(f, ids), NEW d, NEW m, MayMove(f, d, m),
         NEW p \in DOMAIN f, Len(p) >= 2, p[1] = d, p[2] = m
  PROVE  p = Path2(d, m)
  <1>1. /\ p \in Paths /\ Len(p) \in Nat
        /\ \A n \in 1..(Len(p) - 1) :
             Upto(p, n) \in DOMAIN f /\ f[Upto(p, n)] = Dir
    BY TreeAt
  <1>2. CASE Len(p) = 2
    BY <1>1, <1>2, PathIs
  <1>3. CASE Len(p) > 2
    <2> DEFINE u == Upto(p, 2)
    <2>1. 2 \in 1..(Len(p) - 1) /\ 2 \in 0..Len(p) /\ 1 \in 1..2 /\ 2 \in 1..2
      BY <1>1, <1>3
    <2>2. u \in DOMAIN f /\ f[u] = Dir
      BY <1>1, <2>1
    <2>3. u \in Paths /\ Len(u) = 2 /\ \A x \in 1..2 : u[x] = p[x]
      BY <1>1, <2>1, UptoIs DEF Paths
    <2>4. u = Path2(d, m)
      BY <2>1, <2>3, PathIs
    <2>5. IsPrefix(Path2(d, m), p)
      BY <1>1, BelowIs DEF MayMove
    <2>6. Path2(d, m) \in DOMAIN f /\ f[Path2(d, m)] = Dir /\ Dir.kind # "clip"
      BY <2>2, <2>4 DEF Dir
    <2>7. p = Path2(d, m)
      BY <2>5, <2>6 DEF MayMove, Empty
    <2> QED
      BY <2>7
  <1>4. Len(p) = 2 \/ Len(p) > 2
    BY <1>1, LengthIs, Zenon
  <1> QED
    BY <1>2, <1>3, <1>4

LEMMA IntoMovesTop ==
  ASSUME NEW d \in NameSet, NEW m \in NameSet, d # m
  PROVE  Into(d, m, Path1(m)) = Path2(d, m) /\ Into(d, m, Path1(d)) = Path1(d)
  <1>1. ASSUME NEW p \in Paths, Len(p) = 1, p[1] = m, NEW q, q = Into(d, m, p)
        PROVE  q = Path2(d, m)
    <2>1. Len(p) > 0 /\ p[1] = m /\ q = Into(d, m, p)
      BY <1>1
    <2>2. /\ q \in Paths /\ Len(q) = Len(p) + 1 /\ q[1] = d
          /\ \A x \in 1..Len(p) : q[x + 1] = p[x]
      BY <2>1, IntoIs
    <2>3. Len(q) = 2 /\ q[1 + 1] = p[1]
      BY <1>1, <2>2
    <2> QED
      BY <1>1, <2>2, <2>3, PathIs
  <1>2. Path1(m) \in Paths /\ Len(Path1(m)) = 1 /\ Path1(m)[1] = m
    BY PathsAre
  <1>3. Path1(d)[1] = d
    BY PathsAre
  <1>4. Into(d, m, Path1(d)) = Path1(d)
    BY <1>3 DEF Into
  <1> QED
    BY <1>1, <1>2, <1>4

\* Each thing but the one that is replaced goes where Into says, and there is
\* nothing else.
LEMMA MovesAll ==
  ASSUME NEW f, NEW g, NEW ids, Tree(f, ids),
         NEW d, NEW m, MayMove(f, d, m), MovesTo(f, g, d, m)
  PROVE  /\ \A p \in DOMAIN f \ {Path2(d, m)} :
              Into(d, m, p) \in DOMAIN g /\ g[Into(d, m, p)] = f[p]
         /\ \A r \in DOMAIN g : \E p \in DOMAIN f \ {Path2(d, m)} :
              r = Into(d, m, p)
  <1> DEFINE t   == Path2(d, m)
             old == {q \in DOMAIN f : IsPrefix(Path1(m), q)}
  <1>1. d \in NameSet /\ m \in NameSet /\ d # m /\ Path1(m) \in DOMAIN f
    BY DEF MayMove
  <1>2. DOMAIN g = (DOMAIN f \ old) \cup {<<d>> \o q : q \in old}
    BY DEF MovesTo
  <1>3. /\ \A q \in old : g[<<d>> \o q] = f[q]
        /\ \A p \in DOMAIN f \ old :
             p \notin {<<d>> \o q : q \in old} => g[p] = f[p]
    BY DEF MovesTo
  <1>4. ASSUME NEW p \in DOMAIN f
        PROVE  p \in Paths /\ Len(p) \in Nat \ {0} /\ (p \in old <=> p[1] = m)
    <2>1. p \in Paths /\ Len(p) \in Nat \ {0}
      BY TreeAt
    <2> QED
      BY <1>1, <2>1, BelowIs
  <1>5. /\ t \in Paths /\ Len(t) = 2 /\ t[1] = d /\ t[2] = m
        /\ Path1(m) \in Paths /\ Len(Path1(m)) = 1 /\ Path1(m)[1] = m
    BY <1>1, PathsAre
  <1> HIDE DEF t, old
  <1>6. ASSUME NEW p \in DOMAIN f, p # t
        PROVE  Into(d, m, p) \in DOMAIN g /\ g[Into(d, m, p)] = f[p]
    <2> DEFINE r == Into(d, m, p)
    <2>1. p \in Paths /\ Len(p) \in Nat \ {0} /\ (p \in old <=> p[1] = m)
      BY <1>4
    <2>2. CASE p[1] = m
      <3>1. r = <<d>> \o p
        BY <2>2 DEF Into
      <3>2. r \in DOMAIN g
        BY <1>2, <2>1, <2>2, <3>1
      <3>3. g[r] = f[p]
        BY <1>3, <2>1, <2>2, <3>1
      <3> QED
        BY <3>2, <3>3
    <2>3. CASE p[1] # m
      <3>1. r = p
        BY <2>3 DEF Into
      <3>2. p \in DOMAIN g
        BY <1>2, <2>1, <2>3
      <3>3. ASSUME NEW q \in old, p = <<d>> \o q PROVE FALSE
        <4>1. q \in Paths /\ Len(q) \in Nat \ {0} /\ q[1] = m
          <5>1. q \in DOMAIN f
            BY DEF old
          <5> QED
            BY <1>4, <5>1
        <4>2. p = Into(d, m, q)
          BY <3>3, <4>1 DEF Into
        <4>3. /\ Len(p) = Len(q) + 1 /\ p[1] = d
              /\ \A x \in 1..Len(q) : p[x + 1] = q[x]
          BY <1>1, <4>1, <4>2, IntoIs
        <4>4. Len(p) >= 2 /\ p[1 + 1] = q[1]
          BY <4>1, <4>3
        <4>5. p[2] = m
          BY <4>1, <4>4
        <4> QED
          BY <1>6, <4>3, <4>4, <4>5, NothingBelow DEF t
      <3>4. p \notin {<<d>> \o q : q \in old}
        BY <3>3
      <3> QED
        BY <1>3, <2>1, <2>3, <3>1, <3>2, <3>4
    <2> QED
      BY <2>2, <2>3
  <1>7. ASSUME NEW r \in DOMAIN g
        PROVE  \E p \in DOMAIN f : p # t /\ r = Into(d, m, p)
    <2>1. CASE r \in DOMAIN f \ old
      <3>1. Into(d, m, r) = r
        BY <1>4, <2>1 DEF Into
      <3>2. CASE r # t
        BY <2>1, <3>1, <3>2
      <3>3. CASE r = t
        <4>1. Path1(m) # t
          BY <1>5
        <4>2. Into(d, m, Path1(m)) = t
          BY <1>1, <1>5, IntoMovesTop DEF t
        <4> QED
          BY <1>1, <3>3, <4>1, <4>2
      <3> QED
        BY <3>2, <3>3
    <2>2. CASE r \in {<<d>> \o q : q \in old}
      <3>1. PICK q \in old : r = <<d>> \o q
        BY <2>2
      <3>2. q \in DOMAIN f
        BY DEF old
      <3>3. q[1] = m
        BY <1>4, <3>2
      <3>4. r = Into(d, m, q)
        BY <3>1, <3>3 DEF Into
      <3>5. q # t
        BY <1>1, <1>5, <3>3
      <3> QED
        BY <3>2, <3>4, <3>5
    <2> QED
      BY <1>2, <2>1, <2>2
  <1>8. \A p \in DOMAIN f \ {t} :
          Into(d, m, p) \in DOMAIN g /\ g[Into(d, m, p)] = f[p]
    BY <1>6
  <1>9. \A r \in DOMAIN g : \E p \in DOMAIN f \ {t} : r = Into(d, m, p)
    BY <1>7
  <1> QED
    BY <1>8, <1>9 DEF t

\* Where a thing lies in its folder does not change by moving the folder.
LEMMA IntoKeeps ==
  ASSUME NEW d \in NameSet, NEW m \in NameSet, IsMovie(m),
         NEW p \in Paths, Len(p) > 1, NEW q, q = Into(d, m, p)
  PROVE  /\ q \in Paths /\ Len(q) \in Nat /\ Len(p) \in Nat /\ Len(q) > 1
         /\ Len(p) > 2 => Len(q) > 2
         /\ q[Len(q)] = p[Len(p)] /\ q[Len(q) - 1] = p[Len(p) - 1]
         /\ InFolder(q) <=> InFolder(p)
         /\ Moved(q) <=> Moved(p)
         /\ Stage(q) = Stage(p)
  <1>1. /\ q \in Paths /\ Len(q) \in {Len(p), Len(p) + 1} /\ Len(p) \in Nat
        /\ q[Len(q)] = p[Len(p)] /\ q[Len(q) - 1] = p[Len(p) - 1]
    <2>1. Len(p) > 0
      <3>1. Len(p) \in Nat
        BY LenProperties DEF Paths
      <3> QED
        BY <3>1
    <2> QED
      BY <2>1, IntoEnd, SMTT(30)
  <1>2. Len(q) \in Nat /\ Len(q) > 1 /\ (Len(p) > 2 => Len(q) > 2)
    BY <1>1
  <1>3. InFolder(q) <=> InFolder(p)
    <2>1. CASE Len(p) = 2
      <3>1. CASE p[1] # m
        BY <3>1 DEF Into
      <3>2. CASE p[1] = m
        <4>1. Len(p) - 1 = 1
          BY <2>1
        <4>2. q[Len(q) - 1] = m
          BY <1>1, <3>2, <4>1
        <4>3. Len(q) = 2 \/ Len(q) > 2
          BY <1>2, LengthIs, Zenon
        <4> QED
          BY <2>1, <4>2, <4>3 DEF InFolder
      <3> QED
        BY <3>1, <3>2
    <2>2. CASE Len(p) # 2
      <3>1. Len(p) > 2 /\ Len(q) > 2 /\ Len(q) # 2
        <4>1. Len(p) > 2
          BY <1>1, <2>2, LengthIs, Zenon
        <4> QED
          BY <1>2, <4>1, LengthIs, Zenon
      <3> QED
        BY <1>1, <2>2, <3>1 DEF InFolder
    <2> QED
      BY <2>1, <2>2
  <1>4. Moved(q) <=> Moved(p)
    BY <1>1 DEF Moved
  <1>5. Stage(q) = Stage(p)
    BY <1>1, <1>3 DEF Stage
  <1> QED
    BY <1>1, <1>2, <1>3, <1>4, <1>5

LEMMA HomeIs ==
  ASSUME NEW p \in Paths, Len(p) > 1
  PROVE  /\ Len(p) - (IF InFolder(p) THEN 1 ELSE 2) \in 1..(Len(p) - 1)
         /\ Home(p) \in Paths /\ Len(Home(p)) \in Nat \ {0}
         /\ Len(Home(p)) = Len(p) - (IF InFolder(p) THEN 1 ELSE 2)
  <1>1. Len(p) \in Nat
    BY LenProperties DEF Paths
  <1> DEFINE n == Len(p) - (IF InFolder(p) THEN 1 ELSE 2)
  <1>2. n \in 1..(Len(p) - 1)
    <2>1. CASE InFolder(p)
      BY <1>1, <2>1
    <2>2. CASE ~InFolder(p)
      <3>1. Len(p) # 2
        BY <2>2 DEF InFolder
      <3>2. Len(p) > 2
        BY <1>1, <3>1, LengthIs, Zenon
      <3> QED
        BY <1>1, <2>2, <3>2
    <2> QED
      BY <2>1, <2>2
  <1> HIDE DEF n
  <1>3. n \in 0..Len(p) /\ n \in Nat \ {0}
    BY <1>1, <1>2
  <1>4. Upto(p, n) \in Paths /\ Len(Upto(p, n)) = n
    BY <1>3, UptoIs DEF Paths
  <1>5. Home(p) = Upto(p, n)
    BY DEF Home, n
  <1> QED
    BY <1>2, <1>3, <1>4, <1>5 DEF n

LEMMA IntoHome ==
  ASSUME NEW d \in NameSet, NEW m \in NameSet, IsMovie(m),
         NEW p \in Paths, Len(p) > 1, NEW q, q = Into(d, m, p)
  PROVE  Home(q) = Into(d, m, Home(p))
  <1> DEFINE c == IF InFolder(p) THEN 1 ELSE 2
  <1>1. /\ q \in Paths /\ Len(q) \in Nat /\ Len(p) \in Nat
        /\ InFolder(q) <=> InFolder(p)
    BY IntoKeeps
  <1>2. Len(p) - c \in 1..(Len(p) - 1)
    BY HomeIs
  <1>3. Home(q) = Upto(q, Len(q) - c) /\ Home(p) = Upto(p, Len(p) - c)
    BY <1>1 DEF Home
  <1>4. c \in {1, 2}
    OBVIOUS
  <1> HIDE DEF c
  <1>5. PICK n \in 1..(Len(p) - 1) : n = Len(p) - c
    BY <1>2
  <1>6. n + (Len(q) - Len(p)) = Len(q) - c
    BY <1>1, <1>4, <1>5
  <1>7. Upto(q, n + (Len(q) - Len(p))) = Into(d, m, Upto(p, n))
    <2>1. n \in 1..Len(p)
      BY <1>1
    <2> QED
      BY <2>1, IntoUpto
  <1> QED
    BY <1>3, <1>5, <1>6, <1>7

LEMMA IntoPlaced ==
  ASSUME NEW ids, NEW d \in NameSet, NEW m \in NameSet, IsMovie(m), d = Folder(m),
         NEW p \in Paths, Len(p) > 0, NEW node \in Kinds(ids),
         Placed(p, node, ids), NEW q, q = Into(d, m, p)
  PROVE  Placed(q, node, ids)
  <1>1. Len(p) \in Nat
    BY LenProperties DEF Paths
  <1>2. CASE p[1] # m
    BY <1>2 DEF Into
  <1>3. CASE Len(p) = 1 /\ p[1] = m
    <2>1. Len(p) > 0 /\ p[1] = m /\ q = Into(d, m, p)
      BY <1>1, <1>3
    <2>2. /\ q \in Paths /\ Len(q) = Len(p) + 1 /\ q[1] = d
          /\ \A x \in 1..Len(p) : q[x + 1] = p[x]
      BY <2>1, IntoIs
    <2>3. Len(q) = 2 /\ Len(q) - 1 = 1 /\ q[1 + 1] = p[1] /\ Len(q) # 1 /\ Len(q) > 1
      BY <1>3, <2>2
    <2>4. q[Len(q)] = m /\ q[Len(q) - 1] = d
      BY <1>3, <2>2, <2>3
    <2>5. InFolder(q) /\ Moved(q)
      BY <2>3, <2>4 DEF InFolder, Moved
    <2>6. ~InFolder(p) /\ ~(Len(p) > 2)
      BY <1>3 DEF InFolder
    <2>7. node.kind # "jp4" /\ node.kind # "dng"
      BY <2>6 DEF Placed
    <2>8. ~IsFrame(node)
      BY <2>7 DEF IsFrame
    <2>9. node.kind = "clip" => q[Len(q)] = node.id[1]
      BY <1>3, <2>4 DEF Placed
    <2> QED
      BY <2>3, <2>5, <2>7, <2>8, <2>9 DEF Placed
  <1>4. CASE Len(p) > 1
    <2>1. /\ Len(q) \in Nat /\ Len(q) > 1 /\ (Len(p) > 2 => Len(q) > 2)
          /\ q[Len(q)] = p[Len(p)] /\ q[Len(q) - 1] = p[Len(p) - 1]
          /\ InFolder(q) <=> InFolder(p)
          /\ Moved(q) <=> Moved(p)
      BY <1>4, IntoKeeps
    <2>2. Len(q) # 1
      BY <2>1
    <2> QED
      BY <1>4, <2>1, <2>2 DEF Placed
  <1>5. Len(p) = 1 \/ Len(p) > 1
    BY <1>1, LengthIs, Zenon
  <1> QED
    BY <1>2, <1>3, <1>4, <1>5

LEMMA FrameIsBelow ==
  ASSUME NEW f, NEW ids, Tree(f, ids), NEW p \in DOMAIN f, IsFrame(f[p])
  PROVE  /\ p \in Paths /\ Len(p) > 1 /\ f[p].id \in ids /\ f[p].k \in Frames
         /\ Home(p) \in DOMAIN f /\ f[Home(p)] = Dir
  <1>1. /\ p \in Paths /\ Len(p) \in Nat \ {0}
        /\ f[p] \in Kinds(ids) /\ Placed(p, f[p], ids)
        /\ \A n \in 1..(Len(p) - 1) :
             Upto(p, n) \in DOMAIN f /\ f[Upto(p, n)] = Dir
    BY TreeAt
  <1>2. f[p].kind = "jp4" \/ f[p].kind = "dng"
    BY DEF IsFrame
  <1>3. Len(p) = 2 \/ Len(p) > 2
    BY <1>1, <1>2 DEF Placed, InFolder
  <1>4. Len(p) > 1
    <2>1. ASSUME NEW n \in Nat, n = 2 PROVE n > 1
      BY <2>1
    <2> QED
      BY <1>1, <1>3, <2>1, LengthIs, Zenon
  <1>5. f[p].id \in ids /\ f[p].k \in Frames
    BY <1>1, KindsAre
  <1>6. Len(p) - (IF InFolder(p) THEN 1 ELSE 2) \in 1..(Len(p) - 1)
    BY <1>1, <1>4, HomeIs
  <1>7. Home(p) \in DOMAIN f /\ f[Home(p)] = Dir
    BY <1>1, <1>6 DEF Home
  <1> QED
    BY <1>1, <1>4, <1>5, <1>7

\* Moving keeps apart what is moved.
LEMMA IntoApart ==
  ASSUME NEW f, NEW ids, Tree(f, ids), NEW d, NEW m, MayMove(f, d, m),
         NEW p \in DOMAIN f \ {Path2(d, m)}, NEW q \in DOMAIN f \ {Path2(d, m)},
         Into(d, m, p) = Into(d, m, q)
  PROVE  p = q
  <1>1. d \in NameSet /\ m \in NameSet /\ d # m
    BY DEF MayMove
  <1>2. /\ p \in Paths /\ Len(p) \in Nat \ {0} /\ q \in Paths
        /\ Len(q) \in Nat \ {0}
    BY TreeAt
  <1>3. ASSUME NEW x \in DOMAIN f \ {Path2(d, m)}, x \in Paths,
               Len(x) \in Nat \ {0}, x[1] = m,
               NEW y \in DOMAIN f \ {Path2(d, m)}, y[1] # m,
               Into(d, m, x) = Into(d, m, y)
        PROVE  FALSE
    <2>1. Into(d, m, y) = y
      BY <1>3 DEF Into
    <2>2. /\ Len(y) = Len(x) + 1 /\ y[1] = d
          /\ \A z \in 1..Len(x) : y[z + 1] = x[z]
      BY <1>1, <1>3, <2>1, IntoIs
    <2>3. Len(y) >= 2 /\ y[1 + 1] = x[1]
      BY <1>3, <2>2
    <2>4. y[2] = m
      BY <1>3, <2>3
    <2> QED
      BY <2>2, <2>3, <2>4, NothingBelow
  <1>4. CASE p[1] = m /\ q[1] = m
    <2> DEFINE r == Into(d, m, p)
    <2>1. /\ Len(r) = Len(p) + 1 /\ \A x \in 1..Len(p) : r[x + 1] = p[x]
      BY <1>1, <1>2, <1>4, IntoIs
    <2>2. /\ Len(r) = Len(q) + 1 /\ \A x \in 1..Len(q) : r[x + 1] = q[x]
      <3>1. r = Into(d, m, q)
        OBVIOUS
      <3> HIDE DEF r
      <3> QED
        BY <1>1, <1>2, <1>4, <3>1, IntoIs
    <2> HIDE DEF r
    <2>3. Len(p) = Len(q)
      BY <1>2, <2>1, <2>2
    <2>4. \A x \in 1..Len(p) : p[x] = q[x]
      BY <2>1, <2>2, <2>3
    <2> QED
      BY <1>2, <2>3, <2>4, SeqEqual DEF Paths
  <1>5. CASE p[1] # m /\ q[1] # m
    BY <1>5 DEF Into
  <1>6. CASE p[1] = m /\ q[1] # m
    BY <1>2, <1>3, <1>6
  <1>7. CASE p[1] # m /\ q[1] = m
    BY <1>2, <1>3, <1>7
  <1> QED
    BY <1>4, <1>5, <1>6, <1>7

LEMMA IntoRooted ==
  ASSUME NEW f, NEW g, NEW ids, Tree(f, ids), NEW d, NEW m, MayMove(f, d, m),
         \A u \in DOMAIN f : f[u] = Dir =>
           Into(d, m, u) \in DOMAIN g /\ g[Into(d, m, u)] = Dir,
         NEW p \in DOMAIN f, NEW q, q = Into(d, m, p)
  PROVE  Rooted(q, g)
  <1>1. /\ d \in NameSet /\ m \in NameSet /\ d # m
        /\ Path1(d) \in DOMAIN f /\ f[Path1(d)] = Dir
    BY DEF MayMove
  <1>2. /\ p \in Paths /\ Len(p) \in Nat \ {0}
        /\ \A n \in 1..(Len(p) - 1) :
             Upto(p, n) \in DOMAIN f /\ f[Upto(p, n)] = Dir
    BY TreeAt
  <1>3. ASSUME NEW n \in 1..(Len(p) - 1),
               NEW l, l = n + (Len(q) - Len(p))
        PROVE  Upto(q, l) \in DOMAIN g /\ g[Upto(q, l)] = Dir
    <2>1. Upto(p, n) \in DOMAIN f /\ f[Upto(p, n)] = Dir
      BY <1>2
    <2>2. n \in 1..Len(p)
      BY <1>2
    <2>3. Upto(q, l) = Into(d, m, Upto(p, n))
      BY <1>1, <1>2, <1>3, <2>2, IntoUpto
    <2> QED
      BY <2>1, <2>3
  <1>4. CASE p[1] # m
    <2>1. q = p
      BY <1>4 DEF Into
    <2> SUFFICES ASSUME NEW n \in 1..(Len(q) - 1)
                 PROVE  Upto(q, n) \in DOMAIN g /\ g[Upto(q, n)] = Dir
      BY DEF Rooted
    <2>2. n \in 1..(Len(p) - 1) /\ n = n + (Len(q) - Len(p))
      BY <1>2, <2>1
    <2> QED
      BY <1>3, <2>2
  <1>5. CASE p[1] = m
    <2>1. /\ q \in Paths /\ Len(q) = Len(p) + 1 /\ q[1] = d
      BY <1>1, <1>2, <1>5, IntoIs
    <2> SUFFICES ASSUME NEW n \in 1..(Len(q) - 1)
                 PROVE  Upto(q, n) \in DOMAIN g /\ g[Upto(q, n)] = Dir
      BY DEF Rooted
    <2>2. CASE n = 1
      <3>1. 1 \in 0..Len(q) /\ 1 \in 1..1
        BY <1>2, <2>1
      <3>2. Upto(q, 1) \in Paths /\ Len(Upto(q, 1)) = 1 /\ Upto(q, 1)[1] = q[1]
        BY <2>1, <3>1, UptoIs DEF Paths
      <3>3. Upto(q, 1) = Path1(d)
        BY <2>1, <3>2, PathIs
      <3>4. Into(d, m, Path1(d)) = Path1(d)
        BY <1>1, IntoMovesTop
      <3> QED
        BY <1>1, <2>2, <3>3, <3>4
    <2>3. CASE n # 1
      <3>1. PICK l \in 1..(Len(p) - 1) : n = l + 1
        <4>1. n - 1 \in 1..(Len(p) - 1) /\ n = (n - 1) + 1
          BY <1>2, <2>1, <2>3
        <4> QED
          BY <4>1
      <3>2. n = l + (Len(q) - Len(p))
        BY <1>2, <2>1, <3>1
      <3> QED
        BY <1>3, <3>2
    <2> QED
      BY <2>2, <2>3
  <1> QED
    BY <1>4, <1>5

\* The clip that is replaced has the name of the one that replaces it and is
\* not newer.
LEMMA Replaced ==
  ASSUME NEW f, NEW ids, ids \subseteq Ids, Tree(f, ids), NEW d, NEW m,
         MayMove(f, d, m), Path2(d, m) \in DOMAIN f,
         f[Path2(d, m)].kind = "clip"
  PROVE  /\ f[Path2(d, m)] = Clip(f[Path2(d, m)].id) /\ f[Path2(d, m)].id \in ids
         /\ f[Path1(m)] = Clip(f[Path1(m)].id) /\ f[Path1(m)].id \in ids
         /\ f[Path2(d, m)].id[1] = m /\ f[Path1(m)].id[1] = m
         /\ NewestOf(f[Path1(m)].id, ids) /\ f[Path1(m)].kind = "clip"
  <1> DEFINE t == Path2(d, m)
             p == Path1(m)
  <1>1. /\ d \in NameSet /\ m \in NameSet /\ p \in DOMAIN f /\ t \in DOMAIN f
        /\ f[t].kind = "clip" /\ f[p].kind = "clip"
    BY DEF MayMove, Dir
  <1>2. /\ Len(t) = 2 /\ t[2] = m /\ Len(p) = 1 /\ p[1] = m
    BY <1>1, PathsAre
  <1> HIDE DEF t, p
  <1>3. /\ f[t] \in Kinds(ids) /\ Placed(t, f[t], ids)
        /\ f[p] \in Kinds(ids) /\ Placed(p, f[p], ids)
    BY <1>1, TreeAt
  <1>4. /\ f[t].id \in ids /\ f[t] = Clip(f[t].id)
        /\ f[p].id \in ids /\ f[p] = Clip(f[p].id)
    BY <1>1, <1>3, KindsAre
  <1>5. f[t].id[1] = m /\ f[p].id[1] = m /\ NewestOf(f[p].id, ids)
    BY <1>1, <1>2, <1>3 DEF Placed
  <1> QED
    BY <1>1, <1>4, <1>5 DEF t, p

LEMMA MovesKeep ==
  ASSUME NEW f, NEW g, NEW ids, ids \subseteq Ids,
         Tree(f, ids), Homes(f), Ages(f), ClipsIn(f, ids),
         NEW d, NEW m, IsMovie(m), d = Folder(m),
         MayMove(f, d, m), MovesTo(f, g, d, m)
  PROVE  /\ Tree(g, ids) /\ Homes(g) /\ Ages(g) /\ ClipsIn(g, ids)
         /\ \A done : FramesIn(f, ids, done) => FramesIn(g, ids, done)
  <1> DEFINE t == Path2(d, m)
             M(p) == Into(d, m, p)
  <1>1. \A p \in DOMAIN f \ {t} : M(p) \in DOMAIN g /\ g[M(p)] = f[p]
    BY MovesAll
  <1>2. \A r \in DOMAIN g : \E p \in DOMAIN f \ {t} : r = M(p)
    BY MovesAll
  <1>3. /\ d \in NameSet /\ m \in NameSet /\ d # m
        /\ Path1(d) \in DOMAIN f /\ f[Path1(d)] = Dir /\ Path1(m) \in DOMAIN f
        /\ t \in DOMAIN f => \/ f[t].kind = "clip"
                             \/ f[t] = Dir /\ f[Path1(m)] = Dir
    BY DEF MayMove
  <1>4. \A p \in DOMAIN f : IsFrame(f[p]) => p # t
    BY <1>3 DEF IsFrame, Dir
  <1>5. /\ Path1(m) # t /\ M(Path1(m)) = t /\ M(Path1(d)) = Path1(d)
        /\ Path1(d) # t /\ M(t) = t /\ t \in Paths /\ Len(t) = 2
        /\ t[1] = d /\ t[2] = m
    <2>1. /\ Len(t) = 2 /\ Len(Path1(m)) = 1 /\ Len(Path1(d)) = 1
          /\ t \in Paths /\ t[1] = d /\ t[2] = m
      BY <1>3, PathsAre
    <2>3. M(t) = t
      BY <1>3, <2>1 DEF Into
    <2>2. M(Path1(m)) = t /\ M(Path1(d)) = Path1(d)
      BY <1>3, IntoMovesTop
    <2> QED
      BY <2>1, <2>2, <2>3
  <1>6. Upto(t, Len(t) - 1) = Path1(d)
    <2>1. Len(t) = 2 /\ Upto(t, 1) = Path1(d)
      BY <1>3, PathsAre, UptoPath
    <2>2. Len(t) - 1 = 1
      BY <2>1
    <2> QED
      BY <2>1, <2>2
  <1> HIDE DEF t, M
  <1>7. Tree(g, ids)
    <2> SUFFICES ASSUME NEW r \in DOMAIN g
                 PROVE  /\ r \in Paths /\ Len(r) > 0 /\ g[r] \in Kinds(ids)
                        /\ Placed(r, g[r], ids) /\ Rooted(r, g)
      BY DEF Tree
    <2>1. PICK p \in DOMAIN f \ {t} : r = M(p)
      BY <1>2
    <2>2. g[r] = f[p] /\ r = Into(d, m, p)
      BY <1>1, <2>1 DEF M
    <2>3. /\ p \in Paths /\ Len(p) > 0 /\ Len(p) \in Nat
          /\ f[p] \in Kinds(ids) /\ Placed(p, f[p], ids)
      BY TreeAt
    <2>4. r \in Paths /\ Len(r) \in {Len(p), Len(p) + 1}
      BY <1>3, <2>2, <2>3, IntoEnd
    <2>5. Placed(r, f[p], ids)
      BY <1>3, <2>2, <2>3, IntoPlaced
    <2>6. \A u \in DOMAIN f : f[u] = Dir =>
            Into(d, m, u) \in DOMAIN g /\ g[Into(d, m, u)] = Dir
      <3> SUFFICES ASSUME NEW u \in DOMAIN f, f[u] = Dir
                   PROVE  M(u) \in DOMAIN g /\ g[M(u)] = Dir
        BY DEF M
      <3>1. CASE u # t
        BY <1>1, <3>1
      <3>2. CASE u = t
        <4>1. f[Path1(m)] = Dir
          BY <1>3, <3>2 DEF Dir
        <4> QED
          BY <1>1, <1>3, <1>5, <3>2, <4>1
      <3> QED
        BY <3>1, <3>2
    <2>7. Rooted(r, g)
      BY <2>2, <2>6, IntoRooted
    <2>8. Len(r) > 0
      BY <2>3, <2>4
    <2> QED
      BY <2>2, <2>3, <2>4, <2>5, <2>7, <2>8
  <1>8. ASSUME NEW p \in DOMAIN f, IsFrame(f[p])
        PROVE  /\ p \in Paths /\ Len(p) > 1
               /\ Home(M(p)) = M(Home(p)) /\ Stage(M(p)) = Stage(p)
               /\ M(p)[Len(M(p))] = p[Len(p)]
               /\ Home(p) \in DOMAIN f \ {t}
    <2>1. /\ p \in Paths /\ Len(p) > 1 /\ Home(p) \in DOMAIN f /\ f[Home(p)] = Dir
      BY <1>8, FrameIsBelow
    <2> DEFINE q == M(p)
    <2>2. q = Into(d, m, p)
      BY DEF M
    <2> HIDE DEF q
    <2>3. Stage(q) = Stage(p) /\ q[Len(q)] = p[Len(p)]
      BY <1>3, <2>1, <2>2, IntoKeeps
    <2>4. Home(q) = Into(d, m, Home(p))
      BY <1>3, <2>1, <2>2, IntoHome
    <2>5. Home(p) # t
      <3> SUFFICES ASSUME Home(p) = t PROVE FALSE
        OBVIOUS
      <3>1. Len(p) \in Nat /\ Len(t) \in 1..(Len(p) - 1) /\ t = Upto(p, Len(t))
        <4>1. Len(p) \in Nat
          BY <2>1, LenProperties DEF Paths
        <4> DEFINE n == Len(p) - (IF InFolder(p) THEN 1 ELSE 2)
        <4>2. n \in 1..(Len(p) - 1) /\ Len(Home(p)) = n
          BY <2>1, HomeIs
        <4>3. Home(p) = Upto(p, n)
          BY DEF Home
        <4> HIDE DEF n
        <4> QED
          BY <4>1, <4>2, <4>3
      <3>2. p \in Seq(NameSet) /\ Len(t) \in 0..Len(p)
        BY <2>1, <3>1 DEF Paths
      <3>3. \A x \in 1..Len(t) : t[x] = p[x]
        BY <3>1, <3>2, UptoIs, Zenon
      <3>4. p[1] = d /\ p[2] = m /\ Len(p) >= 2 /\ Len(p) > 2
        BY <1>5, <3>1, <3>3
      <3>5. p = t
        BY <3>4, NothingBelow DEF t
      <3>6. Len(p) = 2
        BY <1>5, <3>5
      <3> QED
        BY <3>4, <3>6
    <2> QED
      BY <2>1, <2>3, <2>4, <2>5 DEF q, M
  <1>9. ASSUME NEW r \in DOMAIN g, IsFrame(g[r])
        PROVE  \E p \in DOMAIN f \ {t} : r = M(p) /\ g[r] = f[p] /\ IsFrame(f[p])
    BY <1>1, <1>2, <1>9
  <1>10. Homes(g)
    <2> SUFFICES ASSUME NEW r \in DOMAIN g, IsFrame(g[r])
                 PROVE  \E w \in DOMAIN g : HomeClip(r, g[r], w, g[w])
      BY DEF Homes
    <2>1. PICK p \in DOMAIN f \ {t} : r = M(p) /\ g[r] = f[p] /\ IsFrame(f[p])
      BY <1>9
    <2>2. PICK q \in DOMAIN f : HomeClip(p, f[p], q, f[q])
      BY <2>1 DEF Homes
    <2>3. Home(r) = M(Home(p)) /\ p \in Paths /\ Len(p) > 1
      BY <1>8, <2>1
    <2>4. /\ f[q].kind = "clip" /\ Upto(q, Len(q) - 1) = Home(p)
          /\ f[q].id[1] = f[p].id[1] /\ f[p].id[2] <= f[q].id[2]
      BY <2>2 DEF HomeClip
    <2>5. CASE q # t
      <3> DEFINE w == M(q)
      <3>1. w \in DOMAIN g /\ g[w] = f[q]
        BY <1>1, <2>5
      <3>2. q \in Paths /\ Len(q) \in Nat \ {0}
        BY TreeAt
      <3>3. Len(q) - 1 \in 1..Len(q)
        <4>1. Len(q) - 1 \in 0..Len(q)
          BY <3>2
        <4>2. Len(Home(p)) = Len(q) - 1
          BY <2>4, <3>2, <4>1, UptoIs DEF Paths
        <4>3. Len(Home(p)) \in Nat \ {0}
          BY <2>3, HomeIs
        <4> QED
          BY <3>2, <4>2, <4>3
      <3>4. PICK n \in 1..Len(q) : n = Len(q) - 1
        BY <3>3
      <3>5. w = Into(d, m, q)
        BY DEF M
      <3> HIDE DEF w
      <3>6. Len(w) \in {Len(q), Len(q) + 1}
        BY <1>3, <3>2, <3>5, IntoEnd
      <3>7. n + (Len(w) - Len(q)) = Len(w) - 1
        BY <3>2, <3>4, <3>6
      <3>8. Upto(w, n + (Len(w) - Len(q))) = Into(d, m, Upto(q, n))
        BY <1>3, <3>2, <3>5, IntoUpto
      <3>9. Upto(w, Len(w) - 1) = Home(r)
        BY <2>3, <2>4, <3>4, <3>7, <3>8 DEF M
      <3>10. HomeClip(r, g[r], w, g[w])
        BY <2>1, <2>4, <3>1, <3>9 DEF HomeClip
      <3> QED
        BY <3>1, <3>10
    <2>6. CASE q = t
      <3>1. /\ f[t].id[1] = m /\ f[Path1(m)].id \in ids /\ f[Path1(m)].id[1] = m
            /\ NewestOf(f[Path1(m)].id, ids) /\ f[Path1(m)].kind = "clip"
        BY <2>4, <2>6, Replaced DEF t
      <3>2. t \in DOMAIN g /\ g[t] = f[Path1(m)]
        BY <1>1, <1>3, <1>5
      <3>3. Upto(t, Len(t) - 1) = Home(r)
        BY <1>5, <1>6, <2>3, <2>4, <2>6
      <3>4. f[p].id \in ids
        BY <2>1, FrameIsBelow
      <3>5. f[p].id[1] = f[Path1(m)].id[1]
        BY <2>4, <2>6, <3>1
      <3>6. f[p].id[2] <= f[Path1(m)].id[2]
        BY <3>1, <3>4, <3>5, NewestIs
      <3>7. HomeClip(r, g[r], t, g[t])
        BY <2>1, <3>1, <3>2, <3>3, <3>5, <3>6 DEF HomeClip
      <3> QED
        BY <3>2, <3>7
    <2> QED
      BY <2>5, <2>6
  <1>11. Ages(g)
    <2> SUFFICES ASSUME NEW r \in DOMAIN g, NEW w \in DOMAIN g,
                        IsFrame(g[r]), IsFrame(g[w]), Home(r) = Home(w),
                        r[Len(r)] = w[Len(w)], Stage(r) < Stage(w)
                 PROVE  g[w].id[2] <= g[r].id[2]
      BY DEF Ages
    <2>1. PICK p \in DOMAIN f \ {t} : r = M(p) /\ g[r] = f[p] /\ IsFrame(f[p])
      BY <1>9
    <2>2. PICK q \in DOMAIN f \ {t} : w = M(q) /\ g[w] = f[q] /\ IsFrame(f[q])
      BY <1>9
    <2>3. /\ Home(r) = M(Home(p)) /\ Stage(r) = Stage(p) /\ r[Len(r)] = p[Len(p)]
          /\ Home(p) \in DOMAIN f \ {t}
      BY <1>8, <2>1
    <2>4. /\ Home(w) = M(Home(q)) /\ Stage(w) = Stage(q) /\ w[Len(w)] = q[Len(q)]
          /\ Home(q) \in DOMAIN f \ {t}
      BY <1>8, <2>2
    <2>5. Into(d, m, Home(p)) = Into(d, m, Home(q))
      BY <2>3, <2>4 DEF M
    <2>6. Home(p) = Home(q)
      BY <2>3, <2>4, <2>5, IntoApart DEF t
    <2>7. p[Len(p)] = q[Len(q)] /\ Stage(p) < Stage(q)
      BY <2>3, <2>4
    <2> QED
      BY <2>1, <2>2, <2>6, <2>7 DEF Ages
  <1>12. ClipsIn(g, ids)
    <2> SUFFICES ASSUME NEW id \in ids, NewestOf(id, ids)
                 PROVE  \E p \in DOMAIN g : g[p] = Clip(id)
      BY DEF ClipsIn
    <2>1. PICK p \in DOMAIN f : f[p] = Clip(id)
      BY DEF ClipsIn
    <2>2. CASE p # t
      BY <1>1, <2>1, <2>2
    <2>3. CASE p = t
      <3>1. /\ f[t].id[1] = m /\ f[Path1(m)].id \in ids /\ f[Path1(m)].id[1] = m
            /\ NewestOf(f[Path1(m)].id, ids)
            /\ f[Path1(m)] = Clip(f[Path1(m)].id)
        <4>1. f[t].kind = "clip" /\ t \in DOMAIN f
          BY <2>1, <2>3 DEF Clip
        <4> QED
          BY <4>1, Replaced DEF t
      <3>2. t \in DOMAIN g /\ g[t] = f[Path1(m)]
        BY <1>1, <1>3, <1>5
      <3>3. f[t].id = id
        BY <2>1, <2>3 DEF Clip
      <3>4. id[2] <= f[Path1(m)].id[2]
        BY <3>1, <3>3, NewestIs
      <3>5. id = f[Path1(m)].id
        BY <3>1, <3>3, <3>4, NewestIs
      <3> QED
        BY <3>1, <3>2, <3>5
    <2> QED
      BY <2>2, <2>3
  <1>13. ASSUME NEW done, FramesIn(f, ids, done) PROVE FramesIn(g, ids, done)
    <2> SUFFICES ASSUME NEW x \in done, NewestOf(x[1], ids)
                 PROVE  \E p \in DOMAIN g : g[p] \in {Frame("jp4", x[1], x[2]),
                                                      Frame("dng", x[1], x[2])}
      BY DEF FramesIn
    <2>1. PICK p \in DOMAIN f : f[p] \in {Frame("jp4", x[1], x[2]),
                                          Frame("dng", x[1], x[2])}
      BY <1>13 DEF FramesIn
    <2>2. p # t
      BY <1>3, <2>1 DEF Frame, Dir
    <2> QED
      BY <1>1, <2>1, <2>2
  <1> QED
    BY <1>7, <1>10, <1>11, <1>12, <1>13

-----------------------------------------------------------------------------
(* process.php: the steps that work on the folder of a clip. *)

FileSystem(f, ids) == Tree(f, ids) /\ Homes(f) /\ Ages(f) /\ ClipsIn(f, ids)

\* The folder d belongs to the clips with name m.
FolderOf(d, m) ==
  m \in NameSet /\ IsMovie(m) /\ d = Folder(m) /\ Frames \subseteq Parts

\* The path of frame k in folder d: as movie2dng writes it, and in a subfolder.
Fresh(d, m, k)  == Path2(d, FrameName(m, k))
Kept(d, s, m, k) == Path3(d, s, FrameName(m, k))

LEMMA InFolderIs ==
  ASSUME NEW d \in NameSet, NEW x \in NameSet, NEW p, p = Path2(d, x)
  PROVE  /\ p \in Paths /\ Len(p) = 2 /\ p[1] = d /\ p[2] = x /\ p[Len(p)] = x
         /\ InFolder(p) /\ Stage(p) = 0 /\ Home(p) = Path1(d)
  <1>1. p \in Paths /\ Len(p) = 2 /\ p[1] = d /\ p[2] = x
    BY PathsAre
  <1>2. Upto(p, 1) = Path1(d)
    BY UptoPath
  <1>3. InFolder(p)
    BY <1>1 DEF InFolder
  <1>4. Len(p) - 1 = 1
    BY <1>1
  <1>5. Home(p) = Path1(d) /\ Stage(p) = 0
    BY <1>2, <1>3, <1>4 DEF Home, Stage
  <1> QED
    BY <1>1, <1>3, <1>5

LEMMA Appended ==
  ASSUME NEW S, NEW u \in Seq(S), NEW x \in S
  PROVE  /\ Append(u, x) \in Seq(S) /\ Len(Append(u, x)) = Len(u) + 1
         /\ \A y \in 1..Len(u) : Append(u, x)[y] = u[y]
         /\ Append(u, x)[Len(u) + 1] = x
  BY AppendProperties

\* The path of file x in the subfolder s of d.
LiesIn(p, d, s, x) ==
  /\ p \in Paths /\ Len(p) = 3 /\ p[1] = d /\ p[2] = s /\ p[3] = x
  /\ p[Len(p)] = x /\ p[Len(p) - 1] = s /\ Len(p) > 2
  /\ ~InFolder(p) /\ Stage(p) = (IF s = Jp4s THEN 1 ELSE 2)
  /\ Home(p) = Path1(d) /\ Upto(p, 1) = Path1(d) /\ Upto(p, 2) = Path2(d, s)
  /\ Append(Path2(d, s), x) = p

LEMMA InSubfolderIs ==
  ASSUME NEW d \in NameSet, NEW s, s = Jp4s \/ s = Dngs, NEW x \in NameSet,
         NEW p, p = Path3(d, s, x)
  PROVE  LiesIn(p, d, s, x)
  <1>0. s \in NameSet /\ ~IsMovie(s)
    BY SubfoldersAre
  <1>1. p \in Paths /\ Len(p) = 3 /\ p[1] = d /\ p[2] = s /\ p[3] = x
    BY <1>0, PathsAre
  <1>2. Upto(p, 1) = Path1(d) /\ Upto(p, 2) = Path2(d, s)
    BY <1>0, UptoPath
  <1>3. Len(p) - 1 = 2 /\ Len(p) - 2 = 1 /\ Len(p) # 2 /\ Len(p) > 2
    BY <1>1
  <1>4. ~InFolder(p)
    BY <1>0, <1>1, <1>3 DEF InFolder
  <1>5. Home(p) = Path1(d)
    BY <1>2, <1>3, <1>4 DEF Home
  <1>6. Stage(p) = (IF s = Jp4s THEN 1 ELSE 2)
    BY <1>1, <1>3, <1>4 DEF Stage
  <1>7. Append(Path2(d, s), x) = p
    <2> DEFINE u == Path2(d, s)
               q == Append(u, x)
    <2>1. u \in Seq(NameSet) /\ Len(u) = 2 /\ u[1] = d /\ u[2] = s
      BY <1>0, PathsAre DEF Paths
    <2> HIDE DEF u
    <2>2. /\ q \in Seq(NameSet) /\ Len(q) = Len(u) + 1
          /\ \A y \in 1..Len(u) : q[y] = u[y]
          /\ q[Len(u) + 1] = x
      BY <2>1, Appended
    <2> HIDE DEF q
    <2>3. Len(q) = 3 /\ q[1] = d /\ q[2] = s /\ q[3] = x
      BY <2>1, <2>2
    <2>4. q = Path3(d, s, x)
      BY <2>2, <2>3, PathIs DEF Paths
    <2> QED
      BY <2>4 DEF q, u
  <1> QED
    BY <1>1, <1>2, <1>3, <1>4, <1>5, <1>6, <1>7 DEF LiesIn

LEMMA InJp4sIs ==
  ASSUME NEW d \in NameSet, NEW x \in NameSet, NEW p, p = Path3(d, Jp4s, x)
  PROVE  LiesIn(p, d, Jp4s, x) /\ Stage(p) = 1
  <1>1. LiesIn(Path3(d, Jp4s, x), d, Jp4s, x)
    BY InSubfolderIs
  <1> QED
    BY <1>1 DEF LiesIn

LEMMA InDngsIs ==
  ASSUME NEW d \in NameSet, NEW x \in NameSet, NEW p, p = Path3(d, Dngs, x)
  PROVE  LiesIn(p, d, Dngs, x) /\ Stage(p) = 2
  <1>1. LiesIn(Path3(d, Dngs, x), d, Dngs, x)
    BY InSubfolderIs
  <1>2. Dngs # Jp4s
    BY SubfoldersAre
  <1> QED
    BY <1>1, <1>2 DEF LiesIn

\* A path with a given folder, stage and name is one of these.
LEMMA PathFrom ==
  ASSUME NEW f, NEW ids, Tree(f, ids), NEW d \in NameSet,
         NEW p \in DOMAIN f, IsFrame(f[p]), Home(p) = Path1(d)
  PROVE  /\ Stage(p) \in {0, 1, 2} /\ p[Len(p)] \in NameSet
         /\ Stage(p) = 0 => p = Path2(d, p[Len(p)])
         /\ Stage(p) = 1 => p = Path3(d, Jp4s, p[Len(p)])
  <1>1. p \in Paths /\ Len(p) > 1
    BY FrameIsBelow
  <1>2. Len(p) \in Nat
    BY <1>1, LenProperties DEF Paths
  <1> DEFINE n == Len(p) - (IF InFolder(p) THEN 1 ELSE 2)
  <1>3. n \in 1..(Len(p) - 1) /\ Len(Home(p)) = n /\ Home(p) = Upto(p, n)
    BY <1>1, HomeIs DEF Home
  <1>4. Len(Path1(d)) = 1 /\ Path1(d)[1] = d
    BY PathsAre
  <1> HIDE DEF n
  <1>5. n = 1
    BY <1>3, <1>4
  <1>6. p[1] = d
    <2>1. p \in Seq(NameSet) /\ 1 \in 0..Len(p) /\ 1 \in 1..1
      BY <1>1, <1>2, <1>3, <1>5 DEF Paths
    <2>2. Upto(p, 1)[1] = p[1]
      BY <2>1, UptoIs
    <2> QED
      BY <1>3, <1>4, <1>5, <2>2
  <1>7. p[Len(p)] \in NameSet
    <2>1. Len(p) \in 1..Len(p)
      BY <1>2, <1>3
    <2> QED
      BY <1>1, <2>1, NamesOf
  <1>8. Stage(p) = 0 => InFolder(p)
    BY DEF Stage
  <1>9. InFolder(p) => Len(p) = 2
    BY <1>2, <1>5 DEF n
  <1>10. Stage(p) = 1 => ~InFolder(p) /\ p[Len(p) - 1] = Jp4s
    BY DEF Stage
  <1>11. ~InFolder(p) => Len(p) = 3 /\ Len(p) - 1 = 2
    BY <1>2, <1>5 DEF n
  <1>12. Stage(p) = 0 => p = Path2(d, p[Len(p)])
    BY <1>1, <1>6, <1>8, <1>9, PathIs
  <1>13. Stage(p) = 1 => p = Path3(d, Jp4s, p[Len(p)])
    BY <1>1, <1>6, <1>10, <1>11, PathIs
  <1>14. Stage(p) \in {0, 1, 2}
    BY DEF Stage
  <1> QED
    BY <1>7, <1>12, <1>13, <1>14

\* A frame with the file name of frame k is frame k of a clip m.
LEMMA SameName ==
  ASSUME NEW f, NEW ids, ids \subseteq Ids, Tree(f, ids), Frames \subseteq Parts,
         NEW p \in DOMAIN f, IsFrame(f[p]),
         NEW m \in NameSet, NEW k \in Parts, p[Len(p)] = FrameName(m, k)
  PROVE  f[p].id[1] = m /\ f[p].k = k
  <1>1. /\ f[p] \in Kinds(ids) /\ Placed(p, f[p], ids)
    BY TreeAt
  <1>2. /\ f[p].id \in ids /\ f[p].k \in Frames
    BY <1>1, KindsAre
  <1>3. FrameName(m, k) = FrameName(f[p].id[1], f[p].k)
    BY <1>1 DEF Placed
  <1> DEFINE n == f[p].id[1]
             l == f[p].k
  <1>4. n \in NameSet /\ l \in Parts
    BY <1>2 DEF Ids
  <1> HIDE DEF n, l
  <1>5. FrameName(m, k) = FrameName(n, l)
    BY <1>3 DEF n, l
  <1>6. m = n /\ k = l
    BY <1>4, <1>5, FrameNameInjective
  <1> QED
    BY <1>6 DEF n, l

\* The clip in a folder is as new as the frames made from its name.
LEMMA ClipIsNewer ==
  ASSUME NEW f, NEW ids, Tree(f, ids), Homes(f), NEW d \in NameSet, NEW m,
         NEW p \in DOMAIN f, IsFrame(f[p]), Home(p) = Path1(d), f[p].id[1] = m
  PROVE  /\ Path2(d, m) \in DOMAIN f /\ f[Path2(d, m)].kind = "clip"
         /\ f[p].id[2] <= f[Path2(d, m)].id[2]
  <1>1. PICK q \in DOMAIN f : HomeClip(p, f[p], q, f[q])
    BY DEF Homes
  <1>2. /\ f[q].kind = "clip" /\ Upto(q, Len(q) - 1) = Path1(d)
        /\ f[q].id[1] = m /\ f[p].id[2] <= f[q].id[2]
    BY <1>1 DEF HomeClip
  <1>3. /\ q \in Paths /\ Len(q) \in Nat \ {0} /\ Placed(q, f[q], ids)
    BY TreeAt
  <1>4. /\ q \in Seq(NameSet) /\ Len(q) - 1 \in 0..Len(q)
    BY <1>3 DEF Paths
  <1>5. Len(Upto(q, Len(q) - 1)) = Len(q) - 1
    BY <1>4, UptoIs
  <1>6. Len(Path1(d)) = 1 /\ Path1(d)[1] = d
    BY PathsAre
  <1>7. Len(q) = 2 /\ Len(q) - 1 = 1 /\ 1 \in 1..1 /\ 1 \in 0..Len(q)
    <2>1. Len(q) - 1 = 1 /\ Len(q) \in Nat
      BY <1>2, <1>3, <1>5, <1>6
    <2>2. ASSUME NEW n \in Nat, n - 1 = 1 PROVE n = 2 /\ 1 \in 0..n
      BY <2>2
    <2> QED
      BY <2>1, <2>2, SMTT(30)
  <1>8. q[1] = d
    <2>1. Upto(q, 1)[1] = q[1]
      BY <1>4, <1>7, UptoIs
    <2> QED
      BY <1>2, <1>6, <1>7, <2>1
  <1>9. q[2] = m
    BY <1>2, <1>3, <1>7 DEF Placed
  <1>10. q = Path2(d, m)
    BY <1>3, <1>7, <1>8, <1>9, PathIs
  <1> QED
    BY <1>2, <1>10

\* g is f after movie2dng has written frames S of clip id, which lies in d.
Writes(f, g, d, m, id, S) ==
  /\ Path2(d, m) \in DOMAIN f /\ f[Path2(d, m)].kind = "clip"
  /\ id = f[Path2(d, m)].id
  /\ DOMAIN g = DOMAIN f \cup {Fresh(d, m, k) : k \in S}
  /\ \A k \in S : g[Fresh(d, m, k)] = Frame("jp4", id, k)
  /\ \A p \in DOMAIN f : (\A k \in S : p # Fresh(d, m, k)) => g[p] = f[p]

FramesOf(id, S) == {<<id, k>> : k \in S}

LEMMA Extracts ==
  ASSUME NEW f, NEW g, NEW ids, ids \subseteq Ids, FileSystem(f, ids),
         NEW d, NEW m, FolderOf(d, m), NEW id, NEW S, S \subseteq Frames,
         Writes(f, g, d, m, id, S)
  PROVE  /\ FileSystem(g, ids) /\ id \in ids
         /\ \A done : FramesIn(f, ids, done) =>
              FramesIn(g, ids, done \cup FramesOf(id, S))
  <1> USE DEF Writes
  <1> DEFINE t == Path2(d, m)
             P(k) == Fresh(d, m, k)
  <1>1. /\ Tree(f, ids) /\ Homes(f) /\ Ages(f) /\ ClipsIn(f, ids)
        /\ m \in NameSet /\ IsMovie(m) /\ d = Folder(m) /\ Frames \subseteq Parts
        /\ d \in NameSet
    BY FolderIs DEF FileSystem, FolderOf
  <1>2. /\ t \in DOMAIN f /\ f[t].kind = "clip" /\ f[t].id = id
        /\ Len(t) = 2 /\ t[Len(t)] = m
    BY <1>1, InFolderIs
  <1>3. f[t] \in Kinds(ids) /\ Placed(t, f[t], ids) /\ Rooted(t, f)
    BY <1>1, <1>2, TreeAt DEF Tree
  <1>4. id \in ids /\ id[1] = m
    BY <1>2, <1>3, KindsAre DEF Placed
  <1>5. Upto(t, 1) = Path1(d) /\ Len(t) - 1 = 1
    BY <1>1, <1>2, UptoPath
  <1>6. Path1(d) \in DOMAIN f /\ f[Path1(d)] = Dir
    BY <1>3, <1>5, 1 \in 1..1 DEF Rooted
  <1>7. ASSUME NEW k \in S
        PROVE  /\ P(k) \in Paths /\ Len(P(k)) > 0 /\ P(k)[Len(P(k))] = FrameName(m, k)
               /\ InFolder(P(k)) /\ Stage(P(k)) = 0 /\ Home(P(k)) = Path1(d)
               /\ Rooted(P(k), f) /\ FrameName(m, k) \in NameSet
    <2>1. FrameName(m, k) \in NameSet
      BY <1>1, FrameNameIs
    <2> DEFINE p == P(k)
    <2>2. p = Path2(d, FrameName(m, k))
      BY DEF Fresh
    <2> HIDE DEF p, P
    <2>3. /\ p \in Paths /\ Len(p) = 2 /\ p[Len(p)] = FrameName(m, k)
          /\ InFolder(p) /\ Stage(p) = 0 /\ Home(p) = Path1(d)
      BY <1>1, <2>1, <2>2, InFolderIs
    <2>4. Upto(p, 1) = Path1(d) /\ Len(p) - 1 = 1 /\ Len(p) > 0
      BY <1>1, <2>1, <2>2, <2>3, UptoPath
    <2>5. Rooted(p, f)
      <3>1. \A n \in 1..1 : n = 1
        OBVIOUS
      <3> QED
        BY <1>6, <2>4, <3>1, Zenon DEF Rooted
    <2> QED
      BY <2>1, <2>3, <2>4, <2>5 DEF p
  <1>8. ASSUME NEW k \in S, P(k) \in DOMAIN f
        PROVE  /\ IsFrame(f[P(k)]) /\ f[P(k)].id \in ids /\ f[P(k)].id[1] = m
               /\ f[P(k)].k = k /\ f[P(k)] = Frame("jp4", f[P(k)].id, k)
    <2>1. k \in Frames /\ P(k) = Path2(Folder(m), FrameName(m, k))
      BY <1>1 DEF Fresh
    <2> HIDE DEF P
    <2> QED
      BY <1>1, <1>8, <2>1, FrameAt
  <1>9. ASSUME NEW k \in S
        PROVE  /\ g[P(k)] = Frame("jp4", id, k) /\ IsFrame(g[P(k)])
               /\ g[P(k)].kind = "jp4" /\ g[P(k)].id = id /\ g[P(k)].k = k
               /\ g[P(k)] \in Kinds(ids)
    <2>1. Frame("jp4", id, k) \in Kinds(ids) /\ IsFrame(Frame("jp4", id, k))
      BY <1>4, NodesAre
    <2> QED
      BY <2>1 DEF Frame
  <1>10. ASSUME NEW p \in DOMAIN g
         PROVE  (p \in DOMAIN f /\ g[p] = f[p]) \/ (\E k \in S : p = P(k))
    OBVIOUS
  <1>11. \A p \in DOMAIN f : p \in DOMAIN g
    OBVIOUS
  <1>12. ASSUME NEW p \in DOMAIN f, ~IsFrame(f[p]) PROVE g[p] = f[p]
    BY <1>8, <1>12
  <1> HIDE DEF t, P
  <1>13. ASSUME NEW k \in S PROVE HomeClip(P(k), g[P(k)], t, f[t])
    <2>1. id[2] <= id[2]
      BY <1>4 DEF Ids
    <2> QED
      BY <1>2, <1>4, <1>5, <1>7, <1>9, <2>1 DEF HomeClip
  <1>14. ASSUME NEW k \in S PROVE Placed(P(k), g[P(k)], ids)
    BY <1>4, <1>7, <1>9 DEF Placed
  <1>15. Tree(g, ids) /\ Homes(g) /\ ClipsIn(g, ids)
    <2>1. \A p \in DOMAIN f : ~IsFrame(f[p]) => p \in DOMAIN g /\ g[p] = f[p]
      BY <1>11, <1>12
    <2>2. \A p \in DOMAIN g :
            \/ p \in DOMAIN f /\ g[p] = f[p]
            \/ /\ p \in Paths /\ Len(p) > 0 /\ IsFrame(g[p])
               /\ g[p] \in Kinds(ids) /\ Placed(p, g[p], ids) /\ Rooted(p, f)
               /\ \E q \in DOMAIN f : HomeClip(p, g[p], q, f[q])
      BY <1>2, <1>7, <1>9, <1>10, <1>13, <1>14
    <2> QED
      BY <1>1, <2>1, <2>2, FramesChange
  \* No frame in the folder is newer than the clip.
  <1>16. ASSUME NEW p \in DOMAIN f, IsFrame(f[p]), Home(p) = Path1(d),
                NEW k \in S, p[Len(p)] = FrameName(m, k)
         PROVE  f[p].id[1] = m /\ f[p].k = k /\ f[p].id[2] <= id[2]
    <2>1. f[p].id[1] = m /\ f[p].k = k
      BY <1>1, <1>16, SameName
    <2>2. f[p].id[2] <= f[t].id[2]
      BY <1>1, <1>16, <2>1, ClipIsNewer DEF t
    <2> QED
      BY <1>2, <2>1, <2>2
  <1>17. Ages(g)
    <2> SUFFICES ASSUME NEW p \in DOMAIN g, NEW q \in DOMAIN g,
                        IsFrame(g[p]), IsFrame(g[q]), Home(p) = Home(q),
                        p[Len(p)] = q[Len(q)], Stage(p) < Stage(q)
                 PROVE  g[q].id[2] <= g[p].id[2]
      BY DEF Ages
    <2>1. q \in DOMAIN f /\ g[q] = f[q]
      <3> SUFFICES ASSUME NEW k \in S, q = P(k) PROVE FALSE
        BY <1>10
      <3>1. Stage(p) \in {0, 1, 2} /\ Stage(q) = 0
        BY <1>7 DEF Stage
      <3> QED
        BY <3>1
    <2>2. CASE p \in DOMAIN f /\ g[p] = f[p]
      BY <1>1, <2>1, <2>2 DEF Ages
    <2>3. ASSUME NEW k \in S, p = P(k) PROVE f[q].id[2] <= g[p].id[2]
      BY <1>7, <1>9, <1>16, <2>1, <2>3
    <2> QED
      BY <1>10, <2>1, <2>2, <2>3
  <1>18. ASSUME NEW done, FramesIn(f, ids, done),
                NEW x \in done \cup FramesOf(id, S), NewestOf(x[1], ids)
         PROVE  \E p \in DOMAIN g : g[p] \in {Frame("jp4", x[1], x[2]),
                                              Frame("dng", x[1], x[2])}
    <2>1. CASE x \in done
      <3>1. PICK p \in DOMAIN f : f[p] \in {Frame("jp4", x[1], x[2]),
                                            Frame("dng", x[1], x[2])}
        BY <1>18, <2>1 DEF FramesIn
      <3>2. CASE g[p] = f[p]
        BY <1>11, <3>1, <3>2
      <3>3. ASSUME NEW k \in S, p = P(k)
            PROVE  g[p] = Frame("jp4", x[1], x[2])
        <4>1. /\ IsFrame(f[p]) /\ f[p].id \in ids /\ f[p].id[1] = m /\ f[p].k = k
          BY <1>8, <3>3
        <4>2. f[p].id = x[1] /\ f[p].k = x[2]
          BY <3>1 DEF Frame
        <4>3. f[p].id[2] <= id[2]
          BY <1>7, <1>16, <3>3, <4>1
        <4>4. x[1] = id
          BY <1>4, <1>18, <4>1, <4>2, <4>3, NewestIs
        <4> QED
          BY <1>9, <3>3, <4>1, <4>2, <4>4
      <3> QED
        BY <1>10, <1>11, <3>1, <3>2, <3>3
    <2>2. ASSUME NEW k \in S, x = <<id, k>>
          PROVE  P(k) \in DOMAIN g /\ g[P(k)] = Frame("jp4", x[1], x[2])
      BY <1>9, <2>2 DEF P
    <2> QED
      BY <1>18, <2>1, <2>2 DEF FramesOf
  <1>19. ASSUME NEW done, FramesIn(f, ids, done)
         PROVE  FramesIn(g, ids, done \cup FramesOf(id, S))
    BY <1>18, <1>19 DEF FramesIn
  <1> QED
    BY <1>4, <1>15, <1>17, <1>19 DEF FileSystem

\* mv of the frames of clip m that lie in the folder d to jp4s/.
Collected(f, g, d, m, S) ==
  /\ \A k \in S : Fresh(d, m, k) \in DOMAIN f
  /\ DOMAIN g = {p \in DOMAIN f : \A k \in S : p # Fresh(d, m, k)}
                  \cup {Kept(d, Jp4s, m, k) : k \in S}
  /\ \A k \in S : g[Kept(d, Jp4s, m, k)] = f[Fresh(d, m, k)]
  /\ \A p \in DOMAIN g : (\A k \in S : p # Kept(d, Jp4s, m, k)) => g[p] = f[p]

LEMMA Collects ==
  ASSUME NEW f, NEW g, NEW ids, ids \subseteq Ids, FileSystem(f, ids),
         NEW d, NEW m, FolderOf(d, m),
         Path2(d, Jp4s) \in DOMAIN f, f[Path2(d, Jp4s)] = Dir,
         NEW S \in SUBSET Frames, Collected(f, g, d, m, S)
  PROVE  /\ FileSystem(g, ids)
         /\ \A done : FramesIn(f, ids, done) => FramesIn(g, ids, done)
  <1> USE DEF Collected
  <1> DEFINE t == Path2(d, Jp4s)
             P(k) == Fresh(d, m, k)
             Q(k) == Kept(d, Jp4s, m, k)
  <1>1. /\ Tree(f, ids) /\ Homes(f) /\ Ages(f) /\ ClipsIn(f, ids)
        /\ m \in NameSet /\ IsMovie(m) /\ d = Folder(m) /\ Frames \subseteq Parts
        /\ d \in NameSet /\ Jp4s \in NameSet /\ Jp4s # Dngs
    BY FolderIs, SubfoldersAre DEF FileSystem, FolderOf
  <1>2. Path1(d) \in DOMAIN f /\ f[Path1(d)] = Dir
    <2>1. Rooted(t, f) /\ Len(t) = 2
      BY <1>1, PathsAre DEF Tree
    <2>2. Upto(t, 1) = Path1(d) /\ 1 \in 1..(Len(t) - 1)
      BY <1>1, <2>1, UptoPath
    <2> QED
      BY <2>1, <2>2 DEF Rooted
  <1>3. ASSUME NEW k \in S
        PROVE  /\ P(k)[Len(P(k))] = FrameName(m, k) /\ FrameName(m, k) \in NameSet
               /\ Stage(P(k)) = 0 /\ Home(P(k)) = Path1(d)
               /\ P(k) = Path2(d, FrameName(m, k))
    <2>1. FrameName(m, k) \in NameSet
      BY <1>1, FrameNameIs
    <2> DEFINE p == P(k)
    <2>2. p = Path2(d, FrameName(m, k))
      BY DEF Fresh
    <2> HIDE DEF p, P
    <2>3. p[Len(p)] = FrameName(m, k) /\ Stage(p) = 0 /\ Home(p) = Path1(d)
      BY <1>1, <2>1, <2>2, InFolderIs
    <2> QED
      BY <2>1, <2>2, <2>3 DEF p
  <1>4. ASSUME NEW k \in S
        PROVE  /\ Q(k) \in Paths /\ Len(Q(k)) > 2 /\ Len(Q(k)) > 0
               /\ Q(k)[Len(Q(k))] = FrameName(m, k) /\ Q(k)[Len(Q(k)) - 1] = Jp4s
               /\ Stage(Q(k)) = 1 /\ Home(Q(k)) = Path1(d) /\ Q(k)[2] = Jp4s
               /\ Rooted(Q(k), f) /\ Q(k)[3] = FrameName(m, k)
    <2>1. FrameName(m, k) \in NameSet
      BY <1>3
    <2> DEFINE p == Q(k)
    <2>2. p = Path3(d, Jp4s, FrameName(m, k))
      BY DEF Kept
    <2> HIDE DEF p, P, Q
    <2>3. /\ p \in Paths /\ Len(p) = 3 /\ p[Len(p)] = FrameName(m, k)
          /\ p[Len(p) - 1] = Jp4s /\ Len(p) > 2
          /\ Stage(p) = 1 /\ Home(p) = Path1(d) /\ p[2] = Jp4s
          /\ p[3] = FrameName(m, k)
          /\ Upto(p, 1) = Path1(d) /\ Upto(p, 2) = t
      <3>1. LiesIn(p, d, Jp4s, FrameName(m, k)) /\ Stage(p) = 1
        BY <1>1, <2>1, <2>2, InJp4sIs
      <3> QED
        BY <3>1 DEF LiesIn
    <2>4. Rooted(p, f)
      <3>1. Len(p) - 1 = 2 /\ \A n \in 1..2 : n = 1 \/ n = 2
        BY <2>3
      <3> QED
        BY <1>2, <2>3, <3>1, Zenon DEF Rooted
    <2> QED
      BY <2>3, <2>4 DEF p
  <1>5. ASSUME NEW k \in S
        PROVE  /\ P(k) \in DOMAIN f
               /\ IsFrame(f[P(k)]) /\ f[P(k)].kind = "jp4"
               /\ f[P(k)].id \in ids /\ f[P(k)].id[1] = m
               /\ f[P(k)].k = k /\ f[P(k)] = Frame("jp4", f[P(k)].id, k)
    <2>1. k \in Frames /\ P(k) = Path2(Folder(m), FrameName(m, k)) /\ P(k) \in DOMAIN f
      BY <1>1 DEF Fresh
    <2> HIDE DEF P
    <2> QED
      BY <1>1, <2>1, FrameAt
  \* What is replaced in jp4s/ is the same frame, and no newer.
  <1>6. ASSUME NEW k \in S, Q(k) \in DOMAIN f
        PROVE  /\ IsFrame(f[Q(k)]) /\ f[Q(k)].id \in ids /\ f[Q(k)].id[1] = m
               /\ f[Q(k)].k = k /\ f[Q(k)].id[2] <= f[P(k)].id[2]
    <2> HIDE DEF P, Q
    <2>1. IsFrame(f[Q(k)])
      BY <1>1, <1>4, <1>6, InSubfolder
    <2>2. f[Q(k)].id \in ids
      BY <1>1, <1>6, <2>1, FrameIsBelow
    <2>3. f[Q(k)].id[1] = m /\ f[Q(k)].k = k
      BY <1>1, <1>4, <1>6, <2>1, SameName
    <2>4. Stage(P(k)) < Stage(Q(k))
      BY <1>3, <1>4
    <2>5. f[Q(k)].id[2] <= f[P(k)].id[2]
      BY <1>1, <1>3, <1>4, <1>5, <1>6, <2>1, <2>4 DEF Ages
    <2> QED
      BY <2>1, <2>2, <2>3, <2>5
  <1>7. ASSUME NEW k \in S PROVE Q(k) \in DOMAIN g /\ g[Q(k)] = f[P(k)]
    OBVIOUS
  <1>8. ASSUME NEW p \in DOMAIN g
        PROVE  \/ p \in DOMAIN f /\ g[p] = f[p] /\ \A k \in S : p # P(k)
               \/ \E k \in S : p = Q(k)
    <2>1. CASE \A k \in S : p # Q(k)
      BY <2>1
    <2> QED
      BY <2>1
  <1>9. ASSUME NEW p \in DOMAIN f, \A k \in S : p # P(k), \A k \in S : p # Q(k)
        PROVE  p \in DOMAIN g /\ g[p] = f[p]
    BY <1>9
  <1> HIDE DEF t, P, Q
  <1>10. Tree(g, ids) /\ Homes(g) /\ ClipsIn(g, ids)
    <2>1. \A p \in DOMAIN f : ~IsFrame(f[p]) => p \in DOMAIN g /\ g[p] = f[p]
      BY <1>5, <1>6, <1>9
    <2>2. ASSUME NEW k \in S
          PROVE  /\ Placed(Q(k), g[Q(k)], ids)
                 /\ IsFrame(g[Q(k)]) /\ g[Q(k)] \in Kinds(ids)
                 /\ \E q \in DOMAIN f : HomeClip(Q(k), g[Q(k)], q, f[q])
      <3>1. g[Q(k)] = f[P(k)]
        BY <1>7
      <3>2. f[P(k)] \in Kinds(ids)
        BY <1>1, <1>5, TreeAt
      <3>3. Placed(Q(k), f[P(k)], ids)
        BY <1>4, <1>5 DEF Placed
      <3>4. PICK q \in DOMAIN f : HomeClip(P(k), f[P(k)], q, f[q])
        BY <1>1, <1>5 DEF Homes
      <3>5. HomeClip(Q(k), f[P(k)], q, f[q])
        BY <1>3, <1>4, <3>4 DEF HomeClip
      <3> QED
        BY <1>5, <3>1, <3>2, <3>3, <3>5
    <2>3. \A p \in DOMAIN g :
            \/ p \in DOMAIN f /\ g[p] = f[p]
            \/ /\ p \in Paths /\ Len(p) > 0 /\ IsFrame(g[p])
               /\ g[p] \in Kinds(ids) /\ Placed(p, g[p], ids) /\ Rooted(p, f)
               /\ \E q \in DOMAIN f : HomeClip(p, g[p], q, f[q])
      BY <1>4, <1>8, <2>2
    <2> QED
      BY <1>1, <2>1, <2>3, FramesChange
  <1>11. Ages(g)
    <2> SUFFICES ASSUME NEW p \in DOMAIN g, NEW q \in DOMAIN g,
                        IsFrame(g[p]), IsFrame(g[q]), Home(p) = Home(q),
                        p[Len(p)] = q[Len(q)], Stage(p) < Stage(q)
                 PROVE  g[q].id[2] <= g[p].id[2]
      BY DEF Ages
    <2>0. Stage(p) \in {0, 1, 2} /\ Stage(q) \in {0, 1, 2}
      BY DEF Stage
    <2>1. CASE /\ p \in DOMAIN f /\ g[p] = f[p] /\ \A k \in S : p # P(k)
               /\ q \in DOMAIN f /\ g[q] = f[q]
      BY <1>1, <2>1 DEF Ages
    <2>2. ASSUME p \in DOMAIN f, g[p] = f[p], \A k \in S : p # P(k),
                 NEW k \in S, q = Q(k)
          PROVE  FALSE
      <3>1. Stage(p) = 0 /\ Home(p) = Path1(d) /\ p[Len(p)] = FrameName(m, k)
        BY <1>4, <2>0, <2>2
      <3>2. p = Path2(d, FrameName(m, k))
        BY <1>1, <2>2, <3>1, PathFrom
      <3> QED
        BY <1>3, <2>2, <3>2
    <2>3. ASSUME NEW k \in S, p = Q(k), q \in DOMAIN f, g[q] = f[q]
          PROVE  g[q].id[2] <= g[p].id[2]
      <3>1. /\ Home(P(k)) = Home(q) /\ P(k)[Len(P(k))] = q[Len(q)]
            /\ Stage(P(k)) < Stage(q)
        BY <1>3, <1>4, <2>0, <2>3
      <3>2. f[q].id[2] <= f[P(k)].id[2]
        BY <1>1, <1>5, <2>3, <3>1 DEF Ages
      <3> QED
        BY <1>7, <2>3, <3>2
    <2>4. ASSUME NEW k \in S, p = Q(k), NEW l \in S, q = Q(l) PROVE FALSE
      BY <1>4, <2>4
    <2> QED
      BY <1>8, <2>1, <2>2, <2>3, <2>4
  <1>12. ASSUME NEW done, FramesIn(f, ids, done), NEW x \in done,
                NewestOf(x[1], ids)
         PROVE  \E p \in DOMAIN g : g[p] \in {Frame("jp4", x[1], x[2]),
                                              Frame("dng", x[1], x[2])}
    <2>1. PICK p \in DOMAIN f : f[p] \in {Frame("jp4", x[1], x[2]),
                                          Frame("dng", x[1], x[2])}
      BY <1>12 DEF FramesIn
    <2>2. ASSUME NEW k \in S, p = P(k)
          PROVE  Q(k) \in DOMAIN g /\ g[Q(k)] = f[p]
      BY <1>7, <2>2
    <2>3. ASSUME NEW k \in S, p = Q(k)
          PROVE  Q(k) \in DOMAIN g /\ g[Q(k)] = Frame("jp4", x[1], x[2])
      <3>1. /\ IsFrame(f[p]) /\ f[p].id \in ids /\ f[p].id[1] = m /\ f[p].k = k
            /\ f[p].id[2] <= f[P(k)].id[2]
        BY <1>6, <2>3
      <3>2. f[p].id = x[1] /\ f[p].k = x[2]
        BY <2>1 DEF Frame
      <3>3. f[P(k)].id \in ids /\ f[P(k)].id[1] = m
        BY <1>5
      <3>4. x[1] = f[P(k)].id
        BY <1>12, <3>1, <3>2, <3>3, NewestIs
      <3> QED
        BY <1>5, <1>7, <3>1, <3>2, <3>4
    <2>4. CASE (\A k \in S : p # P(k)) /\ (\A k \in S : p # Q(k))
      BY <1>9, <2>1, <2>4
    <2> QED
      BY <2>1, <2>2, <2>3, <2>4
  <1>13. ASSUME NEW done, FramesIn(f, ids, done) PROVE FramesIn(g, ids, done)
    BY <1>12, <1>13 DEF FramesIn
  <1> QED
    BY <1>10, <1>11, <1>13 DEF FileSystem

\* What lies in jp4s/ of the folder d.
InJp4s(f, d) == {p \in DOMAIN f : Len(p) > 2 /\ p[1] = d /\ p[2] = Jp4s}

LEMMA InJp4sAre ==
  ASSUME NEW f, NEW ids, Tree(f, ids), NEW d \in NameSet, NEW p \in InJp4s(f, d)
  PROVE  /\ p \in DOMAIN f /\ IsFrame(f[p]) /\ f[p].kind = "jp4"
         /\ f[p].id \in ids /\ f[p].k \in Frames
         /\ f[p] = Frame("jp4", f[p].id, f[p].k)
         /\ p[3] = FrameName(f[p].id[1], f[p].k) /\ p[3] \in NameSet
         /\ p = Path3(d, Jp4s, p[3]) /\ LiesIn(p, d, Jp4s, p[3]) /\ Stage(p) = 1
  <1>1. p \in DOMAIN f /\ Len(p) > 2 /\ p[1] = d /\ p[2] = Jp4s
    BY DEF InJp4s
  <1>2. /\ Len(p) = 3 /\ p = Path3(d, Jp4s, p[3])
        /\ IsFrame(f[p]) /\ f[p].kind = "jp4"
        /\ p[3] = FrameName(f[p].id[1], f[p].k)
    BY <1>1, InSubfolder
  <1>3. f[p] \in Kinds(ids) /\ p \in Paths
    BY <1>1, TreeAt
  <1>4. /\ f[p].id \in ids /\ f[p].k \in Frames
        /\ f[p] = Frame("jp4", f[p].id, f[p].k)
    BY <1>2, <1>3, KindsAre
  <1>5. p[3] \in NameSet
    <2>1. 3 \in 1..Len(p)
      BY <1>2
    <2> QED
      BY <1>3, <2>1, NamesOf
  <1>6. LiesIn(p, d, Jp4s, p[3]) /\ Stage(p) = 1
    BY <1>2, <1>5, InJp4sIs
  <1> QED
    BY <1>1, <1>2, <1>4, <1>5, <1>6

\* elphel_dng makes DNG files of some of what lies in jp4s/.
LEMMA Converts ==
  ASSUME NEW f, NEW g, NEW ids, ids \subseteq Ids, FileSystem(f, ids),
         NEW d \in NameSet, Frames \subseteq Parts,
         Path2(d, Dngs) \in DOMAIN f, f[Path2(d, Dngs)] = Dir,
         NEW S \in SUBSET InJp4s(f, d),
         DOMAIN g = DOMAIN f \cup {Path3(d, Dngs, p[3]) : p \in S},
         \A p \in S : g[Path3(d, Dngs, p[3])] = [f[p] EXCEPT !.kind = "dng"],
         \A p \in DOMAIN f : (\A q \in S : p # Path3(d, Dngs, q[3])) => g[p] = f[p]
  PROVE  /\ FileSystem(g, ids)
         /\ \A done : FramesIn(f, ids, done) => FramesIn(g, ids, done)
         /\ S = InJp4s(f, d) => MadeIn(g, d)
  <1> DEFINE R(p) == Path3(d, Dngs, p[3])
  <1>1. /\ Tree(f, ids) /\ Homes(f) /\ Ages(f) /\ ClipsIn(f, ids)
        /\ Jp4s \in NameSet /\ Dngs \in NameSet /\ Jp4s # Dngs
    BY SubfoldersAre DEF FileSystem
  <1>2. Path1(d) \in DOMAIN f /\ f[Path1(d)] = Dir
    <2> DEFINE t == Path2(d, Dngs)
    <2>1. Rooted(t, f) /\ Len(t) = 2
      BY <1>1, PathsAre DEF Tree
    <2>2. Upto(t, 1) = Path1(d) /\ 1 \in 1..(Len(t) - 1)
      BY <1>1, <2>1, UptoPath
    <2> QED
      BY <2>1, <2>2 DEF Rooted
  <1>3. ASSUME NEW p \in S
        PROVE  /\ p \in DOMAIN f /\ IsFrame(f[p]) /\ f[p].kind = "jp4"
               /\ f[p].id \in ids /\ f[p].k \in Frames
               /\ f[p] = Frame("jp4", f[p].id, f[p].k)
               /\ p[3] = FrameName(f[p].id[1], f[p].k) /\ p[3] \in NameSet
               /\ p = Path3(d, Jp4s, p[3])
               /\ LiesIn(p, d, Jp4s, p[3]) /\ Stage(p) = 1
    <2>1. p \in InJp4s(f, d)
      OBVIOUS
    <2> QED
      BY <1>1, <2>1, InJp4sAre
  <1>4. ASSUME NEW p \in S
        PROVE  LiesIn(R(p), d, Dngs, p[3]) /\ Stage(R(p)) = 2
    BY <1>3, InDngsIs
  <1>5. ASSUME NEW p \in S
        PROVE  /\ g[R(p)] = Frame("dng", f[p].id, f[p].k)
               /\ IsFrame(g[R(p)]) /\ g[R(p)] \in Kinds(ids)
               /\ g[R(p)].kind = "dng" /\ g[R(p)].id = f[p].id
               /\ g[R(p)].k = f[p].k /\ R(p) \in DOMAIN g
    <2> DEFINE id == f[p].id
               k  == f[p].k
    <2>1. id \in ids /\ k \in Frames /\ f[p] = Frame("jp4", id, k)
      BY <1>3
    <2>2. g[R(p)] = [f[p] EXCEPT !.kind = "dng"] /\ R(p) \in DOMAIN g
      OBVIOUS
    <2> HIDE DEF id, k, R
    <2>3. [Frame("jp4", id, k) EXCEPT !.kind = "dng"] = Frame("dng", id, k)
      BY DEF Frame
    <2>4. /\ Frame("dng", id, k) \in Kinds(ids) /\ IsFrame(Frame("dng", id, k))
          /\ Frame("dng", id, k).kind = "dng" /\ Frame("dng", id, k).id = id
          /\ Frame("dng", id, k).k = k
      <3>1. Frame("dng", id, k) \in Kinds(ids) /\ IsFrame(Frame("dng", id, k))
        BY <2>1, NodesAre
      <3> QED
        BY <3>1 DEF Frame
    <2> QED
      BY <2>1, <2>2, <2>3, <2>4 DEF id, k
  <1>6. ASSUME NEW p \in DOMAIN g
        PROVE  (p \in DOMAIN f /\ g[p] = f[p]) \/ (\E q \in S : p = R(q))
    OBVIOUS
  <1>7. ASSUME NEW p \in DOMAIN f, \A q \in S : p # R(q)
        PROVE  p \in DOMAIN g /\ g[p] = f[p]
    BY <1>7
  <1> HIDE DEF R
  \* What is replaced in dngs/ is the same frame, and no newer.
  <1>8. ASSUME NEW p \in S, R(p) \in DOMAIN f
        PROVE  /\ IsFrame(f[R(p)]) /\ f[R(p)].id \in ids
               /\ f[R(p)].id[1] = f[p].id[1] /\ f[R(p)].k = f[p].k
               /\ f[R(p)].id[2] <= f[p].id[2]
    <2> DEFINE q == R(p)
               m == f[p].id[1]
               k == f[p].k
    <2>1. /\ Len(q) > 2 /\ q[2] = Dngs /\ q[Len(q)] = p[3] /\ Home(q) = Path1(d)
      BY <1>4 DEF LiesIn
    <2>2. p[Len(p)] = p[3] /\ Home(p) = Path1(d) /\ p[3] = FrameName(m, k)
      BY <1>3 DEF LiesIn
    <2>3. m \in NameSet /\ k \in Parts
      BY <1>3 DEF Ids
    <2>4. q \in DOMAIN f
      BY <1>8
    <2> HIDE DEF q, m, k
    <2>5. IsFrame(f[q])
      BY <1>1, <2>1, <2>4, InSubfolder
    <2>6. f[q].id \in ids
      BY <1>1, <2>4, <2>5, FrameIsBelow
    <2>7. f[q].id[1] = m /\ f[q].k = k
      BY <1>1, <2>1, <2>2, <2>3, <2>4, <2>5, SameName
    <2>8. Stage(p) < Stage(q)
      BY <1>3, <1>4 DEF q
    <2>9. f[q].id[2] <= f[p].id[2]
      BY <1>1, <1>3, <2>1, <2>2, <2>4, <2>5, <2>8 DEF Ages
    <2> QED
      BY <2>5, <2>6, <2>7, <2>9 DEF q, m, k
  <1>9. Tree(g, ids) /\ Homes(g) /\ ClipsIn(g, ids)
    <2>1. \A p \in DOMAIN f : ~IsFrame(f[p]) => p \in DOMAIN g /\ g[p] = f[p]
      BY <1>7, <1>8
    <2>2. ASSUME NEW p \in S
          PROVE  /\ R(p) \in Paths /\ Len(R(p)) > 0 /\ IsFrame(g[R(p)])
                 /\ g[R(p)] \in Kinds(ids) /\ Placed(R(p), g[R(p)], ids)
                 /\ Rooted(R(p), f)
                 /\ \E q \in DOMAIN f : HomeClip(R(p), g[R(p)], q, f[q])
      <3> DEFINE r == R(p)
      <3>1. /\ r \in Paths /\ Len(r) = 3 /\ Len(r) > 2 /\ r[Len(r)] = p[3]
            /\ r[Len(r) - 1] = Dngs /\ Home(r) = Path1(d)
            /\ Upto(r, 1) = Path1(d) /\ Upto(r, 2) = Path2(d, Dngs)
        BY <1>4 DEF LiesIn
      <3> HIDE DEF r
      <3>2. Rooted(r, f)
        <4>1. Len(r) - 1 = 2 /\ \A n \in 1..2 : n = 1 \/ n = 2
          BY <3>1
        <4> QED
          BY <1>2, <3>1, <4>1, ZenonT(40) DEF Rooted
      <3>3. p[3] = FrameName(f[p].id[1], f[p].k) /\ Home(p) = Path1(d)
        BY <1>3 DEF LiesIn
      <3>4. /\ IsFrame(g[r]) /\ g[r] \in Kinds(ids) /\ g[r].kind = "dng"
            /\ g[r].id = f[p].id /\ g[r].k = f[p].k
        BY <1>5 DEF r
      <3>5. Placed(r, g[r], ids)
        BY <3>1, <3>3, <3>4 DEF Placed
      <3>6. PICK q \in DOMAIN f : HomeClip(p, f[p], q, f[q])
        BY <1>1, <1>3 DEF Homes
      <3>7. HomeClip(r, g[r], q, f[q])
        BY <3>1, <3>3, <3>4, <3>6 DEF HomeClip
      <3>8. Len(r) > 0
        BY <3>1
      <3> QED
        BY <3>1, <3>2, <3>4, <3>5, <3>7, <3>8 DEF r
    <2>3. \A p \in DOMAIN g :
            \/ p \in DOMAIN f /\ g[p] = f[p]
            \/ /\ p \in Paths /\ Len(p) > 0 /\ IsFrame(g[p])
               /\ g[p] \in Kinds(ids) /\ Placed(p, g[p], ids) /\ Rooted(p, f)
               /\ \E q \in DOMAIN f : HomeClip(p, g[p], q, f[q])
      BY <1>6, <2>2
    <2> QED
      BY <1>1, <2>1, <2>3, FramesChange
  <1>10. Ages(g)
    <2> SUFFICES ASSUME NEW p \in DOMAIN g, NEW q \in DOMAIN g,
                        IsFrame(g[p]), IsFrame(g[q]), Home(p) = Home(q),
                        p[Len(p)] = q[Len(q)], Stage(p) < Stage(q)
                 PROVE  g[q].id[2] <= g[p].id[2]
      BY DEF Ages
    <2>0. Stage(p) \in {0, 1, 2} /\ Stage(q) \in {0, 1, 2}
      BY DEF Stage
    <2>1. p \in DOMAIN f /\ g[p] = f[p]
      <3>1. ASSUME NEW r \in S, p = R(r) PROVE FALSE
        <4>1. Stage(p) = 2
          BY <1>4, <3>1
        <4> QED
          BY <2>0, <4>1
      <3> QED
        BY <1>6, <3>1
    <2>2. CASE q \in DOMAIN f /\ g[q] = f[q]
      BY <1>1, <2>1, <2>2 DEF Ages
    <2>3. ASSUME NEW r \in S, q = R(r) PROVE g[q].id[2] <= g[p].id[2]
      <3>1. g[q].id = f[r].id
        BY <1>5, <2>3
      <3>2. Home(p) = Path1(d) /\ p[Len(p)] = r[3]
        BY <1>4, <2>3 DEF LiesIn
      <3>3. Home(r) = Path1(d) /\ r[Len(r)] = r[3] /\ Stage(r) = 1
        BY <1>3 DEF LiesIn
      <3>4. CASE Stage(p) = 0
        <4>1. Stage(p) < Stage(r)
          BY <3>3, <3>4
        <4>2. f[r].id[2] <= f[p].id[2]
          BY <1>1, <1>3, <2>1, <3>2, <3>3, <4>1 DEF Ages
        <4> QED
          BY <2>1, <3>1, <4>2
      <3>5. CASE Stage(p) = 1
        <4>1. p = Path3(d, Jp4s, r[3])
          BY <1>1, <2>1, <3>2, <3>5, PathFrom
        <4>2. p = r
          BY <1>3, <4>1
        <4>3. f[r].id[2] <= f[r].id[2]
          BY <1>3 DEF Ids
        <4> QED
          BY <2>1, <3>1, <4>2, <4>3
      <3>6. Stage(q) = 2
        BY <1>4, <2>3
      <3> QED
        BY <2>0, <3>4, <3>5, <3>6
    <2> QED
      BY <1>6, <2>2, <2>3
  <1>11. ASSUME NEW done, FramesIn(f, ids, done), NEW x \in done,
                NewestOf(x[1], ids)
         PROVE  \E p \in DOMAIN g : g[p] \in {Frame("jp4", x[1], x[2]),
                                              Frame("dng", x[1], x[2])}
    <2>1. PICK p \in DOMAIN f : f[p] \in {Frame("jp4", x[1], x[2]),
                                          Frame("dng", x[1], x[2])}
      BY <1>11 DEF FramesIn
    <2>2. ASSUME NEW r \in S, p = R(r)
          PROVE  R(r) \in DOMAIN g /\ g[R(r)] = Frame("dng", x[1], x[2])
      <3>1. /\ IsFrame(f[p]) /\ f[p].id \in ids /\ f[p].id[1] = f[r].id[1]
            /\ f[p].k = f[r].k /\ f[p].id[2] <= f[r].id[2]
        BY <1>8, <2>2
      <3>2. f[p].id = x[1] /\ f[p].k = x[2]
        BY <2>1 DEF Frame
      <3>3. f[r].id \in ids
        BY <1>3
      <3>4. x[1] = f[r].id
        BY <1>11, <3>1, <3>2, <3>3, NewestIs
      <3>5. f[r].k = x[2]
        BY <3>1, <3>2
      <3>6. R(r) \in DOMAIN g /\ g[R(r)] = Frame("dng", f[r].id, f[r].k)
        BY <1>5
      <3> QED
        BY <3>4, <3>5, <3>6
    <2>3. CASE \A r \in S : p # R(r)
      BY <1>7, <2>1, <2>3
    <2> QED
      BY <2>1, <2>2, <2>3
  <1>12. ASSUME NEW done, FramesIn(f, ids, done) PROVE FramesIn(g, ids, done)
    BY <1>11, <1>12 DEF FramesIn
  <1>13. ASSUME S = InJp4s(f, d) PROVE MadeIn(g, d)
    <2> SUFFICES ASSUME NEW p \in DOMAIN g, Len(p) = 3, p[1] = d, p[2] = Jp4s
                 PROVE  /\ R(p) \in DOMAIN g
                        /\ g[R(p)] = [g[p] EXCEPT !.kind = "dng"]
      BY DEF MadeIn, R
    <2>1. ASSUME NEW r \in S, p = R(r) PROVE FALSE
      <3>1. p[2] = Dngs
        BY <1>4, <2>1 DEF LiesIn
      <3> QED
        BY <1>1, <3>1
    <2>2. p \in DOMAIN f /\ g[p] = f[p]
      BY <1>6, <2>1
    <2>3. Len(p) > 2
      <3>1. ASSUME NEW n, n = 3 PROVE n > 2
        BY <3>1
      <3> QED
        BY <3>1, Zenon
    <2>4. p \in S
      BY <1>13, <2>2, <2>3 DEF InJp4s
    <2> QED
      BY <2>2, <2>4 DEF R
  <1> QED
    BY <1>9, <1>10, <1>12, <1>13 DEF FileSystem

\* jp4s/ of the folder d is removed with all that is in it.
LEMMA Removes ==
  ASSUME NEW f, NEW g, NEW ids, ids \subseteq Ids, FileSystem(f, ids),
         NEW d \in NameSet, Frames \subseteq Parts,
         DOMAIN g = {p \in DOMAIN f : ~IsPrefix(Path2(d, Jp4s), p)},
         \A p \in DOMAIN g : g[p] = f[p]
  PROVE  /\ FileSystem(g, ids)
         /\ MadeIn(f, d) => \A done : FramesIn(f, ids, done) => FramesIn(g, ids, done)
  <1>1. /\ Tree(f, ids) /\ Homes(f) /\ Ages(f) /\ ClipsIn(f, ids)
        /\ Jp4s \in NameSet /\ Dngs \in NameSet /\ Jp4s # Dngs
        /\ ~IsMovie(Jp4s) /\ Len(Jp4s) = 4
    BY SubfoldersAre DEF FileSystem
  <1>2. ASSUME NEW p \in DOMAIN f
        PROVE  /\ p \in Paths /\ Len(p) \in Nat \ {0} /\ Placed(p, f[p], ids)
               /\ f[p] \in Kinds(ids) /\ Rooted(p, f)
               /\ p \in DOMAIN g <=> ~(Len(p) >= 2 /\ p[1] = d /\ p[2] = Jp4s)
    <2>1. /\ p \in Paths /\ Len(p) \in Nat \ {0} /\ Placed(p, f[p], ids)
          /\ f[p] \in Kinds(ids) /\ Rooted(p, f)
      BY <1>1, TreeAt DEF Tree
    <2>2. IsPrefix(Path2(d, Jp4s), p) <=> Len(p) >= 2 /\ p[1] = d /\ p[2] = Jp4s
      BY <1>1, <2>1, BelowIs
    <2> QED
      BY <2>1, <2>2
  \* What is removed is frames and the directory.
  <1>3. ASSUME NEW p \in DOMAIN f, p \notin DOMAIN g
        PROVE  /\ f[p].kind # "clip"
               /\ IsFrame(f[p]) => p \in InJp4s(f, d) /\ Len(p) = 3
    <2>1. Len(p) >= 2 /\ p[1] = d /\ p[2] = Jp4s /\ Len(p) \in Nat
      BY <1>2, <1>3
    <2>2. CASE Len(p) = 2
      <3>1. p[Len(p)] = Jp4s
        BY <2>1, <2>2
      <3>2. ~Moved(p)
        BY <1>1, <3>1 DEF Moved
      <3>3. Len(p) > 1
        <4>1. ASSUME NEW n, n = 2 PROVE n > 1
          BY <4>1
        <4> QED
          BY <2>2, <4>1, Zenon
      <3>4. f[p].kind # "clip"
        BY <1>2, <3>2, <3>3 DEF Placed
      <3>5. ~IsFrame(f[p])
        <4> SUFFICES ASSUME IsFrame(f[p]) PROVE FALSE
          OBVIOUS
        <4>1. /\ f[p].id \in ids /\ f[p].k \in Frames
              /\ Jp4s = FrameName(f[p].id[1], f[p].k)
          BY <1>2, <3>1, KindsAre DEF Placed
        <4>2. f[p].id[1] \in NameSet /\ f[p].k \in Parts
          BY <4>1 DEF Ids
        <4>3. Len(Jp4s) = Len(f[p].id[1]) + 6 /\ Len(f[p].id[1]) \in Nat
          BY <4>1, <4>2, FrameNameIs, SMTT(30)
        <4>4. ASSUME NEW n \in Nat PROVE n + 6 # 4
          OBVIOUS
        <4> QED
          BY <1>1, <4>3, <4>4, Zenon
      <3> QED
        BY <3>4, <3>5
    <2>3. CASE Len(p) > 2
      <3>1. p \in InJp4s(f, d)
        BY <2>1, <2>3 DEF InJp4s
      <3>2. f[p].kind = "jp4" /\ Len(p) = 3
        BY <1>1, <2>1, <2>3, InSubfolder
      <3> QED
        BY <3>1, <3>2
    <2> QED
      BY <2>1, <2>2, <2>3, LengthIs, Zenon
  <1>4. Tree(g, ids)
    <2> SUFFICES ASSUME NEW p \in DOMAIN g PROVE Rooted(p, g)
      BY <1>2 DEF Tree
    <2> SUFFICES ASSUME NEW n \in 1..(Len(p) - 1) PROVE Upto(p, n) \in DOMAIN g
      BY <1>2 DEF Rooted
    <2> DEFINE u == Upto(p, n)
    <2>1. u \in DOMAIN f /\ p \in Seq(NameSet) /\ Len(p) \in Nat
      BY <1>2 DEF Rooted, Paths
    <2>2. n \in 0..Len(p)
      BY <2>1
    <2>3. Len(u) = n /\ \A x \in 1..n : u[x] = p[x]
      BY <2>1, <2>2, UptoIs
    <2> HIDE DEF u
    <2>4. ASSUME Len(u) >= 2, u[1] = d, u[2] = Jp4s PROVE FALSE
      <3>1. n >= 2 /\ 1 \in 1..n /\ 2 \in 1..n /\ Len(p) >= 2
        BY <2>1, <2>3, <2>4
      <3>2. p[1] = d /\ p[2] = Jp4s
        BY <2>3, <2>4, <3>1
      <3> QED
        BY <1>2, <3>1, <3>2
    <2>5. u \in DOMAIN g
      BY <1>2, <2>1, <2>4
    <2> QED
      BY <2>5 DEF u
  <1>5. Homes(g)
    <2> SUFFICES ASSUME NEW p \in DOMAIN g, IsFrame(g[p])
                 PROVE  \E q \in DOMAIN g : HomeClip(p, g[p], q, g[q])
      BY DEF Homes
    <2>1. PICK q \in DOMAIN f : HomeClip(p, f[p], q, f[q])
      BY <1>1 DEF Homes
    <2>2. q \in DOMAIN g
      BY <1>3, <2>1 DEF HomeClip
    <2> QED
      BY <2>1, <2>2
  <1>6. Ages(g)
    BY <1>1 DEF Ages
  <1>7. ClipsIn(g, ids)
    <2> SUFFICES ASSUME NEW id \in ids, NewestOf(id, ids)
                 PROVE  \E p \in DOMAIN g : g[p] = Clip(id)
      BY DEF ClipsIn
    <2>1. PICK p \in DOMAIN f : f[p] = Clip(id)
      BY <1>1 DEF ClipsIn
    <2>2. p \in DOMAIN g
      BY <1>3, <2>1 DEF Clip
    <2> QED
      BY <2>1, <2>2
  <1>8. ASSUME MadeIn(f, d), NEW done, FramesIn(f, ids, done),
               NEW x \in done, NewestOf(x[1], ids)
        PROVE  \E p \in DOMAIN g : g[p] \in {Frame("jp4", x[1], x[2]),
                                             Frame("dng", x[1], x[2])}
    <2>1. PICK p \in DOMAIN f : f[p] \in {Frame("jp4", x[1], x[2]),
                                          Frame("dng", x[1], x[2])}
      BY <1>8 DEF FramesIn
    <2>2. CASE p \in DOMAIN g
      BY <2>1, <2>2
    <2>3. CASE p \notin DOMAIN g
      <3>1. IsFrame(f[p])
        BY <2>1 DEF Frame, IsFrame
      <3>2. p \in InJp4s(f, d) /\ Len(p) = 3
        BY <1>3, <2>3, <3>1
      <3>3. p[1] = d /\ p[2] = Jp4s /\ p[3] \in NameSet
        BY <1>1, <3>2, InJp4sAre DEF InJp4s
      <3> DEFINE r == Path3(d, Dngs, p[3])
      <3>4. r \in DOMAIN f /\ f[r] = [f[p] EXCEPT !.kind = "dng"]
        BY <1>8, <3>2, <3>3 DEF MadeIn
      <3>5. r[2] = Dngs
        BY <1>1, <3>3, PathsAre
      <3> HIDE DEF r
      <3>6. r \in DOMAIN g
        BY <1>1, <1>2, <3>4, <3>5
      <3>7. [f[p] EXCEPT !.kind = "dng"] = Frame("dng", x[1], x[2])
        BY <2>1 DEF Frame
      <3> QED
        BY <3>4, <3>6, <3>7
    <2> QED
      BY <2>2, <2>3
  <1>9. ASSUME MadeIn(f, d), NEW done, FramesIn(f, ids, done)
        PROVE  FramesIn(g, ids, done)
    BY <1>8, <1>9 DEF FramesIn
  <1> QED
    BY <1>4, <1>5, <1>6, <1>7, <1>9 DEF FileSystem

\* New directories where nothing was.
LEMMA DirsAdded ==
  ASSUME NEW f, NEW g, NEW ids, FileSystem(f, ids),
         \A p \in DOMAIN f : p \in DOMAIN g /\ g[p] = f[p],
         \A p \in DOMAIN g : p \notin DOMAIN f =>
           /\ g[p] = Dir /\ p \in Paths /\ Len(p) > 0 /\ Placed(p, Dir, ids)
           /\ Rooted(p, f)
  PROVE  /\ FileSystem(g, ids)
         /\ \A done : FramesIn(f, ids, done) => FramesIn(g, ids, done)
  <1>1. /\ Tree(f, ids) /\ Homes(f) /\ Ages(f) /\ ClipsIn(f, ids)
    BY DEF FileSystem
  <1>2. ~IsFrame(Dir) /\ Dir \in Kinds(ids)
    BY DEF IsFrame, Dir, Kinds
  <1>3. ASSUME NEW p, Rooted(p, f) PROVE Rooted(p, g)
    BY <1>3 DEF Rooted
  <1>4. Tree(g, ids)
    BY <1>1, <1>2, <1>3 DEF Tree
  <1>5. \A p \in DOMAIN g : IsFrame(g[p]) => p \in DOMAIN f /\ g[p] = f[p]
    BY <1>2
  <1>6. Homes(g)
    <2> SUFFICES ASSUME NEW p \in DOMAIN g, IsFrame(g[p])
                 PROVE  \E q \in DOMAIN g : HomeClip(p, g[p], q, g[q])
      BY DEF Homes
    <2>1. p \in DOMAIN f /\ g[p] = f[p]
      BY <1>5
    <2>2. PICK q \in DOMAIN f : HomeClip(p, f[p], q, f[q])
      BY <1>1, <2>1 DEF Homes
    <2> QED
      BY <2>1, <2>2
  <1>7. Ages(g)
    BY <1>1, <1>5 DEF Ages
  <1>8. ClipsIn(g, ids)
    BY <1>1 DEF ClipsIn
  <1>9. ASSUME NEW done, FramesIn(f, ids, done) PROVE FramesIn(g, ids, done)
    BY <1>9 DEF FramesIn
  <1> QED
    BY <1>4, <1>6, <1>7, <1>8, <1>9 DEF FileSystem

\* A clip is put at the top where there was none with its name.
IsAdded(f, g, m) ==
  /\ Path1(m) \notin DOMAIN f /\ DOMAIN g = DOMAIN f \cup {Path1(m)}
  /\ g[Path1(m)] = Clip(<<m, 2>>) /\ \A p \in DOMAIN f : g[p] = f[p]

LEMMA ClipAdded ==
  ASSUME NEW f, NEW g, NEW ids, ids \subseteq Ids, FileSystem(f, ids),
         NEW m \in NameSet, IsAdded(f, g, m), NEW new, new = ids \cup {<<m, 2>>}
  PROVE  /\ new \subseteq Ids /\ FileSystem(g, new)
         /\ \A done : FramesIn(f, ids, done) => FramesIn(g, new, done)
  <1> USE DEF IsAdded
  <1> DEFINE v == <<m, 2>>
             t == Path1(m)
  <1>1. /\ Tree(f, ids) /\ Homes(f) /\ Ages(f) /\ ClipsIn(f, ids)
    BY DEF FileSystem
  <1>2. v \in Ids /\ v[1] = m /\ v[2] = 2 /\ new \subseteq Ids
    BY DEF Ids
  <1>3. /\ t \in Paths /\ Len(t) = 1 /\ t[1] = m
    BY PathsAre
  <1>4. /\ g[t].kind = "clip" /\ g[t].id = v /\ g[t] \in Kinds(new) /\ ~IsFrame(g[t])
        /\ g[t] # Dir
    BY DEF Clip, Kinds, IsFrame, Dir
  <1>5. NewestOf(v, new)
    <2>1. <<m, 2 + 1>> \notin Ids
      BY DEF Ids
    <2> QED
      BY <1>2, <2>1 DEF NewestOf
  <1> HIDE DEF v, t
  <1>6. ASSUME NEW id, NewestOf(id, new) PROVE NewestOf(id, ids)
    BY <1>6 DEF NewestOf
  <1>7. ASSUME NEW id, NewestOf(id, ids), id[1] # m PROVE NewestOf(id, new)
    <2>1. <<id[1], id[2] + 1>> # v
      BY <1>2, <1>7
    <2> QED
      BY <1>7, <2>1 DEF NewestOf, v
  <1>8. ASSUME NEW p \in DOMAIN f
        PROVE  f[p] \in Kinds(new) /\ Placed(p, f[p], new) /\ Rooted(p, g)
    <2>1. /\ f[p] \in Kinds(ids) /\ Placed(p, f[p], ids) /\ Rooted(p, f) /\ p \in Paths
      BY <1>1 DEF Tree
    <2>2. f[p] \in Kinds(new)
      BY <2>1 DEF Kinds
    <2>3. Rooted(p, g)
      BY <2>1 DEF Rooted
    <2>4. ASSUME f[p].kind = "clip", Len(p) = 1 PROVE NewestOf(f[p].id, new)
      <3>1. p = Path1(p[1]) /\ p[1] = f[p].id[1]
        BY <2>1, <2>4, PathIs DEF Placed
      <3>2. f[p].id[1] # m
        BY <3>1
      <3>3. NewestOf(f[p].id, ids)
        BY <2>1, <2>4 DEF Placed
      <3> QED
        BY <1>7, <3>2, <3>3
    <2>5. Placed(p, f[p], new)
      BY <2>1, <2>4 DEF Placed
    <2> QED
      BY <2>2, <2>3, <2>5
  <1>9. Tree(g, new)
    <2>1. Len(t) > 0 /\ ~(Len(t) > 1) /\ t[Len(t)] = m /\ 1..(Len(t) - 1) = {}
      BY <1>3
    <2>2. Placed(t, g[t], new)
      BY <1>2, <1>4, <1>5, <2>1 DEF Placed, IsFrame
    <2>3. Rooted(t, g)
      BY <2>1 DEF Rooted
    <2>4. ASSUME NEW p \in DOMAIN g
          PROVE  /\ p \in Paths /\ Len(p) > 0 /\ g[p] \in Kinds(new)
                 /\ Placed(p, g[p], new) /\ Rooted(p, g)
      <3>1. CASE p = t
        BY <1>3, <1>4, <2>1, <2>2, <2>3, <3>1
      <3>2. CASE p \in DOMAIN f
        BY <1>1, <1>8, <3>2 DEF Tree
      <3> QED
        BY <3>1, <3>2 DEF t
    <2> QED
      BY <2>4 DEF Tree
  <1>10. \A p \in DOMAIN g : IsFrame(g[p]) => p \in DOMAIN f /\ g[p] = f[p]
    BY <1>4 DEF t
  <1>11. Homes(g)
    <2> SUFFICES ASSUME NEW p \in DOMAIN g, IsFrame(g[p])
                 PROVE  \E q \in DOMAIN g : HomeClip(p, g[p], q, g[q])
      BY DEF Homes
    <2>1. p \in DOMAIN f /\ g[p] = f[p]
      BY <1>10
    <2>2. PICK q \in DOMAIN f : HomeClip(p, f[p], q, f[q])
      BY <1>1, <2>1 DEF Homes
    <2> QED
      BY <2>1, <2>2
  <1>12. Ages(g)
    BY <1>1, <1>10 DEF Ages
  <1>13. ClipsIn(g, new)
    <2> SUFFICES ASSUME NEW id \in new, NewestOf(id, new)
                 PROVE  \E p \in DOMAIN g : g[p] = Clip(id)
      BY DEF ClipsIn
    <2>1. CASE id = v
      BY <2>1 DEF v
    <2>2. CASE id \in ids
      <3>1. NewestOf(id, ids)
        BY <1>6
      <3> QED
        BY <1>1, <2>2, <3>1 DEF ClipsIn
    <2> QED
      BY <2>1, <2>2 DEF v
  <1>14. ASSUME NEW done, FramesIn(f, ids, done) PROVE FramesIn(g, new, done)
    BY <1>6, <1>14 DEF FramesIn
  <1> QED
    BY <1>2, <1>9, <1>11, <1>12, <1>13, <1>14 DEF FileSystem

-----------------------------------------------------------------------------
(* process.php: the script. *)

\* The clips and the frames are where the script has put them, and what it is
\* about to remove has been converted.
BatchInv ==
  /\ given \subseteq Ids /\ extracted \subseteq given \X Frames
  /\ present \subseteq NameSet /\ file \in NameSet
  /\ FileSystem(fs, given)
  /\ allMade => FramesIn(fs, given, extracted)
  /\ batchPc \notin {"idle", "killed", "readdir"} => IsMovie(file)
  /\ batchPc = "remove" /\ allMade => MadeIn(fs, dir_name)

LEMMA ConstantsAre ==
  /\ Frames \subseteq Parts
  /\ \A names \in Stocks : \A n \in names : Blanks(n) = {} => n \in NameSet
  <1>1. STRING \ {" "} \subseteq Parts
    BY DEF Parts
  <1>2. ASSUME NEW n \in Seq(STRING), Blanks(n) = {} PROVE n \in Seq(Parts)
    <2>1. Len(n) \in Nat /\ DOMAIN n = 1..Len(n) /\ n \in [1..Len(n) -> STRING]
      BY LenProperties
    <2>2. \A i \in 1..Len(n) : n[i] \in Parts
      BY <1>1, <1>2, <2>1 DEF Blanks
    <2>3. n \in [1..Len(n) -> Parts]
      BY <2>1, <2>2
    <2> QED
      BY <2>1, <2>3
  <1> QED
    BY <1>1, <1>2, BatchProcessAssumption DEF NameSet

LEMMA AtIs ==
  ASSUME NEW ids, Tree(fs, ids), NEW p
  PROVE  /\ At(p) = "none" <=> p \notin DOMAIN fs
         /\ At(p) = "dir" => p \in DOMAIN fs /\ fs[p] = Dir
         /\ At(p) = "clip" => p \in DOMAIN fs /\ fs[p].kind = "clip"
  <1>1. CASE p \in DOMAIN fs
    BY <1>1, TreeAt, KindsAre DEF At
  <1>2. CASE p \notin DOMAIN fs
    BY <1>2 DEF At
  <1> QED
    BY <1>1, <1>2

LEMMA AddedIs ==
  ASSUME NEW nodes, NEW g, g = Added(nodes)
  PROVE  /\ DOMAIN g = DOMAIN fs \cup DOMAIN nodes
         /\ \A p \in DOMAIN nodes : g[p] = nodes[p]
         /\ \A p \in DOMAIN fs : p \notin DOMAIN nodes => g[p] = fs[p]
  BY DEF Added

LEMMA AtWork ==
  ASSUME BatchInv, batchPc \notin {"idle", "killed", "readdir"}
  PROVE  /\ FolderOf(dir_name, file) /\ dir_name \in NameSet /\ file \in NameSet
         /\ IsMovie(file) /\ dir_name # file /\ Frames \subseteq Parts
         /\ FileSystem(fs, given) /\ Tree(fs, given) /\ given \subseteq Ids
         /\ jp4s = Path2(dir_name, Jp4s) /\ dngs = Path2(dir_name, Dngs)
         /\ <<dir_name>> = Path1(dir_name) /\ <<file>> = Path1(file)
         /\ <<dir_name, file>> = Path2(dir_name, file)
  <1>1. file \in NameSet /\ IsMovie(file) /\ given \subseteq Ids /\ FileSystem(fs, given)
    BY DEF BatchInv
  <1>2. dir_name \in NameSet /\ dir_name # file
    BY <1>1, FolderIs DEF dir_name
  <1> QED
    BY <1>1, <1>2, ConstantsAre
       DEF FolderOf, dir_name, FileSystem, jp4s, dngs, Path1, Path2, Jp4s, Dngs

\* After a command about a clip.
LEMMA GoesOn ==
  ASSUME BatchInv, IsMovie(file), NEW label, Continue(label),
         FileSystem(fs', given), extracted' \subseteq given \X Frames,
         allMade' => FramesIn(fs', given, extracted'),
         label = "remove" /\ allMade' => MadeIn(fs', dir_name)
  PROVE  BatchInv'
  BY DEF BatchInv, Continue, dir_name

LEMMA DirPlaced ==
  ASSUME NEW ids, NEW d \in NameSet
  PROVE  /\ Path1(d) \in Paths /\ Len(Path1(d)) > 0
         /\ Placed(Path1(d), Dir, ids) /\ \A f : Rooted(Path1(d), f)
         /\ \A s \in {Jp4s, Dngs} :
              /\ Path2(d, s) \in Paths /\ Len(Path2(d, s)) > 0
              /\ Placed(Path2(d, s), Dir, ids)
              /\ \A f : Path1(d) \in DOMAIN f /\ f[Path1(d)] = Dir =>
                   Rooted(Path2(d, s), f)
  <1>1. Dir.kind = "dir" /\ ~IsFrame(Dir)
    BY DEF Dir, IsFrame
  <1>2. Path1(d) \in Paths /\ Len(Path1(d)) = 1
    BY PathsAre
  <1>3. ~(Len(Path1(d)) > 1) /\ 1..(Len(Path1(d)) - 1) = {}
    BY <1>2
  <1>4. Placed(Path1(d), Dir, ids) /\ \A f : Rooted(Path1(d), f)
    BY <1>1, <1>3 DEF Placed, Rooted
  <1>5. ASSUME NEW s \in {Jp4s, Dngs}
        PROVE  /\ Path2(d, s) \in Paths /\ Len(Path2(d, s)) > 0
               /\ Placed(Path2(d, s), Dir, ids)
               /\ \A f : Path1(d) \in DOMAIN f /\ f[Path1(d)] = Dir =>
                    Rooted(Path2(d, s), f)
    <2> DEFINE p == Path2(d, s)
    <2>1. s \in NameSet
      BY SubfoldersAre
    <2>2. p \in Paths /\ Len(p) = 2 /\ p[Len(p)] = s /\ InFolder(p)
      BY <2>1, InFolderIs
    <2>3. Upto(p, 1) = Path1(d)
      BY <2>1, UptoPath
    <2> HIDE DEF p
    <2>4. Placed(p, Dir, ids)
      BY <1>1, <2>2 DEF Placed
    <2>5. 1..(Len(p) - 1) = {1} /\ Len(p) > 0
      BY <2>2
    <2>6. ASSUME NEW f, Path1(d) \in DOMAIN f, f[Path1(d)] = Dir
          PROVE  Rooted(p, f)
      BY <2>3, <2>5, <2>6 DEF Rooted
    <2> QED
      BY <2>2, <2>4, <2>5, <2>6 DEF p
  <1> QED
    BY <1>2, <1>4, <1>5

LEMMA MakeFolderKeeps == BatchInv /\ MakeFolder => BatchInv'
  <1> SUFFICES ASSUME BatchInv, MakeFolder PROVE BatchInv'
    OBVIOUS
  <1> DEFINE t == Path1(dir_name)
  <1>1. batchPc \notin {"idle", "killed", "readdir"}
    BY DEF MakeFolder
  <1>2. /\ dir_name \in NameSet /\ IsMovie(file) /\ Tree(fs, given)
        /\ FileSystem(fs, given) /\ <<dir_name>> = t
    BY <1>1, AtWork
  <1>3. /\ extracted \subseteq given \X Frames
        /\ allMade => FramesIn(fs, given, extracted)
    BY DEF BatchInv
  <1>4. FileSystem(fs', given) /\ (allMade => FramesIn(fs', given, extracted))
    <2>1. CASE At(t) = "none" /\ fs' = Added([p \in {t} |-> Dir])
      <3> DEFINE nodes == [p \in {t} |-> Dir]
      <3>1. t \notin DOMAIN fs
        BY <1>2, <2>1, AtIs
      <3>2. fs' = Added(nodes) /\ DOMAIN nodes = {t} /\ nodes[t] = Dir
        BY <2>1
      <3>3. /\ t \in Paths /\ Len(t) > 0 /\ Placed(t, Dir, given) /\ Rooted(t, fs)
        BY <1>2, DirPlaced
      <3> HIDE DEF nodes, t
      <3>4. /\ DOMAIN fs' = DOMAIN fs \cup {t} /\ fs'[t] = Dir
            /\ \A p \in DOMAIN fs : fs'[p] = fs[p]
        <4>1. /\ DOMAIN fs' = DOMAIN fs \cup DOMAIN nodes
              /\ \A p \in DOMAIN nodes : fs'[p] = nodes[p]
              /\ \A p \in DOMAIN fs : p \notin DOMAIN nodes => fs'[p] = fs[p]
          BY <3>2, AddedIs
        <4> QED
          BY <3>1, <3>2, <4>1
      <3>5. /\ FileSystem(fs', given)
            /\ \A done : FramesIn(fs, given, done) => FramesIn(fs', given, done)
        BY <1>2, <3>3, <3>4, DirsAdded
      <3> QED
        BY <1>3, <3>5
    <2>2. CASE UNCHANGED fs
      BY <1>2, <1>3, <2>2
    <2> QED
      BY <1>2, <2>1, <2>2 DEF MakeFolder
  <1>5. /\ Continue("mv") /\ extracted' = extracted /\ allMade' = allMade
    BY DEF MakeFolder
  <1> QED
    BY <1>2, <1>3, <1>4, <1>5, GoesOn

\* What mv moves it may move, and each thing goes to one place.
LEMMA MovingIs ==
  ASSUME NEW args, NEW dir, NEW s \in Moving(args, dir)
  PROVE  s \in UNION Range(args) /\ CanMove(s, dir)
  BY DEF Moving

Apart(S, dir) ==
  \A s \in S, r \in S : \A q \in Below(s), u \in Below(r) :
    Arrives(s, dir, q) = Arrives(r, dir, u) => q = u

AllMoved(S, dir, g) ==
  /\ DOMAIN g = (DOMAIN fs \ UNION {Below(s) : s \in S})
                  \cup UNION {{Arrives(s, dir, q) : q \in Below(s)} : s \in S}
  /\ \A s \in S : \A q \in Below(s) : g[Arrives(s, dir, q)] = fs[q]
  /\ \A p \in DOMAIN g :
       (\A s \in S : \A q \in Below(s) : p # Arrives(s, dir, q)) => g[p] = fs[p]

LEMMA MovedIs ==
  ASSUME NEW S, NEW dir, NEW g, g = MovedInto(S, dir), Apart(S, dir)
  PROVE  AllMoved(S, dir, g)
  <1> DEFINE old == UNION {Below(s) : s \in S}
             new == UNION {{Arrives(s, dir, q) : q \in Below(s)} : s \in S}
             From(q, p) == \E s \in S : q \in Below(s) /\ Arrives(s, dir, q) = p
  <1>1. g = [p \in (DOMAIN fs \ old) \cup new |->
               IF p \in new THEN fs[CHOOSE q \in old : From(q, p)] ELSE fs[p]]
    BY DEF MovedInto
  <1>2. ASSUME NEW s \in S, NEW q \in Below(s) PROVE g[Arrives(s, dir, q)] = fs[q]
    <2> DEFINE p == Arrives(s, dir, q)
               c == CHOOSE u \in old : From(u, p)
    <2>1. p \in new /\ q \in old /\ From(q, p)
      OBVIOUS
    <2>2. c \in old /\ From(c, p)
      BY <2>1, Zenon
    <2>3. c = q
      BY <2>2 DEF Apart
    <2>4. g[p] = fs[c]
      BY <1>1, <2>1
    <2> QED
      BY <2>3, <2>4
  <1>3. \A p \in new : \E s \in S : \E q \in Below(s) : p = Arrives(s, dir, q)
    OBVIOUS
  <1>4. DOMAIN g = (DOMAIN fs \ old) \cup new
    BY <1>1
  <1> HIDE DEF new, From
  <1>5. \A p \in DOMAIN g : p \notin new => g[p] = fs[p]
    BY <1>1, <1>4
  <1> QED
    BY <1>2, <1>3, <1>4, <1>5 DEF new, AllMoved

\* Nothing is moved.
LEMMA NothingMoved ==
  ASSUME NEW ids, FileSystem(fs, ids), NEW dir, NEW g, g = MovedInto({}, dir)
  PROVE  /\ FileSystem(g, ids)
         /\ \A done : FramesIn(fs, ids, done) => FramesIn(g, ids, done)
  <1>1. DOMAIN g = DOMAIN fs /\ \A p \in DOMAIN fs : g[p] = fs[p]
    <2>1. UNION {Below(s) : s \in {}} = {}
      OBVIOUS
    <2>2. UNION {{Arrives(s, dir, q) : q \in Below(s)} : s \in {}} = {}
      OBVIOUS
    <2> QED
      BY <2>1, <2>2 DEF MovedInto
  <1> QED
    BY <1>1, DirsAdded

\* A frame that lies in the folder of a clip has its name from a clip that lies
\* there, too.
LEMMA FrameOfFolder ==
  ASSUME NEW f, NEW ids, ids \subseteq Ids, FileSystem(f, ids),
         NEW d \in NameSet, NEW x \in NameSet, Path2(d, x) \in DOMAIN f,
         IsFrame(f[Path2(d, x)])
  PROVE  \E n \in NameSet, k \in Frames :
           /\ IsMovie(n) /\ d = Folder(n) /\ x = FrameName(n, k)
  <1> DEFINE p == Path2(d, x)
             n == f[p].id[1]
             q == Path2(d, n)
  <1>1. Tree(f, ids) /\ Homes(f)
    BY DEF FileSystem
  <1>2. /\ p \in Paths /\ Len(p) = 2 /\ p[Len(p)] = x /\ Home(p) = Path1(d)
    BY InFolderIs
  <1>3. p \in DOMAIN f /\ IsFrame(f[p])
    OBVIOUS
  <1> HIDE DEF p
  <1>4. f[p] \in Kinds(ids) /\ Placed(p, f[p], ids)
    BY <1>1, <1>3, TreeAt
  <1>5. f[p].id \in ids /\ f[p].k \in Frames
    BY <1>3, <1>4, KindsAre
  <1>6. x = FrameName(n, f[p].k) /\ n \in NameSet
    BY <1>2, <1>3, <1>4, <1>5 DEF Placed, Ids
  <1>7. q \in DOMAIN f /\ f[q].kind = "clip"
    <2>1. f[p].id[1] = n
      OBVIOUS
    <2> HIDE DEF n, q
    <2>2. Path2(d, n) \in DOMAIN f /\ f[Path2(d, n)].kind = "clip"
      BY <1>1, <1>2, <1>3, <2>1, ClipIsNewer
    <2> QED
      BY <2>2 DEF q
  <1>8. Placed(q, f[q], ids)
    BY <1>1, <1>7, TreeAt
  <1> HIDE DEF n
  <1>9. Len(q) = 2 /\ q[1] = d /\ q[2] = n
    BY <1>6, PathsAre
  <1> HIDE DEF q
  <1>10. IsMovie(n) /\ d = Folder(n)
    <2>1. Len(q) > 1 /\ Len(q) - 1 = 1
      BY <1>9
    <2> QED
      BY <1>7, <1>8, <1>9, <2>1 DEF Placed, Moved
  <1> QED
    BY <1>5, <1>6, <1>10

\* mv may take a clip, or what has its name, to its folder.
LEMMA MoveAllowed ==
  ASSUME NEW ids, ids \subseteq Ids, FileSystem(fs, ids),
         NEW d, NEW m, FolderOf(d, m), CanMove(Path1(m), Path1(d))
  PROVE  MayMove(fs, d, m)
  <1> DEFINE s == Path1(m)
             t == Path2(d, m)
  <1>1. /\ m \in NameSet /\ IsMovie(m) /\ d = Folder(m) /\ Frames \subseteq Parts
        /\ d \in NameSet /\ d # m /\ Tree(fs, ids)
        /\ Len(m) \in Nat /\ Len(m) >= 5 /\ Len(d) = Len(m) - 4
    BY FolderIs DEF FolderOf, FileSystem
  <1>2. Append(Path1(d), Last(s)) = t
    <2>1. Last(s) = m
      BY DEF Path1, Last
    <2>2. Append(<<d>>, m) = <<d, m>>
      <3>1. ASSUME NEW a \in NameSet, NEW b \in NameSet
            PROVE  Append(<<a>>, b) = <<a, b>>
        <4>1. <<a>> \in Seq(NameSet) /\ Len(<<a>>) = 1 /\ <<a>>[1] = a
          OBVIOUS
        <4>2. <<a, b>> \in Seq(NameSet) /\ Len(<<a, b>>) = 2
              /\ <<a, b>>[1] = a /\ <<a, b>>[2] = b
          OBVIOUS
        <4>3. /\ Append(<<a>>, b) \in Seq(NameSet) /\ Len(Append(<<a>>, b)) = 2
              /\ Append(<<a>>, b)[1] = a /\ Append(<<a>>, b)[2] = b
          BY <4>1, Appended
        <4> DEFINE q == Append(<<a>>, b)
                   u == <<a, b>>
        <4>4. /\ q \in Seq(NameSet) /\ u \in Seq(NameSet) /\ Len(q) = 2 /\ Len(u) = 2
              /\ q[1] = u[1] /\ q[2] = u[2]
          BY <4>2, <4>3
        <4> HIDE DEF q, u
        <4>5. \A x \in 1..2 : q[x] = u[x]
          BY <4>4
        <4>6. q = u
          BY <4>4, <4>5, SeqEqual
        <4> QED
          BY <4>6 DEF q, u
      <3> QED
        BY <1>1, <3>1
    <2>3. Path1(d) = <<d>> /\ t = <<d, m>>
      BY DEF Path1, Path2
    <2> QED
      BY <2>1, <2>2, <2>3
  <1>3. /\ At(Path1(d)) = "dir" /\ At(s) # "none"
        /\ \/ At(t) = "none"
           \/ At(s) # "dir" /\ At(t) # "dir"
           \/ At(s) = "dir" /\ At(t) = "dir" /\ Below(t) = {t}
    BY <1>2, Zenon DEF CanMove
  <1>4. /\ Path1(d) \in DOMAIN fs /\ fs[Path1(d)] = Dir /\ s \in DOMAIN fs
        /\ At(t) = "none" => t \notin DOMAIN fs
    BY <1>1, <1>3, AtIs
  <1>5. Len(s) = 1 /\ Len(t) = 2 /\ t \in Paths
    BY <1>1, PathsAre
  <1> HIDE DEF s, t
  <1>6. CASE At(s) # "dir" /\ At(t) # "dir" /\ t \in DOMAIN fs
    <2>1. fs[s].kind # "dir" /\ fs[t].kind # "dir"
      BY <1>4, <1>6 DEF At
    <2>2. fs[s].kind = "clip"
      <3>1. fs[s].kind \in {"dir", "clip", "jp4", "dng"}
        BY <1>1, <1>4, TreeAt, KindsAre
      <3>2. IsFrame(fs[s]) => Len(s) > 1
        BY <1>1, <1>4, FrameIsBelow
      <3> QED
        BY <1>5, <2>1, <3>1, <3>2 DEF IsFrame
    <2>3. fs[t].kind = "clip"
      <3>1. fs[t].kind \in {"dir", "clip", "jp4", "dng"}
        BY <1>1, <1>6, TreeAt, KindsAre
      <3>2. ASSUME IsFrame(fs[t]) PROVE FALSE
        <4>1. PICK n \in NameSet, k \in Frames :
                IsMovie(n) /\ d = Folder(n) /\ m = FrameName(n, k)
          BY <1>1, <1>6, <3>2, FrameOfFolder DEF t
        <4>2. Len(n) \in Nat /\ Len(d) = Len(n) - 4
          BY <4>1, FolderIs
        <4>3. Len(m) = Len(n) + 6
          BY <1>1, <4>1, FrameNameIs
        <4> QED
          BY <1>1, <4>2, <4>3
      <3> QED
        BY <2>1, <3>1, <3>2 DEF IsFrame
    <2> QED
      BY <1>1, <1>4, <2>2, <2>3 DEF MayMove, s, t
  <1>7. CASE At(s) = "dir" /\ At(t) = "dir" /\ Below(t) = {t}
    <2>1. fs[s] = Dir /\ fs[t] = Dir
      BY <1>1, <1>7, AtIs
    <2>2. Empty(fs, t)
      BY <1>7 DEF Empty, Below
    <2> QED
      BY <1>1, <1>4, <2>1, <2>2 DEF MayMove, s, t
  <1>8. CASE t \notin DOMAIN fs
    BY <1>1, <1>4, <1>8 DEF MayMove, s, t
  <1> QED
    BY <1>3, <1>4, <1>6, <1>7, <1>8

LEMMA ArrivesTop ==
  ASSUME NEW d \in NameSet, NEW m \in NameSet, NEW q \in Paths
  PROVE  Arrives(Path1(m), Path1(d), q) = <<d>> \o q
  <1>1. Len(Path1(m)) = 1 /\ Path1(d) = <<d>>
    BY PathsAre DEF Path1
  <1>2. SubSeq(q, 1, Len(q)) = q
    BY SubSeqFull DEF Paths
  <1> QED
    BY <1>1, <1>2 DEF Arrives

LEMMA MoveClipKeeps == BatchInv /\ MoveClip => BatchInv'
  <1> SUFFICES ASSUME BatchInv, MoveClip PROVE BatchInv'
    OBVIOUS
  <1> DEFINE d == dir_name
             m == file
             S == Moving(Each(Alone(m) \o Front(Alone(d))), Path1(d))
  <1>1. batchPc \notin {"idle", "killed", "readdir"}
    BY DEF MoveClip
  <1>2. /\ d \in NameSet /\ m \in NameSet /\ d # m /\ IsMovie(m) /\ d = Folder(m)
        /\ Tree(fs, given) /\ FileSystem(fs, given) /\ given \subseteq Ids
        /\ FolderOf(d, m)
    BY <1>1, AtWork DEF dir_name
  <1>3. /\ extracted \subseteq given \X Frames
        /\ allMade => FramesIn(fs, given, extracted)
    BY DEF BatchInv
  <1>4. /\ Alone(m) \o Front(Alone(d)) = <<Path1(m)>> /\ Last(Alone(d)) = Path1(d)
    <2>1. Alone(m) = <<Path1(m)>> /\ Alone(d) = <<Path1(d)>>
      BY <1>2, OneArgument
    <2>2. Front(<<Path1(d)>>) = << >> /\ Last(<<Path1(d)>>) = Path1(d)
      BY SubSeqEmpty DEF Front, Last
    <2> QED
      BY <2>1, <2>2
  <1>5. fs' = MovedInto(S, Path1(d))
    BY <1>4 DEF MoveClip
  <1>6. ASSUME NEW s \in S PROVE s = Path1(m) /\ CanMove(s, Path1(d))
    <2>1. Each(<<Path1(m)>>) = <<{Path1(m)}>>
      BY DEF Each
    <2>2. UNION Range(<<{Path1(m)}>>) = {Path1(m)}
      BY DEF Range
    <2>3. s \in UNION Range(Each(Alone(m) \o Front(Alone(d)))) /\ CanMove(s, Path1(d))
      BY MovingIs
    <2> QED
      BY <1>4, <2>1, <2>2, <2>3
  <1> HIDE DEF S, d, m
  <1>7. /\ FileSystem(fs', given)
        /\ \A done : FramesIn(fs, given, done) => FramesIn(fs', given, done)
    <2>1. CASE S = {}
      BY <1>2, <1>5, <2>1, NothingMoved
    <2>2. CASE S = {Path1(m)}
      <3>1. MayMove(fs, d, m)
        BY <1>2, <1>6, <2>2, MoveAllowed
      <3>2. \A q \in Below(Path1(m)) : q \in Paths /\ q \in DOMAIN fs
        BY <1>2, TreeAt DEF Below
      <3>3. \A q \in Below(Path1(m)) : Arrives(Path1(m), Path1(d), q) = <<d>> \o q
        BY <1>2, <3>2, ArrivesTop
      <3>4. \A q \in Paths, u \in Paths : <<d>> \o q = <<d>> \o u => q = u
        <4> SUFFICES ASSUME NEW q \in Seq(NameSet), NEW u \in Seq(NameSet),
                            <<d>> \o q = <<d>> \o u
                     PROVE  q = u
          BY DEF Paths
        <4>1. <<d>> \in Seq(NameSet) /\ Len(<<d>>) = 1
          BY <1>2
        <4>2. /\ Len(q) \in Nat /\ Len(u) \in Nat
              /\ Len(<<d>> \o q) = 1 + Len(q) /\ Len(<<d>> \o u) = 1 + Len(u)
          BY <4>1, LenProperties, ConcatProperties
        <4>3. Len(q) = Len(u)
          BY <4>2
        <4>4. ASSUME NEW i \in 1..Len(q) PROVE q[i] = u[i]
          <5>1. /\ 1 + i \in 1..(1 + Len(q)) /\ 1 + i > 1 /\ 1 + i - 1 = i
                /\ 1 + i \in 1..(1 + Len(u))
            BY <4>2, <4>3
          <5>2. (<<d>> \o q)[1 + i] = q[i] /\ (<<d>> \o u)[1 + i] = u[i]
            BY <4>1, <4>2, <5>1, ConcatProperties
          <5> QED
            BY <5>2
        <4> QED
          BY <4>3, <4>4, SeqEqual
      <3>5. AllMoved(S, Path1(d), fs')
        <4>1. Apart(S, Path1(d))
          <5> SUFFICES ASSUME NEW q \in Below(Path1(m)), NEW u \in Below(Path1(m)),
                              Arrives(Path1(m), Path1(d), q)
                                = Arrives(Path1(m), Path1(d), u)
                       PROVE  q = u
            BY <2>2 DEF Apart
          <5>1. <<d>> \o q = <<d>> \o u
            BY <3>3
          <5> QED
            BY <3>2, <3>4, <5>1
        <4> QED
          BY <1>5, <4>1, MovedIs
      <3> DEFINE old == {q \in DOMAIN fs : IsPrefix(Path1(m), q)}
                 new == {<<d>> \o q : q \in old}
      <3>6. Below(Path1(m)) = old
        BY DEF Below
      <3>7. /\ UNION {Below(s) : s \in S} = old
            /\ UNION {{Arrives(s, Path1(d), q) : q \in Below(s)} : s \in S} = new
        BY <2>2, <3>3, <3>6
      <3> HIDE DEF old
      <3>8. /\ DOMAIN fs' = (DOMAIN fs \ old) \cup new
            /\ \A q \in old : fs'[<<d>> \o q] = fs[q]
            /\ \A p \in DOMAIN fs \ old : p \notin new => fs'[p] = fs[p]
        <4> HIDE DEF new
        <4>1. DOMAIN fs' = (DOMAIN fs \ old) \cup new
          BY <3>5, <3>7 DEF AllMoved
        <4>2. ASSUME NEW q \in old PROVE fs'[<<d>> \o q] = fs[q]
          <5>1. q \in Below(Path1(m)) /\ Path1(m) \in S
            BY <2>2, <3>6
          <5>2. fs'[Arrives(Path1(m), Path1(d), q)] = fs[q]
            BY <3>5, <5>1 DEF AllMoved
          <5> QED
            BY <3>3, <5>1, <5>2
        <4>3. ASSUME NEW p \in DOMAIN fs \ old, p \notin new PROVE fs'[p] = fs[p]
          <5>1. p \in DOMAIN fs'
            BY <4>1
          <5>2. \A s \in S : \A q \in Below(s) : p # Arrives(s, Path1(d), q)
            BY <3>7, <4>3
          <5> QED
            BY <3>5, <5>1, <5>2 DEF AllMoved
        <4> QED
          BY <4>1, <4>2, <4>3
      <3>9. MovesTo(fs, fs', d, m)
        BY <3>8 DEF MovesTo, old
      <3> QED
        BY <1>2, <3>1, <3>9, MovesKeep DEF FileSystem
    <2> QED
      BY <1>6, <2>1, <2>2
  <1>8. /\ Continue("subfolders") /\ extracted' = extracted /\ allMade' = allMade
    BY DEF MoveClip
  <1> QED
    BY <1>2, <1>3, <1>7, <1>8, GoesOn DEF d, m

\* A tuple with one component.
LEMMA OneOf ==
  ASSUME NEW x
  PROVE  /\ Range(<<x>>) = {x} /\ Front(<<x>>) = << >> /\ Last(<<x>>) = x
         /\ Len(<<x>>) = 1 /\ << x >>[1] = x
  BY SubSeqEmpty DEF Range, Front, Last

LEMMA MakeSubfoldersKeeps == BatchInv /\ MakeSubfolders => BatchInv'
  <1> SUFFICES ASSUME BatchInv, MakeSubfolders PROVE BatchInv'
    OBVIOUS
  <1> DEFINE d == dir_name
  <1>1. batchPc \notin {"idle", "killed", "readdir"}
    BY DEF MakeSubfolders
  <1>2. /\ d \in NameSet /\ IsMovie(file) /\ Tree(fs, given)
        /\ FileSystem(fs, given) /\ <<d>> = Path1(d)
        /\ jp4s = Path2(d, Jp4s) /\ dngs = Path2(d, Dngs)
    BY <1>1, AtWork
  <1>3. /\ extracted \subseteq given \X Frames
        /\ allMade => FramesIn(fs, given, extracted)
    BY DEF BatchInv
  <1> DEFINE asked == UNION {Range(Pasted(d, sub)) :
                               sub \in {x \in {Jp4s, Dngs} : At(<<d, x>>) # "dir"}}
  <1>4. PICK S \in SUBSET {q \in asked : At(q) = "none"} :
          fs' = Added([p \in {q \in S : \/ Len(q) = 1
                                        \/ At(Front(q)) = "dir"
                                        \/ Front(q) \in S} |-> Dir])
    BY DEF MakeSubfolders
  <1>7. ASSUME NEW q \in asked
        PROVE  /\ q = Path2(d, Jp4s) \/ q = Path2(d, Dngs)
               /\ Len(q) = 2 /\ Front(q) = Path1(d)
    <2>1. PICK x \in {Jp4s, Dngs} : q \in Range(Pasted(d, x))
      OBVIOUS
    <2>2. x \in NameSet
      BY SubfoldersAre
    <2>3. q = Path2(d, x)
      BY <1>2, <2>1, <2>2, OneArgument, OneOf
    <2>4. Len(q) = 2 /\ Upto(q, 1) = Path1(d)
      BY <1>2, <2>2, <2>3, PathsAre, UptoPath
    <2>5. Front(q) = Upto(q, Len(q) - 1) /\ Len(q) - 1 = 1
      BY <2>4 DEF Front, Upto
    <2> QED
      BY <2>3, <2>4, <2>5
  <1> HIDE DEF asked
  <1>5. FileSystem(fs', given) /\ (allMade => FramesIn(fs', given, extracted))
    <2> DEFINE new == {q \in S : \/ Len(q) = 1
                                 \/ At(Front(q)) = "dir"
                                 \/ Front(q) \in S}
               nodes == [p \in new |-> Dir]
    <2>1. \A p \in S : p \in asked /\ At(p) = "none" /\ p \notin DOMAIN fs
      BY <1>2, <1>4, AtIs
    <2>2. fs' = Added(nodes) /\ DOMAIN nodes = new /\ \A p \in new : nodes[p] = Dir
      BY <1>4
    <2>3. ASSUME NEW p \in new
          PROVE  p \in Paths /\ Len(p) > 0 /\ Placed(p, Dir, given) /\ Rooted(p, fs)
      <3>1. p \in S /\ (p = Path2(d, Jp4s) \/ p = Path2(d, Dngs))
        BY <1>7, <2>1
      <3>2. At(Path1(d)) = "dir"
        <4>1. Len(p) # 1 /\ Front(p) = Path1(d)
          BY <1>7, <2>1, <3>1
        <4>2. Path1(d) \notin S
          <5>1. Len(Path1(d)) = 1
            BY <1>2, PathsAre
          <5> QED
            BY <1>7, <2>1, <5>1
        <4> QED
          BY <4>1, <4>2
      <3>3. Path1(d) \in DOMAIN fs /\ fs[Path1(d)] = Dir
        BY <1>2, <3>2, AtIs
      <3> QED
        BY <1>2, <3>1, <3>3, DirPlaced
    <2>4. \A p \in new : p \notin DOMAIN fs
      BY <2>1
    <2> HIDE DEF new, nodes
    <2>5. /\ DOMAIN fs' = DOMAIN fs \cup new /\ \A p \in new : fs'[p] = Dir
          /\ \A p \in DOMAIN fs : fs'[p] = fs[p]
      <3>1. /\ DOMAIN fs' = DOMAIN fs \cup DOMAIN nodes
            /\ \A p \in DOMAIN nodes : fs'[p] = nodes[p]
            /\ \A p \in DOMAIN fs : p \notin DOMAIN nodes => fs'[p] = fs[p]
        <4>1. fs' = Added(nodes)
          BY <2>2
        <4> QED
          BY <4>1 DEF Added
      <3> QED
        BY <2>2, <2>4, <3>1
    <2>6. /\ FileSystem(fs', given)
          /\ \A done : FramesIn(fs, given, done) => FramesIn(fs', given, done)
      BY <1>2, <2>3, <2>5, DirsAdded
    <2> QED
      BY <1>3, <2>6
  <1>6. /\ Continue("extract") /\ extracted' = extracted /\ allMade' = allMade
    BY DEF MakeSubfolders
  <1> QED
    BY <1>2, <1>3, <1>5, <1>6, GoesOn

LEMMA ExtractKeeps == BatchInv /\ Extract => BatchInv'
  <1> SUFFICES ASSUME BatchInv, Extract PROVE BatchInv'
    OBVIOUS
  <1> DEFINE d == dir_name
             m == file
             t == Path2(d, m)
  <1>1. batchPc \notin {"idle", "killed", "readdir"}
    BY DEF Extract
  <1>2. /\ FolderOf(d, m) /\ d \in NameSet /\ m \in NameSet /\ IsMovie(m)
        /\ Tree(fs, given) /\ FileSystem(fs, given) /\ given \subseteq Ids
        /\ <<d, m>> = t /\ Frames \subseteq Parts
    BY <1>1, AtWork
  <1>3. /\ extracted \subseteq given \X Frames
        /\ allMade => FramesIn(fs, given, extracted)
    BY DEF BatchInv
  <1>7. /\ clip[1] = t
        /\ \A k : FramePath(k) = Fresh(d, m, k)
    <2>1. clip = <<t>>
      BY <1>2, OneArgument DEF clip
    <2>2. Len(clip) = 1 /\ clip[1] = t
      BY <2>1, OneOf
    <2> QED
      BY <2>2 DEF FramePath, Fresh, Path2
  <1>8. PICK S \in SUBSET {k \in Frames : Writable(FramePath(k))} :
          IF extracts /\ At(clip[1]) = "clip"
          THEN LET id == fs[clip[1]].id
               IN  /\ fs' = Added([p \in {FramePath(k) : k \in S} |->
                         Frame("jp4", id, CHOOSE k \in S : FramePath(k) = p)])
                   /\ extracted' = extracted \cup {<<id, k>> : k \in S}
          ELSE UNCHANGED <<fs, extracted>>
    BY DEF Extract
  <1>4. S \subseteq Frames
    BY <1>8
  <1>5. /\ FileSystem(fs', given) /\ extracted' \subseteq given \X Frames
        /\ allMade => FramesIn(fs', given, extracted')
    <2>1. CASE extracts /\ At(t) = "clip"
      <3> DEFINE id    == fs[clip[1]].id
                 more  == {<<id, k>> : k \in S}
                 nodes == [p \in {FramePath(k) : k \in S} |->
                             Frame("jp4", id, CHOOSE k \in S : FramePath(k) = p)]
      <3>1. t \in DOMAIN fs /\ fs[t].kind = "clip"
        BY <1>2, <2>1, AtIs
      <3>2. ASSUME NEW k \in S
            PROVE  /\ FramePath(k) = Fresh(d, m, k)
                   /\ (CHOOSE l \in S : FramePath(l) = Fresh(d, m, k)) = k
        <4>1. FramePath(k) = Fresh(d, m, k)
          BY <1>7
        <4>2. ASSUME NEW l \in S, FramePath(l) = Fresh(d, m, k) PROVE l = k
          <5>1. /\ FrameName(m, k) \in NameSet /\ FrameName(m, l) \in NameSet
                /\ k \in Parts /\ l \in Parts
            BY <1>2, <1>4, FrameNameIs
          <5>2. /\ Fresh(d, m, k)[2] = FrameName(m, k)
                /\ Fresh(d, m, l)[2] = FrameName(m, l)
            BY <1>2, <5>1, InFolderIs DEF Fresh
          <5>3. FrameName(m, k) = FrameName(m, l)
            BY <1>7, <4>2, <5>2
          <5> QED
            BY <1>2, <5>1, <5>3, FrameNameInjective
        <4> QED
          BY <4>1, <4>2
      <3>3. /\ fs' = Added(nodes)
            /\ extracted' = extracted \cup more
        BY <1>7, <1>8, <2>1
      <3>4. /\ DOMAIN nodes = {Fresh(d, m, k) : k \in S}
            /\ \A k \in S : nodes[Fresh(d, m, k)] = Frame("jp4", id, k)
        BY <3>2
      <3> HIDE DEF nodes, id, d, m, t, more
      <3>5. /\ DOMAIN fs' = DOMAIN fs \cup {Fresh(d, m, k) : k \in S}
            /\ \A k \in S : fs'[Fresh(d, m, k)] = Frame("jp4", id, k)
            /\ \A p \in DOMAIN fs : (\A k \in S : p # Fresh(d, m, k)) =>
                 fs'[p] = fs[p]
        <4>1. /\ DOMAIN fs' = DOMAIN fs \cup DOMAIN nodes
              /\ \A p \in DOMAIN nodes : fs'[p] = nodes[p]
              /\ \A p \in DOMAIN fs : p \notin DOMAIN nodes => fs'[p] = fs[p]
          <5>1. fs' = Added(nodes)
            BY <3>3
          <5> QED
            BY <5>1 DEF Added
        <4> QED
          BY <3>4, <4>1
      <3>6. /\ Path2(d, m) \in DOMAIN fs /\ fs[Path2(d, m)].kind = "clip"
            /\ id = fs[Path2(d, m)].id
        BY <1>7, <3>1 DEF t, id
      <3>7. Writes(fs, fs', d, m, id, S)
        BY <3>5, <3>6 DEF Writes
      <3>8. /\ FileSystem(fs', given) /\ id \in given
            /\ \A done : FramesIn(fs, given, done) =>
                 FramesIn(fs', given, done \cup FramesOf(id, S))
        BY <1>2, <1>4, <3>7, Extracts
      <3>9. more = FramesOf(id, S) /\ more \subseteq given \X Frames
        BY <3>8 DEF more, FramesOf
      <3> QED
        BY <1>3, <3>3, <3>8, <3>9
    <2>2. CASE ~(extracts /\ At(t) = "clip")
      BY <1>2, <1>3, <1>7, <1>8, <2>2
    <2> QED
      BY <2>1, <2>2
  <1>6. Continue("collect") /\ allMade' = allMade
    BY DEF Extract
  <1> QED
    BY <1>2, <1>5, <1>6, GoesOn

\* Nothing lies below what is no directory.
LEMMA LeafBelow ==
  ASSUME NEW ids, Tree(fs, ids), NEW d \in NameSet, NEW x \in NameSet,
         Path2(d, x) \in DOMAIN fs, fs[Path2(d, x)] # Dir
  PROVE  Below(Path2(d, x)) = {Path2(d, x)}
  <1> DEFINE t == Path2(d, x)
  <1>1. t \in Paths /\ Len(t) = 2 /\ t[1] = d /\ t[2] = x
    BY PathsAre
  <1>2. ASSUME NEW q \in DOMAIN fs, IsPrefix(t, q) PROVE q = t
    <2>1. /\ q \in Paths /\ Len(q) \in Nat \ {0}
          /\ \A n \in 1..(Len(q) - 1) : Upto(q, n) \in DOMAIN fs /\ fs[Upto(q, n)] = Dir
      BY TreeAt
    <2>2. Len(q) >= 2 /\ q[1] = d /\ q[2] = x
      BY <1>2, <2>1, BelowIs
    <2>3. CASE Len(q) = 2
      BY <2>1, <2>2, <2>3, PathIs
    <2>4. CASE Len(q) > 2
      <3>1. 2 \in 1..(Len(q) - 1) /\ 2 \in 0..Len(q) /\ 1 \in 1..2 /\ 2 \in 1..2
        BY <2>1, <2>4
      <3>2. fs[Upto(q, 2)] = Dir
        BY <2>1, <3>1
      <3>3. /\ Upto(q, 2) \in Paths /\ Len(Upto(q, 2)) = 2
            /\ \A y \in 1..2 : Upto(q, 2)[y] = q[y]
        BY <2>1, <3>1, UptoIs DEF Paths
      <3>4. Upto(q, 2) = t
        <4>1. Upto(q, 2)[1] = d /\ Upto(q, 2)[2] = x
          BY <2>2, <3>1, <3>3
        <4> QED
          BY <3>3, <4>1, PathIs
      <3> QED
        BY <3>2, <3>4
    <2>5. Len(q) = 2 \/ Len(q) > 2
      <3>1. ASSUME NEW n \in Nat, n >= 2 PROVE n = 2 \/ n > 2
        BY <3>1
      <3>2. Len(q) \in Nat /\ Len(q) >= 2
        BY <2>1, <2>2
      <3> QED
        BY <3>1, <3>2
    <2> QED
      BY <2>3, <2>4, <2>5
  <1>3. IsPrefix(t, t)
    BY <1>1, BelowIs
  <1> HIDE DEF t
  <1>4. t \in DOMAIN fs
    BY DEF t
  <1>5. Below(t) = {t}
    BY <1>2, <1>3, <1>4 DEF Below
  <1> QED
    BY <1>5 DEF t

\* Where a frame goes with mv.
LEMMA ArrivesIn ==
  ASSUME NEW d \in NameSet, NEW s \in NameSet, NEW x \in NameSet
  PROVE  Arrives(Path2(d, x), Path2(d, s), Path2(d, x)) = Path3(d, s, x)
  <1> DEFINE p == Path2(d, x)
             t == Path2(d, s)
  <1>1. /\ p \in Seq(NameSet) /\ Len(p) = 2 /\ p[2] = x
        /\ t \in Seq(NameSet) /\ Len(t) = 2 /\ t[1] = d /\ t[2] = s
    BY PathsAre DEF Paths
  <1> DEFINE e == SubSeq(p, 2, 2)
             q == t \o e
             r == Path3(d, s, x)
  <1> HIDE DEF p, t
  <1>2. e \in Seq(NameSet) /\ Len(e) = 1 /\ e[1] = x
    <2>1. \A y \in 2..2 : p[y] \in NameSet
      BY <1>1
    <2> QED
      BY <1>1, <2>1, SubSeqProperties
  <1> HIDE DEF e
  <1>3. q \in Seq(NameSet) /\ Len(q) = 3 /\ q[1] = d /\ q[2] = s /\ q[3] = x
    <2>1. /\ q \in Seq(NameSet) /\ Len(q) = Len(t) + Len(e)
          /\ \A y \in 1..Len(t) : q[y] = t[y]
          /\ \A y \in (Len(t) + 1)..(Len(t) + Len(e)) : q[y] = e[y - Len(t)]
      <3> HIDE DEF q
      <3>1. ASSUME NEW u \in Seq(NameSet), NEW v \in Seq(NameSet)
            PROVE  /\ u \o v \in Seq(NameSet) /\ Len(u \o v) = Len(u) + Len(v)
                   /\ \A y \in 1..Len(u) : (u \o v)[y] = u[y]
                   /\ \A y \in (Len(u) + 1)..(Len(u) + Len(v)) :
                        (u \o v)[y] = v[y - Len(u)]
        BY ConcatProperties
      <3> QED
        BY <1>1, <1>2, <3>1 DEF q
    <2> HIDE DEF q
    <2>2. Len(q) = 3 /\ 1 \in 1..2 /\ 2 \in 1..2 /\ 3 \in 3..3 /\ 3 - 2 = 1
      BY <1>1, <1>2, <2>1
    <2>3. q[3] = e[1]
      BY <1>1, <1>2, <2>1, <2>2
    <2> QED
      BY <1>1, <1>2, <2>1, <2>2, <2>3
  <1>4. r \in Seq(NameSet) /\ Len(r) = 3 /\ r[1] = d /\ r[2] = s /\ r[3] = x
    BY PathsAre DEF Paths
  <1> HIDE DEF q, r
  <1>5. \A y \in 1..3 : q[y] = r[y]
    BY <1>3, <1>4
  <1>6. q = r
    BY <1>3, <1>4, <1>5, SeqEqual
  <1>7. Arrives(p, t, p) = q
    BY <1>1 DEF Arrives, q, e
  <1> QED
    BY <1>6, <1>7 DEF p, t, r

\* What "FILE*.jpg" finds in the folder of the clip FILE are the clip's frames.
LEMMA Matched ==
  ASSUME NEW ids, ids \subseteq Ids, FileSystem(fs, ids),
         NEW d, NEW m, FolderOf(d, m), NEW s \in Matches(Path2(d, m))
  PROVE  \E k \in Frames :
           s = Fresh(d, m, k) /\ s \in DOMAIN fs /\ fs[s] # Dir
  <1> DEFINE t == Path2(d, m)
             x == s[2]
  <1>1. /\ m \in NameSet /\ IsMovie(m) /\ d = Folder(m) /\ Frames \subseteq Parts
        /\ d \in NameSet /\ Tree(fs, ids)
        /\ Len(m) \in Nat /\ Len(m) >= 5 /\ Len(d) = Len(m) - 4
    BY FolderIs DEF FolderOf, FileSystem
  <1>2. Len(t) = 2 /\ Front(t) = Path1(d) /\ Last(t) = m
    <2>1. Len(t) = 2 /\ t[2] = m /\ Upto(t, 1) = Path1(d)
      BY <1>1, PathsAre, UptoPath
    <2>2. Len(t) - 1 = 1
      BY <2>1
    <2> HIDE DEF t
    <2> QED
      BY <2>1, <2>2 DEF Front, Last, Upto
  <1>3. /\ s \in DOMAIN fs /\ Len(s) = 2 /\ Front(s) = Path1(d)
        /\ Len(Last(s)) >= Len(m) + 4 /\ IsPrefix(m, Last(s))
    BY <1>2 DEF Matches
  <1>4. s \in Paths /\ fs[s] \in Kinds(ids) /\ Placed(s, fs[s], ids)
    BY <1>1, <1>3, TreeAt
  <1>5. /\ s = Path2(d, x) /\ x \in NameSet /\ Last(s) = x
        /\ Len(s) > 1 /\ s[Len(s)] = x /\ s[Len(s) - 1] = d
    <2>1. Len(s) - 1 = 1 /\ 1 \in 1..Len(s) /\ 2 \in 1..Len(s) /\ Len(s) > 1
      BY <1>3
    <2>2. s[1] \in NameSet /\ x \in NameSet
      BY <1>4, <2>1, NamesOf
    <2>3. s = Path2(s[1], x)
      BY <1>3, <1>4, PathIs
    <2>4. Upto(s, 1) = Path1(s[1])
      BY <2>2, <2>3, UptoPath
    <2>5. Path1(s[1]) = Path1(d)
      BY <1>3, <2>1, <2>4 DEF Front, Upto
    <2>6. s[1] = d
      BY <1>1, <2>2, <2>5, PathsAre
    <2> QED
      BY <1>3, <2>1, <2>2, <2>3, <2>6 DEF Last
  <1> HIDE DEF x, t
  <1>6. Len(x) \in Nat /\ Len(x) >= Len(m) + 4 /\ IsPrefix(m, x)
    BY <1>3, <1>5, LenProperties DEF NameSet
  <1>7. ~Moved(s)
    <2> SUFFICES ASSUME Moved(s) PROVE FALSE
      OBVIOUS
    <2>1. IsMovie(x) /\ d = Folder(x)
      BY <1>5 DEF Moved
    <2>2. Len(d) = Len(x) - 4
      BY <1>5, <2>1, FolderIs
    <2> QED
      BY <1>1, <1>6, <2>2
  <1>8. x # Jp4s /\ x # Dngs
    BY <1>1, <1>6, SubfoldersAre
  <1>9. fs[s].kind # "dir" /\ fs[s].kind # "clip"
    BY <1>4, <1>5, <1>7, <1>8 DEF Placed
  <1>10. IsFrame(fs[s]) /\ fs[s] # Dir
    <2>1. fs[s].kind \in {"dir", "clip", "jp4", "dng"}
      BY <1>4, KindsAre
    <2> QED
      BY <1>9, <2>1 DEF IsFrame, Dir
  <1>11. PICK n \in NameSet, k \in Frames :
           IsMovie(n) /\ d = Folder(n) /\ x = FrameName(n, k)
    BY <1>1, <1>3, <1>5, <1>10, FrameOfFolder
  <1>12. n = m
    <2>1. Len(n) \in Nat /\ Len(d) = Len(n) - 4
      BY <1>11, FolderIs
    <2>2. Len(n) = Len(m)
      BY <1>1, <2>1
    <2>3. \A y \in 1..Len(n) : x[y] = n[y]
      BY <1>1, <1>11, FrameNameIs
    <2>4. \A y \in 1..Len(m) : x[y] = m[y]
      BY <1>1, <1>5, <1>6, PrefixIs DEF NameSet
    <2>5. \A y \in 1..Len(n) : n[y] = m[y]
      BY <2>2, <2>3, <2>4
    <2> QED
      BY <1>1, <2>2, <2>5, SeqEqual DEF NameSet
  <1> QED
    BY <1>3, <1>5, <1>10, <1>11, <1>12 DEF Fresh

LEMMA CollectKeeps == BatchInv /\ Collect => BatchInv'
  <1> SUFFICES ASSUME BatchInv, Collect PROVE BatchInv'
    OBVIOUS
  <1> DEFINE d == dir_name
             m == file
             t == Path2(d, Jp4s)
             P(k) == Fresh(d, m, k)
             Q(k) == Kept(d, Jp4s, m, k)
             M == Matches(Path2(d, m))
             Mv == Moving(<<M>>, t)
             S == {k \in Frames : P(k) \in Mv}
  <1>1. batchPc \notin {"idle", "killed", "readdir"}
    BY DEF Collect
  <1>2. /\ FolderOf(d, m) /\ d \in NameSet /\ m \in NameSet /\ IsMovie(m)
        /\ Tree(fs, given) /\ FileSystem(fs, given) /\ given \subseteq Ids
        /\ jp4s = t /\ Frames \subseteq Parts /\ Jp4s \in NameSet
    BY <1>1, AtWork, SubfoldersAre
  <1>3. /\ extracted \subseteq given \X Frames
        /\ allMade => FramesIn(fs, given, extracted)
    BY DEF BatchInv
  <1>4. fs' = MovedInto(Mv, t)
    <2>1. clip = <<Path2(d, m)>> /\ Pasted(d, Jp4s) = <<t>>
      BY <1>2, OneArgument DEF clip
    <2>2. /\ Front(clip) = << >> /\ Last(clip) = Path2(d, m)
          /\ Front(Pasted(d, Jp4s)) = << >> /\ Last(Pasted(d, Jp4s)) = t
      BY <2>1, OneOf
    <2>3. Each(<< >>) = << >>
      BY DEF Each
    <2>4. Append(<< >>, M) \o << >> = <<M>>
      <3> HIDE DEF M
      <3> QED
        OBVIOUS
    <2> HIDE DEF d, m, t, M
    <2>5. fs' = LET folder == Pasted(d, Jp4s)
                    args   == Append(Each(Front(clip)), Matches(Last(clip)))
                                \o Each(Front(folder))
                IN  MovedInto(Moving(args, Last(folder)), Last(folder))
      BY DEF Collect, d
    <2> QED
      BY <2>2, <2>3, <2>4, <2>5 DEF M
  <1>5. ASSUME NEW s \in Mv
        PROVE  s \in M /\ CanMove(s, t)
    <2>1. s \in UNION Range(<<M>>) /\ CanMove(s, t)
      BY MovingIs
    <2>2. Range(<<M>>) = {M}
      BY OneOf
    <2> QED
      BY <2>1, <2>2
  <1>6. ASSUME NEW s \in Mv
        PROVE  \E k \in S : s = P(k) /\ s \in DOMAIN fs /\ fs[s] # Dir
    <2> HIDE DEF Mv, d, m
    <2>1. PICK k \in Frames : s = Fresh(d, m, k) /\ s \in DOMAIN fs /\ fs[s] # Dir
      BY <1>2, <1>5, Matched
    <2> QED
      BY <2>1
  <1>7. S \subseteq Frames /\ \A k \in S : P(k) \in Mv
    OBVIOUS
  <1> HIDE DEF M, Mv, S
  <1>8. ASSUME NEW k \in S
        PROVE  /\ P(k) \in DOMAIN fs /\ Below(P(k)) = {P(k)}
               /\ Arrives(P(k), t, P(k)) = Q(k)
    <2>1. P(k) \in DOMAIN fs /\ fs[P(k)] # Dir
      BY <1>6, <1>7
    <2>2. FrameName(m, k) \in NameSet
      BY <1>2, <1>7, FrameNameIs
    <2>3. P(k) = Path2(d, FrameName(m, k)) /\ Q(k) = Path3(d, Jp4s, FrameName(m, k))
      BY DEF Fresh, Kept
    <2> HIDE DEF P, Q, d, m
    <2>4. Below(P(k)) = {P(k)}
      BY <1>2, <2>1, <2>2, <2>3, LeafBelow
    <2>5. Arrives(P(k), t, P(k)) = Q(k)
      BY <1>2, <2>2, <2>3, ArrivesIn
    <2> QED
      BY <2>1, <2>4, <2>5
  <1>9. ASSUME NEW k \in S, NEW l \in S, Q(k) = Q(l) PROVE k = l
    <2>1. /\ FrameName(m, k) \in NameSet /\ FrameName(m, l) \in NameSet
          /\ k \in Parts /\ l \in Parts
      BY <1>2, <1>7, FrameNameIs
    <2>2. /\ Q(k)[3] = FrameName(m, k) /\ Q(l)[3] = FrameName(m, l)
      BY <1>2, <2>1, PathsAre DEF Kept
    <2>3. FrameName(m, k) = FrameName(m, l)
      BY <1>9, <2>2
    <2> QED
      BY <1>2, <2>1, <2>3, FrameNameInjective
  <1>10. /\ FileSystem(fs', given)
         /\ \A done : FramesIn(fs, given, done) => FramesIn(fs', given, done)
    <2>1. CASE Mv = {}
      BY <1>2, <1>4, <2>1, NothingMoved
    <2>2. CASE Mv # {}
      <3>1. Path2(d, Jp4s) \in DOMAIN fs /\ fs[Path2(d, Jp4s)] = Dir
        <4>1. At(t) = "dir"
          BY <1>5, <2>2 DEF CanMove
        <4> QED
          BY <1>2, <4>1, AtIs
      <3> HIDE DEF P, Q, t, d, m
      <3>2. AllMoved(Mv, t, fs')
        <4>1. Apart(Mv, t)
          <5> SUFFICES ASSUME NEW s \in Mv, NEW r \in Mv, NEW q \in Below(s),
                              NEW u \in Below(r), Arrives(s, t, q) = Arrives(r, t, u)
                       PROVE  q = u
            BY DEF Apart
          <5>1. PICK k \in S : s = P(k)
            BY <1>6
          <5>2. PICK l \in S : r = P(l)
            BY <1>6
          <5>3. q = P(k) /\ u = P(l)
            BY <1>8, <5>1, <5>2
          <5>4. Q(k) = Q(l)
            BY <1>8, <5>1, <5>2, <5>3
          <5> QED
            BY <1>9, <5>3, <5>4
        <4> QED
          BY <1>4, <4>1, MovedIs
      <3> DEFINE old == UNION {Below(s) : s \in Mv}
                 new == UNION {{Arrives(s, t, q) : q \in Below(s)} : s \in Mv}
      <3>3. old = {P(k) : k \in S}
        <4>1. \A p \in old : \E k \in S : p = P(k)
          BY <1>6, <1>8
        <4>2. \A k \in S : P(k) \in old
          BY <1>7, <1>8
        <4> HIDE DEF old
        <4> QED
          BY <4>1, <4>2
      <3>4. new = {Q(k) : k \in S}
        <4>1. ASSUME NEW p \in new PROVE \E k \in S : p = Q(k)
          <5>1. PICK s \in Mv : \E q \in Below(s) : p = Arrives(s, t, q)
            OBVIOUS
          <5>2. PICK k \in S : s = P(k)
            BY <1>6
          <5> QED
            BY <1>8, <5>1, <5>2
        <4>2. ASSUME NEW k \in S PROVE Q(k) \in new
          <5>1. P(k) \in Mv /\ P(k) \in Below(P(k)) /\ Q(k) = Arrives(P(k), t, P(k))
            BY <1>7, <1>8
          <5> QED
            BY <5>1
        <4> HIDE DEF new
        <4> QED
          BY <4>1, <4>2
      <3>5. DOMAIN fs' = (DOMAIN fs \ old) \cup new
        BY <3>2 DEF AllMoved
      <3>6. ASSUME NEW k \in S PROVE fs'[Q(k)] = fs[P(k)]
        <4>1. P(k) \in Mv /\ P(k) \in Below(P(k)) /\ Q(k) = Arrives(P(k), t, P(k))
          BY <1>7, <1>8
        <4>2. fs'[Arrives(P(k), t, P(k))] = fs[P(k)]
          BY <3>2, <4>1 DEF AllMoved
        <4> QED
          BY <4>1, <4>2
      <3>7. ASSUME NEW p \in DOMAIN fs', \A k \in S : p # Q(k) PROVE fs'[p] = fs[p]
        <4>1. \A s \in Mv : \A q \in Below(s) : p # Arrives(s, t, q)
          BY <3>4, <3>7
        <4> QED
          BY <3>2, <4>1 DEF AllMoved
      <3> HIDE DEF old, new
      <3>8. DOMAIN fs' = {p \in DOMAIN fs : \A k \in S : p # P(k)} \cup {Q(k) : k \in S}
        BY <3>3, <3>4, <3>5
      <3>9. S \in SUBSET Frames /\ \A k \in S : P(k) \in DOMAIN fs
        BY <1>7, <1>8
      <3>10. Collected(fs, fs', d, m, S)
        BY <3>6, <3>7, <3>8, <3>9 DEF P, Q, Collected
      <3> QED
        BY <1>2, <3>1, <3>9, <3>10, Collects
    <2> QED
      BY <2>1, <2>2
  <1>11. /\ Continue("convert") /\ extracted' = extracted /\ allMade' = allMade
    BY DEF Collect
  <1> QED
    BY <1>2, <1>3, <1>10, <1>11, GoesOn

LEMMA ConvertKeeps == BatchInv /\ Convert => BatchInv'
  <1> SUFFICES ASSUME BatchInv, Convert PROVE BatchInv'
    OBVIOUS
  <1> DEFINE d == dir_name
             R(p) == Path3(d, Dngs, p[3])
  <1>1. batchPc \notin {"idle", "killed", "readdir"}
    BY DEF Convert
  <1>2. /\ d \in NameSet /\ IsMovie(file) /\ Frames \subseteq Parts
        /\ Tree(fs, given) /\ FileSystem(fs, given) /\ given \subseteq Ids
        /\ jp4s = Path2(d, Jp4s) /\ dngs = Path2(d, Dngs)
    BY <1>1, AtWork
  <1>3. /\ extracted \subseteq given \X Frames
        /\ allMade => FramesIn(fs, given, extracted)
    BY DEF BatchInv
  <1>4. ToConvert = InJp4s(fs, d)
    <2> HIDE DEF d
    <2>1. ASSUME NEW p \in DOMAIN fs
          PROVE  p \in ToConvert <=> p \in InJp4s(fs, d)
      <3>1. p \in Paths /\ Jp4s \in NameSet
        BY <1>2, TreeAt, SubfoldersAre
      <3>2. IsPrefix(jp4s, p) <=> Len(p) >= 2 /\ p[1] = d /\ p[2] = Jp4s
        BY <1>2, <3>1, BelowIs
      <3>3. p \in ToConvert <=>
              Len(p) = 3 /\ IsPrefix(jp4s, p) /\ fs[p].kind = "jp4"
        BY DEF ToConvert, Listed
      <3>4. p \in InJp4s(fs, d) <=> Len(p) > 2 /\ p[1] = d /\ p[2] = Jp4s
        BY DEF InJp4s
      <3>5. ASSUME p \in InJp4s(fs, d) PROVE p \in ToConvert
        <4>1. p[3] \in NameSet /\ fs[p].kind = "jp4" /\ p = Path3(d, Jp4s, p[3])
          BY <1>2, <3>5, InJp4sAre
        <4>2. Len(p) = 3
          BY <1>2, <3>1, <4>1, PathsAre
        <4>3. Len(p) >= 2
          BY <4>2
        <4> QED
          BY <3>2, <3>3, <3>4, <3>5, <4>1, <4>2, <4>3
      <3>6. ASSUME p \in ToConvert PROVE p \in InJp4s(fs, d)
        <4>1. Len(p) = 3 /\ IsPrefix(jp4s, p)
          BY <3>3, <3>6
        <4>2. Len(p) > 2
          BY <4>1
        <4> QED
          BY <3>2, <3>4, <4>1, <4>2
      <3> QED
        BY <3>5, <3>6
    <2> QED
      BY <2>1 DEF ToConvert, Listed, InJp4s
  <1>5. PICK S \in SUBSET ToConvert :
          /\ allMade' = (allMade /\ S = ToConvert /\ (S = {} \/ At(dngs) = "dir"))
          /\ fs' = IF At(dngs) = "dir"
                   THEN Added([p \in {Append(dngs, q[3]) : q \in S} |->
                                 [fs[Append(jp4s, p[3])] EXCEPT !.kind = "dng"]])
                   ELSE fs
    BY DEF Convert
  <1>6. /\ FileSystem(fs', given)
        /\ allMade' => FramesIn(fs', given, extracted) /\ MadeIn(fs', d)
    <2>1. CASE At(dngs) = "dir"
      <3> DEFINE nodes == [p \in {Append(dngs, q[3]) : q \in S} |->
                             [fs[Append(jp4s, p[3])] EXCEPT !.kind = "dng"]]
      <3>1. Path2(d, Dngs) \in DOMAIN fs /\ fs[Path2(d, Dngs)] = Dir
        BY <1>2, <2>1, AtIs
      <3>2. ASSUME NEW q \in S
            PROVE  /\ Append(dngs, q[3]) = R(q) /\ R(q)[3] = q[3]
                   /\ Append(jp4s, q[3]) = q
        <4>1. q[3] \in NameSet /\ LiesIn(q, d, Jp4s, q[3])
          BY <1>2, <1>4, InJp4sAre
        <4>2. LiesIn(R(q), d, Dngs, q[3])
          BY <1>2, <4>1, InDngsIs
        <4> QED
          BY <1>2, <4>1, <4>2 DEF LiesIn
      <3>3. fs' = Added(nodes)
        BY <1>5, <2>1
      <3>4. DOMAIN nodes = {R(q) : q \in S}
        <4>1. DOMAIN nodes = {Append(dngs, q[3]) : q \in S}
          OBVIOUS
        <4> HIDE DEF nodes, R
        <4> QED
          BY <3>2, <4>1
      <3>5. ASSUME NEW q \in S PROVE nodes[R(q)] = [fs[q] EXCEPT !.kind = "dng"]
        <4>1. R(q) \in DOMAIN nodes
          BY <3>4
        <4>2. nodes[R(q)] = [fs[Append(jp4s, R(q)[3])] EXCEPT !.kind = "dng"]
          BY <4>1
        <4> QED
          BY <3>2, <4>2
      <3> HIDE DEF nodes
      <3>6. /\ DOMAIN fs' = DOMAIN fs \cup {R(q) : q \in S}
            /\ \A q \in S : fs'[R(q)] = [fs[q] EXCEPT !.kind = "dng"]
            /\ \A p \in DOMAIN fs : (\A q \in S : p # R(q)) => fs'[p] = fs[p]
        <4>1. /\ DOMAIN fs' = DOMAIN fs \cup DOMAIN nodes
              /\ \A p \in DOMAIN nodes : fs'[p] = nodes[p]
              /\ \A p \in DOMAIN fs : p \notin DOMAIN nodes => fs'[p] = fs[p]
          BY <3>3, AddedIs
        <4> HIDE DEF R
        <4> QED
          BY <3>4, <3>5, <4>1
      <3> HIDE DEF d
      <3>7. /\ FileSystem(fs', given)
            /\ \A done : FramesIn(fs, given, done) => FramesIn(fs', given, done)
            /\ S = InJp4s(fs, d) => MadeIn(fs', d)
        BY <1>2, <1>4, <3>1, <3>6, Converts
      <3> QED
        BY <1>3, <1>4, <1>5, <3>7
    <2>2. CASE At(dngs) # "dir"
      <3>1. fs' = fs
        BY <1>5, <2>2
      <3>2. ASSUME allMade' PROVE MadeIn(fs, d)
        <4>1. S = ToConvert /\ (S = {} \/ At(dngs) = "dir")
          BY <1>5, <3>2
        <4>2. InJp4s(fs, d) = {}
          BY <1>4, <2>2, <4>1
        <4>3. 3 > 2
          OBVIOUS
        <4>4. ASSUME NEW p \in DOMAIN fs, Len(p) = 3, p[1] = d, p[2] = Jp4s
              PROVE  FALSE
          BY <4>2, <4>3, <4>4, Zenon DEF InJp4s
        <4> QED
          BY <4>4 DEF MadeIn
      <3> QED
        BY <1>2, <1>3, <1>5, <3>1, <3>2
    <2> QED
      BY <2>1, <2>2
  <1>7. Continue("remove") /\ extracted' = extracted
    BY DEF Convert
  <1> QED
    BY <1>2, <1>3, <1>6, <1>7, GoesOn

LEMMA RemoveFramesKeeps == BatchInv /\ RemoveFrames => BatchInv'
  <1> SUFFICES ASSUME BatchInv, RemoveFrames PROVE BatchInv'
    OBVIOUS
  <1> DEFINE d == dir_name
  <1>1. batchPc = "remove" /\ batchPc \notin {"idle", "killed", "readdir"}
    BY DEF RemoveFrames
  <1>2. /\ d \in NameSet /\ IsMovie(file) /\ Frames \subseteq Parts
        /\ FileSystem(fs, given) /\ given \subseteq Ids
        /\ jp4s = Path2(d, Jp4s)
    BY <1>1, AtWork
  <1>3. /\ extracted \subseteq given \X Frames
        /\ allMade => FramesIn(fs, given, extracted)
        /\ allMade => MadeIn(fs, d)
    BY <1>1 DEF BatchInv
  <1>7. ToRemove = Below(Path2(d, Jp4s))
    <2>1. Pasted(d, Jp4s) = <<Path2(d, Jp4s)>>
      BY <1>2, OneArgument, SubfoldersAre
    <2>2. Range(Pasted(d, Jp4s)) = {Path2(d, Jp4s)}
      BY <2>1, OneOf
    <2>3. ToRemove = UNION {Below(p) : p \in Range(Pasted(d, Jp4s))}
      BY DEF ToRemove, ToRemoveAll
    <2> HIDE DEF d
    <2> QED
      BY <2>2, <2>3
  <1>4. /\ DOMAIN fs' = {p \in DOMAIN fs : ~IsPrefix(Path2(d, Jp4s), p)}
        /\ \A p \in DOMAIN fs' : fs'[p] = fs[p]
    BY <1>7 DEF RemoveFrames, Removed, Below
  <1> HIDE DEF d
  <1>5. /\ FileSystem(fs', given)
        /\ MadeIn(fs, d) => \A done : FramesIn(fs, given, done) =>
                                        FramesIn(fs', given, done)
    BY <1>2, <1>4, Removes
  <1>6. /\ Continue("readdir") /\ extracted' = extracted /\ allMade' = allMade
        /\ "readdir" # "remove"
    BY DEF RemoveFrames
  <1> QED
    BY <1>2, <1>3, <1>5, <1>6, GoesOn

LEMMA NewClipKeeps == BatchInv /\ NewClip => BatchInv'
  <1> SUFFICES ASSUME BatchInv, NewClip PROVE BatchInv'
    OBVIOUS
  <1>1. /\ given \subseteq Ids /\ extracted \subseteq given \X Frames
        /\ FileSystem(fs, given) /\ Tree(fs, given)
        /\ allMade => FramesIn(fs, given, extracted)
    BY DEF BatchInv, FileSystem
  <1>2. PICK m \in {id[1] : id \in given} \ Top :
          /\ given' = given \cup {<<m, 2>>}
          /\ fs' = Added([p \in {<<m>>} |-> Clip(<<m, 2>>)])
    BY DEF NewClip
  <1> DEFINE t == Path1(m)
             nodes == [p \in {t} |-> Clip(<<m, 2>>)]
  <1>3. m \in NameSet
    BY <1>1, <1>2 DEF Ids
  <1>4. Len(t) = 1 /\ t[1] = m
    BY <1>3, PathsAre
  <1>5. t \notin DOMAIN fs
    <2> HIDE DEF t
    <2> QED
      BY <1>2, <1>4 DEF Top
  <1>6. fs' = Added(nodes) /\ DOMAIN nodes = {t} /\ nodes[t] = Clip(<<m, 2>>)
    BY <1>2 DEF Path1
  <1> HIDE DEF nodes, t
  <1>7. /\ DOMAIN fs' = DOMAIN fs \cup {t} /\ fs'[t] = Clip(<<m, 2>>)
        /\ \A p \in DOMAIN fs : fs'[p] = fs[p]
    <2>1. /\ DOMAIN fs' = DOMAIN fs \cup DOMAIN nodes
          /\ \A p \in DOMAIN nodes : fs'[p] = nodes[p]
          /\ \A p \in DOMAIN fs : p \notin DOMAIN nodes => fs'[p] = fs[p]
      <3>1. fs' = Added(nodes)
        BY <1>6
      <3> QED
        BY <3>1 DEF Added
    <2> QED
      BY <1>5, <1>6, <2>1
  <1>8. /\ given' \subseteq Ids /\ FileSystem(fs', given')
        /\ \A done : FramesIn(fs, given, done) => FramesIn(fs', given', done)
    <2>1. IsAdded(fs, fs', m)
      BY <1>5, <1>7 DEF IsAdded, t
    <2>2. given' = given \cup {<<m, 2>>}
      BY <1>2
    <2> QED
      BY <1>1, <1>3, <2>1, <2>2, ClipAdded
  <1>9. /\ batchPc' \in {"idle", "killed"} /\ present' = present /\ file' = file
        /\ extracted' = extracted /\ allMade' = allMade
    BY DEF NewClip
  <1> QED
    BY <1>1, <1>2, <1>8, <1>9 DEF BatchInv

LEMMA WalkKeeps ==
  ASSUME BatchInv, StartBatch \/ ReadDir \/ EndOfDir \/ Kill
  PROVE  BatchInv'
  <1>1. /\ given' = given /\ extracted' = extracted /\ fs' = fs
        /\ allMade' = allMade
    BY DEF StartBatch, ReadDir, EndOfDir, Kill
  <1>2. Top \subseteq NameSet
    <2> SUFFICES ASSUME NEW p \in DOMAIN fs, Len(p) = 1 PROVE p[1] \in NameSet
      BY DEF Top
    <2>1. p \in Paths
      BY TreeAt DEF BatchInv, FileSystem
    <2> QED
      BY <2>1, NamesOf
  <1>3. /\ present' \subseteq NameSet /\ file' \in NameSet
        /\ batchPc' \notin {"idle", "killed", "readdir"} => IsMovie(file')
        /\ batchPc' # "remove"
    <2>1. CASE StartBatch
      BY <1>2, <2>1 DEF BatchInv, StartBatch
    <2>2. CASE ReadDir
      <3>1. PICK x \in (present \cup Top) \ listed :
              IF IsMovie(x) THEN file' = x /\ batchPc' = "mkdir"
                            ELSE UNCHANGED <<file, batchPc>>
        BY <2>2 DEF ReadDir
      <3>2. /\ present' = present /\ batchPc = "readdir" /\ x \in NameSet
            /\ present \subseteq NameSet /\ file \in NameSet
        BY <1>2, <2>2 DEF BatchInv, ReadDir
      <3> QED
        BY <3>1, <3>2
    <2>3. CASE EndOfDir
      BY <2>3 DEF BatchInv, EndOfDir
    <2>4. CASE Kill
      BY <2>4 DEF BatchInv, Kill
    <2> QED
      BY <2>1, <2>2, <2>3, <2>4
  <1> QED
    BY <1>1, <1>3 DEF BatchInv

LEMMA BatchInitInv == BatchInit /\ Unspaced => BatchInv
  <1> SUFFICES ASSUME BatchInit, Unspaced PROVE BatchInv
    OBVIOUS
  <1>10. PICK names \in Stocks : given = {<<n, 1>> : n \in names}
    BY DEF BatchInit
  <1>11. \A n \in names : n \in NameSet
    <2>1. ASSUME NEW n \in names PROVE Blanks(n) = {}
      <3>1. <<n, 1>> \in given /\ <<n, 1>>[1] = n
        BY <1>10
      <3> QED
        BY <3>1 DEF Unspaced
    <2> QED
      BY <2>1, ConstantsAre
  <1>1. /\ fs = [p \in {<<id[1]>> : id \in given} |-> Clip(<<p[1], 1>>)]
        /\ extracted = {} /\ batchPc = "idle" /\ present = {} /\ file = << >>
    BY DEF BatchInit, BatchFresh
  <1>2. given \subseteq Ids
    BY <1>10, <1>11 DEF Ids
  <1>3. ASSUME NEW p \in DOMAIN fs
        PROVE  /\ p \in Paths /\ Len(p) = 1 /\ <<p[1], 1>> \in given
               /\ fs[p] = Clip(<<p[1], 1>>)
    <2>1. PICK id \in given : p = Path1(id[1])
      BY <1>1 DEF Path1
    <2>2. PICK n \in names : id = <<n, 1>>
      BY <1>10
    <2>3. n \in NameSet /\ p = Path1(n)
      BY <1>11, <2>1, <2>2
    <2>4. p \in Paths /\ Len(p) = 1 /\ p[1] = n
      BY <2>3, PathsAre
    <2> QED
      BY <1>1, <2>2, <2>4
  <1>4. ASSUME NEW id \in given PROVE NewestOf(id, given)
    BY <1>10 DEF NewestOf
  <1>5. ASSUME NEW p \in DOMAIN fs
        PROVE  /\ fs[p].kind = "clip" /\ ~IsFrame(fs[p]) /\ fs[p] \in Kinds(given)
               /\ Placed(p, fs[p], given) /\ Rooted(p, fs)
               /\ Len(p) > 0
    <2> DEFINE id == <<p[1], 1>>
    <2>1. /\ Len(p) = 1 /\ id \in given /\ fs[p] = Clip(id) /\ id[1] = p[1]
      BY <1>3
    <2> HIDE DEF id
    <2>2. /\ fs[p].kind = "clip" /\ fs[p].id = id /\ ~IsFrame(fs[p])
          /\ fs[p] \in Kinds(given)
      BY <2>1 DEF Clip, IsFrame, Kinds
    <2>3. ~(Len(p) > 1) /\ 1..(Len(p) - 1) = {} /\ Len(p) > 0
      BY <2>1
    <2>4. Placed(p, fs[p], given)
      BY <1>4, <2>1, <2>2, <2>3 DEF Placed, IsFrame
    <2>5. Rooted(p, fs)
      BY <2>3 DEF Rooted
    <2> QED
      BY <2>2, <2>3, <2>4, <2>5
  <1>6. Tree(fs, given)
    BY <1>3, <1>5, Zenon DEF Tree
  <1>7. ClipsIn(fs, given)
    <2> SUFFICES ASSUME NEW id \in given
                 PROVE  \E p \in DOMAIN fs : fs[p] = Clip(id)
      BY DEF ClipsIn
    <2>1. PICK n \in names : id = <<n, 1>>
      BY <1>10
    <2>2. Path1(n) \in DOMAIN fs
      BY <1>1, <2>1 DEF Path1
    <2>3. fs[Path1(n)] = Clip(<<Path1(n)[1], 1>>) /\ Path1(n)[1] = n
      BY <1>3, <1>11, <2>2, PathsAre
    <2> QED
      BY <2>1, <2>2, <2>3
  <1>8. FileSystem(fs, given) /\ FramesIn(fs, given, extracted)
    BY <1>1, <1>5, <1>6, <1>7 DEF FileSystem, Homes, Ages, FramesIn
  <1>9. file \in NameSet
    BY <1>1, EmptySeq DEF NameSet
  <1> QED
    BY <1>1, <1>2, <1>8, <1>9 DEF BatchInv

LEMMA BatchNextInv == BatchInv /\ [BatchNext]_batchVars => BatchInv'
  <1> SUFFICES ASSUME BatchInv, [BatchNext]_batchVars PROVE BatchInv'
    OBVIOUS
  <1>1. CASE StartBatch \/ ReadDir \/ EndOfDir \/ Kill
    BY <1>1, WalkKeeps
  <1>2. CASE MakeFolder
    BY <1>2, MakeFolderKeeps
  <1>3. CASE MoveClip
    BY <1>3, MoveClipKeeps
  <1>4. CASE MakeSubfolders
    BY <1>4, MakeSubfoldersKeeps
  <1>5. CASE Extract
    BY <1>5, ExtractKeeps
  <1>6. CASE Collect
    BY <1>6, CollectKeeps
  <1>7. CASE Convert
    BY <1>7, ConvertKeeps
  <1>8. CASE RemoveFrames
    BY <1>8, RemoveFramesKeeps
  <1>9. CASE NewClip
    BY <1>9, NewClipKeeps
  <1>10. CASE UNCHANGED batchVars
    BY <1>10 DEF batchVars, BatchInv, dir_name
  <1> QED
    BY <1>1, <1>2, <1>3, <1>4, <1>5, <1>6, <1>7, <1>8, <1>9, <1>10 DEF BatchNext

\* No clip is ever taken from the ones that were put into the directory.
LEMMA GivenGrows == [BatchNext]_batchVars => given \subseteq given'
  BY DEF BatchNext, batchVars, StartBatch, ReadDir, EndOfDir, MakeFolder, MoveClip,
         MakeSubfolders, Extract, Collect, Convert, RemoveFrames, Kill, NewClip,
         Continue

\* The invariant holds as long as no name has a blank.
LEMMA BatchHolds == BatchSpec => [](Unspaced => BatchInv)
  <1>1. BatchInit => (Unspaced => BatchInv)
    BY BatchInitInv
  <1>2. (Unspaced => BatchInv) /\ [BatchNext]_batchVars => (Unspaced => BatchInv)'
    <2> SUFFICES ASSUME Unspaced => BatchInv, [BatchNext]_batchVars, Unspaced'
                 PROVE  BatchInv'
      OBVIOUS
    <2>1. Unspaced
      BY GivenGrows DEF Unspaced, Blanks
    <2> QED
      BY <2>1, BatchNextInv
  <1> QED
    BY <1>1, <1>2, PTL DEF BatchSpec

\* A converted frame lies in dngs/ of the folder its home is.
LEMMA DngHome ==
  ASSUME NEW f, NEW ids, Tree(f, ids), NEW p \in DOMAIN f, f[p].kind = "dng"
  PROVE  Front(Front(p)) = Home(p)
  <1>1. /\ p \in Paths /\ Len(p) \in Nat \ {0} /\ Placed(p, f[p], ids)
    BY TreeAt
  <1>2. Len(p) > 2 /\ p[Len(p) - 1] = Dngs
    BY <1>1 DEF Placed, IsFrame
  <1>3. ~InFolder(p)
    <2>1. Len(p) # 2
      BY <1>1, <1>2
    <2> QED
      BY <1>2, <2>1, SubfoldersAre DEF InFolder
  <1> DEFINE n == Len(p) - 1
             l == Len(p) - 2
             u == Upto(p, n)
  <1>4. n \in 0..Len(p) /\ l \in 0..n /\ n - 1 = l /\ p \in Seq(NameSet)
    BY <1>1, <1>2 DEF Paths
  <1>5. Len(u) = n
    BY <1>4, UptoIs
  <1>6. Upto(u, l) = Upto(p, l)
    BY <1>4, UptoUpto
  <1>7. Front(p) = u /\ Front(u) = Upto(u, l)
    BY <1>4, <1>5 DEF Front, Upto
  <1>8. Home(p) = Upto(p, l)
    BY <1>3 DEF Home
  <1> QED
    BY <1>6, <1>7, <1>8

\* If no clip has a blank in its name: whatever fails or is killed, the last clip
\* of a name is never lost, and each DNG file lies below the folder of a clip with
\* the name of the one it was made from.  mkdir, mv and the removal of jp4s/ in
\* process.php go past it.
THEOREM LastClipIsKept == BatchSpec => []LastClipKept
  <1>1. (Unspaced => BatchInv) => LastClipKept
    <2> SUFFICES ASSUME Unspaced, BatchInv PROVE LastClipKept
      BY DEF LastClipKept
    <2>1. Tree(fs, given) /\ Homes(fs) /\ ClipsIn(fs, given)
      BY DEF BatchInv, FileSystem
    <2>2. ASSUME NEW id \in given, Newest(id) PROVE Clip(id) \in Nodes
      BY <2>1, <2>2 DEF ClipsIn, Newest, NewestOf, Nodes
    <2>3. ASSUME NEW p \in DOMAIN fs, fs[p].kind = "dng"
          PROVE  \E q \in DOMAIN fs :
                   /\ fs[q].kind = "clip" /\ fs[q].id[1] = fs[p].id[1]
                   /\ Front(q) = Front(Front(p))
      <3>1. PICK q \in DOMAIN fs : HomeClip(p, fs[p], q, fs[q])
        BY <2>1, <2>3 DEF Homes, IsFrame
      <3>2. Front(Front(p)) = Home(p)
        BY <2>1, <2>3, DngHome
      <3>3. Front(q) = Upto(q, Len(q) - 1)
        BY DEF Front, Upto
      <3> QED
        BY <3>1, <3>2, <3>3 DEF HomeClip
    <2> QED
      BY <2>2, <2>3 DEF LastClipKept
  <1> QED
    BY <1>1, BatchHolds, PTL

\* If no clip has a blank in its name, and as long as elphel_dng makes a DNG file
\* of each frame it is given, no frame that movie2dng has written is lost before
\* another clip of the same name comes: process.php removes jp4s/ only with what
\* dngs/ has converted.
THEOREM FramesAreKept == BatchSpec => []FramesKept
  <1>1. (Unspaced => BatchInv) => FramesKept
    <2> SUFFICES ASSUME BatchInv, allMade, NEW x \in extracted, Newest(x[1])
                 PROVE  \E kind \in {"jp4", "dng"} :
                          Frame(kind, x[1], x[2]) \in Nodes
      BY DEF FramesKept
    <2>1. PICK p \in DOMAIN fs :
            fs[p] \in {Frame("jp4", x[1], x[2]), Frame("dng", x[1], x[2])}
      BY DEF BatchInv, FramesIn, Newest, NewestOf
    <2> QED
      BY <2>1 DEF Nodes
  <1> QED
    BY <1>1, BatchHolds, PTL

-----------------------------------------------------------------------------
(* The window of Movie2DNGGUI: what movie2dng reads from its command. *)

\* A set of naturals that is not empty has a least element.
LEMMA Least ==
  ASSUME NEW T, T \subseteq Nat, T # {}
  PROVE  \E n \in T : \A m \in T : n <= m
<1>1. \E n \in T : \A m \in T : ~(<<m, n>> \in OpToRel(<, Nat))
  BY NatLessThanWellFounded, WFMin
<1>2. PICK n \in T : \A m \in T : ~(<<m, n>> \in OpToRel(<, Nat))
  BY <1>1
<1>3. ASSUME NEW m \in T
      PROVE  n <= m
  <2>1. m \in Nat /\ n \in Nat
    OBVIOUS
  <2>2. CASE m < n
    <3>1. <<m, n>> \in OpToRel(<, Nat)
      BY <2>1, <2>2 DEF OpToRel
    <3> QED
      BY <3>1, <1>2
  <2> QED
    BY <2>1, <2>2
<1> QED
  BY <1>3

\* Induction over Nat, for the numbers that have a property: a set with 0 and
\* with n + 1 whenever it has n has every number. (The induction theorems of
\* the library take the property as an operator, which the provers cannot
\* instantiate; a set they can.)
LEMMA SetInduction ==
  ASSUME NEW S, 0 \in S, \A n \in Nat : n \in S => n + 1 \in S
  PROVE  \A n \in Nat : n \in S
<1>1. SUFFICES ASSUME NEW k \in Nat, k \notin S
               PROVE  FALSE
  OBVIOUS
<1> DEFINE T == Nat \ S
<1>2. PICK n \in T : \A m \in T : n <= m
  <2>1. T \subseteq Nat /\ T # {}
    BY <1>1
  <2> HIDE DEF T
  <2> QED
    BY <2>1, Least
<1>3. n \in Nat /\ n # 0
  OBVIOUS
<1>4. n - 1 \in Nat /\ (n - 1) + 1 = n /\ ~(n <= n - 1)
  BY <1>3
<1>5. n - 1 \in S
  BY <1>2, <1>4
<1> QED
  BY <1>4, <1>5


\* g folds the parser over every set of the first m places of s.
Folds(g, m, s) ==
  g = [x \in SUBSET (1..m) |->
         IF x = {} THEN NoOptions
         ELSE GetOpt(g[x \ {Max(x)}], s[Max(x)])]

\* There is such a fold for the first n places of any s, so that the CHOOSE in
\* the community modules' FoldLeft is one.
LEMMA FoldsExist ==
  ASSUME NEW s, NEW n \in Nat
  PROVE  \E g : Folds(g, n, s)
<1> DEFINE T == {m \in Nat : \E g : Folds(g, m, s)}
<1>1. 0 \in T
  <2> DEFINE g == [x \in SUBSET (1..0) |-> NoOptions]
  <2>1. \A x \in SUBSET (1..0) : x = {}
    OBVIOUS
  <2>2. Folds(g, 0, s)
    BY <2>1 DEF Folds
  <2> HIDE DEF g
  <2>3. 0 \in Nat
    OBVIOUS
  <2> QED
    BY <2>2, <2>3
<1>2. ASSUME NEW m \in T
      PROVE  m + 1 \in T
  <2>1. PICK g : Folds(g, m, s)
    OBVIOUS
  <2>2. m \in Nat /\ m + 1 \in Nat
    OBVIOUS
  <2> DEFINE V(x) == IF x = {} THEN NoOptions ELSE GetOpt(g[x \ {Max(x)}], s[Max(x)])
             h == [x \in SUBSET (1..m + 1) |-> V(x)]
  <2>3. ASSUME NEW x \in SUBSET (1..m + 1), x # {}
        PROVE  x \ {Max(x)} \in SUBSET (1..m)
    <3>1. Max(x) \in x /\ \A y \in x : y <= Max(x)
      <4>1. \E z \in x : \A y \in x : z >= y
        <5> DEFINE U == {k \in Nat : \E y \in x : k = m + 1 - y}
        <5>1. U # {} /\ U \subseteq Nat
          <6>1. PICK y \in x : TRUE
            BY <2>3
          <6>2. m + 1 - y \in Nat
            BY <2>2
          <6> QED
            BY <6>1, <6>2
        <5>2. PICK k \in U : \A i \in U : k <= i
          <6> HIDE DEF U
          <6> QED
            BY <5>1, Least
        <5>3. PICK z \in x : k = m + 1 - z
          OBVIOUS
        <5>4. ASSUME NEW y \in x
              PROVE  z >= y
          <6>1. m + 1 - y \in Nat /\ m + 1 - y \in U
            BY <2>2
          <6>2. k <= m + 1 - y
            BY <5>2, <6>1
          <6>3. y \in Int /\ z \in Int
            OBVIOUS
          <6> HIDE DEF U
          <6> QED
            BY <2>2, <5>3, <6>2, <6>3
        <5> QED
          BY <5>4
      <4>2. Max(x) \in x /\ \A y \in x : Max(x) >= y
        BY <4>1 DEF Max
      <4> QED
        BY <4>2
    <3>2. ASSUME NEW y \in x, y # Max(x)
          PROVE  y \in 1..m
      <4>1. y <= Max(x) /\ y \in 1..m + 1 /\ Max(x) \in 1..m + 1
        BY <3>1
      <4> QED
        BY <2>2, <3>2, <4>1
    <3> QED
      BY <3>2
  <2>4. \A x \in SUBSET (1..m) : g[x] = V(x)
    BY <2>1 DEF Folds
  <2>5. ASSUME NEW x \in SUBSET (1..m + 1), x # {}
        PROVE  h[x \ {Max(x)}] = g[x \ {Max(x)}]
    <3> DEFINE y == x \ {Max(x)}
    <3>1. y \in SUBSET (1..m) /\ y \in SUBSET (1..m + 1)
      BY <2>2, <2>3, <2>5
    <3> HIDE DEF y
    <3>2. h[y] = V(y) /\ g[y] = V(y)
      BY <2>4, <3>1
    <3> QED
      BY <3>2 DEF y
  <2>6. \A x \in SUBSET (1..m + 1) :
          h[x] = IF x = {} THEN NoOptions
                 ELSE GetOpt(h[x \ {Max(x)}], s[Max(x)])
    BY <2>5
  <2>7. h = [x \in SUBSET (1..m + 1) |-> h[x]]
    OBVIOUS
  <2> HIDE DEF h
  <2>8. Folds(h, m + 1, s)
    BY <2>6, <2>7 DEF Folds
  <2> QED
    BY <2>2, <2>8
<1>3. T \subseteq Nat
  OBVIOUS
<1> HIDE DEF T
<1>4. n \in T
  BY <1>1, <1>2, <1>3, SetInduction
<1> QED
  BY <1>4 DEF T

\* The parser's states while it reads s.
Reads(r, s, n) ==
  r[0] = NoOptions /\ \A k \in 1..n : r[k] = GetOpt(r[k - 1], s[k])

\* Folding the parser over a command line gives the last of the states it goes
\* through while it reads the arguments one after another.
LEMMA FoldReads ==
  ASSUME NEW s, NEW n \in Nat, DOMAIN s = 1..n
  PROVE  \E r : Reads(r, s, n) /\ FoldLeft(GetOpt, NoOptions, s) = r[n]
<1> DEFINE g == CHOOSE g : g = [x \in SUBSET (1..n) |->
                              IF x = {} THEN NoOptions
                              ELSE GetOpt(g[x \ {Max(x)}], s[Max(x)])]
<1>1. FoldLeft(GetOpt, NoOptions, s) = g[1..n]
  BY DEF FoldLeft, MapThenFoldSet
<1>2. Folds(g, n, s)
  BY FoldsExist DEF Folds
<1> HIDE DEF g
<1> DEFINE r == [k \in 0..n |-> g[1..k]]
<1>3. r[0] = NoOptions
  <2>1. 1..0 = {} /\ {} \in SUBSET (1..n) /\ 0 \in 0..n
    OBVIOUS
  <2> QED
    BY <1>2, <2>1 DEF Folds
<1>4. ASSUME NEW k \in 1..n
      PROVE  r[k] = GetOpt(r[k - 1], s[k])
  <2>1. /\ 1..k \in SUBSET (1..n) /\ 1..k # {} /\ (1..k) \ {k} = 1..(k - 1)
        /\ k \in 0..n /\ k - 1 \in 0..n
    <3>1. k \in 1..k /\ 1..k \subseteq 1..n /\ k \in 0..n /\ k - 1 \in 0..n
      OBVIOUS
    <3>2. \A i : i \in (1..k) \ {k} <=> i \in 1..(k - 1)
      OBVIOUS
    <3>3. (1..k) \ {k} = 1..(k - 1)
      BY <3>2
    <3> QED
      BY <3>1, <3>3
  <2>2. Max(1..k) = k
    BY DEF Max
  <2> QED
    BY <1>2, <2>1, <2>2 DEF Folds
<1>5. n \in 0..n
  OBVIOUS
<1>6. FoldLeft(GetOpt, NoOptions, s) = r[n]
  BY <1>1, <1>5
<1> HIDE DEF r
<1> QED
  BY <1>3, <1>4, <1>6 DEF Reads

\* The values after a command line with this shift and this limit.
GotValues(shift, limit) ==
  [o \in Valued |-> CASE o = "jpeg-quality" -> 100
                      [] o = "shift" -> shift
                      [] o = "frames" -> limit
                      [] o = "count-start" -> -1
                      [] OTHER -> 0]

\* The members of the parser's state.
OptionMembers == {"exit", "need", "formats", "flags", "args", "values"}
IsOptions(p) == p = [m \in OptionMembers |-> p[m]]

\* The parser has read these settings and words; an option may wait for its
\* value, or none does.
GotOrNeeds(p, formats, shift, limit, args) ==
  /\ IsOptions(p) /\ p.exit = "no" /\ p.formats = formats
  /\ p.args = args /\ p.values = GotValues(shift, limit)

Got(p, formats, shift, limit, args) ==
  GotOrNeeds(p, formats, shift, limit, args) /\ p.need = ""

\* q is p but for the member m.
ChangedAt(q, p, m, v) ==
  IsOptions(q) /\ q[m] = v /\ \A k \in OptionMembers \ {m} : q[k] = p[k]

\* A member of the parser's state is changed and no other.
LEMMA OptionsChange ==
  ASSUME NEW p, IsOptions(p), NEW m \in OptionMembers, NEW v
  PROVE  ChangedAt([p EXCEPT ![m] = v], p, m, v)
<1> DEFINE q == [p EXCEPT ![m] = v]
<1>1. DOMAIN p = OptionMembers
  BY DEF IsOptions
<1>2. q = [k \in DOMAIN p |-> IF k = m THEN v ELSE p[k]]
  OBVIOUS
<1>3. \A k \in OptionMembers : q[k] = IF k = m THEN v ELSE p[k]
  BY <1>1, <1>2
<1>4. q = [k \in OptionMembers |-> q[k]]
  BY <1>1, <1>2
<1> QED
  BY <1>3, <1>4 DEF IsOptions, ChangedAt

\* An option without value is a flag to set.
LEMMA FlagGiven ==
  ASSUME NEW p, NEW o \in Flags
  PROVE  Option(p, o, NoWord) = SetFlag(p, o)
<1> DEFINE w == NoWord
<1>1. o \notin Valued
  BY DEF Flags, Valued, Formats
<1>2. w = NoWord
  OBVIOUS
<1> HIDE DEF w
<1>3. Option(p, o, w) = SetFlag(p, o)
  BY <1>1, <1>2 DEF Option
<1> QED
  BY <1>2, <1>3

\* After --gui the parser has its defaults for everything that counts.
LEMMA GuiRead == Got(GetOpt(NoOptions, Opt("gui")), {}, -1, 0, <<>>)
<1> DEFINE p == NoOptions
           v == p.flags \cup {"gui"}
           q == [p EXCEPT !["flags"] = v]
<1>1. p = [exit |-> "no", need |-> "", formats |-> {}, flags |-> {},
           args |-> <<>>, values |-> GotValues(-1, 0)]
  BY DEF NoOptions, GotValues, Valued
<1>2. Got(p, {}, -1, 0, <<>>)
  BY <1>1 DEF Got, GotOrNeeds, IsOptions, OptionMembers
<1>3. GetOpt(p, Opt("gui")) = q
  <2>1. "gui" \in Flags /\ "gui" \notin Formats /\ "gui" # ""
    BY DEF Flags, Formats
  <2> DEFINE a == Opt("gui")
  <2>2. a.opt = "gui" /\ a.word = NoWord
    BY DEF Opt
  <2>3. p.exit = "no" /\ p.need = ""
    BY <1>2 DEF Got, GotOrNeeds
  <2> HIDE DEF a, p
  <2>4. GetOpt(p, a) = Option(p, "gui", NoWord)
    BY <2>1, <2>2, <2>3 DEF GetOpt
  <2>5. Option(p, "gui", NoWord) = SetFlag(p, "gui")
    BY <2>1, FlagGiven
  <2>6. SetFlag(p, "gui") = q
    BY <2>1 DEF SetFlag
  <2> QED
    BY <2>4, <2>5, <2>6 DEF a
<1>4. IsOptions(p) /\ "flags" \in OptionMembers
  BY <1>2 DEF Got, GotOrNeeds, OptionMembers
<1> HIDE DEF p, v
<1>5. ChangedAt(q, p, "flags", v)
  BY <1>4, OptionsChange
<1> HIDE DEF q
<1>6. Got(q, {}, -1, 0, <<>>)
  BY <1>2, <1>5 DEF Got, GotOrNeeds, ChangedAt, OptionMembers
<1> QED
  BY <1>3, <1>6 DEF p

\* A format is added to those asked for.
LEMMA FormatRead ==
  ASSUME NEW F, NEW shift, NEW limit, NEW args, NEW f \in Formats, NEW p,
         Got(p, F, shift, limit, args)
  PROVE  Got(GetOpt(p, Opt(f)), F \cup {f}, shift, limit, args)
<1> DEFINE v == p.formats \cup {f}
           q == [p EXCEPT !["formats"] = v]
<1>1. GetOpt(p, Opt(f)) = q
  <2>1. f \in Flags /\ f # ""
    BY DEF Flags, Formats
  <2> DEFINE a == Opt(f)
  <2>2. a.opt = f /\ a.word = NoWord
    BY DEF Opt
  <2>3. p.exit = "no" /\ p.need = ""
    BY DEF Got, GotOrNeeds
  <2> HIDE DEF a
  <2>4. GetOpt(p, a) = Option(p, f, NoWord)
    BY <2>1, <2>2, <2>3 DEF GetOpt
  <2>5. Option(p, f, NoWord) = SetFlag(p, f)
    BY <2>1, FlagGiven
  <2>6. SetFlag(p, f) = q
    <3>1. ~(f \in {"stdout", "gui"})
      BY DEF Formats
    <3>2. SetFlag(p, f) = [p EXCEPT !.formats = @ \cup {f}]
      BY <3>1 DEF SetFlag
    <3> QED
      BY <3>2
  <2> QED
    BY <2>4, <2>5, <2>6 DEF a
<1>2. IsOptions(p) /\ "formats" \in OptionMembers /\ v = F \cup {f}
  BY DEF Got, GotOrNeeds, OptionMembers
<1> HIDE DEF v
<1>3. ChangedAt(q, p, "formats", v)
  BY <1>2, OptionsChange
<1> HIDE DEF q
<1>4. Got(q, F \cup {f}, shift, limit, args)
  BY <1>2, <1>3 DEF Got, GotOrNeeds, ChangedAt, OptionMembers
<1> QED
  BY <1>1, <1>4

\* An allowed value is put into its option, and no option waits any more.
LEMMA ValueRead ==
  ASSUME NEW F, NEW shift, NEW limit, NEW args, NEW p,
         GotOrNeeds(p, F, shift, limit, args), NEW o \in Valued, NEW v,
         Allowed(o, v), NEW shift2, NEW limit2,
         [GotValues(shift, limit) EXCEPT ![o] = v] = GotValues(shift2, limit2)
  PROVE  Got(SetValue(p, o, v), F, shift2, limit2, args)
<1> DEFINE r == [p EXCEPT !["need"] = ""]
           values == GotValues(shift2, limit2)
           q == [r EXCEPT !["values"] = values]
<1>1. /\ IsOptions(p) /\ p.values = GotValues(shift, limit)
      /\ "need" \in OptionMembers /\ "values" \in OptionMembers
  BY DEF Got, GotOrNeeds, OptionMembers
<1>2. ChangedAt(r, p, "need", "")
  BY <1>1, OptionsChange
<1>3. IsOptions(r) /\ r.values = GotValues(shift, limit)
  <2> HIDE DEF r
  <2> QED
    BY <1>1, <1>2 DEF ChangedAt, OptionMembers
<1>4. SetValue(p, o, v) = q
  <2>1. SetValue(p, o, v) = [p EXCEPT !.need = "", !.values[o] = v]
    BY DEF SetValue
  <2>2. [p EXCEPT !.need = "", !.values[o] = v]
          = [r EXCEPT !["values"] = [r.values EXCEPT ![o] = v]]
    OBVIOUS
  <2> HIDE DEF r
  <2> QED
    BY <1>3, <2>1, <2>2
<1> HIDE DEF r, values
<1>5. ChangedAt(q, r, "values", values)
  BY <1>1, <1>3, OptionsChange
<1> HIDE DEF q
<1>6. Got(q, F, shift2, limit2, args)
  BY <1>2, <1>5 DEF Got, GotOrNeeds, ChangedAt, OptionMembers, values
<1> QED
  BY <1>4, <1>6

\* --shift=n is read as that shift.
LEMMA ShiftRead ==
  ASSUME NEW F, NEW shift, NEW limit, NEW args, NEW v \in 0..3, NEW p,
         Got(p, F, shift, limit, args)
  PROVE  Got(GetOpt(p, OptIs("shift", Word(<<"n">>, v, FALSE, FALSE, 0))),
             F, v, limit, args)
<1> DEFINE w == Word(<<"n">>, v, FALSE, FALSE, 0)
           a == OptIs("shift", w)
<1>1. w.atoi = v /\ w # NoWord
  <2>1. w.text = <<"n">> /\ NoWord.text = <<>> /\ w.atoi = v
    BY DEF Word, NoWord
  <2>2. <<"n">> # <<>>
    OBVIOUS
  <2> QED
    BY <2>1, <2>2
<1>2. "shift" \in Valued /\ "shift" \notin Flags /\ "shift" # ""
  BY DEF Valued, Flags, Formats
<1>3. a.opt = "shift" /\ a.word = w
  BY DEF OptIs
<1>4. p.exit = "no" /\ p.need = ""
  BY DEF Got, GotOrNeeds
<1> HIDE DEF w, a
<1>5. GetOpt(p, a) = Option(p, "shift", w)
  BY <1>2, <1>3, <1>4 DEF GetOpt
<1>6. Option(p, "shift", w) = SetValue(p, "shift", v)
  BY <1>1, <1>2 DEF Option
<1>7. Allowed("shift", v)
  BY DEF Allowed
<1>8. [GotValues(shift, limit) EXCEPT !["shift"] = v] = GotValues(v, limit)
  BY DEF GotValues, Valued
<1>9. Got(SetValue(p, "shift", v), F, v, limit, args)
  <2>1. GotOrNeeds(p, F, shift, limit, args)
    BY DEF Got
  <2> QED
    BY <1>2, <1>7, <1>8, <2>1, ValueRead
<1> QED
  BY <1>5, <1>6, <1>9 DEF w, a

\* --frames and a word are read as the number in that word.
LEMMA LimitRead ==
  ASSUME NEW F, NEW shift, NEW limit, NEW args, NEW w, NEW p,
         Got(p, F, shift, limit, args)
  PROVE  Got(GetOpt(GetOpt(p, Opt("frames")), Bare(w)),
             F, shift, w.atoi, args)
<1> DEFINE a == Opt("frames")
           b == Bare(w)
           q == [p EXCEPT !["need"] = "frames"]
<1>1. "frames" \in Valued /\ "frames" \notin Flags /\ "frames" # ""
  BY DEF Valued, Flags, Formats
<1>2. a.opt = "frames" /\ a.word = NoWord /\ b.opt = "" /\ b.word = w
  BY DEF Opt, Bare
<1>3. p.exit = "no" /\ p.need = "" /\ IsOptions(p) /\ "need" \in OptionMembers
  BY DEF Got, GotOrNeeds, OptionMembers
<1> HIDE DEF a, b
<1>4. GetOpt(p, a) = q
  <2>1. GetOpt(p, a) = Option(p, "frames", NoWord)
    BY <1>1, <1>2, <1>3 DEF GetOpt
  <2> QED
    BY <1>1, <2>1 DEF Option
<1>5. ChangedAt(q, p, "need", "frames")
  BY <1>3, OptionsChange
<1> HIDE DEF q
<1>6. GotOrNeeds(q, F, shift, limit, args) /\ q.need = "frames"
  BY <1>5 DEF Got, GotOrNeeds, ChangedAt, OptionMembers
<1>7. GetOpt(q, b) = SetValue(q, "frames", w.atoi)
  <2>1. q.exit = "no" /\ q.need = "frames"
    BY <1>6 DEF Got, GotOrNeeds
  <2> QED
    BY <1>1, <1>2, <2>1 DEF GetOpt, TakeValue
<1> DEFINE v == w.atoi
<1>8. [GotValues(shift, limit) EXCEPT !["frames"] = v] = GotValues(shift, v)
  BY DEF GotValues, Valued
<1>9. Allowed("frames", v)
  BY DEF Allowed
<1> HIDE DEF v
<1>10. Got(SetValue(q, "frames", v), F, shift, v, args)
  BY <1>1, <1>6, <1>8, <1>9, ValueRead
<1> QED
  BY <1>4, <1>7, <1>10 DEF a, b, v

\* A word that no option waits for is kept behind the others.
LEMMA WordRead ==
  ASSUME NEW F, NEW shift, NEW limit, NEW args, NEW w, NEW p,
         Got(p, F, shift, limit, args)
  PROVE  Got(GetOpt(p, Bare(w)), F, shift, limit, Append(args, w))
<1> DEFINE a == Bare(w)
           new == Append(args, w)
           q == [p EXCEPT !["args"] = new]
<1>1. p.exit = "no" /\ p.need = "" /\ p.args = args /\ IsOptions(p)
      /\ "args" \in OptionMembers
  BY DEF Got, GotOrNeeds, OptionMembers
<1>2. a.opt = "" /\ a.word = w
  BY DEF Bare
<1> HIDE DEF a
<1>3. GetOpt(p, a) = q
  BY <1>1, <1>2 DEF GetOpt
<1> HIDE DEF new
<1>4. ChangedAt(q, p, "args", new)
  BY <1>1, OptionsChange
<1> HIDE DEF q
<1>5. Got(q, F, shift, limit, new)
  BY <1>4 DEF Got, GotOrNeeds, ChangedAt, OptionMembers
<1> QED
  BY <1>3, <1>5 DEF a, new

\* The parser gets from p to q over the arguments s, which are of A.
ReadsTo(A, p, s, q) ==
  /\ s \in Seq(A)
  /\ \E r : /\ r[0] = p /\ r[Len(s)] = q
            /\ \A k \in 1..Len(s) : r[k] = GetOpt(r[k - 1], s[k])

\* Over no argument the parser stays where it is.
LEMMA ReadNothing ==
  ASSUME NEW A, NEW p
  PROVE  ReadsTo(A, p, <<>>, p)
<1> DEFINE r == [k \in 0..0 |-> p]
<1>1. r[0] = p
  OBVIOUS
<1>2. Len(<<>>) = 0 /\ <<>> \in Seq(A)
  OBVIOUS
<1>3. \A k \in 1..0 : r[k] = GetOpt(r[k - 1], <<>>[k])
  OBVIOUS
<1> HIDE DEF r
<1> QED
  BY <1>1, <1>2, <1>3 DEF ReadsTo

\* Over one argument the parser takes one step.
LEMMA ReadOne ==
  ASSUME NEW A, NEW p, NEW a \in A
  PROVE  ReadsTo(A, p, <<a>>, GetOpt(p, a))
<1> DEFINE q == GetOpt(p, a)
           r == [k \in 0..1 |-> IF k = 0 THEN p ELSE q]
           s == <<a>>
<1>1. r[0] = p /\ r[1] = q
  OBVIOUS
<1>2. Len(s) = 1 /\ s \in Seq(A) /\ s[1] = a
  OBVIOUS
<1> HIDE DEF r, s
<1>3. \A k \in 1..1 : r[k] = GetOpt(r[k - 1], s[k])
  <2>1. r[1] = GetOpt(r[1 - 1], s[1])
    BY <1>1, <1>2 DEF q
  <2>2. \A k \in 1..1 : k = 1
    OBVIOUS
  <2> QED
    BY <2>1, <2>2
<1> HIDE DEF q
<1>4. ReadsTo(A, p, s, q)
  BY <1>1, <1>2, <1>3 DEF ReadsTo
<1> QED
  BY <1>4 DEF q, s

\* Over two lists of arguments it reads the one and then the other.
LEMMA ReadOn ==
  ASSUME NEW A, NEW p, NEW q, NEW u, NEW s, NEW t,
         ReadsTo(A, p, s, q), ReadsTo(A, q, t, u)
  PROVE  ReadsTo(A, p, s \o t, u)
<1> DEFINE m == Len(s)
           n == Len(t)
           st == s \o t
<1>1. /\ s \in Seq(A) /\ t \in Seq(A)
      /\ m \in Nat /\ n \in Nat
  BY DEF ReadsTo
<1>2. /\ st \in Seq(A) /\ Len(st) = m + n
      /\ \A i \in 1..(m + n) : st[i] = IF i <= m THEN s[i] ELSE t[i - m]
  BY <1>1, ConcatProperties
<1>3. PICK a : /\ a[0] = p /\ a[m] = q
               /\ \A k \in 1..m : a[k] = GetOpt(a[k - 1], s[k])
  BY DEF ReadsTo
<1>4. PICK b : /\ b[0] = q /\ b[n] = u
               /\ \A k \in 1..n : b[k] = GetOpt(b[k - 1], t[k])
  BY DEF ReadsTo
<1> DEFINE r == [k \in 0..(m + n) |-> IF k <= m THEN a[k] ELSE b[k - m]]
<1> HIDE DEF m, n, st
<1>5. r[0] = p
  BY <1>1, <1>3
<1>6. \A k \in 0..n : m + k \in 0..(m + n) /\ r[m + k] = b[k]
  <2>1. ASSUME NEW k \in 0..n
        PROVE  m + k \in 0..(m + n) /\ r[m + k] = b[k]
    <3>1. m + k \in 0..(m + n) /\ (m + k) - m = k
      BY <1>1
    <3>2. CASE k = 0
      <4>1. m + k = m /\ m <= m /\ b[k] = a[m]
        BY <1>1, <1>3, <1>4, <3>2
      <4> QED
        BY <3>1, <4>1
    <3>3. CASE k # 0
      <4>1. ~(m + k <= m)
        BY <1>1, <3>3
      <4> QED
        BY <3>1, <4>1
    <3> QED
      BY <3>2, <3>3
  <2> QED
    BY <2>1
<1>7. r[m + n] = u
  <2>1. n \in 0..n
    BY <1>1
  <2> HIDE DEF r
  <2> QED
    BY <1>4, <1>6, <2>1
<1>8. \A k \in 0..m : r[k] = a[k]
  BY <1>1
<1> HIDE DEF r
<1>9. \A k \in 1..(m + n) : r[k] = GetOpt(r[k - 1], st[k])
  <2>1. ASSUME NEW k \in 1..(m + n)
        PROVE  r[k] = GetOpt(r[k - 1], st[k])
    <3>1. CASE k <= m
      <4>1. k \in 1..m /\ k \in 0..m /\ k - 1 \in 0..m
        BY <1>1, <3>1
      <4>2. st[k] = s[k]
        BY <1>2, <3>1
      <4> QED
        BY <1>3, <1>8, <4>1, <4>2
    <3>2. CASE ~(k <= m)
      <4> DEFINE i == k - m
      <4>1. i \in 1..n /\ i \in 0..n /\ i - 1 \in 0..n
        BY <1>1, <3>2
      <4>2. st[k] = t[i]
        BY <1>2, <3>2
      <4>3. k = m + i /\ k - 1 = m + (i - 1)
        BY <1>1
      <4> HIDE DEF i
      <4>4. r[k] = b[i] /\ r[k - 1] = b[i - 1]
        BY <1>6, <4>1, <4>3
      <4> QED
        BY <1>4, <4>1, <4>2, <4>4
    <3> QED
      BY <3>1, <3>2
  <2> QED
    BY <2>1
<1>10. ReadsTo(A, p, st, u)
  BY <1>2, <1>5, <1>7, <1>9 DEF ReadsTo
<1> QED
  BY <1>10 DEF st

\* Where the parser gets over a command line is what the fold gives.
LEMMA ReadWhole ==
  ASSUME NEW A, NEW s, NEW q, ReadsTo(A, NoOptions, s, q)
  PROVE  FoldLeft(GetOpt, NoOptions, s) = q
<1> DEFINE n == Len(s)
<1>1. n \in Nat /\ DOMAIN s = 1..n
  BY DEF ReadsTo
<1>2. PICK a : /\ a[0] = NoOptions /\ a[n] = q
               /\ \A k \in 1..n : a[k] = GetOpt(a[k - 1], s[k])
  BY DEF ReadsTo
<1>3. PICK r : Reads(r, s, n) /\ FoldLeft(GetOpt, NoOptions, s) = r[n]
  <2> HIDE DEF n
  <2> QED
    BY <1>1, FoldReads
<1> HIDE DEF n
<1> DEFINE T == {k \in Nat : k <= n => r[k] = a[k]}
<1>4. 0 \in T
  BY <1>2, <1>3 DEF Reads
<1>5. ASSUME NEW k \in Nat, k \in T
      PROVE  k + 1 \in T
  <2>1. ASSUME k + 1 <= n
        PROVE  r[k + 1] = a[k + 1]
    <3> DEFINE j == k + 1
    <3>1. j \in 1..n /\ j - 1 = k /\ k <= n
      BY <1>1, <2>1
    <3>2. r[k] = a[k]
      BY <1>5, <3>1
    <3> HIDE DEF j, T
    <3>3. r[j] = GetOpt(r[j - 1], s[j]) /\ a[j] = GetOpt(a[j - 1], s[j])
      BY <1>2, <1>3, <3>1 DEF Reads
    <3>4. r[j] = a[j]
      BY <3>1, <3>2, <3>3
    <3> QED
      BY <3>4 DEF j
  <2> QED
    BY <2>1
<1>6. n \in T
  <2> HIDE DEF T
  <2> QED
    BY <1>1, <1>4, <1>5, SetInduction
<1>7. r[n] = a[n]
  BY <1>1, <1>6
<1> QED
  BY <1>2, <1>3, <1>7

\* The sequence q of length c has every member of S and no other.
EachOnce(q, c, S) ==
  /\ c \in Nat /\ q \in [1..c -> S] /\ \A x \in S : \E i \in 1..c : q[i] = x

\* SetToSeq puts every member of a finite set into its sequence.
LEMMA SetInSequence ==
  ASSUME NEW S, IsFiniteSet(S)
  PROVE  EachOnce(SetToSeq(S), Cardinality(S), S)
<1> DEFINE c == Cardinality(S)
           q == SetToSeq(S)
<1>1. c \in Nat /\ \E f \in [1..c -> S] : IsInjective(f)
  <2>1. c \in Nat /\ ExistsBijection(1..c, S)
    BY FS_CardinalityType
  <2> HIDE DEF c
  <2> QED
    BY <2>1 DEF ExistsBijection, Bijection, Injection
<1>2. q \in [1..c -> S] /\ IsInjective(q)
  BY <1>1 DEF SetToSeq
<1> HIDE DEF q
<1>3. q \in Injection(1..c, S)
  BY <1>2 DEF Injection
<1>4. Cardinality(1..c) = c
  <2>1. Cardinality(1..c) = IF 1 > c THEN 0 ELSE c - 1 + 1
    <3>1. 1 \in Int /\ c \in Int
      BY <1>1
    <3> HIDE DEF c
    <3> QED
      BY <3>1, FS_Interval
  <2> HIDE DEF c
  <2> QED
    BY <1>1, <2>1
<1>5. q \in Surjection(1..c, S)
  BY <1>3, <1>4, FS_Injection
<1> QED
  BY <1>1, <1>2, <1>5 DEF Surjection, EachOnce, q

\* A has the options for the formats.
FormatOptions(A) == \A f \in Formats : Opt(f) \in A

\* The options for a set of formats, in whatever order they are written, are
\* read as that set.
LEMMA FormatsRead ==
  ASSUME NEW A, NEW F, F \subseteq Formats, FormatOptions(A), NEW p,
         NEW shift, NEW limit, NEW args, NEW none, none = {},
         Got(p, none, shift, limit, args)
  PROVE  \E q : /\ ReadsTo(A, p, SetToSeq({Opt(f) : f \in F}), q)
                /\ Got(q, F, shift, limit, args)
<1> DEFINE S == {Opt(f) : f \in F}
           c == Cardinality(S)
           s == SetToSeq(S)
<1>1. IsFiniteSet(S)
  <2>1. IsFiniteSet(Formats)
    <3> DEFINE a == {"jp4"}
               b == a \cup {"jpeg"}
               d == b \cup {"dng"}
               e == d \cup {"pgm"}
    <3>1. IsFiniteSet(a)
      BY FS_Singleton
    <3> HIDE DEF a
    <3>2. IsFiniteSet(b)
      BY <3>1, FS_AddElement
    <3> HIDE DEF b
    <3>3. IsFiniteSet(d)
      BY <3>2, FS_AddElement
    <3> HIDE DEF d
    <3>4. IsFiniteSet(e)
      BY <3>3, FS_AddElement
    <3>5. Formats = e
      BY DEF Formats, a, b, d
    <3> QED
      BY <3>4, <3>5
  <2>2. IsFiniteSet(F)
    BY <2>1, FS_Subset
  <2> DEFINE g == [x \in S |-> x.opt]
  <2>3. ASSUME NEW x \in S
        PROVE  x.opt \in F /\ x = Opt(x.opt)
    BY DEF Opt
  <2>4. g \in Injection(S, F)
    <3> HIDE DEF S
    <3>1. g \in [S -> F]
      BY <2>3
    <3>2. IsInjective(g)
      <4>1. ASSUME NEW x \in S, NEW y \in S, g[x] = g[y]
            PROVE  x = y
        BY <2>3, <4>1
      <4>2. DOMAIN g = S
        OBVIOUS
      <4> HIDE DEF g
      <4> QED
        BY <4>1, <4>2 DEF IsInjective
    <3> HIDE DEF g
    <3> QED
      BY <3>1, <3>2 DEF Injection
  <2> HIDE DEF S, g
  <2> QED
    BY <2>2, <2>4, FS_Injection
<1>2. EachOnce(s, c, S)
  <2> HIDE DEF S
  <2> QED
    BY <1>1, SetInSequence
<1> HIDE DEF c, s
<1>3. c \in Nat /\ DOMAIN s = 1..c
  BY <1>2 DEF EachOnce
<1>4. s \in Seq(A) /\ Len(s) = c
  <2>1. S \subseteq A
    BY DEF FormatOptions
  <2>2. s \in [1..c -> A]
    BY <1>2, <2>1 DEF EachOnce
  <2> HIDE DEF S
  <2> QED
    BY <1>3, <2>2
<1> DEFINE seen(k) == {f \in F : \E i \in 1..k : s[i] = Opt(f)}
           good(r, k) == /\ r[0] = p
                         /\ \A i \in 1..k : r[i] = GetOpt(r[i - 1], s[i])
                         /\ Got(r[k], seen(k), shift, limit, args)
           T == {k \in Nat : k <= c => \E r : good(r, k)}
<1>5. 0 \in T
  <2> DEFINE r == [k \in 0..0 |-> p]
  <2>1. seen(0) = {}
    OBVIOUS
  <2>2. r[0] = p
    OBVIOUS
  <2> HIDE DEF r, seen
  <2>3. good(r, 0)
    BY <2>1, <2>2
  <2> HIDE DEF good
  <2> QED
    BY <2>3
<1>6. ASSUME NEW k \in Nat, k \in T
      PROVE  k + 1 \in T
  <2>1. ASSUME k + 1 <= c
        PROVE  \E r : good(r, k + 1)
    <3> DEFINE j == k + 1
    <3>1. j \in 1..c /\ k <= c /\ j - 1 = k /\ j \in Nat /\ k \in 0..k
      BY <1>3, <2>1
    <3>2. PICK a : good(a, k)
      <4> HIDE DEF good
      <4> QED
        BY <1>6, <3>1
    <3>3. PICK f \in F : s[j] = Opt(f)
      <4>1. s[j] \in S
        BY <1>2, <3>1 DEF EachOnce
      <4> QED
        BY <4>1
    <3> DEFINE new == GetOpt(a[k], Opt(f))
               r == [i \in 0..j |-> IF i <= k THEN a[i] ELSE new]
    <3>4. seen(j) = seen(k) \cup {f}
      <4>1. ASSUME NEW g \in F
            PROVE  (\E i \in 1..j : s[i] = Opt(g))
                     <=> (\E i \in 1..k : s[i] = Opt(g)) \/ g = f
        <5>1. Opt(g) = Opt(f) <=> g = f
          BY DEF Opt
        <5>2. \A i : i \in 1..j <=> i \in 1..k \/ i = j
          BY <3>1
        <5> HIDE DEF j
        <5> QED
          BY <3>3, <5>1, <5>2
      <4> QED
        BY <4>1
    <3>5. Got(new, seen(j), shift, limit, args)
      <4>1. Got(a[k], seen(k), shift, limit, args)
        BY <3>2
      <4> HIDE DEF seen
      <4>2. Got(new, seen(k) \cup {f}, shift, limit, args)
        BY <4>1, FormatRead
      <4> QED
        BY <3>4, <4>2
    <3>6. \A i \in 0..k : r[i] = a[i]
      BY <3>1
    <3>7. r[j] = new
      BY <3>1
    <3> HIDE DEF r, new, seen
    <3>8. good(r, j)
      <4>1. r[0] = p
        <5>1. 0 \in 0..k
          OBVIOUS
        <5> QED
          BY <3>2, <3>6, <5>1
      <4>2. ASSUME NEW i \in 1..j
            PROVE  r[i] = GetOpt(r[i - 1], s[i])
        <5>1. CASE i = j
          <6>1. r[i] = GetOpt(a[k], s[i])
            BY <3>3, <3>7, <5>1 DEF new
          <6>2. r[i - 1] = a[k]
            BY <3>1, <3>6, <5>1
          <6> QED
            BY <6>1, <6>2
        <5>2. CASE i # j
          <6>1. i \in 1..k /\ i \in 0..k /\ i - 1 \in 0..k
            BY <3>1, <5>2
          <6> QED
            BY <3>2, <3>6, <6>1
        <5> QED
          BY <5>1, <5>2
      <4> HIDE DEF j
      <4> QED
        BY <3>5, <3>7, <4>1, <4>2
    <3> HIDE DEF good
    <3> QED
      BY <3>8
  <2> HIDE DEF good
  <2> QED
    BY <2>1
<1>7. c \in T
  <2> HIDE DEF T
  <2> QED
    BY <1>3, <1>5, <1>6, SetInduction
<1>8. PICK r : good(r, c)
  <2> HIDE DEF good
  <2> QED
    BY <1>3, <1>7
<1>9. seen(c) = F
  <2>1. ASSUME NEW f \in F
        PROVE  \E i \in 1..c : s[i] = Opt(f)
    <3>1. Opt(f) \in S
      OBVIOUS
    <3> HIDE DEF S
    <3> QED
      BY <1>2, <3>1 DEF EachOnce
  <2> QED
    BY <2>1
<1> HIDE DEF seen
<1>10. ReadsTo(A, p, s, r[c]) /\ Got(r[c], F, shift, limit, args)
  <2>1. /\ r[0] = p /\ Got(r[c], F, shift, limit, args)
        /\ \A i \in 1..c : r[i] = GetOpt(r[i - 1], s[i])
    BY <1>8, <1>9
  <2> HIDE DEF good
  <2>2. r[Len(s)] = r[c]
    BY <1>4
  <2> QED
    BY <1>4, <2>1, <2>2 DEF ReadsTo
<1> QED
  BY <1>10 DEF s

\* All that UpdateCommand may write, for the words it uses.
CommandArguments(field, src, dest) ==
  {Opt(o) : o \in Formats \cup {"gui", "frames"}}
  \cup {OptIs("shift", Word(<<"n">>, n, FALSE, FALSE, 0)) : n \in 0..3}
  \cup {Bare(w) : w \in {field, src, dest}}

\* The part of the command for the Bayer shift is read as the shift shown; the
\* part is empty for "autodetect", which is movie2dng's default.
LEMMA ShiftPart ==
  ASSUME NEW A, NEW F, NEW limit, NEW args, NEW p, NEW v \in -1..3,
         \A n \in 0..3 : OptIs("shift", Word(<<"n">>, n, FALSE, FALSE, 0)) \in A,
         NEW none, none = -1, Got(p, F, none, limit, args)
  PROVE  \E q : /\ ReadsTo(A, p,
                     IF v = -1 THEN <<>>
                     ELSE <<OptIs("shift", Word(<<"n">>, v, FALSE, FALSE, 0))>>,
                     q)
                /\ Got(q, F, v, limit, args)
<1>1. CASE v = -1
  <2>1. ReadsTo(A, p, <<>>, p)
    BY ReadNothing
  <2>2. Got(p, F, v, limit, args)
    BY <1>1
  <2> QED
    BY <1>1, <2>1, <2>2
<1>2. CASE v # -1
  <2> DEFINE a == OptIs("shift", Word(<<"n">>, v, FALSE, FALSE, 0))
             q == GetOpt(p, a)
  <2>1. v \in 0..3
    BY <1>2
  <2>2. a \in A
    BY <2>1
  <2>3. Got(q, F, v, limit, args)
    BY <2>1, ShiftRead
  <2> HIDE DEF a
  <2>4. ReadsTo(A, p, <<a>>, q)
    BY <2>2, ReadOne
  <2> HIDE DEF q
  <2>5. \E r : ReadsTo(A, p, <<a>>, r) /\ Got(r, F, v, limit, args)
    BY <2>3, <2>4
  <2> QED
    BY <1>2, <2>5 DEF a
<1> QED
  BY <1>1, <1>2

\* Over two arguments the parser takes two steps.
LEMMA TwoRead ==
  ASSUME NEW A, NEW p, NEW a \in A, NEW b \in A
  PROVE  ReadsTo(A, p, <<a>> \o <<b>>, GetOpt(GetOpt(p, a), b))
<1> DEFINE q == GetOpt(p, a)
           u == GetOpt(q, b)
<1>1. ReadsTo(A, p, <<a>>, q)
  BY ReadOne
<1> HIDE DEF q
<1>2. ReadsTo(A, q, <<b>>, u)
  BY ReadOne
<1> HIDE DEF u
<1>3. ReadsTo(A, p, <<a>> \o <<b>>, u)
  BY <1>1, <1>2, ReadOn
<1> QED
  BY <1>3 DEF q, u

\* The part of the command for the frame limit is read as the limit shown.
LEMMA LimitPart ==
  ASSUME NEW A, NEW F, NEW shift, NEW args, NEW p, NEW limited, NEW field,
         limited => field # NoWord, Opt("frames") \in A, Bare(field) \in A,
         NEW none, none = 0, Got(p, F, shift, none, args)
  PROVE  \E q : /\ ReadsTo(A, p,
                     IF ~limited THEN <<>>
                     ELSE <<Opt("frames")>> \o (IF field = NoWord THEN <<>>
                                                ELSE <<Bare(field)>>),
                     q)
                /\ Got(q, F, shift, IF limited THEN field.atoi ELSE 0, args)
<1>1. CASE ~limited
  <2>1. ReadsTo(A, p, <<>>, p)
    BY ReadNothing
  <2> DEFINE limit == IF limited THEN field.atoi ELSE 0
  <2>2. limit = none
    BY <1>1
  <2> HIDE DEF limit
  <2>3. Got(p, F, shift, limit, args)
    BY <2>2
  <2>4. \E q : ReadsTo(A, p, <<>>, q) /\ Got(q, F, shift, limit, args)
    BY <2>1, <2>3
  <2> QED
    BY <1>1, <2>4 DEF limit
<1>2. CASE limited
  <2> DEFINE a == Opt("frames")
             b == Bare(field)
             q == GetOpt(GetOpt(p, a), b)
             limit == IF limited THEN field.atoi ELSE 0
             v == field.atoi
  <2>1. Got(q, F, shift, v, args)
    BY LimitRead
  <2>2. a \in A /\ b \in A
    OBVIOUS
  <2> HIDE DEF a, b
  <2>3. ReadsTo(A, p, <<a>> \o <<b>>, q)
    BY <2>2, TwoRead
  <2>4. limit = v
    BY <1>2
  <2> HIDE DEF q, limit, v
  <2>5. \E r : ReadsTo(A, p, <<a>> \o <<b>>, r) /\ Got(r, F, shift, limit, args)
    BY <2>1, <2>3, <2>4
  <2>6. field # NoWord
    BY <1>2
  <2> QED
    BY <1>2, <2>5, <2>6 DEF a, b, limit
<1> QED
  BY <1>1, <1>2

\* One element, appended to a sequence of one.
LEMMA AppendToOne ==
  ASSUME NEW a, NEW b
  PROVE  Append(<<a>>, b) = <<a, b>>
<1> DEFINE T == {a, b}
           s == <<a>>
           t == Append(s, b)
           u == <<a, b>>
<1>1. s \in Seq(T) /\ Len(s) = 1 /\ s[1] = a /\ b \in T
  OBVIOUS
<1>2. u \in Seq(T) /\ Len(u) = 2 /\ u[1] = a /\ u[2] = b
  OBVIOUS
<1> HIDE DEF s, T, u
<1>3. /\ t \in Seq(T) /\ Len(t) = Len(s) + 1 /\ t[Len(s) + 1] = b
      /\ \A i \in 1..Len(s) : t[i] = s[i]
  BY <1>1
<1> HIDE DEF t
<1>4. Len(t) = 2 /\ t[1] = a /\ t[2] = b
  BY <1>1, <1>3
<1>5. \A i \in 1..2 : t[i] = u[i]
  <2>1. \A i \in 1..2 : i = 1 \/ i = 2
    OBVIOUS
  <2> QED
    BY <1>2, <1>4, <2>1
<1>6. t = u
  BY <1>2, <1>3, <1>4, <1>5, SeqEqual
<1> QED
  BY <1>6 DEF s, t, u

\* The part of the command for source and destination is read as those words.
LEMMA WordsPart ==
  ASSUME NEW A, NEW F, NEW shift, NEW limit, NEW p, NEW src, NEW dest,
         NEW none, none = <<>>, Bare(src) \in A, Bare(dest) \in A,
         Got(p, F, shift, limit, none)
  PROVE  \E q : /\ ReadsTo(A, p, <<Bare(src)>> \o <<Bare(dest)>>, q)
                /\ Got(q, F, shift, limit, <<src, dest>>)
<1> DEFINE a == Bare(src)
           b == Bare(dest)
           q == GetOpt(p, a)
           r == GetOpt(q, b)
           both == Append(Append(none, src), dest)
           one == Append(none, src)
<1>1. Got(q, F, shift, limit, one)
  BY WordRead
<1> HIDE DEF q, one
<1>2. Got(r, F, shift, limit, Append(one, dest))
  BY <1>1, WordRead
<1>3. a \in A /\ b \in A
  OBVIOUS
<1> HIDE DEF a, b
<1>4. ReadsTo(A, p, <<a>> \o <<b>>, r)
  BY <1>3, TwoRead DEF q
<1>5. Append(one, dest) = <<src, dest>>
  <2>1. Append(<<>>, src) = <<src>> /\ Append(<<src>>, dest) = <<src, dest>>
    BY AppendToOne
  <2>2. one = <<src>>
    BY <2>1 DEF one
  <2> QED
    BY <2>1, <2>2
<1> HIDE DEF r
<1> QED
  BY <1>2, <1>4, <1>5 DEF a, b

\* Settings that the window can show, with a number in the field where one is
\* asked for.
WindowShows(s) ==
  /\ s.formats \subseteq Formats /\ s.shift \in -1..3
  /\ s.limited => s.field # NoWord

\* The parser has read the settings s and these words.
SettingsRead(p, s, args) ==
  Got(p, s.formats, s.shift, IF s.limited THEN s.field.atoi ELSE 0, args)

\* movie2dng reads the command that UpdateCommand writes as the settings it was
\* written from, whatever the destination.
LEMMA CommandRead ==
  ASSUME NEW s, WindowShows(s), NEW src, src # NoSource, ~src.spaced,
         NEW custom
  PROVE  SettingsRead(FoldLeft(GetOpt, NoOptions, CommandFor(s, src, custom)),
                      s, <<PathWord(PathOf(src)),
                           PathWord(DestPath(s, src, custom))>>)
<1> DEFINE F == s.formats
           v == s.shift
           limited == s.limited
           field == s.field
           limit == IF limited THEN field.atoi ELSE 0
           from == PathWord(PathOf(src))
           to == PathWord(DestPath(s, src, custom))
           A == CommandArguments(field, from, to)
           gui == <<Opt("gui")>>
           formats == SetToSeq({Opt(f) : f \in F})
           shift == IF v = -1 THEN <<>>
                    ELSE <<OptIs("shift", Word(<<"n">>, v, FALSE, FALSE, 0))>>
           frames == IF ~limited THEN <<>>
                     ELSE <<Opt("frames")>> \o (IF field = NoWord THEN <<>>
                                                ELSE <<Bare(field)>>)
           words == <<Bare(from)>> \o <<Bare(to)>>
           c == gui \o formats \o shift \o frames \o words
           none == {}
           auto == -1
           zero == 0
           empty == <<>>
<1>1. CommandFor(s, src, custom) = c
  <2>1. Words(PathOf(src), src.spaced) = <<Bare(from)>>
    BY DEF Words
  <2>2. Words(DestPath(s, src, custom), src.spaced) = <<Bare(to)>>
    BY DEF Words
  <2> QED
    BY <2>1, <2>2 DEF CommandFor
<1>2. /\ F \subseteq Formats /\ v \in -1..3
      /\ limited => field # NoWord
  BY DEF WindowShows
<1>3. /\ FormatOptions(A) /\ Opt("gui") \in A /\ Opt("frames") \in A
      /\ Bare(field) \in A /\ Bare(from) \in A /\ Bare(to) \in A
      /\ \A n \in 0..3 : OptIs("shift", Word(<<"n">>, n, FALSE, FALSE, 0)) \in A
  <2> HIDE DEF from, to, field
  <2> QED
    BY DEF CommandArguments, FormatOptions
<1>4. none = {} /\ auto = -1 /\ zero = 0 /\ empty = <<>>
  OBVIOUS
<1> HIDE DEF F, v, limited, field, from, to, A, none, auto, zero, empty, c
<1>5. PICK p1 : /\ ReadsTo(A, NoOptions, gui, p1)
                /\ Got(p1, none, auto, zero, empty)
  <2> DEFINE a == Opt("gui")
             p == GetOpt(NoOptions, a)
  <2>1. Got(p, none, auto, zero, empty)
    BY GuiRead DEF none, auto, zero, empty
  <2>2. a \in A
    BY <1>3
  <2> HIDE DEF a
  <2>3. ReadsTo(A, NoOptions, <<a>>, p)
    BY <2>2, ReadOne
  <2> HIDE DEF p
  <2> QED
    BY <2>1, <2>3 DEF a
<1> HIDE DEF gui
<1>6. PICK p2 : ReadsTo(A, p1, formats, p2) /\ Got(p2, F, auto, zero, empty)
  BY <1>2, <1>3, <1>4, <1>5, FormatsRead
<1> HIDE DEF formats
<1>7. PICK p3 : ReadsTo(A, p2, shift, p3) /\ Got(p3, F, v, zero, empty)
  BY <1>2, <1>3, <1>4, <1>6, ShiftPart
<1> HIDE DEF shift
<1>8. PICK p4 : ReadsTo(A, p3, frames, p4) /\ Got(p4, F, v, limit, empty)
  BY <1>2, <1>3, <1>4, <1>7, LimitPart
<1> HIDE DEF frames, limit
<1>9. PICK p5 : /\ ReadsTo(A, p4, words, p5)
                /\ Got(p5, F, v, limit, <<from, to>>)
  BY <1>3, <1>4, <1>8, WordsPart
<1> HIDE DEF words
<1>10. ReadsTo(A, NoOptions, c, p5)
  <2>1. ReadsTo(A, NoOptions, gui \o formats, p2)
    BY <1>5, <1>6, ReadOn
  <2>2. ReadsTo(A, NoOptions, gui \o formats \o shift, p3)
    BY <1>7, <2>1, ReadOn
  <2>3. ReadsTo(A, NoOptions, gui \o formats \o shift \o frames, p4)
    BY <1>8, <2>2, ReadOn
  <2> QED
    BY <1>9, <2>3, ReadOn DEF c
<1>11. FoldLeft(GetOpt, NoOptions, c) = p5
  BY <1>10, ReadWhole
<1>12. SettingsRead(p5, s, <<from, to>>)
  BY <1>9 DEF SettingsRead, F, v, limited, field, limit
<1> QED
  BY <1>1, <1>11, <1>12 DEF from, to

\* The types of the settings.
SettingsTypes ==
  /\ settings = [formats |-> settings.formats, shift |-> settings.shift,
                 limited |-> settings.limited, field |-> settings.field,
                 dest |-> settings.dest]
  /\ settings.formats \subseteq Formats
  /\ settings.shift \in -1..3
  /\ settings.limited \in BOOLEAN

\* With a source that has an extension and a number in the field, the command
\* is the one of the settings as they are: whatever handler was last, it has
\* rebuilt the command or made one of these conditions false.
CommandUpToDate ==
  source # NoSource /\ source.ext /\ FieldFilled =>
    command = CommandFor(settings, source, DestinationCustomPath)

\* The inductive invariant of the window.
CommandInv == SettingsTypes /\ CommandUpToDate

\* It holds when the window opens: no source is chosen.
LEMMA CommandInvInit == SettingsInit => CommandInv
BY DEF SettingsInit, CommandInv, SettingsTypes, CommandUpToDate, Formats

\* A handler that changes the settings to s and rebuilds the command keeps the
\* invariant.
LEMMA ChangeKeeps ==
  ASSUME CommandInv, NEW s, Change(s),
         s = [formats |-> s.formats, shift |-> s.shift, limited |-> s.limited,
              field |-> s.field, dest |-> s.dest],
         s.formats \subseteq Formats, s.shift \in -1..3, s.limited \in BOOLEAN
  PROVE  CommandInv'
<1>1. SettingsTypes'
  BY DEF Change, SettingsTypes
<1>2. CommandUpToDate'
  BY DEF Change, UpdateCommand, CommandUpToDate
<1> QED
  BY <1>1, <1>2 DEF CommandInv

\* Every handler keeps it.
LEMMA CommandInvStep ==
  ASSUME CommandInv, [SettingsNext]_settingsVars
  PROVE  CommandInv'
<1>1. CASE SelectSource
  <2>1. PICK src \in Sources :
          /\ source' = src /\ DestinationCustomPath' = src.dir
          /\ UpdateCommand(settings, src, src.dir) /\ UNCHANGED settings
    BY <1>1 DEF SelectSource
  <2>2. SettingsTypes'
    BY <2>1 DEF SettingsTypes, CommandInv
  <2>3. CommandUpToDate'
    BY <2>1 DEF UpdateCommand, CommandUpToDate
  <2> QED
    BY <2>2, <2>3 DEF CommandInv
<1>2. CASE SelectDestination
  <2>1. /\ UNCHANGED <<settings, source>>
        /\ \/ UNCHANGED <<DestinationCustomPath, command>>
           \/ \E d \in Directories :
                /\ DestinationCustomPath' = Front(d)
                /\ UpdateCommand(settings, source, Front(d))
    BY <1>2 DEF SelectDestination
  <2>2. SettingsTypes'
    BY <2>1 DEF SettingsTypes, CommandInv
  <2>3. CommandUpToDate'
    <3>1. CASE UNCHANGED <<DestinationCustomPath, command>>
      BY <2>1, <3>1 DEF CommandUpToDate, CommandInv, FieldFilled
    <3>2. CASE \E d \in Directories :
                 /\ DestinationCustomPath' = Front(d)
                 /\ UpdateCommand(settings, source, Front(d))
      <4>1. PICK path : /\ DestinationCustomPath' = path
                        /\ UpdateCommand(settings, source, path)
        BY <3>2
      <4> QED
        BY <2>1, <4>1 DEF UpdateCommand, CommandUpToDate
    <3> QED
      BY <2>1, <3>1, <3>2
  <2> QED
    BY <2>2, <2>3 DEF CommandInv
<1>3. CASE ToggleFormat
  <2>1. PICK f \in Boxes :
          Change([settings EXCEPT
                    !.formats = IF f \in @ THEN @ \ {f} ELSE @ \cup {f}])
    BY <1>3 DEF ToggleFormat
  <2> DEFINE F == settings.formats
             s == [settings EXCEPT
                     !.formats = IF f \in @ THEN @ \ {f} ELSE @ \cup {f}]
             G == IF f \in F THEN F \ {f} ELSE F \cup {f}
  <2>2. s.formats = G /\ s.shift = settings.shift /\ s.limited = settings.limited
        /\ s = [formats |-> s.formats, shift |-> s.shift,
                limited |-> s.limited, field |-> s.field, dest |-> s.dest]
    BY DEF CommandInv, SettingsTypes
  <2>3. G \subseteq Formats /\ s.shift \in -1..3 /\ s.limited \in BOOLEAN
    BY <2>2, GUICommandAssumption DEF CommandInv, SettingsTypes
  <2> HIDE DEF s
  <2> QED
    BY <2>1, <2>2, <2>3, ChangeKeeps DEF s
<1>4. CASE ChooseDestination
  <2>1. PICK d : Change([settings EXCEPT !.dest = d])
    BY <1>4 DEF ChooseDestination
  <2> DEFINE s == [settings EXCEPT !.dest = d]
  <2>2. /\ s.formats = settings.formats /\ s.shift = settings.shift
        /\ s.limited = settings.limited
        /\ s = [formats |-> s.formats, shift |-> s.shift,
                limited |-> s.limited, field |-> s.field, dest |-> s.dest]
    BY DEF CommandInv, SettingsTypes
  <2>3. Change(s)
    BY <2>1
  <2> HIDE DEF s
  <2>4. /\ s.formats \subseteq Formats /\ s.shift \in -1..3
        /\ s.limited \in BOOLEAN
    BY <2>2 DEF CommandInv, SettingsTypes
  <2> QED
    BY <2>2, <2>3, <2>4, ChangeKeeps
<1>5. CASE BayerShift
  <2>1. PICK n \in Shifts : Change([settings EXCEPT !.shift = n])
    BY <1>5 DEF BayerShift
  <2> DEFINE s == [settings EXCEPT !.shift = n]
  <2>2. /\ s.formats = settings.formats /\ s.shift = n
        /\ s.limited = settings.limited
        /\ s = [formats |-> s.formats, shift |-> s.shift,
                limited |-> s.limited, field |-> s.field, dest |-> s.dest]
    BY DEF CommandInv, SettingsTypes
  <2>3. Change(s)
    BY <2>1
  <2> HIDE DEF s
  <2>4. /\ s.formats \subseteq Formats /\ s.shift \in -1..3
        /\ s.limited \in BOOLEAN
    BY <2>2, GUICommandAssumption DEF CommandInv, SettingsTypes
  <2> QED
    BY <2>2, <2>3, <2>4, ChangeKeeps
<1>6. CASE FrameLimiter
  <2>1. PICK b \in BOOLEAN : Change([settings EXCEPT !.limited = b])
    BY <1>6 DEF FrameLimiter
  <2> DEFINE s == [settings EXCEPT !.limited = b]
  <2>2. /\ s.formats = settings.formats /\ s.shift = settings.shift
        /\ s.limited = b
        /\ s = [formats |-> s.formats, shift |-> s.shift,
                limited |-> s.limited, field |-> s.field, dest |-> s.dest]
    BY DEF CommandInv, SettingsTypes
  <2>3. Change(s)
    BY <2>1
  <2> HIDE DEF s
  <2>4. /\ s.formats \subseteq Formats /\ s.shift \in -1..3
        /\ s.limited \in BOOLEAN
    BY <2>2 DEF CommandInv, SettingsTypes
  <2> QED
    BY <2>2, <2>3, <2>4, ChangeKeeps
<1>7. CASE EditField
  <2>1. PICK text \in FieldTexts :
          IF text = NoWord
          THEN /\ settings' = [settings EXCEPT !.field = text]
               /\ UNCHANGED <<source, DestinationCustomPath, fc, command>>
          ELSE Change([settings EXCEPT !.field = text])
    BY <1>7 DEF EditField
  <2> DEFINE s == [settings EXCEPT !.field = text]
  <2>2. /\ s.formats = settings.formats /\ s.shift = settings.shift
        /\ s.limited = settings.limited /\ s.field = text
        /\ s = [formats |-> s.formats, shift |-> s.shift,
                limited |-> s.limited, field |-> s.field, dest |-> s.dest]
    BY DEF CommandInv, SettingsTypes
  <2>3. /\ s.formats \subseteq Formats /\ s.shift \in -1..3
        /\ s.limited \in BOOLEAN
    BY <2>2 DEF CommandInv, SettingsTypes
  <2>4. CASE text = NoWord
    <3>1. settings' = s /\ settings.limited
      BY <1>7, <2>1, <2>4 DEF EditField
    <3> HIDE DEF s
    <3>2. SettingsTypes'
      BY <2>2, <2>3, <3>1 DEF SettingsTypes
    <3>3. ~FieldFilled'
      BY <2>2, <2>4, <3>1 DEF FieldFilled
    <3> QED
      BY <3>2, <3>3 DEF CommandInv, CommandUpToDate
  <2>5. CASE text # NoWord
    <3>1. Change(s)
      BY <2>1, <2>5
    <3> HIDE DEF s
    <3> QED
      BY <2>2, <2>3, <3>1, ChangeKeeps
  <2> QED
    BY <2>4, <2>5
<1>8. CASE UNCHANGED settingsVars
  BY <1>8 DEF settingsVars, CommandInv, SettingsTypes, CommandUpToDate, FieldFilled
<1> QED
  BY <1>1, <1>2, <1>3, <1>4, <1>5, <1>6, <1>7, <1>8 DEF SettingsNext

\* It always holds, for any sources, directories, numbers, boxes and shifts.
THEOREM CommandInvHolds == SettingsSpec => []CommandInv
BY CommandInvInit, CommandInvStep, PTL DEF SettingsSpec

\* A command that is up to date is read as the settings shown.
LEMMA ReadAsShown ==
  ASSUME CommandInv
  PROVE  CommandMeansSettings
<1> SUFFICES ASSUME source # NoSource, source.ext, ~source.spaced, FieldFilled
             PROVE  /\ Run.exit = IF settings.formats = {} THEN "usage" ELSE "no"
                    /\ Run.formats = settings.formats
                    /\ Run.values["shift"] = settings.shift
                    /\ Run.values["frames"] =
                         IF settings.limited THEN settings.field.atoi ELSE 0
                    /\ Run.args = <<PathWord(PathOf(source)),
                                    PathWord(DestPath(settings, source,
                                                      DestinationCustomPath))>>
  BY DEF CommandMeansSettings
<1> DEFINE p == FoldLeft(GetOpt, NoOptions, command)
           limit == IF settings.limited THEN settings.field.atoi ELSE 0
           words == <<PathWord(PathOf(source)),
                      PathWord(DestPath(settings, source,
                                        DestinationCustomPath))>>
<1>1. command = CommandFor(settings, source, DestinationCustomPath)
  BY DEF CommandInv, CommandUpToDate
<1>2. WindowShows(settings)
  BY DEF CommandInv, SettingsTypes, WindowShows, FieldFilled
<1>3. SettingsRead(p, settings, words)
  BY <1>1, <1>2, CommandRead
<1>4. words # <<>>
  OBVIOUS
<1> HIDE DEF p, words
<1>5. Got(p, settings.formats, settings.shift, limit, words)
  BY <1>3 DEF SettingsRead
<1> HIDE DEF limit
<1>6. Run = Complete(p)
  BY DEF Run, p
<1> DEFINE q == Exit(p, "usage")
           r == [p EXCEPT !["exit"] = "usage"]
<1>7. /\ q.exit = "usage" /\ q.formats = p.formats /\ q.args = p.args
      /\ q.values = p.values
  <2>1. IsOptions(p) /\ "exit" \in OptionMembers
    BY <1>5 DEF Got, GotOrNeeds, OptionMembers
  <2>2. ChangedAt(r, p, "exit", "usage")
    BY <2>1, OptionsChange
  <2>3. q = r
    BY DEF Exit
  <2> HIDE DEF q, r
  <2> QED
    BY <2>2, <2>3 DEF ChangedAt, OptionMembers
<1>8. /\ p.exit = "no" /\ p.need = "" /\ p.args = words
      /\ p.formats = settings.formats
      /\ p.values = GotValues(settings.shift, limit)
  BY <1>5 DEF Got, GotOrNeeds
<1>9. Run = IF settings.formats = {} THEN q ELSE p
  <2> HIDE DEF q
  <2>1. CASE settings.formats = {}
    <3>1. Complete(p) = Exit(p, "usage")
      BY <1>8, <2>1 DEF Complete
    <3> QED
      BY <1>6, <2>1, <3>1 DEF q
  <2>2. CASE settings.formats # {}
    <3>1. Complete(p) = p
      BY <1>4, <1>8, <2>2 DEF Complete
    <3> QED
      BY <1>6, <2>2, <3>1
  <2> QED
    BY <2>1, <2>2
<1>10. /\ GotValues(settings.shift, limit)["shift"] = settings.shift
       /\ GotValues(settings.shift, limit)["frames"] = limit
  BY DEF GotValues, Valued
<1> HIDE DEF q
<1>11. /\ Run.exit = IF settings.formats = {} THEN "usage" ELSE "no"
       /\ Run.formats = settings.formats /\ Run.args = words
       /\ Run.values = GotValues(settings.shift, limit)
  BY <1>7, <1>8, <1>9
<1> QED
  BY <1>10, <1>11 DEF words, limit

\* For every source with an extension and without a blank, every destination, and
\* every number in the field, which is not empty where it counts: after any
\* sequence of handlers movie2dng reads from the command exactly what the window
\* shows.
THEOREM ShownIsRun == SettingsSpec => []CommandMeansSettings
BY CommandInvHolds, ReadAsShown, PTL
=============================================================================

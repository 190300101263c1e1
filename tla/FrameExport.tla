---------------------------- MODULE FrameExport ----------------------------
(***************************************************************************)
(* What a user may rely on when movie2dng runs on an undamaged clip: the   *)
(* frames of the requested range become files one at a time and in order,  *)
(* the program says it is done only when all of them are there, and it     *)
(* never undoes a frame it has exported.  It may give up at any time.      *)
(***************************************************************************)
EXTENDS Integers

VARIABLES
  range,     \* [first, last] frame of the requested range
  exported,  \* the frames whose files are complete
  status     \* "running", "ok" or "stopped"

exportVars == <<range, exported, status>>

Requested == range.first..range.last

ExportInit ==
  /\ exported = {}
  /\ status = "running"

\* The next frame of the range, and no other, becomes available.
Export ==
  /\ status = "running"
  /\ \E k \in Requested \ exported :
       /\ \A j \in Requested \ exported : k <= j
       /\ exported' = exported \cup {k}
  /\ UNCHANGED <<range, status>>

Succeed ==
  /\ status = "running"
  /\ exported = Requested
  /\ status' = "ok"
  /\ UNCHANGED <<range, exported>>

GiveUp ==
  /\ status = "running"
  /\ status' = "stopped"
  /\ UNCHANGED <<range, exported>>

\* A new run, with a range of its own.
Again ==
  /\ status # "running"
  /\ status' = "running"
  /\ exported' = {}
  /\ range' \in [first : Int, last : Int]

ExportNext == Export \/ Succeed \/ GiveUp \/ Again

ExportSpec == ExportInit /\ [][ExportNext]_exportVars
=============================================================================

------------------------------ MODULE JP4Object ------------------------------
(***************************************************************************)
(* The JP4 objects of src/Movie2DNG/src/jp4.cpp as main()'s loop uses      *)
(* them: one object per frame, each in the stack slot of the one before.   *)
(* The constructor initialises no member and the destructor clears none,   *)
(* so a frame that does not set a member works with what the last frame    *)
(* left there: pointers into the heap, which lets its blocks be reused,    *)
(* and fields of the maker note.                                           *)
(***************************************************************************)
EXTENDS Integers

CONSTANTS
  MaxObjects,  \* bound on the frames converted
  Blocks,      \* the blocks of the heap
  WordCounts,  \* lengths, in words, of the maker notes met
  Null, Wild   \* the null pointer, and one that points to no block

NoEntry == -1  \* "length" of a maker note that is not there

ASSUME JP4ObjectAssumption ==
  /\ MaxObjects \in Nat
  /\ WordCounts \subseteq Nat \cup {NoEntry}
  /\ Null \notin Blocks /\ Wild \notin Blocks /\ Null # Wild

Pointers == {"data", "raw_app1", "ed"}
Groups == {"gain", "flips", "composite"}  \* fields guarded by the same length
Kinds == [app1 : BOOLEAN, words : WordCounts]

VARIABLES
  objectPc,
  frame,    \* number of the frame whose object lives
  kind,     \* what that frame's file holds: APP1 data, with which maker note
  obj,      \* the pointers among the members
  note,     \* the frame each group of _makerNote was decoded from; 0: none
  heap,     \* heap[b]: is b allocated, for which member, from which file
  faulted,  \* history: memory was used that was not the object's own
  regular   \* history: all files had APP1 data and no note under 8 words

objectVars == <<objectPc, frame, kind, obj, note, heap, faulted, regular>>

Writing == {"dng", "jpeg"}
Live == {b \in Blocks : heap[b].live}
Unused == [live |-> FALSE, for |-> "ed", frame |-> 0, words |-> NoEntry]

\* What lies in the slot before the first frame is arbitrary.
ObjectFresh ==
  /\ objectPc = "construct"
  /\ frame = 0
  /\ kind = [app1 |-> FALSE, words |-> NoEntry]
  /\ note = [g \in Groups |-> 0]
  /\ heap = [b \in Blocks |-> Unused]
  /\ faulted = FALSE
  /\ regular = TRUE

ObjectInit == obj \in [Pointers -> {Null, Wild}] /\ ObjectFresh

Goto(label) == objectPc' = label

\* new: any free block, freed ones included.
New(p, from, words) ==
  \E b \in Blocks \ Live :
    /\ obj' = [obj EXCEPT ![p] = b]
    /\ heap' = [heap EXCEPT ![b] =
                  [live |-> TRUE, for |-> p, frame |-> from, words |-> words]]

\* A use of *p: right when p points to a live block of its own.  A stale
\* pointer still reads what is in the block; without a block the process dies.
Own(p) == obj[p] \in Live /\ heap[obj[p]].for = p
Use(p, next) ==
  /\ faulted' = (faulted \/ ~Own(p))
  /\ Goto(IF obj[p] \in Blocks THEN next ELSE "crashed")

-----------------------------------------------------------------------------
(* JP4() and open(). *)

Construct ==
  /\ objectPc = "construct"
  /\ frame < MaxObjects
  /\ frame' = frame + 1
  /\ kind' \in Kinds
  /\ regular' = (regular /\ kind'.app1 /\ kind'.words \notin 0..7)
  /\ Goto("app1")
  /\ UNCHANGED <<obj, note, heap, faulted>>

\* Mutant: a buffer the object seems to have already is used again.
SaveApp1InPlace ==
  IF kind.app1 /\ obj["raw_app1"] \in {Null, Wild}
  THEN New("raw_app1", frame, kind.words)
  ELSE UNCHANGED <<obj, heap>>

\* "save raw APP1 data (if any)"
SaveApp1 ==
  IF kind.app1 THEN New("raw_app1", frame, kind.words)
               ELSE UNCHANGED <<obj, heap>>

\* libjpeg's error handler ends the process on a file without a header.
ReadHeader ==
  /\ objectPc = "app1"
  /\ \/ SaveApp1 /\ Goto("data")
     \/ UNCHANGED <<obj, heap>> /\ Goto("exit")
  /\ UNCHANGED <<frame, kind, note, faulted, regular>>

AllocateData ==
  /\ objectPc = "data"
  /\ New("data", frame, NoEntry)
  /\ Goto("exif")
  /\ UNCHANGED <<frame, kind, note, faulted, regular>>

\* exif_data_new_from_data: libexif returns an object whatever it parses.
LoadExif ==
  /\ objectPc = "exif"
  /\ IF obj["raw_app1"] = Null
     THEN Goto("note") /\ UNCHANGED <<obj, heap, faulted>>
     ELSE /\ Use("raw_app1", "note")
          /\ IF obj["raw_app1"] \in Blocks
             THEN LET source == heap[obj["raw_app1"]]
                  IN  New("ed", source.frame, source.words)
             ELSE UNCHANGED <<obj, heap>>
  /\ UNCHANGED <<frame, kind, note, regular>>

\* Mutant: one word more is asked for than is read.
DecodedTooLate(words) ==
  {"gain"} \cup (IF words > 12 THEN {"flips"} ELSE {})
           \cup (IF words > 14 THEN {"composite"} ELSE {})

\* The groups of fields that a note of that length sets; without a note the
\* defaults replace those of the first group.
Decoded(words) ==
  {"gain"} \cup (IF words >= 12 THEN {"flips"} ELSE {})
           \cup (IF words >= 14 THEN {"composite"} ELSE {})

\* Eight words are read from the array on the stack, whatever its length.
ReadMakerNote ==
  /\ objectPc = "note"
  /\ IF obj["ed"] = Null
     THEN Goto("dng") /\ UNCHANGED <<note, faulted>>
     ELSE /\ Goto(IF obj["ed"] \in Blocks THEN "dng" ELSE "crashed")
          /\ IF obj["ed"] \in Blocks
             THEN LET exif == heap[obj["ed"]] IN
                    /\ faulted' = (faulted \/ ~Own("ed")
                                           \/ exif.words \in 0..7)
                    /\ note' = [g \in Groups |->
                                  IF g \in Decoded(exif.words)
                                  THEN exif.frame ELSE note[g]]
             ELSE faulted' = TRUE /\ UNCHANGED note
  /\ UNCHANGED <<frame, kind, obj, heap, regular>>

-----------------------------------------------------------------------------
(* The writers and the destructor. *)

\* The DNG writer takes the tags from _ed without a test for null.
WriteDNG ==
  /\ objectPc = "dng"
  /\ Use("ed", "jpeg") \/ (UNCHANGED faulted /\ Goto("jpeg"))  \* or no --dng
  /\ UNCHANGED <<frame, kind, obj, note, heap, regular>>

\* "write EXIF data (if any)"
WriteJPEG ==
  /\ objectPc = "jpeg"
  /\ IF obj["raw_app1"] = Null
     THEN UNCHANGED faulted /\ Goto("~data")
     ELSE Use("raw_app1", "~data")
  /\ UNCHANGED <<frame, kind, obj, note, heap, regular>>

\* delete[] of what is not allocated aborts the process.
Delete(p, at, next) ==
  /\ objectPc = at
  /\ IF obj[p] = Null
     THEN Goto(next) /\ UNCHANGED <<heap, faulted>>
     ELSE /\ faulted' = (faulted \/ ~Own(p))
          /\ IF obj[p] \in Live
             THEN heap' = [heap EXCEPT ![obj[p]].live = FALSE] /\ Goto(next)
             ELSE Goto("crashed") /\ UNCHANGED heap
  /\ UNCHANGED <<frame, kind, obj, note, regular>>

DeleteData == Delete("data", "~data", "~raw_app1")
DeleteApp1 == Delete("raw_app1", "~raw_app1", "construct")

ObjectNext == \/ Construct \/ ReadHeader \/ AllocateData \/ LoadExif
        \/ ReadMakerNote \/ WriteDNG \/ WriteJPEG \/ DeleteData \/ DeleteApp1

ObjectSpec == ObjectInit /\ [][ObjectNext]_objectVars

-----------------------------------------------------------------------------
(* Properties. *)

\* Over any sequence of frames with APP1 data, and whatever blocks the heap
\* hands out again, no object uses or frees memory that is not its own,
\* although each starts with the pointers of the last one.
OwnMemoryOnly == regular => ~faulted

\* The gains, the gamma and the black levels the writers use come from the
\* frame being written or are the defaults; the other fields do if its note
\* is of a length that holds them.
WordsFor == [gain |-> NoEntry, flips |-> 12, composite |-> 14]
NoteOfThisFrame ==
  regular /\ objectPc \in Writing =>
    \A g \in Groups : kind.words >= WordsFor[g] => note[g] = frame
=============================================================================

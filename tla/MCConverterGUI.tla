--------------------------- MODULE MCConverterGUI ---------------------------
(* ConverterGUI for TLC: two conversions, the second of which may start      *)
(* beside what is left of the first.  The .cfg files give every constant its *)
(* value.                                                                    *)
EXTENDS ConverterGUI
=============================================================================

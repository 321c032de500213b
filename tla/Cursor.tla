------------------------------- MODULE Cursor -------------------------------
(***************************************************************************)
(* An open FileReader as its callers see it: the lines of the file that    *)
(* are neither empty nor a comment, and a place that only moves forward.   *)
(* A line is a section line with a name, a data line with the fields its   *)
(* reader takes from it, or neither (a section line without its bracket).  *)
(***************************************************************************)
EXTENDS Naturals, Sequences

VARIABLES
  file,   \* the lines of the file that is open
  at      \* the number of the current line, one more than there are at the end

cursorVars == <<file, at>>

\* The line [CUBES] has the name <<"CUBES">>, [DIMENSION 3] <<"DIMENSION", 3>>.
Section(name) == [kind |-> "section", name |-> name]

\* At the end of the file the line is neither a section nor data.
Line == IF at \in DOMAIN file THEN file[at] ELSE [kind |-> "end"]

IsSectionLine == Line.kind = "section"
IsDataLine == Line.kind = "data"
IsEndOfFile == Line.kind = "end"
InSection(name) == Line = Section(name)

OpenFile(lines) == file' = lines /\ at' = 1

NextLine == at' = (IF IsEndOfFile THEN at ELSE at + 1) /\ UNCHANGED file

=============================================================================

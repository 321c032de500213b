----------------------------- MODULE CubeLoading -----------------------------
(***************************************************************************)
(* Cube::loadCube: a temporary file left over takes the place of the file  *)
(* of the cube, the table of the cells is sized for the lines of the file, *)
(* then the sections CUBE and NUMERIC are read line by line.  Exceptions   *)
(* are caught nowhere on the way: they end the program.                    *)
(*                                                                         *)
(* The table is Google's dense_hash_map, which is not part of the program: *)
(* its number of buckets is a power of two, and with the load factor of    *)
(* the cube it grows when an element would not find a bucket any more.  A  *)
(* search for a key that is not there ends at a free bucket only.          *)
(***************************************************************************)
EXTENDS Cursor, FiniteSets

CONSTANTS
  NoElement,      \* a place in the list of elements that holds none
  BucketNumbers,  \* the numbers of buckets a table can have: powers of two, up to a bound
  StartBuckets    \* buckets of a table nothing is known about (32)

ASSUME BucketsAssumption == BucketNumbers \subseteq Nat \ {0} /\ StartBuckets \in BucketNumbers

VARIABLES
  pc,         \* what is being read
  disk,       \* disk[cube][extension]: the files of the cubes there are, each
              \* with its lines and the number of its newlines
  elements,   \* elements[dimension][id]: the type of an element, or NoElement
  cube,       \* the dimensions of the cube being loaded, and its identifier
  sizes,      \* the sizes the file says the dimensions have
  cells,      \* the values of the cells loaded, by path
  buckets     \* the buckets of the table that holds them

cubeVars == <<disk, cube, sizes, cells, buckets>>

Done == pc \in {"loaded", "aborted"}

-----------------------------------------------------------------------------
(* The hash table. *)

BucketsAbove(n) == {b \in BucketNumbers : b > n}
FewestAbove(n) == CHOOSE b \in BucketsAbove(n) : \A c \in BucketsAbove(n) : b =< c

\* Mutant: the table is left to grow by itself.
ReservedLater(n) == buckets

\* resize before the first element: what is there may do.
Reserved(n) == IF n =< buckets THEN buckets ELSE FewestAbove(n)

Filled == DOMAIN cells

SetValue(path, value) ==
  /\ cells' = [p \in Filled \cup {path} |-> IF p = path THEN value ELSE cells[p]]
  /\ buckets' = IF path \notin Filled /\ Cardinality(Filled) + 1 > buckets
                THEN FewestAbove(Cardinality(Filled) + 1) ELSE buckets

\* resize(0): the elements are copied to a smaller table, if at all.
Shrink == \E b \in BucketsAbove(Cardinality(Filled)) : b =< buckets /\ buckets' = b

-----------------------------------------------------------------------------
(* The file. *)

Abort == pc' = "aborted" /\ UNCHANGED <<cursorVars, elements, cubeVars>>

\* None, when nothing is known of the cube.
FilesOf(id) == IF id \in DOMAIN disk THEN disk[id] ELSE << >>

\* With neither file there, the file that could not be opened is closed, which
\* is undefined; if the program survives it, opening fails with an exception.
FileMissing ==
  /\ pc = "load" /\ DOMAIN FilesOf(cube.id) = {}
  /\ Abort

OpenCube ==
  LET found == FilesOf(cube.id)
      csv == IF "csv" \in DOMAIN found THEN found["csv"] ELSE found["tmp"]
  IN /\ pc = "load" /\ DOMAIN found # {}
     /\ disk' = [disk EXCEPT ![cube.id] =
                   IF "csv" \in DOMAIN found THEN found ELSE [ext \in {"csv"} |-> csv]]
     /\ OpenFile(csv.lines)
     /\ buckets' = Reserved(csv.newlines)
     /\ pc' = "overview"
     /\ UNCHANGED <<elements, cube, sizes, cells>>

CubeSection ==
  /\ pc = "overview"
  /\ \/ ~InSection(<<"CUBE">>) /\ Abort
     \/ /\ InSection(<<"CUBE">>)
        /\ NextLine /\ pc' = "sizes"
        /\ UNCHANGED <<elements, cubeVars>>

\* The last line of the section counts.
SizesLine ==
  /\ pc = "sizes" /\ IsDataLine
  /\ sizes' = Line.sizes
  /\ NextLine
  /\ UNCHANGED <<pc, disk, elements, cube, cells, buckets>>

EndSizes ==
  /\ pc = "sizes" /\ ~IsDataLine
  /\ \/ /\ Len(sizes) # Len(cube.dims) \/ (IsSectionLine /\ ~InSection(<<"NUMERIC">>))
        /\ Abort
     \/ /\ Len(sizes) = Len(cube.dims) /\ InSection(<<"NUMERIC">>)
        /\ NextLine /\ pc' = "cells"
        /\ UNCHANGED <<elements, cubeVars>>
     \/ /\ Len(sizes) = Len(cube.dims) /\ ~IsSectionLine
        /\ pc' = "loaded"
        /\ UNCHANGED <<cursorVars, elements, cubeVars>>

-----------------------------------------------------------------------------
(* The cells. *)

LookupElement(d, id) == IF id \in DOMAIN elements[d] THEN elements[d][id] ELSE NoElement

\* Mutant: an element that is not there does not count as a failure.
NotConsolidated(path) == \A i \in DOMAIN path : LookupElement(cube.dims[i], path[i]) # "consolidated"

\* The path of a line is that of a base cell.
IsBaseCell(path) ==
  \A i \in DOMAIN path : LookupElement(cube.dims[i], path[i]) \notin {NoElement, "consolidated"}

CellLine ==
  /\ pc = "cells" /\ IsDataLine
  /\ \/ Len(Line.path) # Len(cube.dims) /\ Abort
     \/ /\ Len(Line.path) = Len(cube.dims)
        /\ IF IsBaseCell(Line.path) THEN SetValue(Line.path, Line.value)
                                    ELSE UNCHANGED <<cells, buckets>>
        /\ NextLine
        /\ UNCHANGED <<pc, disk, elements, cube, sizes>>

EndCells ==
  /\ pc = "cells" /\ ~IsDataLine
  /\ Shrink
  /\ pc' = "loaded"
  /\ UNCHANGED <<cursorVars, elements, disk, cube, sizes, cells>>

LoadCube ==
  \/ FileMissing \/ OpenCube \/ CubeSection \/ SizesLine \/ EndSizes \/ CellLine \/ EndCells

-----------------------------------------------------------------------------
(* Properties. *)

\* The table never fills up, so that a search for a cell without a value comes to
\* an end (DoubleStorage allows a load factor of 1): the lines the file is counted
\* to have exceed its cells by those of the sections before them.
FreeBucket == Cardinality(Filled) < buckets

=============================================================================

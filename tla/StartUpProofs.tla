--------------------------- MODULE StartUpProofs ----------------------------
(***************************************************************************)
(* Theorems about StartUp, for every database, every file of a cube and    *)
(* all numbers of buckets a table may have.                                *)
(***************************************************************************)
EXTENDS StartUp, SharedLemmas

-----------------------------------------------------------------------------
(* The table of the cells. *)

\* Of the file of a cube, the lines before the cells are at least two, and each
\* cell has a line of its own: so the newlines are more than the cells.
Tabled ==
  /\ pc \notin {"cells", "loaded", "aborted"} => Filled = {}
  /\ IsFiniteSet(Filled) /\ buckets \in BucketNumbers
  /\ pc \in {"overview", "sizes", "cells"} =>
       /\ Len(file) \in Nat /\ DOMAIN file = 1..Len(file) /\ at \in 1..(Len(file) + 1)
       /\ Len(file) =< buckets + 1
  /\ pc = "sizes" => at >= 2
  /\ pc = "cells" => at >= 3 /\ Cardinality(Filled) =< at - 3

\* The files on the disk are countable, whichever of them has been renamed.
FilesOK ==
  \A c \in DOMAIN disk :
    /\ DOMAIN disk[c] \subseteq {"csv", "tmp"}
    /\ \A ext \in DOMAIN disk[c] : Countable(disk[c][ext])

\* The inductive invariant.
BucketIInv == FilesOK /\ Tabled /\ FreeBucket

\* What a readable file is for the provers.
LEMMA ReadableIs ==
  ASSUME NEW lines, Readable(lines)
  PROVE  /\ Len(lines) \in Nat /\ DOMAIN lines = 1..Len(lines) /\ lines \in Seq(Range(lines))
         /\ \A i \in 1..Len(lines) : lines[i] \in Range(lines)
<1>1. lines \in Seq(Range(lines))
  BY DEF Readable
<1>2. PICK S : S = Range(lines)
  OBVIOUS
<1>3. /\ Len(lines) \in Nat /\ DOMAIN lines = 1..Len(lines)
      /\ \A i \in 1..Len(lines) : lines[i] \in S
  BY <1>1, <1>2
<1>4. QED
  BY <1>1, <1>2, <1>3

\* The table can be made large enough.
LEMMA FewestAboveIs ==
  ASSUME NEW n, BucketsAbove(n) # {}
  PROVE  FewestAbove(n) \in BucketNumbers /\ FewestAbove(n) > n
<1>1. BucketsAbove(n) \subseteq Nat
  BY BucketsAssumption DEF BucketsAbove
<1>2. \E b \in BucketsAbove(n) : \A c \in BucketsAbove(n) : b =< c
  BY <1>1, MinExists
<1>3. FewestAbove(n) \in BucketsAbove(n)
  BY <1>2 DEF FewestAbove
<1>4. QED
  BY <1>3 DEF BucketsAbove

\* What is reserved is enough.
LEMMA ReservedIs ==
  ASSUME NEW n \in Nat, BucketsAbove(n) # {}, buckets \in BucketNumbers
  PROVE  Reserved(n) \in BucketNumbers /\ n =< Reserved(n)
<1>1. buckets \in Nat /\ FewestAbove(n) \in Nat
  BY FewestAboveIs, BucketsAssumption
<1>2. QED
  BY <1>1, FewestAboveIs DEF Reserved

\* The initial states satisfy the invariant.
LEMMA BucketsInit == Init => BucketIInv
<1> SUFFICES ASSUME Init PROVE BucketIInv
  OBVIOUS
<1>1. FilesOK
  <2>1. PICK s \in Situations : disk = s.disk
    BY DEF Init
  <2>2. QED
    BY <2>1, SituationsAssumption DEF FilesOK
<1>2. Filled = {} /\ pc = "database" /\ buckets \in BucketNumbers /\ buckets \in Nat \ {0}
  BY BucketsAssumption DEF Init, Filled
<1>3. IsFiniteSet(Filled) /\ Cardinality(Filled) = 0
  BY <1>2, FS_EmptySet
<1>4. QED
  BY <1>1, <1>2, <1>3 DEF BucketIInv, Tabled, FreeBucket

\* What lies before the cube is loaded, or ends the program, does not touch its table.
LEMMA ElsewhereKeeps ==
  ASSUME BucketIInv, pc \notin {"cells", "loaded", "aborted"},
         pc' \notin {"overview", "sizes", "cells"}, UNCHANGED <<disk, cells, buckets>>
  PROVE  BucketIInv'
<1>1. Filled' = Filled /\ Filled = {} /\ FilesOK' /\ FreeBucket'
  BY DEF BucketIInv, Tabled, FilesOK, FreeBucket, Filled
<1>2. QED
  BY <1>1 DEF BucketIInv, Tabled

\* A line that is a section is one of the file.
LEMMA AtLine ==
  ASSUME DOMAIN file = 1..Len(file), Len(file) \in Nat, at \in 1..(Len(file) + 1), NextLine,
         Line.kind # "end"
  PROVE  file' = file /\ at \in 1..Len(file) /\ at' = at + 1
<1>1. at \in DOMAIN file
  BY DEF Line
<1>2. QED
  BY <1>1 DEF NextLine, IsEndOfFile

\* At the end of a file there is no section.
LEMMA SectionIsLine ==
  ASSUME NEW name, InSection(name)
  PROVE  Line.kind # "end"
BY DEF InSection, Section

\* Each step of loadCube keeps the invariant.
LEMMA FileMissingStep ==
  ASSUME BucketIInv, FileMissing
  PROVE  BucketIInv'
BY ElsewhereKeeps DEF FileMissing, Abort, cubeVars

LEMMA OpenCubeStep ==
  ASSUME BucketIInv, OpenCube
  PROVE  BucketIInv'
<1> DEFINE found == FilesOf(cube.id)
           csv == IF "csv" \in DOMAIN found THEN found["csv"] ELSE found["tmp"]
<1>1. /\ pc = "load" /\ DOMAIN found # {}
      /\ disk' = [disk EXCEPT ![cube.id] =
                    IF "csv" \in DOMAIN found THEN found ELSE [ext \in {"csv"} |-> csv]]
      /\ file' = csv.lines /\ at' = 1 /\ buckets' = Reserved(csv.newlines)
      /\ pc' = "overview" /\ cells' = cells
  BY Zenon DEF OpenCube, OpenFile
<1>2. cube.id \in DOMAIN disk /\ found = disk[cube.id]
  BY <1>1 DEF FilesOf
<1> HIDE DEF found
<1>3. DOMAIN found \subseteq {"csv", "tmp"} /\ \A ext \in DOMAIN found : Countable(found[ext])
  BY <1>2 DEF BucketIInv, FilesOK
<1>4. Countable(csv)
  BY <1>1, <1>3
<1> HIDE DEF csv
<1>5. /\ Len(csv.lines) \in Nat /\ DOMAIN csv.lines = 1..Len(csv.lines)
      /\ csv.newlines \in Nat /\ Len(csv.lines) =< csv.newlines + 1
      /\ BucketsAbove(csv.newlines) # {}
  BY <1>4, ReadableIs DEF Countable
<1>6. buckets' \in BucketNumbers /\ csv.newlines =< buckets' /\ buckets' \in Nat \ {0}
  BY <1>1, <1>5, ReservedIs, BucketsAssumption DEF BucketIInv, Tabled
<1>7. FilesOK'
  <2> DEFINE new == IF "csv" \in DOMAIN found THEN found ELSE [ext \in {"csv"} |-> csv]
  <2>1. DOMAIN new \subseteq {"csv", "tmp"} /\ \A ext \in DOMAIN new : Countable(new[ext])
    BY <1>3, <1>4
  <2>2. disk' = [disk EXCEPT ![cube.id] = new]
    BY <1>1
  <2> HIDE DEF new
  <2>3. \A c \in DOMAIN disk' : c \in DOMAIN disk /\ (disk'[c] = new \/ disk'[c] = disk[c])
    BY <2>2
  <2>4. ASSUME NEW c \in DOMAIN disk'
        PROVE  DOMAIN disk'[c] \subseteq {"csv", "tmp"} /\ \A ext \in DOMAIN disk'[c] : Countable(disk'[c][ext])
    BY <2>1, <2>3 DEF BucketIInv, FilesOK
  <2>5. QED
    BY <2>4 DEF FilesOK, Countable
<1>8. Filled' = {} /\ Cardinality(Filled') = 0 /\ IsFiniteSet(Filled')
  <2>1. Filled' = {}
    BY <1>1 DEF BucketIInv, Tabled, Filled
  <2>2. QED
    BY <2>1, FS_EmptySet
<1>9. Tabled'
  BY <1>1, <1>5, <1>6, <1>8 DEF Tabled
<1>10. FreeBucket'
  BY <1>6, <1>8 DEF FreeBucket
<1>11. QED
  BY <1>7, <1>9, <1>10 DEF BucketIInv

LEMMA CubeSectionStep ==
  ASSUME BucketIInv, CubeSection
  PROVE  BucketIInv'
<1>1. CASE Abort
  BY <1>1, ElsewhereKeeps DEF CubeSection, Abort, cubeVars
<1>2. CASE InSection(<<"CUBE">>) /\ NextLine /\ pc' = "sizes" /\ UNCHANGED <<elements, cubeVars>>
  <2>1. /\ Len(file) \in Nat /\ DOMAIN file = 1..Len(file) /\ at \in 1..(Len(file) + 1)
        /\ Len(file) =< buckets + 1 /\ Filled = {} /\ IsFiniteSet(Filled) /\ buckets \in BucketNumbers
    BY DEF CubeSection, BucketIInv, Tabled
  <2>2. file' = file /\ at \in 1..Len(file) /\ at' = at + 1
    BY <1>2, <2>1, AtLine, SectionIsLine
  <2>3. disk' = disk /\ cells' = cells /\ buckets' = buckets /\ Filled' = Filled
    BY <1>2 DEF cubeVars, Filled
  <2>4. FilesOK' /\ FreeBucket'
    BY <2>3 DEF BucketIInv, FilesOK, FreeBucket, Countable
  <2>5. at' \in 1..(Len(file) + 1) /\ at' >= 2
    BY <2>1, <2>2
  <2>6. Tabled'
    BY <1>2, <2>1, <2>2, <2>3, <2>5 DEF Tabled
  <2>7. QED
    BY <2>4, <2>6 DEF BucketIInv
<1>3. QED
  BY <1>1, <1>2 DEF CubeSection

LEMMA SizesLineStep ==
  ASSUME BucketIInv, SizesLine
  PROVE  BucketIInv'
<1>1. /\ Len(file) \in Nat /\ DOMAIN file = 1..Len(file) /\ at \in 1..(Len(file) + 1) /\ at >= 2
      /\ Len(file) =< buckets + 1 /\ Filled = {} /\ IsFiniteSet(Filled) /\ buckets \in BucketNumbers
  BY DEF SizesLine, BucketIInv, Tabled
<1>2. file' = file /\ at \in 1..Len(file) /\ at' = at + 1
  BY <1>1, AtLine DEF SizesLine, IsDataLine
<1>3. disk' = disk /\ cells' = cells /\ buckets' = buckets /\ Filled' = Filled /\ pc' = pc /\ pc = "sizes"
  BY DEF SizesLine, Filled
<1>4. FilesOK' /\ FreeBucket'
  BY <1>3 DEF BucketIInv, FilesOK, FreeBucket, Countable
<1>5. at' \in 1..(Len(file) + 1) /\ at' >= 2
  BY <1>1, <1>2
<1>6. Tabled'
  BY <1>1, <1>2, <1>3, <1>5 DEF Tabled
<1>7. QED
  BY <1>4, <1>6 DEF BucketIInv

LEMMA EndSizesStep ==
  ASSUME BucketIInv, EndSizes
  PROVE  BucketIInv'
<1>1. CASE Abort
  BY <1>1, ElsewhereKeeps DEF EndSizes, Abort, cubeVars
<1>2. CASE InSection(<<"NUMERIC">>) /\ NextLine /\ pc' = "cells" /\ UNCHANGED <<elements, cubeVars>>
  <2>1. /\ Len(file) \in Nat /\ DOMAIN file = 1..Len(file) /\ at \in 1..(Len(file) + 1) /\ at >= 2
        /\ Len(file) =< buckets + 1 /\ Filled = {} /\ IsFiniteSet(Filled) /\ buckets \in BucketNumbers
    BY DEF EndSizes, BucketIInv, Tabled
  <2>2. file' = file /\ at \in 1..Len(file) /\ at' = at + 1
    BY <1>2, <2>1, AtLine, SectionIsLine
  <2>3. disk' = disk /\ cells' = cells /\ buckets' = buckets /\ Filled' = Filled
    BY <1>2 DEF cubeVars, Filled
  <2>4. FilesOK' /\ FreeBucket'
    BY <2>3 DEF BucketIInv, FilesOK, FreeBucket, Countable
  <2>5. at' \in 1..(Len(file) + 1) /\ at' >= 3 /\ 0 =< at' - 3
    BY <2>1, <2>2
  <2>6. Cardinality(Filled') = 0
    BY <2>1, <2>3, FS_EmptySet
  <2>7. Tabled'
    BY <1>2, <2>1, <2>2, <2>3, <2>5, <2>6 DEF Tabled
  <2>8. QED
    BY <2>4, <2>7 DEF BucketIInv
<1>3. CASE pc' = "loaded" /\ UNCHANGED <<cursorVars, elements, cubeVars>>
  BY <1>3, ElsewhereKeeps DEF EndSizes, cubeVars
<1>4. QED
  BY <1>1, <1>2, <1>3 DEF EndSizes

\* The line of a cell: the table need not grow for it.
LEMMA CellLineStep ==
  ASSUME BucketIInv, CellLine
  PROVE  BucketIInv'
<1>1. /\ Len(file) \in Nat /\ DOMAIN file = 1..Len(file) /\ at \in 1..(Len(file) + 1) /\ at >= 3
      /\ Len(file) =< buckets + 1 /\ IsFiniteSet(Filled) /\ buckets \in BucketNumbers
      /\ Cardinality(Filled) =< at - 3 /\ pc = "cells" /\ Line.kind # "end"
  BY DEF CellLine, BucketIInv, Tabled, IsDataLine
<1>2. Cardinality(Filled) \in Nat /\ buckets \in Nat
  BY <1>1, FS_CardinalityType, BucketsAssumption
<1>3. CASE Abort
  <2>1. disk' = disk /\ cells' = cells /\ buckets' = buckets /\ Filled' = Filled /\ pc' = "aborted"
    BY <1>3 DEF Abort, cubeVars, Filled
  <2>2. FilesOK' /\ FreeBucket'
    BY <2>1 DEF BucketIInv, FilesOK, FreeBucket, Countable
  <2>3. Tabled'
    BY <1>1, <2>1 DEF Tabled
  <2>4. QED
    BY <2>2, <2>3 DEF BucketIInv
<1>4. CASE NextLine /\ UNCHANGED <<pc, disk, elements, cube, sizes>>
           /\ (SetValue(Line.path, Line.value) \/ UNCHANGED <<cells, buckets>>)
  <2>1. file' = file /\ at \in 1..Len(file) /\ at' = at + 1 /\ pc' = "cells" /\ disk' = disk
    BY <1>1, <1>4, AtLine
  <2>2. /\ IsFiniteSet(Filled') /\ Cardinality(Filled') =< Cardinality(Filled) + 1
        /\ Cardinality(Filled') \in Nat /\ buckets' = buckets
    <3>1. CASE SetValue(Line.path, Line.value)
      <4>1. PICK path : path = Line.path
        OBVIOUS
      <4>2. Filled' = Filled \cup {path}
        BY <3>1, <4>1 DEF SetValue, Filled
      <4>3. /\ IsFiniteSet(Filled \cup {path})
            /\ Cardinality(Filled \cup {path}) =
                 IF path \in Filled THEN Cardinality(Filled) ELSE Cardinality(Filled) + 1
        BY <1>1, FS_AddElement
      <4>4. ~(Cardinality(Filled) + 1 > buckets)
        BY <1>1, <1>2, <2>1
      <4>5. buckets' = buckets
        BY <3>1, <4>4 DEF SetValue
      <4>6. QED
        BY <1>2, <4>2, <4>3, <4>5
    <3>2. CASE UNCHANGED <<cells, buckets>>
      BY <1>1, <1>2, <3>2 DEF Filled
    <3>3. QED
      BY <1>4, <3>1, <3>2
  <2>3. at' \in 1..(Len(file) + 1) /\ at' >= 3 /\ Cardinality(Filled') =< at' - 3
    BY <1>1, <1>2, <2>1, <2>2
  <2>4. FilesOK'
    BY <2>1 DEF BucketIInv, FilesOK, Countable
  <2>5. FreeBucket'
    BY <1>1, <1>2, <2>1, <2>2, <2>3 DEF FreeBucket
  <2>6. Tabled'
    BY <1>1, <2>1, <2>2, <2>3 DEF Tabled
  <2>7. QED
    BY <2>4, <2>5, <2>6 DEF BucketIInv
<1>5. QED
  BY <1>3, <1>4 DEF CellLine

\* The table is made smaller, but for the cells that are there.
LEMMA EndCellsStep ==
  ASSUME BucketIInv, EndCells
  PROVE  BucketIInv'
<1>1. /\ disk' = disk /\ cells' = cells /\ Filled' = Filled /\ pc' = "loaded"
      /\ buckets' \in BucketNumbers /\ buckets' > Cardinality(Filled)
  BY DEF EndCells, Shrink, BucketsAbove, Filled
<1>2. IsFiniteSet(Filled) /\ Cardinality(Filled) \in Nat /\ buckets' \in Nat
  BY <1>1, FS_CardinalityType, BucketsAssumption DEF BucketIInv, Tabled
<1>3. FilesOK'
  BY <1>1 DEF BucketIInv, FilesOK, Countable
<1>4. Tabled' /\ FreeBucket'
  BY <1>1, <1>2 DEF Tabled, FreeBucket
<1>5. QED
  BY <1>3, <1>4 DEF BucketIInv

\* The steps before.
LEMMA ReadingSteps ==
  ASSUME \/ DatabaseSection \/ DatabaseLine \/ DimensionsSection \/ DimensionLine \/ EndDimensionLines
         \/ NextDimension \/ SearchOverview \/ LoadOverview \/ FindElementSection \/ LoadElement
         \/ EndElements \/ OpenAgain \/ FindCubes \/ CubeLine \/ EndCubes \/ SelectCube \/ TakeAnswer
  PROVE  /\ pc \notin {"cells", "loaded", "aborted"} /\ pc' \notin {"overview", "sizes", "cells"}
         /\ UNCHANGED <<disk, cells, buckets>>
<1> USE DEF Stay, Goto, Caught, cubeVars
<1>1. CASE DatabaseSection \/ DatabaseLine \/ DimensionsSection \/ EndDimensionLines
  BY <1>1 DEF DatabaseSection, DatabaseLine, DimensionsSection, EndDimensionLines
<1>2. CASE DimensionLine
  BY <1>2 DEF DimensionLine
<1>3. CASE NextDimension \/ SearchOverview \/ LoadOverview \/ FindElementSection
  BY <1>3 DEF NextDimension, SearchOverview, LoadOverview, FindElementSection
<1>4. CASE LoadElement \/ EndElements
  BY <1>4 DEF LoadElement, EndElements
<1>5. CASE OpenAgain \/ FindCubes \/ CubeLine \/ EndCubes
  BY <1>5 DEF OpenAgain, FindCubes, CubeLine, EndCubes
<1>6. CASE SelectCube \/ TakeAnswer
  BY <1>6 DEF SelectCube, TakeAnswer, Load
<1>7. QED
  BY <1>1, <1>2, <1>3, <1>4, <1>5, <1>6

\* Every step keeps the invariant.
LEMMA BucketsNext ==
  ASSUME BucketIInv, [Next]_vars
  PROVE  BucketIInv'
<1>1. CASE LoadCube
  BY <1>1, FileMissingStep, OpenCubeStep, CubeSectionStep, SizesLineStep, EndSizesStep, CellLineStep,
     EndCellsStep DEF LoadCube
<1>2. CASE UNCHANGED vars
  <2>1. /\ disk' = disk /\ cells' = cells /\ buckets' = buckets /\ pc' = pc /\ file' = file /\ at' = at
        /\ Filled' = Filled
    BY <1>2 DEF vars, cubeVars, cursorVars, Filled
  <2>2. FilesOK' /\ FreeBucket'
    BY <2>1 DEF BucketIInv, FilesOK, FreeBucket, Countable
  <2>3. Tabled'
    BY <2>1 DEF BucketIInv, Tabled
  <2>4. QED
    BY <2>2, <2>3 DEF BucketIInv
<1>3. CASE ~LoadCube /\ Next
  BY <1>3, ReadingSteps, ElsewhereKeeps DEF Next
<1>4. QED
  BY <1>1, <1>2, <1>3 DEF Next

\* While the file of a cube is read, and after it, the table of its cells has a
\* bucket that is free, whatever the file holds, so that searches end:
\* Cube::loadCube, getFileLines and DoubleStorage.
THEOREM AlwaysAFreeBucket == Spec => []FreeBucket
<1>1. BucketIInv => FreeBucket
  BY DEF BucketIInv
<1>2. QED
  BY <1>1, BucketsInit, BucketsNext, PTL DEF Spec

-----------------------------------------------------------------------------
(* The inductive invariant of loadDimensions and of what follows it. *)

\* What is done in which order.
Early == {"database", "size", "dimensions", "dimension"}
InDimension == {"search", "dimensionInfo", "elementSection", "element"}
Behind == {"collect", "cubes", "cube", "select", "ask", "load"}
InCube == {"overview", "sizes", "cells", "loaded"}

Kinds == {"undefined", "numeric", "consolidated", NoElement}

Typed ==
  /\ sizeDimensions \in Nat /\ Known \subseteq Nat /\ complete \subseteq Known
  /\ DOMAIN elements = Known /\ \A d \in Known : Range(elements[d]) \subseteq Kinds

CursorOK ==
  /\ Readable(database) /\ OnceEach(database)
  /\ Readable(file) /\ at \in 1..(Len(file) + 1)
  /\ pc \in Early \cup InDimension \cup Behind \cup {"next"} => file = database
  /\ pc \in Early \cup InDimension \cup Behind \cup InCube \cup {"next", "aborted"}

\* The line that a dimension begins with, when there is one.
PlaceOf(d) == Smallest(Places(<<"DIMENSION", d>>))

\* A dimension has its sections, and the elements that its lines give.
Whole(d) ==
  /\ PlaceOf(d) \in Places(<<"DIMENSION", d>>)
  /\ PlaceOf(d) + 2 \in Places(<<"ELEMENTS", "DIMENSION", d>>)
  /\ database[PlaceOf(d) + 1].kind = "data"
  /\ \A line \in Range(ElementLines(d)) : ~Refused(line, SizeOf(d))
  /\ elements[d] = TypesBy(ElementLines(d), SizeOf(d), NoElement)

\* The complete dimensions are the first ones by identifier, in the order of the file.
Wholes ==
  /\ \A d \in complete : Whole(d)
  /\ \A d \in complete, e \in Known : e < d => e \in complete /\ PlaceOf(e) < PlaceOf(d)

\* Before the first dimension is searched, none of their sections has been passed.
Beginning ==
  /\ pc \in Early =>
       /\ complete = {} /\ \A d \in Known : elements[d] = << >>
       /\ \A i \in 1..(at - 1) : database[i].kind = "section" => database[i].name[1] # "DIMENSION"
  /\ pc \in {"database", "size", "dimensions"} => Known = {}
  /\ pc = "database" => at = 1
  /\ pc = "size" => at = 2 /\ database[1] = Section(<<"DATABASE">>)
  /\ pc = "dimension" =>
       \E i \in Places(<<"DIMENSIONS">>) :
         i < at /\ \A k \in (i + 1)..(at - 1) : database[k].kind = "data" /\ database[k].id < sizeDimensions

\* A section the cursor has passed lies before that of a complete dimension.
Late(d) == \A i \in Places(<<"DIMENSION", d>>) : i >= at \/ \E e \in complete : i < PlaceOf(e)

\* The section found is behind those of the complete dimensions.
Found ==
  /\ PlaceOf(loading) \in Places(<<"DIMENSION", loading>>)
  /\ \A e \in complete : PlaceOf(e) < PlaceOf(loading)

\* One dimension after the other.
Between ==
  pc \in InDimension \cup {"next"} =>
    /\ DimensionsListed /\ \A d \in complete : PlaceOf(d) < at
    /\ \A d \in Known \ complete :
         pc \notin {"elementSection", "element"} \/ d # loading => elements[d] = << >>

First == loading \in Known \ complete /\ \A e \in Known \ complete : loading =< e

\* Within one dimension.
Inside ==
  /\ pc \in InDimension => First
  /\ pc = "next" => \A d \in Known \ complete : Late(d)
  /\ pc = "search" => Late(loading)
  /\ pc \in {"dimensionInfo", "elementSection", "element"} => Found
  /\ pc = "dimensionInfo" => at = PlaceOf(loading) + 1
  /\ pc = "elementSection" =>
       /\ at = PlaceOf(loading) + 2 /\ database[PlaceOf(loading) + 1].kind = "data"
       /\ elements[loading] = [id \in 0..(SizeOf(loading) - 1) |-> "undefined"]
  /\ pc = "element" =>
       /\ at >= PlaceOf(loading) + 3 /\ database[PlaceOf(loading) + 1].kind = "data"
       /\ PlaceOf(loading) + 2 \in Places(<<"ELEMENTS", "DIMENSION", loading>>)
       /\ \A k \in (PlaceOf(loading) + 3)..(at - 1) :
            database[k].kind = "data" /\ ~Refused(database[k], SizeOf(loading))
       /\ elements[loading] = TypesBy(SubSeq(database, PlaceOf(loading) + 3, at - 1), SizeOf(loading), "undefined")

\* What is promised of the complete dimensions, and of the one with the fault.
Outcome ==
  complete = IF DimensionsListed
             THEN {d \in Known : \A e \in Known : e =< d => Sound(e)} ELSE {}

Remains ==
  \A d \in Known \ complete :
    elements[d] # << >> =>
      /\ d = Smallest(Known \ complete)
      /\ \/ elements[d] = [id \in 0..(SizeOf(d) - 1) |-> "undefined"]
         \/ elements[d] = TypesBy(BeforeRefused(ElementLines(d), SizeOf(d)), SizeOf(d), "undefined")

After ==
  /\ pc \in Behind \cup InCube => Outcome
  /\ pc \in Behind \cup InCube \cup {"aborted"} => Remains

\* All of loadDimensions.
LoadingOK == Wholes /\ Beginning /\ Between /\ Inside /\ After

-----------------------------------------------------------------------------
(* Lines of a file. *)

\* The lines between two places.
LEMMA LinesBetween ==
  ASSUME NEW lines, Readable(lines), NEW a \in 1..(Len(lines) + 1), NEW b \in (a - 1)..Len(lines)
  PROVE  /\ SubSeq(lines, a, b) \in Seq(Range(lines)) /\ Len(SubSeq(lines, a, b)) = b + 1 - a
         /\ DOMAIN SubSeq(lines, a, b) = 1..(b + 1 - a)
         /\ \A k \in 1..(b + 1 - a) : SubSeq(lines, a, b)[k] = lines[a + k - 1]
         /\ Range(SubSeq(lines, a, b)) = {lines[k] : k \in a..b}
<1>1. lines \in Seq(Range(lines)) /\ Len(lines) \in Nat /\ DOMAIN lines = 1..Len(lines)
  BY ReadableIs
<1>2. /\ SubSeq(lines, a, b) \in Seq(Range(lines)) /\ Len(SubSeq(lines, a, b)) = b + 1 - a
      /\ DOMAIN SubSeq(lines, a, b) = 1..(b + 1 - a)
      /\ \A k \in 1..(b + 1 - a) : SubSeq(lines, a, b)[k] = lines[a + k - 1]
  BY <1>1
<1> DEFINE s == SubSeq(lines, a, b)
<1> HIDE DEF s
<1>3. Range(s) = {lines[k] : k \in a..b}
  <2>1. DOMAIN s = 1..(b + 1 - a) /\ \A k \in 1..(b + 1 - a) : s[k] = lines[a + k - 1]
    BY <1>2 DEF s
  <2>2. ASSUME NEW k \in a..b PROVE \E i \in DOMAIN s : s[i] = lines[k]
    <3>1. k + 1 - a \in 1..(b + 1 - a) /\ a + (k + 1 - a) - 1 = k
      OBVIOUS
    <3>2. QED
      BY <2>1, <3>1
  <2>3. ASSUME NEW i \in DOMAIN s PROVE \E k \in a..b : s[i] = lines[k]
    <3>1. i \in 1..(b + 1 - a) /\ a + i - 1 \in a..b
      BY <2>1
    <3>2. QED
      BY <2>1, <3>1
  <2>4. QED
    BY <2>2, <2>3 DEF Range
<1>4. QED
  BY <1>2, <1>3 DEF s

\* The data lines behind a line end before some line that is not one, or with the file.
LEMMA DataAfterIs ==
  ASSUME NEW lines, Readable(lines), NEW i \in DOMAIN lines
  PROVE  \E b \in (i + 1)..(Len(lines) + 1) :
           /\ b = Len(lines) + 1 \/ lines[b].kind # "data"
           /\ \A k \in (i + 1)..(b - 1) : lines[k].kind = "data"
           /\ DataAfter(lines, i) = SubSeq(lines, i + 1, b - 1)
<1> DEFINE ends == {j \in (i + 1)..Len(lines) : lines[j].kind # "data"} \cup {Len(lines) + 1}
<1>1. Len(lines) \in Nat /\ DOMAIN lines = 1..Len(lines)
  BY ReadableIs
<1>2. ends \subseteq Nat /\ ends # {} /\ ends \subseteq (i + 1)..(Len(lines) + 1)
  BY <1>1
<1>3. DataAfter(lines, i) = SubSeq(lines, i + 1, Smallest(ends) - 1)
  BY Zenon DEF DataAfter
<1>4. \A j \in (i + 1)..Len(lines) : lines[j].kind # "data" => j \in ends
  OBVIOUS
<1>5. \A j \in ends : j = Len(lines) + 1 \/ lines[j].kind # "data"
  OBVIOUS
<1> HIDE DEF ends
<1>6. Smallest(ends) \in ends /\ \A j \in ends : Smallest(ends) =< j
  <2>1. \E x \in ends : \A y \in ends : x =< y
    BY <1>2, MinExists
  <2>2. QED
    BY <2>1, Zenon DEF Smallest
<1>7. PICK b : b = Smallest(ends)
  OBVIOUS
<1>8. b \in (i + 1)..(Len(lines) + 1)
  BY <1>2, <1>6, <1>7
<1>9. ASSUME NEW k \in (i + 1)..(b - 1) PROVE lines[k].kind = "data"
  <2>1. k \in (i + 1)..Len(lines) /\ ~(b =< k)
    BY <1>1, <1>8
  <2>2. QED
    BY <1>4, <1>6, <1>7, <2>1
<1>10. /\ b = Len(lines) + 1 \/ lines[b].kind # "data"
       /\ DataAfter(lines, i) = SubSeq(lines, i + 1, b - 1)
  BY <1>3, <1>5, <1>6, <1>7
<1>11. QED
  BY <1>8, <1>9, <1>10

\* They end where a line that is not data is found.
LEMMA DataAfterUntil ==
  ASSUME NEW lines, Readable(lines), NEW i \in DOMAIN lines, NEW e \in (i + 1)..(Len(lines) + 1),
         \A k \in (i + 1)..(e - 1) : lines[k].kind = "data",
         e = Len(lines) + 1 \/ lines[e].kind # "data"
  PROVE  DataAfter(lines, i) = SubSeq(lines, i + 1, e - 1)
<1>1. Len(lines) \in Nat /\ DOMAIN lines = 1..Len(lines)
  BY ReadableIs
<1>2. PICK b \in (i + 1)..(Len(lines) + 1) :
           /\ b = Len(lines) + 1 \/ lines[b].kind # "data"
           /\ \A k \in (i + 1)..(b - 1) : lines[k].kind = "data"
           /\ DataAfter(lines, i) = SubSeq(lines, i + 1, b - 1)
  BY DataAfterIs
<1>3. b = e
  BY <1>1, <1>2
<1>4. QED
  BY <1>2, <1>3

\* Each of some data lines that follow a line is among them.
LEMMA DataAfterHas ==
  ASSUME NEW lines, Readable(lines), NEW i \in DOMAIN lines, NEW e \in (i + 1)..Len(lines),
         \A k \in (i + 1)..e : lines[k].kind = "data"
  PROVE  lines[e] \in Range(DataAfter(lines, i))
<1>1. Len(lines) \in Nat /\ DOMAIN lines = 1..Len(lines)
  BY ReadableIs
<1>2. PICK b \in (i + 1)..(Len(lines) + 1) :
           /\ b = Len(lines) + 1 \/ lines[b].kind # "data"
           /\ \A k \in (i + 1)..(b - 1) : lines[k].kind = "data"
           /\ DataAfter(lines, i) = SubSeq(lines, i + 1, b - 1)
  BY DataAfterIs
<1>3. e \in (i + 1)..(b - 1)
  BY <1>1, <1>2
<1>4. i + 1 \in 1..(Len(lines) + 1) /\ b - 1 \in (i + 1 - 1)..Len(lines)
  BY <1>1
<1>5. Range(SubSeq(lines, i + 1, b - 1)) = {lines[k] : k \in (i + 1)..(b - 1)}
  <2>1. PICK a, c : a = i + 1 /\ c = b - 1
    OBVIOUS
  <2>2. QED
    BY <1>4, <2>1, LinesBetween
<1>6. QED
  BY <1>2, <1>3, <1>5

-----------------------------------------------------------------------------
(* The types that lines give. *)

\* The lines that count for an element, and the last of some places.
Mine(lines, id) == {i \in DOMAIN lines : lines[i].id = id /\ lines[i].type # "string"}

LEMMA TypesByIs ==
  ASSUME NEW lines, NEW size, NEW o
  PROVE  TypesBy(lines, size, o) =
           [id \in 0..(size - 1) |->
              IF Mine(lines, id) = {} THEN o ELSE TypeOf(lines[Latest(Mine(lines, id))])]
BY Zenon DEF TypesBy, Mine

\* Some places of a list have a last one.
LEMMA LatestIs ==
  ASSUME NEW n \in Nat, NEW S, S \subseteq 1..n, S # {}
  PROVE  Latest(S) \in S /\ \A j \in S : Latest(S) >= j
<1> DEFINE T == {n - i : i \in S}
<1>1. T \subseteq Nat /\ T # {}
  <2>1. \A i \in S : n - i \in Nat
    OBVIOUS
  <2>2. QED
    BY <2>1
<1>2. \A i \in S : n - i \in T
  OBVIOUS
<1>3. \A x \in T : \E i \in S : x = n - i
  OBVIOUS
<1> HIDE DEF T
<1>4. PICK x \in T : \A y \in T : x =< y
  BY <1>1, MinExists
<1>5. PICK i \in S : x = n - i
  BY <1>3
<1>6. \A j \in S : i >= j
  BY <1>2, <1>4, <1>5
<1>7. QED
  BY <1>6, Zenon DEF Latest

\* Clearing what no line was found for.
LEMMA ClearedTypes ==
  ASSUME NEW lines, NEW n \in Nat, DOMAIN lines = 1..n, NEW size
  PROVE  Cleared(TypesBy(lines, size, "undefined")) = TypesBy(lines, size, NoElement)
<1> DEFINE Type(o, id) == IF Mine(lines, id) = {} THEN o ELSE TypeOf(lines[Latest(Mine(lines, id))])
<1>1. \A o : TypesBy(lines, size, o) = [id \in 0..(size - 1) |-> Type(o, id)]
  BY TypesByIs, Zenon
<1>2. \A id : Type(NoElement, id) = IF Type("undefined", id) = "undefined" THEN NoElement ELSE Type("undefined", id)
  BY DEF TypeOf
<1> HIDE DEF Type
<1>3. PICK f, g : f = TypesBy(lines, size, "undefined") /\ g = TypesBy(lines, size, NoElement)
  OBVIOUS
<1>4. f = [id \in 0..(size - 1) |-> Type("undefined", id)] /\ g = [id \in 0..(size - 1) |-> Type(NoElement, id)]
  BY <1>1, <1>3
<1>5. Cleared(f) = g
  BY <1>2, <1>4 DEF Cleared
<1>6. QED
  BY <1>3, <1>5

-----------------------------------------------------------------------------
(* The lines of the database. *)

\* Sections with different names differ.
LEMMA SectionNames ==
  ASSUME NEW n, NEW m
  PROVE  /\ Section(n) = Section(m) => n = m
         /\ Section(n).kind = "section" /\ Section(n).name = n
BY DEF Section

\* A section of the database is found at one place only.
LEMMA UniquePlace ==
  ASSUME Readable(database), OnceEach(database), NEW name, NEW i \in Places(name)
  PROVE  /\ i \in 1..Len(database) /\ database[i] = Section(name)
         /\ \A j \in Places(name) : j = i
         /\ Smallest(Places(name)) = i
<1>1. \A j \in Places(name) : j \in DOMAIN database /\ database[j] = Section(name)
  BY DEF Places
<1>2. DOMAIN database = 1..Len(database) /\ Len(database) \in Nat
  BY ReadableIs
<1>3. \A j \in Places(name) : j = i
  BY <1>1, SectionNames DEF OnceEach
<1>4. Places(name) = {i}
  BY <1>3
<1>5. Smallest({i}) = i
  BY <1>1, <1>2 DEF Smallest
<1>6. QED
  BY <1>1, <1>2, <1>3, <1>4, <1>5

\* The place a dimension begins at.
LEMMA DimensionPlace ==
  ASSUME Readable(database), OnceEach(database), NEW d, NEW i \in Places(<<"DIMENSION", d>>)
  PROVE  i = PlaceOf(d) /\ PlaceOf(d) \in 1..Len(database) /\ database[i] = Section(<<"DIMENSION", d>>)
BY UniquePlace DEF PlaceOf

\* While the database is the same, so are its sections.
LEMMA StillThere ==
  ASSUME database' = database
  PROVE  /\ \A name : Places(name)' = Places(name)
         /\ \A d : PlaceOf(d)' = PlaceOf(d) /\ SizeOf(d)' = SizeOf(d) /\ ElementLines(d)' = ElementLines(d)
<1>1. \A name : Places(name)' = Places(name)
  BY DEF Places
<1>2. \A d : PlaceOf(d)' = PlaceOf(d)
  BY <1>1, Zenon DEF PlaceOf
<1>3. \A d : SizeOf(d)' = SizeOf(d)
  BY <1>1, Zenon DEF SizeOf
<1>4. \A d : ElementLines(d)' = ElementLines(d)
  BY <1>1, Zenon DEF ElementLines
<1>5. QED
  BY <1>1, <1>2, <1>3, <1>4

\* A dimension that is whole stays so.
LEMMA WholeStays ==
  ASSUME NEW d, database' = database, elements'[d] = elements[d], Whole(d)
  PROVE  Whole(d)'
<1>1. \A name : Places(name)' = Places(name)
  BY StillThere
<1>2. PlaceOf(d)' = PlaceOf(d) /\ SizeOf(d)' = SizeOf(d) /\ ElementLines(d)' = ElementLines(d)
  BY StillThere
<1>3. QED
  BY <1>1, <1>2, Zenon DEF Whole

LEMMA ListedStays ==
  ASSUME database' = database, sizeDimensions' = sizeDimensions
  PROVE  DimensionsListed' = DimensionsListed
BY StillThere, Zenon DEF DimensionsListed

LEMMA SoundStays ==
  ASSUME NEW d, database' = database, dimensions' = dimensions
  PROVE  Sound(d)' = Sound(d)
<1>1. Known' = Known
  BY DEF Known
<1>2. \A name : Places(name)' = Places(name)
  BY StillThere
<1>3. SizeOf(d)' = SizeOf(d) /\ ElementLines(d)' = ElementLines(d)
  BY StillThere
<1>4. QED
  BY <1>1, <1>2, <1>3, Zenon DEF Sound

\* Nothing of the dimensions changes any more.
LEMMA Settled ==
  ASSUME database' = database, dimensions' = dimensions, sizeDimensions' = sizeDimensions,
         complete' = complete, elements' = elements
  PROVE  /\ Known' = Known /\ (Wholes => Wholes') /\ (Outcome => Outcome') /\ (Remains => Remains')
<1>1. Known' = Known
  BY DEF Known
<1>2. \A d : PlaceOf(d)' = PlaceOf(d) /\ SizeOf(d)' = SizeOf(d) /\ ElementLines(d)' = ElementLines(d)
  BY StillThere
<1>3. Wholes => Wholes'
  <2>1. ASSUME NEW d, Whole(d) PROVE Whole(d)'
    BY <2>1, WholeStays
  <2>2. QED
    BY <1>1, <1>2, <2>1, Zenon DEF Wholes
<1>4. Outcome => Outcome'
  <2>1. \A d : Sound(d)' = Sound(d)
    BY SoundStays
  <2>2. DimensionsListed' = DimensionsListed
    BY ListedStays
  <2>3. QED
    BY <1>1, <2>1, <2>2 DEF Outcome
<1>5. Remains => Remains'
  BY <1>1, <1>2, Zenon DEF Remains
<1>6. QED
  BY <1>1, <1>3, <1>4, <1>5

-----------------------------------------------------------------------------
(* Where loading may end. *)

\* A complete dimension is sound.
LEMMA WholeIsSound ==
  ASSUME CursorOK, Typed, Wholes, NEW d \in complete
  PROVE  Sound(d)
<1>1. Whole(d) /\ \A e \in Known : e < d => Whole(e) /\ PlaceOf(e) < PlaceOf(d)
  BY DEF Wholes, Typed
<1>2. /\ PlaceOf(d) \in Places(<<"DIMENSION", d>>)
      /\ PlaceOf(d) + 2 \in Places(<<"ELEMENTS", "DIMENSION", d>>)
      /\ database[PlaceOf(d) + 1].kind = "data"
      /\ \A line \in Range(ElementLines(d)) : ~Refused(line, SizeOf(d))
  BY <1>1, Zenon DEF Whole
<1>3. \A e \in Known : e < d => PlaceOf(e) \in Places(<<"DIMENSION", e>>) /\ PlaceOf(e) < PlaceOf(d)
  BY <1>1, Zenon DEF Whole
<1>4. QED
  BY <1>2, <1>3, Zenon DEF Sound

\* When the first dimension that is not complete is not sound, that is the outcome.
LEMMA OutcomeAtFault ==
  ASSUME CursorOK, Typed, Wholes, DimensionsListed, First, ~Sound(loading)
  PROVE  Outcome
<1>1. ASSUME NEW d \in complete PROVE d \in Known /\ \A e \in Known : e =< d => Sound(e)
  <2>1. d \in Known /\ d \in Nat /\ Known \subseteq Nat
    BY DEF Typed
  <2>2. ASSUME NEW e \in Known, e =< d PROVE e \in complete
    <3>1. e \in Nat /\ (e = d \/ e < d)
      BY <2>1, <2>2
    <3>2. QED
      BY <3>1 DEF Wholes
  <2>3. QED
    BY <2>1, <2>2, WholeIsSound
<1>2. ASSUME NEW d \in Known \ complete PROVE ~ \A e \in Known : e =< d => Sound(e)
  BY DEF First
<1>3. QED
  BY <1>1, <1>2, Zenon DEF Outcome, Typed

\* The first dimension that is not complete is the smallest one.
LEMMA FirstIsSmallest ==
  ASSUME Typed, First
  PROVE  loading = Smallest(Known \ complete) /\ loading \in Nat
<1>1. loading \in Known \ complete /\ (\A e \in Known \ complete : loading =< e) /\ Known \subseteq Nat
  BY DEF First, Typed
<1>2. \A x \in Known \ complete : (\A y \in Known \ complete : x =< y) => x = loading
  BY <1>1
<1>3. QED
  BY <1>1, <1>2 DEF Smallest

\* What is left of it, when nothing was changed.
LEMMA NothingRemains ==
  ASSUME \A d \in Known \ complete : elements[d] = << >>
  PROVE  Remains
BY Zenon DEF Remains

LEMMA OneRemains ==
  ASSUME Typed, First, \A d \in Known \ complete : d # loading => elements[d] = << >>,
         \/ elements[loading] = [id \in 0..(SizeOf(loading) - 1) |-> "undefined"]
         \/ elements[loading] = TypesBy(BeforeRefused(ElementLines(loading), SizeOf(loading)),
                                        SizeOf(loading), "undefined")
  PROVE  Remains
<1>1. loading = Smallest(Known \ complete)
  BY FirstIsSmallest
<1>2. QED
  BY <1>1, Zenon DEF Remains

\* The current line.
LEMMA LineIs ==
  ASSUME CursorOK
  PROVE  /\ Len(file) \in Nat /\ DOMAIN file = 1..Len(file)
         /\ ~IsEndOfFile => at \in 1..Len(file) /\ Line = file[at]
         /\ IsEndOfFile => at = Len(file) + 1 /\ ~IsDataLine /\ ~IsSectionLine
         /\ \A name : InSection(name) => ~IsEndOfFile /\ ~IsDataLine /\ IsSectionLine
         /\ NextLine => file' = file /\ at' = (IF IsEndOfFile THEN at ELSE at + 1) /\ at' \in 1..(Len(file) + 1)
<1>1. Len(file) \in Nat /\ DOMAIN file = 1..Len(file) /\ at \in 1..(Len(file) + 1)
  BY ReadableIs DEF CursorOK
<1>2. \A i \in DOMAIN file : file[i].kind # "end"
  BY DEF CursorOK, Readable
<1>3. CASE at \in DOMAIN file
  <2>1. Line = file[at] /\ ~IsEndOfFile
    BY <1>2, <1>3 DEF Line, IsEndOfFile
  <2>2. \A name : InSection(name) => ~IsDataLine /\ IsSectionLine
    BY SectionNames DEF InSection, IsDataLine, IsSectionLine
  <2>3. QED
    BY <1>1, <1>3, <2>1, <2>2 DEF NextLine
<1>4. CASE at \notin DOMAIN file
  <2>1. Line = [kind |-> "end"]
    BY <1>4 DEF Line
  <2>2. IsEndOfFile /\ ~IsDataLine /\ ~IsSectionLine
    BY <2>1 DEF IsEndOfFile, IsDataLine, IsSectionLine
  <2>3. \A name : ~InSection(name)
    BY <2>1, SectionNames DEF InSection
  <2>4. at = Len(file) + 1
    BY <1>1, <1>4
  <2>5. QED
    BY <1>1, <2>2, <2>3, <2>4 DEF NextLine
<1>5. QED
  BY <1>3, <1>4

\* The current line of the database.
LEMMA DatabaseLineIs ==
  ASSUME CursorOK, file = database
  PROVE  /\ Len(database) \in Nat /\ DOMAIN database = 1..Len(database) /\ at \in 1..(Len(database) + 1)
         /\ IsDataLine => at \in 1..Len(database) /\ Line = database[at] /\ database[at].kind = "data"
         /\ ~IsDataLine => at = Len(database) + 1 \/ database[at].kind # "data"
         /\ \A name : InSection(name) <=> at \in Places(name)
<1>1. Len(database) \in Nat /\ DOMAIN database = 1..Len(database) /\ at \in 1..(Len(database) + 1)
  BY ReadableIs DEF CursorOK
<1>2. IsDataLine => at \in 1..Len(database) /\ Line = database[at] /\ database[at].kind = "data"
  BY LineIs DEF IsDataLine
<1>3. ~IsDataLine => at = Len(database) + 1 \/ database[at].kind # "data"
  BY LineIs DEF IsDataLine
<1>4. ASSUME NEW name PROVE InSection(name) <=> at \in Places(name)
  <2>1. InSection(name) => at \in Places(name)
    BY LineIs DEF InSection, Places
  <2>2. at \in Places(name) => InSection(name)
    BY DEF InSection, Places, Line
  <2>3. QED
    BY <2>1, <2>2
<1>5. QED
  BY <1>1, <1>2, <1>3, <1>4

-----------------------------------------------------------------------------
(* The steps of loadDimension. *)

\* Where a step within the loop over the dimensions leads when they are the same.
LEMMA LoopStays ==
  ASSUME LoadingOK, database' = database, dimensions' = dimensions, sizeDimensions' = sizeDimensions,
         complete' = complete, elements' = elements,
         pc' \in InDimension \cup {"next"}, Between', Inside'
  PROVE  LoadingOK'
<1>1. Wholes'
  BY Settled DEF LoadingOK
<1>2. Beginning' /\ After'
  BY DEF Beginning, After, InDimension, Early, Behind, InCube
<1>3. QED
  BY <1>1, <1>2 DEF LoadingOK

\* It ends with the exception, or with the last dimension.
LEMMA LoopEnds ==
  ASSUME LoadingOK, database' = database, dimensions' = dimensions, sizeDimensions' = sizeDimensions,
         complete' = complete, elements' = elements, pc' = "collect", Outcome, Remains
  PROVE  LoadingOK'
<1>1. Wholes' /\ Outcome' /\ Remains'
  BY Settled DEF LoadingOK
<1>2. Beginning' /\ Between' /\ Inside' /\ After'
  BY <1>1 DEF Beginning, Between, Inside, After, InDimension, Early
<1>3. QED
  BY <1>1, <1>2 DEF LoadingOK

\* Nothing of the loop's part of the invariant but the cursor changes.
LEMMA BetweenStays ==
  ASSUME Between, pc \in InDimension \cup {"next"}, pc' \in {"search", "dimensionInfo"},
         pc \notin {"elementSection", "element"},
         database' = database, dimensions' = dimensions, sizeDimensions' = sizeDimensions,
         complete' = complete, elements' = elements, at \in Nat, at' \in Nat, at =< at',
         \A d \in complete : PlaceOf(d) \in Nat
  PROVE  Between'
<1>1. DimensionsListed' /\ Known' = Known
  BY ListedStays DEF Between, Known
<1>2. \A d : PlaceOf(d)' = PlaceOf(d)
  BY StillThere
<1>3. \A d \in complete' : PlaceOf(d)' < at'
  <2>1. ASSUME NEW d \in complete PROVE PlaceOf(d) < at'
    <3>1. PlaceOf(d) < at /\ PlaceOf(d) \in Nat
      BY DEF Between
    <3>2. QED
      BY <3>1
  <2>2. QED
    BY <1>2, <2>1
<1>4. \A d \in Known' \ complete' : elements'[d] = << >>
  BY <1>1 DEF Between
<1>5. QED
  BY <1>1, <1>3, <1>4 DEF Between

\* Places of complete dimensions.
LEMMA PlacesAreNumbers ==
  ASSUME CursorOK, Wholes
  PROVE  \A d \in complete : PlaceOf(d) \in 1..Len(database)
<1>1. ASSUME NEW d \in complete PROVE PlaceOf(d) \in 1..Len(database)
  <2>1. PlaceOf(d) \in Places(<<"DIMENSION", d>>)
    BY Zenon DEF Wholes, Whole
  <2>2. QED
    BY <2>1, DimensionPlace DEF CursorOK
<1>2. QED
  BY <1>1

LEMMA NextDimensionStep ==
  ASSUME CursorOK, Typed, LoadingOK, NextDimension
  PROVE  LoadingOK'
<1>1. /\ pc = "next" /\ at' = at /\ database' = database /\ dimensions' = dimensions
      /\ sizeDimensions' = sizeDimensions /\ complete' = complete /\ elements' = elements
  BY DEF NextDimension, Stay, cursorVars, given
<1>2. DimensionsListed /\ (\A d \in Known \ complete : Late(d)) /\ \A d \in Known \ complete : elements[d] = << >>
  BY <1>1 DEF LoadingOK, Between, Inside
<1>3. CASE Known = complete
  <2>1. pc' = "collect"
    BY <1>3 DEF NextDimension, Stay
  <2>2. \A d \in Known : Sound(d)
    BY <1>3, WholeIsSound DEF LoadingOK
  <2>3. Outcome
    BY <1>2, <1>3, <2>2, Zenon DEF Outcome
  <2>4. Remains
    BY <1>2, NothingRemains
  <2>5. QED
    BY <1>1, <2>1, <2>3, <2>4, LoopEnds
<1>4. CASE Known # complete
  <2>1. pc' = "search" /\ loading' = Smallest(Known \ complete)
    BY <1>4 DEF NextDimension, Stay
  <2>2. loading' \in Known \ complete /\ \A e \in Known \ complete : loading' =< e
    <3>1. Known \ complete \subseteq Nat /\ Known \ complete # {}
      BY <1>4 DEF Typed
    <3>2. \E x \in Known \ complete : \A y \in Known \ complete : x =< y
      BY <3>1, MinExists
    <3>3. QED
      BY <2>1, <3>2 DEF Smallest
  <2>3. First'
    BY <1>1, <2>2 DEF First, Known
  <2>4. Late(loading')
    BY <1>2, <2>2
  <2>5. Late(loading)'
    <3>1. PICK d : d = loading'
      OBVIOUS
    <3>2. Late(d) /\ (\A e : PlaceOf(e)' = PlaceOf(e)) /\ Places(<<"DIMENSION", d>>)' = Places(<<"DIMENSION", d>>)
      BY <1>1, <2>4, <3>1, StillThere
    <3>3. \A i \in Places(<<"DIMENSION", loading>>)' : i >= at' \/ \E e \in complete' : i < PlaceOf(e)'
      BY <1>1, <3>1, <3>2 DEF Late
    <3>4. QED
      BY <3>3, Zenon DEF Late
  <2>6. Inside'
    BY <2>1, <2>3, <2>5 DEF Inside
  <2>7. Between'
    <3>1. at \in Nat /\ at' \in Nat /\ at =< at'
      BY <1>1 DEF CursorOK
    <3>2. \A d \in complete : PlaceOf(d) \in Nat
      BY PlacesAreNumbers DEF LoadingOK
    <3>3. QED
      BY <1>1, <2>1, <3>1, <3>2, BetweenStays DEF LoadingOK, InDimension
  <2>8. QED
    BY <1>1, <2>1, <2>6, <2>7, LoopStays DEF InDimension
<1>5. QED
  BY <1>3, <1>4

\* The end of the file came before the section: it lies before an earlier one.
LEMMA SearchAtEnd ==
  ASSUME CursorOK, Typed, LoadingOK, pc = "search", IsEndOfFile
  PROVE  ~Sound(loading)
<1>1. at = Len(database) + 1 /\ Late(loading) /\ First
  BY LineIs DEF CursorOK, LoadingOK, Inside, InDimension
<1>2. /\ Known \subseteq Nat /\ complete \subseteq Known /\ loading \in Known \ complete
      /\ Readable(database) /\ OnceEach(database) /\ Len(database) \in Nat
  BY <1>1, ReadableIs DEF Typed, First, CursorOK
<1> SUFFICES ASSUME Sound(loading) PROVE FALSE
  OBVIOUS
<1>3. PICK i \in Places(<<"DIMENSION", loading>>) :
        \A e \in Known : e < loading => \E j \in Places(<<"DIMENSION", e>>) : j < i
  BY Zenon DEF Sound
<1>4. i \in 1..Len(database)
  BY <1>2, DimensionPlace
<1>5. PICK e \in complete : i < PlaceOf(e)
  <2>1. ~(i >= at)
    BY <1>1, <1>2, <1>4
  <2>2. QED
    BY <1>1, <2>1 DEF Late
<1>6. e \in Known /\ e \in Nat /\ loading \in Nat /\ e # loading
  BY <1>2
<1>7. CASE loading < e
  BY <1>2, <1>6, <1>7 DEF LoadingOK, Wholes
<1>8. CASE e < loading
  <2>1. PICK j \in Places(<<"DIMENSION", e>>) : j < i
    BY <1>3, <1>6, <1>8
  <2>2. j = PlaceOf(e) /\ PlaceOf(e) \in 1..Len(database)
    BY <1>2, <2>1, DimensionPlace
  <2>3. QED
    BY <1>4, <1>5, <2>1, <2>2
<1>9. QED
  BY <1>6, <1>7, <1>8

LEMMA SearchOverviewStep ==
  ASSUME CursorOK, Typed, LoadingOK, SearchOverview
  PROVE  LoadingOK'
<1>1. /\ pc = "search" /\ database' = database /\ dimensions' = dimensions /\ loading' = loading
      /\ sizeDimensions' = sizeDimensions /\ complete' = complete /\ elements' = elements
  BY DEF SearchOverview, dimensionVars, given
<1>2. /\ DimensionsListed /\ Late(loading) /\ First /\ \A d \in Known \ complete : elements[d] = << >>
      /\ Wholes /\ \A d \in complete : PlaceOf(d) < at
  BY <1>1 DEF LoadingOK, Between, Inside, InDimension
<1>3. file = database /\ Readable(database) /\ OnceEach(database) /\ at \in Nat
  BY <1>1, ReadableIs DEF CursorOK, InDimension
<1>4. \A d : PlaceOf(d)' = PlaceOf(d)
  BY <1>1, StillThere
<1>5. \A d \in complete : PlaceOf(d) \in Nat
  BY <1>2, <1>3, PlacesAreNumbers, ReadableIs
<1>6. First'
  BY <1>1, <1>2 DEF First, Known
<1>7. Places(<<"DIMENSION", loading>>)' = Places(<<"DIMENSION", loading>>)
  BY <1>1, StillThere
<1>8. CASE IsEndOfFile /\ Stay("collect")
  <2>1. Outcome
    BY <1>1, <1>2, <1>8, SearchAtEnd, OutcomeAtFault
  <2>2. Remains
    BY <1>2, NothingRemains
  <2>3. QED
    BY <1>1, <1>8, <2>1, <2>2, LoopEnds DEF Stay
<1>9. CASE InSection(Overview) /\ Goto("dimensionInfo")
  <2>1. at \in Places(<<"DIMENSION", loading>>)
    BY <1>3, <1>9, DatabaseLineIs DEF Overview
  <2>2. at = PlaceOf(loading)
    BY <1>3, <2>1, DimensionPlace
  <2>3. at' = at + 1 /\ pc' = "dimensionInfo"
    BY <1>9, LineIs DEF Goto
  <2>4. Found'
    BY <1>1, <1>2, <1>4, <1>7, <2>1, <2>2 DEF Found
  <2>5. Inside'
    BY <1>1, <1>4, <1>6, <2>2, <2>3, <2>4 DEF Inside
  <2>6. Between'
    <3>1. at \in Nat /\ at' \in Nat /\ at =< at'
      BY <1>3, <2>3
    <3>2. pc \in InDimension \cup {"next"} /\ pc \notin {"elementSection", "element"}
      BY <1>1 DEF InDimension
    <3>3. QED
      BY <1>1, <1>5, <2>3, <3>1, <3>2, BetweenStays DEF LoadingOK
  <2>7. QED
    BY <1>1, <2>3, <2>5, <2>6, LoopStays DEF InDimension
<1>10. CASE ~IsEndOfFile /\ ~InSection(Overview) /\ Goto(pc)
  <2>1. at \notin Places(<<"DIMENSION", loading>>)
    BY <1>3, <1>10, DatabaseLineIs DEF Overview
  <2>2. at' = at + 1 /\ pc' = "search"
    BY <1>1, <1>10, LineIs DEF Goto
  <2>3. \A i \in Places(<<"DIMENSION", loading>>) : i >= at' \/ \E e \in complete : i < PlaceOf(e)
    <3>1. ASSUME NEW i \in Places(<<"DIMENSION", loading>>), i >= at PROVE i >= at'
      <4>1. i \in 1..Len(database) /\ i # at /\ Len(database) \in Nat
        BY <1>3, <2>1, <3>1, DimensionPlace, ReadableIs
      <4>2. QED
        BY <1>3, <2>2, <3>1, <4>1
    <3>2. QED
      BY <1>2, <3>1 DEF Late
  <2>4. Late(loading)'
    <3>1. \A i \in Places(<<"DIMENSION", loading>>)' : i >= at' \/ \E e \in complete' : i < PlaceOf(e)'
      BY <1>1, <1>4, <1>7, <2>3
    <3>2. QED
      BY <3>1, Zenon DEF Late
  <2>5. Inside'
    BY <1>6, <2>2, <2>4 DEF Inside
  <2>6. Between'
    <3>1. at \in Nat /\ at' \in Nat /\ at =< at'
      BY <1>3, <2>2
    <3>2. pc \in InDimension \cup {"next"} /\ pc \notin {"elementSection", "element"}
      BY <1>1 DEF InDimension
    <3>3. QED
      BY <1>1, <1>5, <2>2, <3>1, <3>2, BetweenStays DEF LoadingOK
  <2>7. QED
    BY <1>1, <2>2, <2>5, <2>6, LoopStays DEF InDimension
<1>11. QED
  BY <1>8, <1>9, <1>10 DEF SearchOverview

\* The number of elements is in the line behind the section.
LEMMA SizeIsNumber ==
  ASSUME CursorOK, NEW d, PlaceOf(d) \in Places(<<"DIMENSION", d>>),
         PlaceOf(d) + 1 \in 1..Len(database), database[PlaceOf(d) + 1].kind = "data"
  PROVE  SizeOf(d) \in Nat /\ SizeOf(d) = database[PlaceOf(d) + 1].size
<1>1. Len(database) \in Nat /\ DOMAIN database = 1..Len(database)
  BY ReadableIs DEF CursorOK
<1>2. PICK i : i = PlaceOf(d)
  OBVIOUS
<1>3. i \in 1..Len(database) /\ database[i] = Section(<<"DIMENSION", d>>)
  BY <1>2, DimensionPlace DEF CursorOK
<1>4. database[i].kind = "section" /\ database[i].name[1] = "DIMENSION"
  BY <1>3, SectionNames
<1>5. i + 1 \in (i + 1)..Len(database) /\ \A k \in (i + 1)..(i + 1) : IsData(database, k)
  BY <1>1, <1>2, <1>3 DEF IsData
<1>6. Belongs(database, i, i + 1, "DIMENSION")
  BY <1>4, <1>5 DEF Belongs
<1>7. database[i + 1].size \in Nat
  BY <1>1, <1>3, <1>5, <1>6 DEF CursorOK, Readable
<1>8. SizeOf(d) = database[i + 1].size
  BY <1>2, Zenon DEF SizeOf, PlaceOf
<1>9. QED
  BY <1>2, <1>7, <1>8

\* Within a section of a dimension only its own elements have changed.
LEMMA LoopGoesOn ==
  ASSUME CursorOK, Typed, LoadingOK, First, pc \in {"dimensionInfo", "elementSection", "element"},
         pc' \in {"elementSection", "element"},
         database' = database, dimensions' = dimensions, sizeDimensions' = sizeDimensions,
         complete' = complete, loading' = loading, at' = at + 1,
         \A d \in Known \ {loading} : elements'[d] = elements[d], Inside'
  PROVE  LoadingOK'
<1>1. DimensionsListed' /\ Known' = Known
  BY ListedStays DEF LoadingOK, Between, InDimension, Known
<1>2. \A d : PlaceOf(d)' = PlaceOf(d)
  BY StillThere
<1>3. loading \in Known \ complete /\ complete \subseteq Known /\ at \in Nat
  BY ReadableIs DEF First, Typed, CursorOK
<1>4. Wholes'
  <2>1. \A d \in complete : Whole(d)'
    <3>1. ASSUME NEW d \in complete PROVE Whole(d)'
      <4>1. Whole(d) /\ elements'[d] = elements[d]
        BY <1>3 DEF LoadingOK, Wholes
      <4>2. QED
        BY <4>1, WholeStays
    <3>2. QED
      BY <3>1
  <2>2. \A d \in complete, e \in Known : e < d => e \in complete /\ PlaceOf(e)' < PlaceOf(d)'
    BY <1>2 DEF LoadingOK, Wholes
  <2>3. QED
    BY <1>1, <2>1, <2>2, Zenon DEF Wholes
<1>5. \A d \in complete' : PlaceOf(d)' < at'
  <2>1. ASSUME NEW d \in complete PROVE PlaceOf(d) < at + 1
    <3>1. PlaceOf(d) < at
      BY DEF LoadingOK, Between, InDimension
    <3>2. PlaceOf(d) \in 1..Len(database) /\ Len(database) \in Nat
      BY PlacesAreNumbers, ReadableIs DEF LoadingOK, CursorOK
    <3>3. QED
      BY <1>3, <3>1, <3>2
  <2>2. QED
    BY <1>2, <2>1
<1>6. \A d \in Known' \ complete' : d # loading' => elements'[d] = << >>
  BY <1>1 DEF LoadingOK, Between, InDimension
<1>7. Between'
  BY <1>1, <1>5, <1>6 DEF Between
<1>8. Beginning' /\ After'
  BY DEF Beginning, After, Early, Behind, InCube
<1>9. QED
  BY <1>4, <1>7, <1>8 DEF LoadingOK

LEMMA LoadOverviewStep ==
  ASSUME CursorOK, Typed, LoadingOK, LoadOverview
  PROVE  LoadingOK'
<1>1. /\ pc = "dimensionInfo" /\ database' = database /\ dimensions' = dimensions /\ loading' = loading
      /\ sizeDimensions' = sizeDimensions /\ complete' = complete
  BY DEF LoadOverview, dimensionVars, given
<1>2. /\ DimensionsListed /\ Found /\ First /\ \A d \in Known \ complete : elements[d] = << >>
      /\ Wholes /\ at = PlaceOf(loading) + 1
  BY <1>1 DEF LoadingOK, Between, Inside, InDimension
<1>3. file = database /\ Readable(database) /\ OnceEach(database) /\ at \in Nat
  BY <1>1, ReadableIs DEF CursorOK, InDimension
<1>4. /\ PlaceOf(loading) \in Places(<<"DIMENSION", loading>>) /\ PlaceOf(loading) \in 1..Len(database)
      /\ Len(database) \in Nat /\ DOMAIN database = 1..Len(database)
  BY <1>2, <1>3, DimensionPlace, ReadableIs DEF Found
<1>5. CASE ~IsDataLine /\ Caught
  <2>1. ~Sound(loading)
    <3> SUFFICES ASSUME Sound(loading) PROVE FALSE
      OBVIOUS
    <3>1. PICK i \in Places(<<"DIMENSION", loading>>) :
            i + 2 \in Places(<<"ELEMENTS", "DIMENSION", loading>>) /\ database[i + 1].kind = "data"
      BY Zenon DEF Sound
    <3>2. i = PlaceOf(loading)
      BY <1>3, DimensionPlace
    <3>3. i + 2 \in 1..Len(database)
      BY <1>3, <3>1, UniquePlace
    <3>4. at \in 1..Len(database) /\ database[at].kind = "data"
      BY <1>2, <1>4, <3>1, <3>2, <3>3
    <3>5. QED
      BY <1>3, <1>4, <1>5, <3>4, DatabaseLineIs
  <2>2. Outcome /\ Remains
    BY <1>2, <2>1, OutcomeAtFault, NothingRemains
  <2>3. QED
    BY <1>1, <1>5, <2>2, LoopEnds DEF Caught, Stay
<1>6. CASE /\ IsDataLine
           /\ elements' = [elements EXCEPT ![loading] = [id \in 0..(Line.size - 1) |-> "undefined"]]
           /\ Goto("elementSection")
  <2>1. at \in 1..Len(database) /\ Line = database[at] /\ database[at].kind = "data"
    BY <1>3, <1>6, DatabaseLineIs
  <2>2. SizeOf(loading) \in Nat /\ SizeOf(loading) = Line.size
    BY <1>2, <1>4, <2>1, SizeIsNumber
  <2>3. loading \in Known /\ DOMAIN elements = Known
    BY <1>2 DEF First, Typed
  <2>4. at' = at + 1 /\ pc' = "elementSection"
    BY <1>6, <2>1, LineIs DEF Goto, IsDataLine, IsEndOfFile
  <2>5. elements'[loading] = [id \in 0..(SizeOf(loading) - 1) |-> "undefined"]
    BY <1>6, <2>2, <2>3
  <2>6. \A d \in Known \ {loading} : elements'[d] = elements[d]
    BY <1>6, <2>3
  <2>7. Inside'
    <3>1. First'
      BY <1>1, <1>2 DEF First, Known
    <3>2. (\A d : PlaceOf(d)' = PlaceOf(d) /\ SizeOf(d)' = SizeOf(d)) /\ \A name : Places(name)' = Places(name)
      BY <1>1, StillThere
    <3>3. Found'
      BY <1>1, <1>2, <3>2 DEF Found
    <3>4. at' = PlaceOf(loading) + 2 /\ database[PlaceOf(loading) + 1].kind = "data"
      BY <1>2, <1>4, <2>1, <2>4
    <3>5. PlaceOf(loading)' = PlaceOf(loading) /\ SizeOf(loading)' = SizeOf(loading)
      <4>1. PICK d : d = loading
        OBVIOUS
      <4>2. loading' = d
        BY <1>1, <4>1
      <4>3. QED
        BY <1>1, <3>2, <4>1, <4>2, Zenon
    <3>6. QED
      BY <1>1, <2>4, <2>5, <3>1, <3>3, <3>4, <3>5 DEF Inside
  <2>8. QED
    BY <1>1, <1>2, <2>4, <2>6, <2>7, LoopGoesOn
<1>7. QED
  BY <1>5, <1>6 DEF LoadOverview

LEMMA FindElementSectionStep ==
  ASSUME CursorOK, Typed, LoadingOK, FindElementSection
  PROVE  LoadingOK'
<1>1. /\ pc = "elementSection" /\ database' = database /\ dimensions' = dimensions /\ loading' = loading
      /\ sizeDimensions' = sizeDimensions /\ complete' = complete /\ elements' = elements
  BY DEF FindElementSection, dimensionVars, given
<1>2. /\ DimensionsListed /\ Found /\ First /\ \A d \in Known \ complete : d # loading => elements[d] = << >>
      /\ Wholes /\ at = PlaceOf(loading) + 2 /\ database[PlaceOf(loading) + 1].kind = "data"
      /\ elements[loading] = [id \in 0..(SizeOf(loading) - 1) |-> "undefined"]
  BY <1>1 DEF LoadingOK, Between, Inside, InDimension
<1>3. file = database /\ Readable(database) /\ OnceEach(database) /\ at \in Nat
  BY <1>1, ReadableIs DEF CursorOK, InDimension
<1>4. /\ PlaceOf(loading) \in Places(<<"DIMENSION", loading>>) /\ PlaceOf(loading) \in 1..Len(database)
      /\ Len(database) \in Nat /\ DOMAIN database = 1..Len(database)
  BY <1>2, <1>3, DimensionPlace, ReadableIs DEF Found
<1>5. CASE ~InSection(ElementSection) /\ Stay("collect")
  <2>1. at \notin Places(<<"ELEMENTS", "DIMENSION", loading>>)
    BY <1>3, <1>5, DatabaseLineIs DEF ElementSection
  <2>2. ~Sound(loading)
    <3> SUFFICES ASSUME Sound(loading) PROVE FALSE
      OBVIOUS
    <3>1. PICK i \in Places(<<"DIMENSION", loading>>) :
            i + 2 \in Places(<<"ELEMENTS", "DIMENSION", loading>>)
      BY Zenon DEF Sound
    <3>2. i = PlaceOf(loading)
      BY <1>3, DimensionPlace
    <3>3. QED
      BY <1>2, <2>1, <3>1, <3>2
  <2>3. Outcome /\ Remains
    BY <1>2, <2>2, OutcomeAtFault, OneRemains
  <2>4. QED
    BY <1>1, <1>5, <2>3, LoopEnds DEF Stay
<1>6. CASE InSection(ElementSection) /\ Goto("element")
  <2>1. at \in Places(<<"ELEMENTS", "DIMENSION", loading>>)
    BY <1>3, <1>6, DatabaseLineIs DEF ElementSection
  <2>2. at \in 1..Len(database)
    BY <1>3, <2>1, UniquePlace
  <2>3. at' = at + 1 /\ pc' = "element"
    BY <1>6, LineIs DEF Goto
  <2>4. \A d \in Known \ {loading} : elements'[d] = elements[d]
    BY <1>1
  <2>5. PICK p : p = PlaceOf(loading)
    OBVIOUS
  <2>6. DOMAIN SubSeq(database, p + 3, p + 2) = {}
    <3>1. PICK a, b : a = p + 3 /\ b = p + 2
      OBVIOUS
    <3>2. a \in 1..(Len(database) + 1) /\ b \in (a - 1)..Len(database) /\ 1..(b + 1 - a) = {}
      BY <1>2, <1>4, <2>2, <2>5, <3>1
    <3>3. DOMAIN SubSeq(database, a, b) = 1..(b + 1 - a)
      BY <1>3, <3>2, LinesBetween
    <3>4. QED
      BY <3>1, <3>2, <3>3
  <2>7. elements[loading] = TypesBy(SubSeq(database, p + 3, p + 2), SizeOf(loading), "undefined")
    <3>1. PICK ls, n : ls = SubSeq(database, p + 3, p + 2) /\ n = SizeOf(loading)
      OBVIOUS
    <3>2. TypesBy(ls, n, "undefined") = [id \in 0..(n - 1) |-> "undefined"]
      <4>1. DOMAIN ls = {}
        BY <2>6, <3>1
      <4>2. \A id : Mine(ls, id) = {}
        BY <4>1 DEF Mine
      <4>3. QED
        BY <4>2, TypesByIs
    <3>3. QED
      BY <1>2, <3>1, <3>2
  <2>8. Inside'
    <3>1. First'
      BY <1>1, <1>2 DEF First, Known
    <3>2. (\A d : PlaceOf(d)' = PlaceOf(d) /\ SizeOf(d)' = SizeOf(d)) /\ \A name : Places(name)' = Places(name)
      BY <1>1, StillThere
    <3>3. Found'
      BY <1>1, <1>2, <3>2 DEF Found
    <3>4. PlaceOf(loading)' = PlaceOf(loading) /\ SizeOf(loading)' = SizeOf(loading)
      <4>1. PICK d : d = loading
        OBVIOUS
      <4>2. loading' = d
        BY <1>1, <4>1
      <4>3. QED
        BY <1>1, <3>2, <4>1, <4>2, Zenon
    <3>5. Places(<<"ELEMENTS", "DIMENSION", loading>>)' = Places(<<"ELEMENTS", "DIMENSION", loading>>)
      BY <1>1, StillThere
    <3>6. at' = p + 3 /\ at' - 1 = p + 2 /\ p + 2 = at /\ p \in Nat
      BY <1>2, <1>4, <2>3, <2>5
    <3>7. \A k \in (p + 3)..(at' - 1) : FALSE
      BY <3>6
    <3>8. /\ at' >= p + 3 /\ database'[p + 1].kind = "data"
          /\ p + 2 \in Places(<<"ELEMENTS", "DIMENSION", loading>>)'
          /\ elements'[loading'] = TypesBy(SubSeq(database', p + 3, at' - 1), SizeOf(loading)', "undefined")
      BY <1>1, <1>2, <2>1, <2>5, <2>7, <3>4, <3>5, <3>6
    <3>9. p = PlaceOf(loading)'
      BY <2>5, <3>4
    <3>10. QED
      BY <2>3, <3>1, <3>3, <3>7, <3>8, <3>9 DEF Inside
  <2>9. QED
    BY <1>1, <1>2, <2>3, <2>4, <2>8, LoopGoesOn
<1>7. QED
  BY <1>5, <1>6 DEF FindElementSection

\* What is known at a line of an element section.
LEMMA AtElementLine ==
  ASSUME CursorOK, Typed, LoadingOK, pc = "element", NEW p, p = PlaceOf(loading)
  PROVE  /\ p \in Nat /\ p >= 1 /\ p + 2 \in 1..Len(database) /\ at \in (p + 3)..(Len(database) + 1)
         /\ p \in Places(<<"DIMENSION", loading>>) /\ p + 2 \in Places(<<"ELEMENTS", "DIMENSION", loading>>)
         /\ database[p + 1].kind = "data" /\ SizeOf(loading) \in Nat
         /\ \A k \in (p + 3)..(at - 1) : database[k].kind = "data" /\ ~Refused(database[k], SizeOf(loading))
         /\ elements[loading] = TypesBy(SubSeq(database, p + 3, at - 1), SizeOf(loading), "undefined")
         /\ ElementLines(loading) = DataAfter(database, p + 2)
         /\ DOMAIN elements[loading] = 0..(SizeOf(loading) - 1)
         /\ Cardinality(DOMAIN elements[loading]) = SizeOf(loading)
<1>1. file = database /\ Readable(database) /\ OnceEach(database) /\ at \in 1..(Len(database) + 1)
  BY DEF CursorOK, InDimension
<1>2. Len(database) \in Nat /\ DOMAIN database = 1..Len(database)
  BY <1>1, ReadableIs
<1>3. /\ Found /\ at >= p + 3 /\ database[p + 1].kind = "data"
      /\ p + 2 \in Places(<<"ELEMENTS", "DIMENSION", loading>>)
      /\ \A k \in (p + 3)..(at - 1) : database[k].kind = "data" /\ ~Refused(database[k], SizeOf(loading))
      /\ elements[loading] = TypesBy(SubSeq(database, p + 3, at - 1), SizeOf(loading), "undefined")
  BY DEF LoadingOK, Inside
<1>4. p \in Places(<<"DIMENSION", loading>>) /\ p \in 1..Len(database)
  BY <1>1, <1>3, DimensionPlace DEF Found
<1>5. p + 2 \in 1..Len(database) /\ p + 1 \in 1..Len(database)
  BY <1>1, <1>2, <1>3, <1>4, UniquePlace
<1>6. SizeOf(loading) \in Nat
  BY <1>3, <1>4, <1>5, SizeIsNumber
<1>7. ElementLines(loading) = DataAfter(database, p + 2)
  <2>1. PICK q : q = p + 2
    OBVIOUS
  <2>2. Smallest(Places(<<"ELEMENTS", "DIMENSION", loading>>)) = q
    BY <1>1, <1>3, <2>1, UniquePlace
  <2>3. QED
    BY <2>1, <2>2, Zenon DEF ElementLines
<1>8. DOMAIN elements[loading] = 0..(SizeOf(loading) - 1)
  BY <1>3, TypesByIs, Zenon
<1>9. Cardinality(0..(SizeOf(loading) - 1)) = SizeOf(loading)
  <2>1. PICK n : n = SizeOf(loading)
    OBVIOUS
  <2>2. n \in Nat /\ Cardinality(0..(n - 1)) = n
    BY <1>6, <2>1, FS_Interval
  <2>3. QED
    BY <2>1, <2>2
<1>10. QED
  BY <1>1, <1>2, <1>3, <1>4, <1>5, <1>6, <1>7, <1>8, <1>9

\* The first line refused is where the lines that count end.
LEMMA BeforeRefusedIs ==
  ASSUME NEW lines, Readable(lines), NEW size, NEW a \in 1..(Len(lines) + 1), NEW e \in a..Len(lines),
         NEW b \in e..Len(lines), Refused(lines[e], size),
         \A k \in a..(e - 1) : ~Refused(lines[k], size)
  PROVE  BeforeRefused(SubSeq(lines, a, b), size) = SubSeq(lines, a, e - 1)
<1>1. lines \in Seq(Range(lines)) /\ Len(lines) \in Nat /\ DOMAIN lines = 1..Len(lines)
  BY ReadableIs
<1>2. PICK s, c, n : s = SubSeq(lines, a, b) /\ c = e - 1 /\ n = e + 1 - a
  OBVIOUS
<1>3. /\ s \in Seq(Range(lines)) /\ Len(s) = b + 1 - a /\ DOMAIN s = 1..(b + 1 - a)
      /\ \A k \in 1..(b + 1 - a) : s[k] = lines[a + k - 1]
  <2>1. b \in (a - 1)..Len(lines)
    BY <1>1
  <2>2. QED
    BY <1>2, <2>1, LinesBetween
<1>4. n \in 1..(b + 1 - a) /\ a + n - 1 = e /\ c \in (a - 1)..Len(lines) /\ c + 1 - a = n - 1
  BY <1>1, <1>2
<1> DEFINE bad == {i \in DOMAIN s : Refused(s[i], size)}
<1>5. n \in bad /\ bad \subseteq Nat
  BY <1>3, <1>4
<1>6. \A i \in bad : n =< i
  <2>1. ASSUME NEW i \in 1..(b + 1 - a), i < n PROVE ~Refused(s[i], size)
    <3>1. a + i - 1 \in a..(e - 1)
      BY <1>2, <1>4, <2>1
    <3>2. QED
      BY <1>3, <3>1
  <2>2. QED
    BY <1>3, <1>4, <2>1
<1>7. BeforeRefused(s, size) = IF bad = {} THEN s ELSE SubSeq(s, 1, Smallest(bad) - 1)
  BY Zenon DEF BeforeRefused
<1> HIDE DEF bad
<1>8. Smallest(bad) = n
  <2>1. \A x \in bad : (\A y \in bad : x =< y) => x = n
    BY <1>5, <1>6
  <2>2. QED
    BY <1>5, <1>6, <2>1, Zenon DEF Smallest
<1>9. BeforeRefused(s, size) = SubSeq(s, 1, n - 1)
  BY <1>5, <1>7, <1>8
<1>10. SubSeq(s, 1, n - 1) = SubSeq(lines, a, c)
  <2>1. PICK t, u : t = SubSeq(s, 1, n - 1) /\ u = SubSeq(lines, a, c)
    OBVIOUS
  <2>2. t \in Seq(Range(lines)) /\ Len(t) = n - 1 /\ \A k \in 1..(n - 1) : t[k] = s[k]
    BY <1>3, <1>4, <2>1
  <2>3. u \in Seq(Range(lines)) /\ Len(u) = n - 1 /\ \A k \in 1..(n - 1) : u[k] = lines[a + k - 1]
    <3>1. /\ SubSeq(lines, a, c) \in Seq(Range(lines)) /\ Len(SubSeq(lines, a, c)) = c + 1 - a
          /\ \A k \in 1..(c + 1 - a) : SubSeq(lines, a, c)[k] = lines[a + k - 1]
      BY <1>4, LinesBetween
    <3>2. QED
      BY <1>4, <2>1, <3>1
  <2>4. \A k \in 1..(n - 1) : t[k] = u[k]
    <3>1. \A k \in 1..(n - 1) : k \in 1..(b + 1 - a)
      BY <1>4
    <3>2. QED
      BY <1>3, <2>2, <2>3, <3>1
  <2>5. t = u
    BY <2>2, <2>3, <2>4
  <2>6. QED
    BY <2>1, <2>5
<1>11. QED
  BY <1>2, <1>9, <1>10

\* A line of the section that is refused is the fault.
LEMMA LoadElementFails ==
  ASSUME CursorOK, Typed, LoadingOK, pc = "element", IsDataLine, Refused(Line, SizeOf(loading))
  PROVE  Outcome /\ Remains
<1>1. file = database /\ Readable(database) /\ OnceEach(database)
  BY DEF CursorOK, InDimension
<1>2. /\ Len(database) \in Nat /\ DOMAIN database = 1..Len(database)
      /\ at \in 1..Len(database) /\ Line = database[at] /\ database[at].kind = "data"
  BY <1>1, DatabaseLineIs
<1>3. PICK p : p = PlaceOf(loading)
  OBVIOUS
<1>4. /\ p \in Nat /\ p >= 1 /\ p + 2 \in 1..Len(database) /\ at \in (p + 3)..(Len(database) + 1)
      /\ \A k \in (p + 3)..(at - 1) : database[k].kind = "data" /\ ~Refused(database[k], SizeOf(loading))
      /\ elements[loading] = TypesBy(SubSeq(database, p + 3, at - 1), SizeOf(loading), "undefined")
      /\ ElementLines(loading) = DataAfter(database, p + 2)
  BY <1>3, AtElementLine
<1>5. First /\ Wholes /\ DimensionsListed /\ \A d \in Known \ complete : d # loading => elements[d] = << >>
  BY DEF LoadingOK, Between, Inside, InDimension
<1>6. PICK q : q = p + 2
  OBVIOUS
<1>7. /\ q \in 1..Len(database) /\ p + 3 = q + 1 /\ at \in (q + 1)..Len(database)
      /\ \A k \in (q + 1)..at : database[k].kind = "data"
  BY <1>2, <1>4, <1>6
<1>8. ~Sound(loading)
  <2>1. database[at] \in Range(DataAfter(database, q))
    BY <1>1, <1>2, <1>7, DataAfterHas
  <2>2. Line \in Range(ElementLines(loading))
    BY <1>2, <1>4, <1>6, <2>1
  <2>3. QED
    BY <2>2, Zenon DEF Sound
<1>9. elements[loading] = TypesBy(BeforeRefused(ElementLines(loading), SizeOf(loading)), SizeOf(loading), "undefined")
  <2>1. PICK b \in (q + 1)..(Len(database) + 1) :
             /\ b = Len(database) + 1 \/ database[b].kind # "data"
             /\ DataAfter(database, q) = SubSeq(database, q + 1, b - 1)
    BY <1>1, <1>2, <1>7, DataAfterIs
  <2>2. b - 1 \in at..Len(database)
    BY <1>2, <1>7, <2>1
  <2>3. PICK a, c, size : a = q + 1 /\ c = b - 1 /\ size = SizeOf(loading)
    OBVIOUS
  <2>4. /\ a \in 1..(Len(database) + 1) /\ at \in a..Len(database) /\ c \in at..Len(database)
        /\ Refused(database[at], size) /\ \A k \in a..(at - 1) : ~Refused(database[k], size)
    BY <1>2, <1>4, <1>7, <2>2, <2>3
  <2>5. BeforeRefused(SubSeq(database, a, c), size) = SubSeq(database, a, at - 1)
    BY <1>1, <2>4, BeforeRefusedIs
  <2>6. ElementLines(loading) = SubSeq(database, a, c)
    BY <1>4, <1>6, <2>1, <2>3
  <2>7. elements[loading] = TypesBy(SubSeq(database, a, at - 1), size, "undefined")
    BY <1>4, <1>7, <2>3
  <2>8. QED
    BY <2>3, <2>5, <2>6, <2>7
<1>10. QED
  BY <1>5, <1>8, <1>9, OutcomeAtFault, OneRemains

\* One more line gives its element a type, unless it is one of a string element.
LEMMA OneMoreLine ==
  ASSUME NEW lines, Readable(lines), NEW a \in 1..(Len(lines) + 1), NEW e \in a..Len(lines), NEW size, NEW o
  PROVE  TypesBy(SubSeq(lines, a, e), size, o) =
           IF lines[e].type = "string" THEN TypesBy(SubSeq(lines, a, e - 1), size, o)
           ELSE [TypesBy(SubSeq(lines, a, e - 1), size, o) EXCEPT ![lines[e].id] = TypeOf(lines[e])]
<1>1. Len(lines) \in Nat /\ DOMAIN lines = 1..Len(lines)
  BY ReadableIs
<1>2. PICK c, n, ls, ms : c = e - 1 /\ n = e - a /\ ls = SubSeq(lines, a, e - 1) /\ ms = SubSeq(lines, a, e)
  OBVIOUS
<1>3. /\ c \in (a - 1)..Len(lines) /\ e \in (a - 1)..Len(lines) /\ n \in Nat
      /\ c + 1 - a = n /\ e + 1 - a = n + 1 /\ a + (n + 1) - 1 = e
  BY <1>1, <1>2
<1>4. DOMAIN ls = 1..n /\ \A k \in 1..n : ls[k] = lines[a + k - 1]
  <2>1. /\ DOMAIN SubSeq(lines, a, c) = 1..(c + 1 - a)
        /\ \A k \in 1..(c + 1 - a) : SubSeq(lines, a, c)[k] = lines[a + k - 1]
    BY <1>3, LinesBetween
  <2>2. QED
    BY <1>2, <1>3, <2>1
<1>5. DOMAIN ms = 1..(n + 1) /\ \A k \in 1..(n + 1) : ms[k] = lines[a + k - 1]
  <2>1. /\ DOMAIN SubSeq(lines, a, e) = 1..(e + 1 - a)
        /\ \A k \in 1..(e + 1 - a) : SubSeq(lines, a, e)[k] = lines[a + k - 1]
    BY <1>3, LinesBetween
  <2>2. QED
    BY <1>2, <1>3, <2>1
<1>6. \A k \in 1..n : ms[k] = ls[k]
  <2>1. \A k \in 1..n : k \in 1..(n + 1)
    BY <1>3
  <2>2. QED
    BY <1>4, <1>5, <2>1
<1>7. ms[n + 1] = lines[e]
  <2>1. n + 1 \in 1..(n + 1)
    BY <1>3
  <2>2. QED
    BY <1>3, <1>5, <2>1
<1>8. TypesBy(ms, size, o) =
        IF ms[n + 1].type = "string" THEN TypesBy(ls, size, o)
        ELSE [TypesBy(ls, size, o) EXCEPT ![ms[n + 1].id] = TypeOf(ms[n + 1])]
  <2> DEFINE Type(list, id) == IF Mine(list, id) = {} THEN o ELSE TypeOf(list[Latest(Mine(list, id))])
  <2>1. /\ TypesBy(ms, size, o) = [id \in 0..(size - 1) |-> Type(ms, id)]
        /\ TypesBy(ls, size, o) = [id \in 0..(size - 1) |-> Type(ls, id)]
    BY TypesByIs, Zenon
  <2>2. ASSUME NEW id, ~(ms[n + 1].id = id /\ ms[n + 1].type # "string")
        PROVE  Type(ms, id) = Type(ls, id)
    <3>1. Mine(ms, id) = Mine(ls, id) /\ Mine(ls, id) \subseteq 1..n
      BY <1>3, <1>4, <1>5, <1>6, <2>2 DEF Mine
    <3>2. CASE Mine(ls, id) = {}
      BY <3>1, <3>2
    <3>3. CASE Mine(ls, id) # {}
      <4>1. Latest(Mine(ls, id)) \in 1..n
        BY <1>3, <3>1, <3>3, LatestIs
      <4>2. QED
        BY <1>6, <3>1, <3>3, <4>1
    <3>4. QED
      BY <3>2, <3>3
  <2>3. ASSUME NEW id, ms[n + 1].id = id /\ ms[n + 1].type # "string"
        PROVE  Type(ms, id) = TypeOf(ms[n + 1])
    <3>1. n + 1 \in Mine(ms, id) /\ Mine(ms, id) \subseteq 1..(n + 1) /\ n + 1 \in Nat
      BY <1>3, <1>5, <2>3 DEF Mine
    <3>2. Latest(Mine(ms, id)) \in 1..(n + 1) /\ Latest(Mine(ms, id)) >= n + 1
      <4>1. PICK m : m = n + 1
        OBVIOUS
      <4>2. QED
        BY <3>1, <4>1, LatestIs
    <3>3. Latest(Mine(ms, id)) = n + 1
      BY <1>3, <3>2
    <3>4. QED
      BY <3>1, <3>3
  <2> HIDE DEF Type
  <2>4. CASE ms[n + 1].type = "string"
    BY <2>1, <2>2, <2>4
  <2>5. CASE ms[n + 1].type # "string"
    <3>1. PICK x, v : x = ms[n + 1].id /\ v = TypeOf(ms[n + 1])
      OBVIOUS
    <3>2. \A id : Type(ms, id) = IF id = x THEN v ELSE Type(ls, id)
      BY <2>2, <2>3, <2>5, <3>1
    <3>3. TypesBy(ms, size, o) = [TypesBy(ls, size, o) EXCEPT ![x] = v]
      BY <2>1, <3>2
    <3>4. QED
      BY <2>5, <3>1, <3>3
  <2>6. QED
    BY <2>4, <2>5
<1>9. QED
  BY <1>2, <1>7, <1>8

LEMMA LoadElementStep ==
  ASSUME CursorOK, Typed, LoadingOK, LoadElement
  PROVE  LoadingOK'
<1>1. /\ pc = "element" /\ IsDataLine /\ database' = database /\ dimensions' = dimensions
      /\ loading' = loading /\ sizeDimensions' = sizeDimensions /\ complete' = complete
  BY DEF LoadElement, Caught, given
<1>2. PICK p, size : p = PlaceOf(loading) /\ size = SizeOf(loading)
  OBVIOUS
<1>3. /\ p \in Nat /\ p >= 1 /\ p + 2 \in 1..Len(database) /\ at \in (p + 3)..(Len(database) + 1)
      /\ p + 2 \in Places(<<"ELEMENTS", "DIMENSION", loading>>)
      /\ database[p + 1].kind = "data" /\ size \in Nat
      /\ \A k \in (p + 3)..(at - 1) : database[k].kind = "data" /\ ~Refused(database[k], size)
      /\ elements[loading] = TypesBy(SubSeq(database, p + 3, at - 1), size, "undefined")
      /\ Cardinality(DOMAIN elements[loading]) = size
  BY <1>1, <1>2, AtElementLine
<1>4. file = database /\ Readable(database)
  BY <1>1 DEF CursorOK, InDimension
<1>5. Len(database) \in Nat /\ at \in 1..Len(database) /\ Line = database[at] /\ database[at].kind = "data"
  BY <1>1, <1>4, DatabaseLineIs
<1>6. CASE Refused(Line, Cardinality(DOMAIN elements[loading])) /\ Caught
  <2>1. Outcome /\ Remains
    BY <1>1, <1>2, <1>3, <1>6, LoadElementFails
  <2>2. QED
    BY <1>1, <1>6, <2>1, LoopEnds DEF Caught, Stay
<1>7. CASE /\ ~Refused(Line, Cardinality(DOMAIN elements[loading]))
           /\ elements' = IF Line.type = "string" THEN elements
                          ELSE [elements EXCEPT ![loading][Line.id] = TypeOf(Line)]
           /\ Goto(pc)
  <2>1. at' = at + 1 /\ pc' = "element"
    BY <1>1, <1>5, <1>7, LineIs DEF Goto, IsDataLine, IsEndOfFile
  <2>2. loading \in Known /\ DOMAIN elements = Known /\ First
    BY <1>1 DEF LoadingOK, Inside, InDimension, First, Typed
  <2>3. \A d \in Known \ {loading} : elements'[d] = elements[d]
    BY <1>7, <2>2
  <2>4. elements'[loading] = IF Line.type = "string" THEN elements[loading]
                             ELSE [elements[loading] EXCEPT ![Line.id] = TypeOf(Line)]
    BY <1>7, <2>2
  <2>5. elements'[loading] = TypesBy(SubSeq(database, p + 3, at), size, "undefined")
    <3>1. PICK a, o : a = p + 3 /\ o = "undefined"
      OBVIOUS
    <3>2. a \in 1..(Len(database) + 1) /\ at \in a..Len(database)
      BY <1>3, <1>5, <3>1
    <3>3. TypesBy(SubSeq(database, a, at), size, o) =
            IF database[at].type = "string" THEN TypesBy(SubSeq(database, a, at - 1), size, o)
            ELSE [TypesBy(SubSeq(database, a, at - 1), size, o) EXCEPT ![database[at].id] = TypeOf(database[at])]
      BY <1>4, <3>2, OneMoreLine
    <3>4. elements[loading] = TypesBy(SubSeq(database, a, at - 1), size, o)
      BY <1>3, <3>1
    <3>5. TypesBy(SubSeq(database, a, at), size, o) =
            IF Line.type = "string" THEN elements[loading] ELSE [elements[loading] EXCEPT ![Line.id] = TypeOf(Line)]
      BY <1>5, <3>3, <3>4, Zenon
    <3>6. QED
      BY <2>4, <3>1, <3>5
  <2>6. \A k \in (p + 3)..(at' - 1) : database[k].kind = "data" /\ ~Refused(database[k], size)
    <3>1. ~Refused(database[at], size)
      BY <1>3, <1>5, <1>7
    <3>2. \A k \in (p + 3)..(at' - 1) : k \in (p + 3)..(at - 1) \/ k = at
      BY <1>3, <1>5, <2>1
    <3>3. QED
      BY <1>3, <1>5, <3>1, <3>2
  <2>7. Inside'
    <3>1. First'
      BY <1>1, <2>2 DEF First, Known
    <3>2. (\A d : PlaceOf(d)' = PlaceOf(d) /\ SizeOf(d)' = SizeOf(d)) /\ \A name : Places(name)' = Places(name)
      BY <1>1, StillThere
    <3>3. Found'
      BY <1>1, <3>2 DEF Found, LoadingOK, Inside
    <3>4. PlaceOf(loading)' = p /\ SizeOf(loading)' = size
      <4>1. PICK d : d = loading
        OBVIOUS
      <4>2. loading' = d
        BY <1>1, <4>1
      <4>3. PlaceOf(loading)' = PlaceOf(d)' /\ SizeOf(loading)' = SizeOf(d)'
        BY <4>2, Zenon DEF PlaceOf, SizeOf
      <4>4. QED
        BY <1>2, <3>2, <4>1, <4>3
    <3>5. Places(<<"ELEMENTS", "DIMENSION", loading>>)' = Places(<<"ELEMENTS", "DIMENSION", loading>>)
      BY <1>1, StillThere
    <3>6. at' >= p + 3 /\ at' - 1 = at
      BY <1>3, <2>1, <1>5
    <3>7. /\ at' >= PlaceOf(loading)' + 3 /\ database'[PlaceOf(loading)' + 1].kind = "data"
          /\ PlaceOf(loading)' + 2 \in Places(<<"ELEMENTS", "DIMENSION", loading>>)'
          /\ elements'[loading'] = TypesBy(SubSeq(database', PlaceOf(loading)' + 3, at' - 1), SizeOf(loading)', "undefined")
      BY <1>1, <1>3, <2>5, <3>4, <3>5, <3>6
    <3>8. \A k \in (PlaceOf(loading)' + 3)..(at' - 1) : database'[k].kind = "data" /\ ~Refused(database'[k], SizeOf(loading)')
      BY <1>1, <2>6, <3>4
    <3>9. QED
      BY <2>1, <3>1, <3>3, <3>7, <3>8 DEF Inside
  <2>8. QED
    BY <1>1, <2>1, <2>2, <2>3, <2>7, LoopGoesOn
<1>8. QED
  BY <1>6, <1>7 DEF LoadElement

LEMMA EndElementsStep ==
  ASSUME CursorOK, Typed, LoadingOK, EndElements
  PROVE  LoadingOK'
<1>1. /\ pc = "element" /\ ~IsDataLine /\ database' = database /\ dimensions' = dimensions
      /\ loading' = loading /\ sizeDimensions' = sizeDimensions /\ complete' = complete \cup {loading}
      /\ at' = at /\ pc' = "next" /\ elements' = [elements EXCEPT ![loading] = Cleared(@)]
  BY DEF EndElements, Stay, cursorVars, given
<1>2. PICK p, size : p = PlaceOf(loading) /\ size = SizeOf(loading)
  OBVIOUS
<1>3. /\ p \in Nat /\ p >= 1 /\ p + 2 \in 1..Len(database) /\ at \in (p + 3)..(Len(database) + 1)
      /\ p \in Places(<<"DIMENSION", loading>>) /\ p + 2 \in Places(<<"ELEMENTS", "DIMENSION", loading>>)
      /\ database[p + 1].kind = "data" /\ size \in Nat
      /\ \A k \in (p + 3)..(at - 1) : database[k].kind = "data" /\ ~Refused(database[k], size)
      /\ elements[loading] = TypesBy(SubSeq(database, p + 3, at - 1), size, "undefined")
      /\ ElementLines(loading) = DataAfter(database, p + 2)
  BY <1>1, <1>2, AtElementLine
<1>4. file = database /\ Readable(database) /\ OnceEach(database)
  BY <1>1 DEF CursorOK, InDimension
<1>5. /\ Len(database) \in Nat /\ DOMAIN database = 1..Len(database)
      /\ at = Len(database) + 1 \/ database[at].kind # "data"
  BY <1>1, <1>4, DatabaseLineIs
<1>6. /\ First /\ Wholes /\ Found /\ DimensionsListed /\ \A d \in complete : PlaceOf(d) < at
      /\ \A d \in Known \ complete : d # loading => elements[d] = << >>
  BY <1>1 DEF LoadingOK, Between, Inside, InDimension
<1>7. /\ loading \in Known \ complete /\ (\A e \in Known \ complete : loading =< e)
      /\ complete \subseteq Known /\ Known \subseteq Nat /\ DOMAIN elements = Known
  BY <1>6 DEF First, Typed
<1>8. Known' = Known /\ DimensionsListed'
  BY <1>1, <1>6, ListedStays DEF Known
<1>9. PICK q, c : q = p + 2 /\ c = at - 1
  OBVIOUS
<1>10. /\ q \in 1..Len(database) /\ c \in q..Len(database) /\ q + 1 = p + 3 /\ q + 1 \in 1..(Len(database) + 1)
       /\ at \in (q + 1)..(Len(database) + 1) /\ c \in (q + 1 - 1)..Len(database)
  BY <1>3, <1>5, <1>9
<1>11. ElementLines(loading) = SubSeq(database, q + 1, c)
  <2>1. \A k \in (q + 1)..(at - 1) : database[k].kind = "data"
    BY <1>3, <1>10
  <2>2. DataAfter(database, q) = SubSeq(database, q + 1, at - 1)
    BY <1>4, <1>5, <1>10, <2>1, DataAfterUntil
  <2>3. QED
    BY <1>3, <1>9, <2>2
<1>12. Whole(loading)'
  <2>1. PICK ls, a : ls = SubSeq(database, a, c) /\ a = q + 1
    OBVIOUS
  <2>2. DOMAIN ls = 1..(c + 1 - a) /\ c + 1 - a \in Nat /\ Range(ls) = {database[k] : k \in a..c}
    <3>1. Readable(database) /\ a \in 1..(Len(database) + 1) /\ c \in (a - 1)..Len(database)
      BY <1>4, <1>5, <1>10, <2>1
    <3>2. c + 1 - a \in Nat
      BY <1>5, <1>10, <2>1
    <3>3. /\ DOMAIN SubSeq(database, a, c) = 1..(c + 1 - a)
          /\ Range(SubSeq(database, a, c)) = {database[k] : k \in a..c}
      BY <3>1, LinesBetween
    <3>4. QED
      BY <2>1, <3>2, <3>3
  <2>3. \A line \in Range(ls) : ~Refused(line, size)
    <3>1. \A k \in a..c : ~Refused(database[k], size)
      BY <1>3, <1>9, <1>10, <2>1
    <3>2. QED
      BY <2>2, <3>1
  <2>4. elements'[loading] = TypesBy(ls, size, NoElement)
    <3>1. elements[loading] = TypesBy(ls, size, "undefined")
      BY <1>3, <1>9, <1>10, <2>1
    <3>2. PICK n : n = c + 1 - a
      OBVIOUS
    <3>3. n \in Nat /\ DOMAIN ls = 1..n
      BY <2>2, <3>2
    <3>4. Cleared(TypesBy(ls, size, "undefined")) = TypesBy(ls, size, NoElement)
      BY <3>3, ClearedTypes
    <3>5. elements'[loading] = Cleared(elements[loading])
      BY <1>1, <1>7
    <3>6. QED
      BY <3>1, <3>4, <3>5
  <2>5. PICK d : d = loading
    OBVIOUS
  <2>6. /\ PlaceOf(d)' = p /\ SizeOf(d)' = size /\ ElementLines(d)' = ls
        /\ \A name : Places(name)' = Places(name)
    BY <1>1, <1>2, <1>11, <2>1, <2>5, StillThere
  <2>7. /\ PlaceOf(d)' \in Places(<<"DIMENSION", d>>)' /\ PlaceOf(d)' + 2 \in Places(<<"ELEMENTS", "DIMENSION", d>>)'
        /\ database'[PlaceOf(d)' + 1].kind = "data"
    BY <1>1, <1>3, <2>5, <2>6
  <2>8. (\A line \in Range(ElementLines(d)') : ~Refused(line, SizeOf(d)'))
        /\ elements'[d] = TypesBy(ElementLines(d)', SizeOf(d)', NoElement)
    BY <2>3, <2>4, <2>5, <2>6, Zenon
  <2>9. Whole(d)'
    BY <2>7, <2>8, Zenon DEF Whole
  <2>10. loading' = d
    BY <1>1, <2>5
  <2>11. QED
    BY <2>9, <2>10, <2>5, <1>1, Zenon DEF Whole, PlaceOf, SizeOf, ElementLines
<1>13. \A d : PlaceOf(d)' = PlaceOf(d)
  BY <1>1, StillThere
<1>14. Wholes'
  <2>1. ASSUME NEW d \in complete' PROVE Whole(d)'
    <3>1. CASE d = loading
      <4>1. loading' = d
        BY <1>1, <3>1
      <4>2. QED
        BY <1>12, <4>1, Zenon DEF Whole, PlaceOf, SizeOf, ElementLines
    <3>2. CASE d # loading
      <4>1. Whole(d) /\ elements'[d] = elements[d]
        BY <1>1, <1>6, <1>7, <3>2 DEF Wholes
      <4>2. QED
        BY <1>1, <4>1, WholeStays
    <3>3. QED
      BY <3>1, <3>2
  <2>2. ASSUME NEW d \in complete', NEW e \in Known, e < d
        PROVE  e \in complete' /\ PlaceOf(e) < PlaceOf(d)
    <3>1. CASE d = loading
      <4>1. e \in complete
        BY <1>7, <2>2, <3>1
      <4>2. QED
        BY <1>1, <1>6, <3>1, <4>1 DEF Found
    <3>2. CASE d # loading
      BY <1>1, <1>6, <2>2, <3>2 DEF Wholes
    <3>3. QED
      BY <3>1, <3>2
  <2>3. QED
    BY <1>8, <1>13, <2>1, <2>2, Zenon DEF Wholes
<1>15. \A d \in complete' : PlaceOf(d) < at
  BY <1>1, <1>2, <1>3, <1>5, <1>6
<1>16. Between'
  <2>1. \A d \in Known \ complete' : elements'[d] = << >>
    BY <1>1, <1>6, <1>7
  <2>2. QED
    BY <1>1, <1>8, <1>13, <1>15, <2>1 DEF Between
<1>17. ASSUME NEW d \in Known, d # loading, NEW i \in Places(<<"DIMENSION", d>>), ~(i >= at)
       PROVE  i < PlaceOf(loading)
  <2>1. i \in 1..Len(database) /\ database[i] = Section(<<"DIMENSION", d>>)
    BY <1>4, <1>17, UniquePlace
  <2>2. database[i].kind = "section" /\ database[i].name = <<"DIMENSION", d>>
    BY <2>1, SectionNames
  <2>3. i # p
    <3>1. database[p] = Section(<<"DIMENSION", loading>>)
      BY <1>3, <1>4, UniquePlace
    <3>2. database[p].name = <<"DIMENSION", loading>>
      BY <3>1, SectionNames
    <3>3. <<"DIMENSION", loading>> # <<"DIMENSION", d>>
      BY <1>17
    <3>4. QED
      BY <2>2, <3>2, <3>3
  <2>4. i # p + 1
    BY <1>3, <2>2
  <2>5. i # p + 2
    <3>1. database[p + 2] = Section(<<"ELEMENTS", "DIMENSION", loading>>)
      BY <1>3, <1>4, UniquePlace
    <3>2. database[p + 2].name = <<"ELEMENTS", "DIMENSION", loading>>
      BY <3>1, SectionNames
    <3>3. <<"ELEMENTS", "DIMENSION", loading>> # <<"DIMENSION", d>>
      OBVIOUS
    <3>4. QED
      BY <2>2, <3>2, <3>3
  <2>6. i \notin (p + 3)..(at - 1)
    BY <1>3, <2>2
  <2>7. p \in Nat /\ p = PlaceOf(loading) /\ at \in Nat /\ i \in Nat /\ i < at
    BY <1>2, <1>3, <1>5, <1>17, <2>1
  <2>8. QED
    BY <2>3, <2>4, <2>5, <2>6, <2>7
<1>18. \A d \in Known' \ complete' : Late(d)'
  <2>1. ASSUME NEW d \in Known \ complete' PROVE Late(d)'
    <3>1. d # loading /\ d \in Known /\ loading \in complete'
      BY <1>1, <2>1
    <3>2. \A i \in Places(<<"DIMENSION", d>>) : i >= at' \/ i < PlaceOf(loading)
      BY <1>1, <1>17, <3>1
    <3>3. Places(<<"DIMENSION", d>>)' = Places(<<"DIMENSION", d>>)
      BY <1>1, StillThere
    <3>4. \A i \in Places(<<"DIMENSION", d>>)' : i >= at' \/ \E e \in complete' : i < PlaceOf(e)'
      BY <1>13, <3>1, <3>2, <3>3
    <3>5. QED
      BY <3>4, Zenon DEF Late
  <2>2. QED
    BY <1>8, <2>1
<1>19. Inside'
  BY <1>1, <1>18 DEF Inside, InDimension
<1>20. Beginning' /\ After'
  BY <1>1 DEF Beginning, After, Early, Behind, InCube
<1>21. QED
  BY <1>14, <1>16, <1>19, <1>20 DEF LoadingOK

-----------------------------------------------------------------------------
(* The steps before it. *)

\* As long as no dimension is loaded, there is only the beginning to keep.
LEMMA EarlyStays ==
  ASSUME complete' = {}, pc' \in Early, Beginning'
  PROVE  LoadingOK'
<1>1. Wholes' /\ Between' /\ Inside' /\ After'
  BY DEF Wholes, Between, Inside, After, Early, InDimension, Behind, InCube
<1>2. QED
  BY <1>1 DEF LoadingOK

LEMMA EarlyEnds ==
  ASSUME complete' = {}, \A d \in Known' : elements'[d] = << >>,
         pc' \in {"collect", "aborted"}, pc' = "collect" => Known' = {} \/ ~DimensionsListed'
  PROVE  LoadingOK'
<1>1. Wholes' /\ Between' /\ Inside' /\ Beginning'
  BY DEF Wholes, Between, Inside, Beginning, Early, InDimension
<1>2. Remains'
  BY Zenon DEF Remains
<1>3. pc' = "collect" => Outcome'
  BY DEF Outcome
<1>4. After'
  BY <1>2, <1>3 DEF After, Behind, InCube
<1>5. QED
  BY <1>1, <1>4 DEF LoadingOK

LEMMA DatabaseSectionStep ==
  ASSUME CursorOK, Typed, LoadingOK, DatabaseSection
  PROVE  LoadingOK'
<1>1. /\ pc = "database" /\ database' = database /\ Known' = Known /\ complete' = complete
      /\ elements' = elements
  BY DEF DatabaseSection, dimensionVars, given, Known
<1>2. complete = {} /\ Known = {} /\ at = 1
  BY <1>1 DEF LoadingOK, Beginning, Early
<1>3. file = database /\ Len(database) \in Nat
  BY <1>1, ReadableIs DEF CursorOK, Early
<1>4. CASE InSection(<<"DATABASE">>) /\ Goto("size")
  <2>1. at' = 2 /\ pc' = "size"
    BY <1>2, <1>4, LineIs DEF Goto
  <2>2. database[1] = Section(<<"DATABASE">>)
    BY <1>2, <1>3, <1>4, DatabaseLineIs DEF Places
  <2>3. database[1].name = <<"DATABASE">>
    BY <2>2, SectionNames
  <2>4. \A i \in 1..(at' - 1) : database'[i].name[1] # "DIMENSION"
    BY <1>1, <2>1, <2>3
  <2>5. Beginning'
    BY <1>1, <1>2, <2>1, <2>2, <2>4 DEF Beginning
  <2>6. QED
    BY <1>1, <1>2, <2>1, <2>5, EarlyStays DEF Early
<1>5. CASE Stay("dimensions")
  <2>1. at' = 1 /\ pc' = "dimensions"
    BY <1>2, <1>5 DEF Stay, cursorVars
  <2>2. Beginning'
    BY <1>1, <1>2, <2>1 DEF Beginning
  <2>3. QED
    BY <1>1, <1>2, <2>1, <2>2, EarlyStays DEF Early
<1>6. QED
  BY <1>4, <1>5 DEF DatabaseSection

LEMMA DatabaseLineStep ==
  ASSUME CursorOK, Typed, LoadingOK, DatabaseLine
  PROVE  LoadingOK'
<1>1. /\ pc = "size" /\ database' = database /\ Known' = Known /\ complete' = complete
      /\ elements' = elements /\ pc' = "dimensions"
  BY DEF DatabaseLine, given, Known, Goto, Stay
<1>2. /\ complete = {} /\ Known = {} /\ at = 2
      /\ \A i \in 1..(at - 1) : database[i].kind = "section" => database[i].name[1] # "DIMENSION"
  BY <1>1 DEF LoadingOK, Beginning, Early
<1>3. file = database
  BY <1>1 DEF CursorOK, Early
<1>4. \A i \in 1..(at' - 1) : database[i].kind = "section" => database[i].name[1] # "DIMENSION"
  <2>1. CASE IsDataLine /\ Goto("dimensions")
    <3>1. at' = 3 /\ database[2].kind = "data"
      BY <1>2, <1>3, <2>1, DatabaseLineIs, LineIs DEF Goto
    <3>2. QED
      BY <1>2, <3>1
  <2>2. CASE Stay("dimensions")
    BY <1>2, <2>2 DEF Stay, cursorVars
  <2>3. QED
    BY <2>1, <2>2 DEF DatabaseLine
<1>5. Beginning'
  BY <1>1, <1>2, <1>4 DEF Beginning
<1>6. QED
  BY <1>1, <1>2, <1>5, EarlyStays DEF Early

LEMMA DimensionsSectionStep ==
  ASSUME CursorOK, Typed, LoadingOK, DimensionsSection
  PROVE  LoadingOK'
<1>1. /\ pc = "dimensions" /\ database' = database /\ Known' = Known /\ complete' = complete
      /\ elements' = elements /\ sizeDimensions' = sizeDimensions
  BY DEF DimensionsSection, dimensionVars, given, Known
<1>2. /\ complete = {} /\ Known = {}
      /\ \A i \in 1..(at - 1) : database[i].kind = "section" => database[i].name[1] # "DIMENSION"
  BY <1>1 DEF LoadingOK, Beginning, Early
<1>3. file = database /\ Readable(database) /\ OnceEach(database) /\ Len(database) \in Nat
  BY <1>1, ReadableIs DEF CursorOK, Early
<1>4. CASE InSection(<<"DIMENSIONS">>) /\ Goto("dimension")
  <2>1. at' = at + 1 /\ pc' = "dimension"
    BY <1>4, LineIs DEF Goto
  <2>2. at \in Places(<<"DIMENSIONS">>) /\ at \in 1..Len(database) /\ database[at] = Section(<<"DIMENSIONS">>)
    BY <1>3, <1>4, DatabaseLineIs, UniquePlace
  <2>3. database[at].name = <<"DIMENSIONS">>
    BY <2>2, SectionNames
  <2>4. \A i \in 1..(at' - 1) : database[i].kind = "section" => database[i].name[1] # "DIMENSION"
    BY <1>2, <1>3, <2>1, <2>2, <2>3
  <2>5. at \in Places(<<"DIMENSIONS">>)'
    BY <1>1, <2>2, StillThere
  <2>6. at < at' /\ \A k \in (at + 1)..(at' - 1) : FALSE
    BY <1>3, <2>1, <2>2
  <2>7. Beginning'
    BY <1>1, <1>2, <2>1, <2>4, <2>5, <2>6 DEF Beginning
  <2>8. QED
    BY <1>1, <1>2, <2>1, <2>7, EarlyStays DEF Early
<1>5. CASE Stay("collect")
  <2>1. pc' = "collect"
    BY <1>5 DEF Stay
  <2>2. QED
    BY <1>1, <1>2, <2>1, EarlyEnds
<1>6. QED
  BY <1>4, <1>5 DEF DimensionsSection

\* What is known at a line of the list of dimensions.
LEMMA AtDimensionLine ==
  ASSUME CursorOK, Typed, LoadingOK, pc = "dimension"
  PROVE  /\ complete = {} /\ (\A d \in Known : elements[d] = << >>)
         /\ file = database /\ Readable(database) /\ OnceEach(database)
         /\ Len(database) \in Nat /\ DOMAIN database = 1..Len(database) /\ at \in 1..(Len(database) + 1)
         /\ \A i \in 1..(at - 1) : database[i].kind = "section" => database[i].name[1] # "DIMENSION"
         /\ \E i \in Places(<<"DIMENSIONS">>) :
              /\ i \in 1..Len(database) /\ i < at
              /\ \A k \in (i + 1)..(at - 1) : database[k].kind = "data" /\ database[k].id < sizeDimensions
<1>1. file = database /\ Readable(database) /\ OnceEach(database) /\ at \in 1..(Len(database) + 1)
  BY DEF CursorOK, Early
<1>2. PICK i \in Places(<<"DIMENSIONS">>) :
        i < at /\ \A k \in (i + 1)..(at - 1) : database[k].kind = "data" /\ database[k].id < sizeDimensions
  BY DEF LoadingOK, Beginning
<1>3. i \in 1..Len(database)
  BY <1>1, UniquePlace
<1>4. /\ complete = {} /\ (\A d \in Known : elements[d] = << >>)
      /\ \A k \in 1..(at - 1) : database[k].kind = "section" => database[k].name[1] # "DIMENSION"
  BY DEF LoadingOK, Beginning, Early
<1>5. QED
  BY <1>1, <1>2, <1>3, <1>4, ReadableIs

\* The identifier of a dimension is a number.
LEMMA DimensionIdIsNumber ==
  ASSUME CursorOK, Typed, LoadingOK, pc = "dimension", IsDataLine
  PROVE  Line.id \in Nat
<1>1. /\ file = database /\ Readable(database) /\ OnceEach(database)
      /\ Len(database) \in Nat /\ DOMAIN database = 1..Len(database)
  BY AtDimensionLine
<1>2. PICK i \in Places(<<"DIMENSIONS">>) :
        /\ i \in 1..Len(database) /\ i < at
        /\ \A k \in (i + 1)..(at - 1) : database[k].kind = "data" /\ database[k].id < sizeDimensions
  BY AtDimensionLine
<1>3. at \in 1..Len(database) /\ Line = database[at] /\ database[at].kind = "data"
  BY <1>1, DatabaseLineIs
<1>4. \A k \in (i + 1)..at : database[k].kind = "data"
  BY <1>1, <1>2, <1>3
<1>5. database[i].kind = "section" /\ database[i].name[1] = "DIMENSIONS"
  BY <1>2, SectionNames DEF Places
<1>6. Belongs(database, i, at, "DIMENSIONS")
  BY <1>1, <1>2, <1>3, <1>4, <1>5 DEF Belongs, IsData
<1>7. at \in (i + 1)..Len(database)
  BY <1>1, <1>2, <1>3
<1>8. QED
  BY <1>1, <1>2, <1>3, <1>6, <1>7 DEF Readable

LEMMA DimensionLineStep ==
  ASSUME CursorOK, Typed, LoadingOK, DimensionLine
  PROVE  LoadingOK'
<1>1. /\ pc = "dimension" /\ IsDataLine /\ database' = database /\ complete' = complete
      /\ sizeDimensions' = sizeDimensions
  BY DEF DimensionLine, given
<1>2. /\ complete = {} /\ (\A d \in Known : elements[d] = << >>)
      /\ file = database /\ Readable(database) /\ OnceEach(database)
      /\ Len(database) \in Nat /\ DOMAIN database = 1..Len(database)
      /\ \A i \in 1..(at - 1) : database[i].kind = "section" => database[i].name[1] # "DIMENSION"
  BY <1>1, AtDimensionLine
<1>3. PICK i \in Places(<<"DIMENSIONS">>) :
        /\ i \in 1..Len(database) /\ i < at
        /\ \A k \in (i + 1)..(at - 1) : database[k].kind = "data" /\ database[k].id < sizeDimensions
  BY <1>1, AtDimensionLine
<1>4. at \in 1..Len(database) /\ Line = database[at] /\ database[at].kind = "data"
  BY <1>1, <1>2, DatabaseLineIs
<1>5. \A k \in (i + 1)..at : database[k].kind = "data"
  BY <1>2, <1>3, <1>4
<1>6. Line.id \in Nat
  BY <1>1, DimensionIdIsNumber
<1>7. CASE Line.id >= sizeDimensions /\ Caught
  <2>1. Line \in Range(DataAfter(database, i))
    <3>1. at \in (i + 1)..Len(database)
      BY <1>2, <1>3, <1>4
    <3>2. QED
      BY <1>2, <1>3, <1>4, <1>5, <3>1, DataAfterHas
  <2>2. \A j \in Places(<<"DIMENSIONS">>) : j = i
    BY <1>2, <1>3, UniquePlace
  <2>3. ~(Line.id < sizeDimensions)
    BY <1>6, <1>7 DEF Typed
  <2>4. ~DimensionsListed
    BY <2>1, <2>2, <2>3 DEF DimensionsListed
  <2>5. ~DimensionsListed'
    BY <1>1, <2>4, ListedStays
  <2>6. pc' = "collect" /\ Known' = Known /\ elements' = elements
    BY <1>7 DEF Caught, Stay, Known
  <2>7. QED
    BY <1>1, <1>2, <2>5, <2>6, EarlyEnds
<1>8. CASE Stay("aborted") /\ UNCHANGED <<dimensions, elements>>
  <2>1. pc' = "aborted" /\ Known' = Known /\ elements' = elements
    BY <1>8 DEF Stay, Known
  <2>2. complete' = {} /\ \A d \in Known' : elements'[d] = << >>
    BY <1>1, <1>2, <2>1
  <2>3. QED
    BY <2>1, <2>2, EarlyEnds
<1>9. CASE Line.id < sizeDimensions /\ Goto(pc) /\ \A d \in Known' : elements'[d] = << >>
  <2>1. at' = at + 1 /\ pc' = "dimension"
    BY <1>1, <1>4, <1>9, LineIs DEF Goto, IsDataLine, IsEndOfFile
  <2>2. \A k \in 1..(at' - 1) : database[k].kind = "section" => database[k].name[1] # "DIMENSION"
    BY <1>2, <1>4, <2>1
  <2>3. i < at' /\ \A k \in (i + 1)..(at' - 1) : database[k].kind = "data" /\ database[k].id < sizeDimensions
    BY <1>2, <1>3, <1>4, <1>9, <2>1
  <2>4. i \in Places(<<"DIMENSIONS">>)'
    BY <1>1, <1>3, StillThere
  <2>5. Beginning'
    BY <1>1, <1>2, <1>9, <2>1, <2>2, <2>3, <2>4 DEF Beginning
  <2>6. QED
    BY <1>1, <1>2, <2>1, <2>5, EarlyStays DEF Early
<1>10. CASE Line.id < sizeDimensions /\ Goto(pc) /\ UNCHANGED <<dimensions, elements>>
  BY <1>2, <1>9, <1>10 DEF Known
<1>11. CASE Line.id < sizeDimensions /\ Goto(pc) /\ elements' = [d \in DOMAIN dimensions' |-> << >>]
  BY <1>9, <1>11 DEF Known
<1>12. QED
  BY <1>7, <1>8, <1>10, <1>11 DEF DimensionLine

LEMMA EndDimensionLinesStep ==
  ASSUME CursorOK, Typed, LoadingOK, EndDimensionLines
  PROVE  LoadingOK'
<1>1. /\ pc = "dimension" /\ ~IsDataLine /\ database' = database /\ complete' = complete
      /\ sizeDimensions' = sizeDimensions /\ Known' = Known /\ elements' = elements
      /\ at' = at /\ pc' = "next"
  BY DEF EndDimensionLines, given, dimensionVars, Known, Stay, cursorVars
<1>2. /\ complete = {} /\ (\A d \in Known : elements[d] = << >>)
      /\ file = database /\ Readable(database) /\ OnceEach(database)
      /\ Len(database) \in Nat /\ DOMAIN database = 1..Len(database) /\ at \in 1..(Len(database) + 1)
      /\ \A i \in 1..(at - 1) : database[i].kind = "section" => database[i].name[1] # "DIMENSION"
  BY <1>1, AtDimensionLine
<1>3. PICK i \in Places(<<"DIMENSIONS">>) :
        /\ i \in 1..Len(database) /\ i < at
        /\ \A k \in (i + 1)..(at - 1) : database[k].kind = "data" /\ database[k].id < sizeDimensions
  BY <1>1, AtDimensionLine
<1>4. DimensionsListed
  <2>1. at \in (i + 1)..(Len(database) + 1) /\ i \in DOMAIN database
    BY <1>2, <1>3
  <2>2. at = Len(database) + 1 \/ database[at].kind # "data"
    BY <1>1, <1>2, DatabaseLineIs
  <2>3. DataAfter(database, i) = SubSeq(database, i + 1, at - 1)
    BY <1>2, <1>3, <2>1, <2>2, DataAfterUntil
  <2>4. PICK a, c, ls : a = i + 1 /\ c = at - 1 /\ ls = SubSeq(database, a, c)
    OBVIOUS
  <2>5. a \in 1..(Len(database) + 1) /\ c \in (a - 1)..Len(database)
    BY <1>2, <1>3, <2>1, <2>4
  <2>6. Range(ls) = {database[k] : k \in a..c}
    <3>1. Readable(database)
      BY <1>2
    <3>2. QED
      BY <2>4, <2>5, <3>1, LinesBetween
  <2>7. \A k \in a..c : database[k].id < sizeDimensions
    BY <1>3, <2>4
  <2>8. \A line \in Range(DataAfter(database, i)) : line.id < sizeDimensions
    BY <2>3, <2>4, <2>6, <2>7
  <2>9. QED
    BY <1>3, <2>8, Zenon DEF DimensionsListed
<1>5. Wholes' /\ Beginning' /\ After'
  BY <1>1, <1>2 DEF Wholes, Beginning, After, Early, Behind, InCube
<1>6. Between'
  <2>1. DimensionsListed'
    BY <1>1, <1>4, ListedStays
  <2>2. QED
    BY <1>1, <1>2, <2>1 DEF Between
<1>7. ASSUME NEW d \in Known' PROVE Late(d)'
  <2>1. ASSUME NEW j \in Places(<<"DIMENSION", d>>) PROVE j >= at
    <3>1. j \in 1..Len(database) /\ database[j] = Section(<<"DIMENSION", d>>)
      BY <1>2, <2>1, UniquePlace
    <3>2. database[j].kind = "section" /\ database[j].name[1] = "DIMENSION"
      BY <3>1, SectionNames
    <3>3. QED
      BY <1>2, <3>1, <3>2
  <2>2. \A j \in Places(<<"DIMENSION", d>>)' : j >= at'
    BY <1>1, <2>1, StillThere
  <2>3. QED
    BY <2>2, Zenon DEF Late
<1>8. Inside'
  BY <1>1, <1>7 DEF Inside, InDimension
<1>9. QED
  BY <1>5, <1>6, <1>8 DEF LoadingOK

-----------------------------------------------------------------------------
(* The steps behind it. *)

\* What is behind loadDimensions leaves the dimensions alone.
LEMMA BehindLeaves ==
  ASSUME \/ OpenAgain \/ FindCubes \/ CubeLine \/ EndCubes \/ SelectCube \/ TakeAnswer
         \/ LoadCube /\ UNCHANGED <<dimensionVars, given, answers, cubes>>
  PROVE  /\ pc \in Behind \cup InCube /\ pc' \in Behind \cup InCube \cup {"aborted"}
         /\ database' = database /\ dimensions' = dimensions /\ sizeDimensions' = sizeDimensions
         /\ complete' = complete /\ elements' = elements
<1> USE DEF Stay, Goto, dimensionVars, given, Behind, InCube
<1>1. CASE OpenAgain \/ FindCubes \/ EndCubes
  BY <1>1 DEF OpenAgain, FindCubes, EndCubes
<1>2. CASE CubeLine
  BY <1>2 DEF CubeLine
<1>3. CASE SelectCube \/ TakeAnswer
  BY <1>3 DEF SelectCube, TakeAnswer, Load
<1>4. CASE LoadCube /\ UNCHANGED <<dimensionVars, given, answers, cubes>>
  <2> USE DEF Abort
  <2>1. CASE FileMissing \/ CubeSection \/ SizesLine \/ EndSizes
    BY <1>4, <2>1 DEF FileMissing, CubeSection, SizesLine, EndSizes
  <2>2. CASE OpenCube
    BY <1>4, <2>2, Zenon DEF OpenCube
  <2>3. CASE CellLine \/ EndCells
    BY <1>4, <2>3 DEF CellLine, EndCells
  <2>4. QED
    BY <1>4, <2>1, <2>2, <2>3 DEF LoadCube
<1>5. QED
  BY <1>1, <1>2, <1>3, <1>4

LEMMA BehindKeeps ==
  ASSUME LoadingOK, pc \in Behind \cup InCube, pc' \in Behind \cup InCube \cup {"aborted"},
         database' = database, dimensions' = dimensions, sizeDimensions' = sizeDimensions,
         complete' = complete, elements' = elements
  PROVE  LoadingOK'
<1>1. Wholes' /\ Outcome' /\ Remains'
  <2>1. Wholes /\ Outcome /\ Remains
    BY DEF LoadingOK, After
  <2>2. QED
    BY <2>1, Settled
<1>2. Beginning' /\ Between' /\ Inside'
  BY DEF Beginning, Between, Inside, Early, InDimension, Behind, InCube
<1>3. QED
  BY <1>1, <1>2 DEF LoadingOK, After

LEMMA LoadingStutters ==
  ASSUME LoadingOK, UNCHANGED vars
  PROVE  LoadingOK'
<1>1. /\ pc' = pc /\ at' = at /\ file' = file /\ loading' = loading
      /\ database' = database /\ dimensions' = dimensions /\ sizeDimensions' = sizeDimensions
      /\ complete' = complete /\ elements' = elements
  BY DEF vars, cursorVars, dimensionVars, given
<1>2. Known' = Known /\ Wholes' /\ (Outcome => Outcome') /\ (Remains => Remains')
  BY <1>1, Settled DEF LoadingOK
<1>3. \A name : Places(name)' = Places(name)
  BY <1>1, StillThere
<1>4. \A d : PlaceOf(d)' = PlaceOf(d) /\ SizeOf(d)' = SizeOf(d)
  BY <1>1, StillThere
<1>5. Beginning'
  BY <1>1, <1>2, <1>3 DEF LoadingOK, Beginning
<1>6. Between'
  BY <1>1, <1>2, <1>4, ListedStays DEF LoadingOK, Between
<1>7. \A d : Late(d)' <=> Late(d)
  BY <1>1, <1>3, <1>4, Zenon DEF Late
<1>8. Inside'
  BY <1>1, <1>2, <1>3, <1>4, <1>7, Zenon DEF LoadingOK, Inside, First, Found
<1>9. After'
  BY <1>1, <1>2 DEF LoadingOK, After
<1>10. QED
  BY <1>2, <1>5, <1>6, <1>8, <1>9 DEF LoadingOK

LEMMA LoadingInit == Init => LoadingOK
<1> SUFFICES ASSUME Init PROVE LoadingOK
  OBVIOUS
<1>1. pc = "database" /\ at = 1 /\ complete = {} /\ Known = {}
  BY DEF Init, Known
<1>2. Beginning
  BY <1>1 DEF Beginning
<1>3. Wholes /\ Between /\ Inside /\ After
  BY <1>1 DEF Wholes, Between, Inside, After, InDimension, Behind, InCube
<1>4. QED
  BY <1>2, <1>3 DEF LoadingOK

\* Every step of the program keeps what is said of loadDimensions.
LEMMA LoadingNext ==
  ASSUME CursorOK, Typed, LoadingOK, [Next]_vars
  PROVE  LoadingOK'
<1>1. CASE DatabaseSection \/ DatabaseLine \/ DimensionsSection \/ DimensionLine \/ EndDimensionLines
  BY <1>1, DatabaseSectionStep, DatabaseLineStep, DimensionsSectionStep, DimensionLineStep,
     EndDimensionLinesStep
<1>2. CASE NextDimension \/ SearchOverview \/ LoadOverview \/ FindElementSection \/ LoadElement \/ EndElements
  BY <1>2, NextDimensionStep, SearchOverviewStep, LoadOverviewStep, FindElementSectionStep,
     LoadElementStep, EndElementsStep
<1>3. CASE UNCHANGED vars
  BY <1>3, LoadingStutters
<1>4. CASE \/ OpenAgain \/ FindCubes \/ CubeLine \/ EndCubes \/ SelectCube \/ TakeAnswer
           \/ LoadCube /\ UNCHANGED <<dimensionVars, given, answers, cubes>>
  BY <1>4, BehindLeaves, BehindKeeps
<1>5. QED
  BY <1>1, <1>2, <1>3, <1>4 DEF Next

-----------------------------------------------------------------------------
(* The cursor, and the types of the dimensions. *)

LEMMA RangeWithin ==
  ASSUME NEW f, NEW S
  PROVE  Range(f) \subseteq S <=> \A x \in DOMAIN f : f[x] \in S
BY DEF Range

\* The cursor goes on in the same file.
LEMMA CursorMoves ==
  ASSUME CursorOK, database' = database, NextLine \/ UNCHANGED cursorVars,
         pc' \in Early \cup InDimension \cup Behind \cup InCube \cup {"next", "aborted"},
         pc' \in InCube \cup {"aborted"} \/ file = database
  PROVE  CursorOK'
<1>1. file' = file /\ at' \in 1..(Len(file') + 1)
  BY LineIs DEF cursorVars, CursorOK
<1>2. Readable(database)' /\ OnceEach(database)' /\ Readable(file)'
  <2>1. Readable(database) /\ OnceEach(database) /\ Readable(file)
    BY DEF CursorOK
  <2>2. QED
    BY <1>1, <2>1 DEF Readable, OnceEach, Belongs, IsData
<1>3. pc' \in Early \cup InDimension \cup Behind \cup {"next"} => file' = database'
  BY <1>1 DEF Early, InDimension, Behind, InCube
<1>4. QED
  BY <1>1, <1>2, <1>3 DEF CursorOK

\* The steps that read the database.
LEMMA ReadingMoves ==
  ASSUME \/ DatabaseSection \/ DatabaseLine \/ DimensionsSection \/ DimensionLine \/ EndDimensionLines
         \/ NextDimension \/ SearchOverview \/ LoadOverview \/ FindElementSection \/ LoadElement
         \/ EndElements \/ OpenAgain \/ FindCubes \/ CubeLine \/ EndCubes \/ SelectCube \/ TakeAnswer
  PROVE  /\ pc \in Early \cup InDimension \cup Behind \cup {"next"} /\ database' = database
         /\ pc' \in Early \cup InDimension \cup Behind \cup {"next", "aborted"}
         /\ NextLine \/ UNCHANGED cursorVars \/ OpenFile(database)
<1> USE DEF Stay, Goto, Caught, Early, InDimension, Behind, given
<1>1. CASE DatabaseSection \/ DatabaseLine \/ DimensionsSection \/ EndDimensionLines
  BY <1>1 DEF DatabaseSection, DatabaseLine, DimensionsSection, EndDimensionLines
<1>2. CASE DimensionLine
  BY <1>2 DEF DimensionLine
<1>3. CASE NextDimension \/ SearchOverview \/ LoadOverview \/ FindElementSection
  BY <1>3 DEF NextDimension, SearchOverview, LoadOverview, FindElementSection
<1>4. CASE LoadElement \/ EndElements
  BY <1>4 DEF LoadElement, EndElements
<1>5. CASE OpenAgain \/ FindCubes \/ EndCubes
  BY <1>5 DEF OpenAgain, FindCubes, EndCubes
<1>6. CASE CubeLine
  BY <1>6 DEF CubeLine
<1>7. CASE SelectCube \/ TakeAnswer
  BY <1>7 DEF SelectCube, TakeAnswer, Load
<1>8. QED
  BY <1>1, <1>2, <1>3, <1>4, <1>5, <1>6, <1>7

\* The steps of loadCube, but for the first.
LEMMA CubeMoves ==
  ASSUME FileMissing \/ CubeSection \/ SizesLine \/ EndSizes \/ CellLine \/ EndCells
  PROVE  pc' \in InCube \cup {"aborted"} /\ (NextLine \/ UNCHANGED cursorVars)
<1> USE DEF Abort, InCube
<1>1. CASE FileMissing \/ CubeSection \/ SizesLine \/ EndSizes
  BY <1>1 DEF FileMissing, CubeSection, SizesLine, EndSizes
<1>2. CASE CellLine \/ EndCells
  BY <1>2 DEF CellLine, EndCells
<1>3. QED
  BY <1>1, <1>2

\* The file that is opened is one there was.
LEMMA OpenedIs ==
  ASSUME FilesOK, OpenCube
  PROVE  \E c \in DOMAIN disk : \E ext \in DOMAIN disk[c] :
           /\ Countable(disk[c][ext]) /\ file' = disk[c][ext].lines /\ at' = 1 /\ pc' = "overview"
           /\ \E e \in DOMAIN disk'[c] : disk'[c][e] = disk[c][ext]
           /\ c \in DOMAIN disk'
<1> DEFINE found == FilesOf(cube.id)
           csv == IF "csv" \in DOMAIN found THEN found["csv"] ELSE found["tmp"]
           new == IF "csv" \in DOMAIN found THEN found ELSE [e \in {"csv"} |-> csv]
<1>1. /\ DOMAIN found # {} /\ disk' = [disk EXCEPT ![cube.id] = new]
      /\ file' = csv.lines /\ at' = 1 /\ pc' = "overview"
  BY Zenon DEF OpenCube, OpenFile
<1>2. cube.id \in DOMAIN disk /\ found = disk[cube.id]
  BY <1>1 DEF FilesOf
<1> HIDE DEF found
<1>3. DOMAIN found \subseteq {"csv", "tmp"} /\ \A ext \in DOMAIN found : Countable(found[ext])
  BY <1>2 DEF FilesOK
<1>4. PICK ext \in DOMAIN found : csv = found[ext]
  BY <1>1, <1>3
<1>5. \E e \in DOMAIN new : new[e] = csv
  <2>1. CASE "csv" \in DOMAIN found
    BY <2>1
  <2>2. CASE "csv" \notin DOMAIN found
    BY <2>2
  <2>3. QED
    BY <2>1, <2>2
<1> HIDE DEF csv, new
<1>6. disk'[cube.id] = new /\ cube.id \in DOMAIN disk'
  BY <1>1, <1>2
<1>7. QED
  BY <1>1, <1>2, <1>3, <1>4, <1>5, <1>6

LEMMA CursorInit == Init => CursorOK
<1> SUFFICES ASSUME Init PROVE CursorOK
  OBVIOUS
<1>1. file = database /\ at = 1 /\ pc = "database"
  BY DEF Init
<1>2. Readable(database) /\ OnceEach(database)
  BY SituationsAssumption DEF Init
<1>3. at \in 1..(Len(file) + 1)
  BY <1>1, <1>2, ReadableIs
<1>4. QED
  BY <1>1, <1>2, <1>3 DEF CursorOK, Early

LEMMA CursorNext ==
  ASSUME FilesOK, CursorOK, [Next]_vars
  PROVE  CursorOK'
<1>1. CASE \/ DatabaseSection \/ DatabaseLine \/ DimensionsSection \/ DimensionLine \/ EndDimensionLines
           \/ NextDimension \/ SearchOverview \/ LoadOverview \/ FindElementSection \/ LoadElement
           \/ EndElements \/ OpenAgain \/ FindCubes \/ CubeLine \/ EndCubes \/ SelectCube \/ TakeAnswer
  <2>1. /\ database' = database /\ file = database
        /\ pc' \in Early \cup InDimension \cup Behind \cup {"next", "aborted"}
        /\ NextLine \/ UNCHANGED cursorVars \/ OpenFile(database)
    BY <1>1, ReadingMoves DEF CursorOK
  <2>2. CASE NextLine \/ UNCHANGED cursorVars
    BY <2>1, <2>2, CursorMoves
  <2>3. CASE OpenFile(database)
    <3>1. file' = database /\ at' = 1 /\ Readable(database) /\ OnceEach(database)
      BY <2>3 DEF OpenFile, CursorOK
    <3>2. Readable(database)' /\ OnceEach(database)' /\ Readable(file)'
      BY <2>1, <3>1 DEF Readable, OnceEach, Belongs, IsData
    <3>3. at' \in 1..(Len(file') + 1)
      BY <3>1, ReadableIs
    <3>4. QED
      BY <2>1, <3>1, <3>2, <3>3 DEF CursorOK
  <2>4. QED
    BY <2>1, <2>2, <2>3
<1>2. CASE LoadCube /\ UNCHANGED <<dimensionVars, given, answers, cubes>>
  <2>1. database' = database
    BY <1>2 DEF given
  <2>2. CASE FileMissing \/ CubeSection \/ SizesLine \/ EndSizes \/ CellLine \/ EndCells
    BY <2>1, <2>2, CubeMoves, CursorMoves
  <2>3. CASE OpenCube
    <3>1. PICK lines : file' = lines /\ Readable(lines) /\ at' = 1 /\ pc' = "overview"
      BY <2>3, OpenedIs DEF Countable
    <3>2. at' \in 1..(Len(file') + 1)
      BY <3>1, ReadableIs
    <3>3. Readable(file)' /\ Readable(database)' /\ OnceEach(database)'
      <4>1. Readable(database) /\ OnceEach(database)
        BY DEF CursorOK
      <4>2. Readable(file)'
        BY <3>1 DEF Readable, Belongs, IsData
      <4>3. Readable(database)' /\ OnceEach(database)'
        BY <2>1, <4>1 DEF Readable, OnceEach, Belongs, IsData
      <4>4. QED
        BY <4>2, <4>3
    <3>4. QED
      BY <3>1, <3>2, <3>3 DEF CursorOK, Early, InDimension, Behind, InCube
  <2>4. QED
    BY <1>2, <2>2, <2>3 DEF LoadCube
<1>3. CASE UNCHANGED vars
  <2>1. /\ database' = database /\ file' = file /\ at' = at /\ pc' = pc
    BY <1>3 DEF vars, given, cursorVars
  <2>2. Readable(database)' /\ OnceEach(database)' /\ Readable(file)'
    <3>1. Readable(database) /\ OnceEach(database) /\ Readable(file)
      BY DEF CursorOK
    <3>2. QED
      BY <2>1, <3>1 DEF Readable, OnceEach, Belongs, IsData
  <2>3. QED
    BY <2>1, <2>2 DEF CursorOK
<1>4. QED
  BY <1>1, <1>2, <1>3 DEF Next

-----------------------------------------------------------------------------
(* Types. *)

\* Nothing but the places of the loop changes.
LEMMA SameTypes ==
  ASSUME Typed, sizeDimensions' = sizeDimensions, dimensions' = dimensions, complete' = complete,
         elements' = elements
  PROVE  Typed'
BY DEF Typed, Known, Kinds

LEMMA TypedInit == Init => Typed
BY DEF Init, Typed, Known

LEMMA DatabaseLineTyped ==
  ASSUME CursorOK, Typed, LoadingOK, DatabaseLine
  PROVE  Typed'
<1>1. pc = "size" /\ dimensions' = dimensions /\ complete' = complete /\ elements' = elements
  BY DEF DatabaseLine
<1>2. sizeDimensions' \in Nat
  <2>1. CASE ~IsDataLine
    BY <2>1 DEF DatabaseLine, Typed
  <2>2. CASE IsDataLine
    <3>1. at = 2 /\ database[1] = Section(<<"DATABASE">>) /\ file = database
      BY <1>1 DEF LoadingOK, Beginning, CursorOK, Early
    <3>2. 2 \in 1..Len(database) /\ Line = database[2] /\ database[2].kind = "data"
          /\ Len(database) \in Nat /\ DOMAIN database = 1..Len(database)
      BY <2>2, <3>1, DatabaseLineIs
    <3>3. database[1].kind = "section" /\ database[1].name[1] = "DATABASE"
      BY <3>1, SectionNames
    <3>4. \A k \in (1 + 1)..2 : k = 2
      OBVIOUS
    <3>5. Belongs(database, 1, 2, "DATABASE")
      BY <3>2, <3>3, <3>4 DEF Belongs, IsData
    <3>6. 1 \in DOMAIN database /\ 2 \in (1 + 1)..Len(database)
      BY <3>2
    <3>7. database[2].size \in Nat
      BY <3>5, <3>6 DEF CursorOK, Readable
    <3>8. QED
      BY <2>2, <3>2, <3>7 DEF DatabaseLine
  <2>3. QED
    BY <2>1, <2>2
<1>3. QED
  BY <1>1, <1>2 DEF Typed, Known, Kinds

LEMMA DimensionLineTyped ==
  ASSUME CursorOK, Typed, LoadingOK, DimensionLine
  PROVE  Typed'
<1>1. pc = "dimension" /\ IsDataLine /\ sizeDimensions' = sizeDimensions /\ complete' = complete
  BY DEF DimensionLine
<1>2. CASE UNCHANGED <<dimensions, elements>>
  BY <1>1, <1>2, SameTypes
<1>3. CASE /\ dimensions' = [d \in Known \cup {Line.id} |-> IF d = Line.id THEN Line.name ELSE dimensions[d]]
           /\ elements' = [d \in DOMAIN dimensions' |-> << >>]
  <2>1. Line.id \in Nat
    BY <1>1, DimensionIdIsNumber
  <2>2. Known' = Known \cup {Line.id}
    BY <1>3 DEF Known
  <2>3. DOMAIN elements' = Known' /\ \A d \in Known' : elements'[d] = << >>
    BY <1>3 DEF Known
  <2>4. Range(<< >>) = {}
    BY DEF Range
  <2>5. QED
    BY <1>1, <2>1, <2>2, <2>3, <2>4 DEF Typed
<1>4. QED
  BY <1>2, <1>3 DEF DimensionLine, Caught

LEMMA LoadOverviewTyped ==
  ASSUME CursorOK, Typed, LoadingOK, LoadOverview
  PROVE  Typed'
<1>1. /\ sizeDimensions' = sizeDimensions /\ dimensions' = dimensions /\ complete' = complete
  BY DEF LoadOverview, dimensionVars
<1>2. CASE Caught
  BY <1>1, <1>2, SameTypes DEF Caught
<1>3. CASE elements' = [elements EXCEPT ![loading] = [id \in 0..(Line.size - 1) |-> "undefined"]]
  <2>1. PICK f : f = [id \in 0..(Line.size - 1) |-> "undefined"]
    OBVIOUS
  <2>2. Range(f) \subseteq Kinds
    BY <2>1 DEF Range, Kinds
  <2>3. /\ DOMAIN elements' = DOMAIN elements
        /\ \A d \in DOMAIN elements : elements'[d] = f \/ elements'[d] = elements[d]
    BY <1>3, <2>1
  <2>4. QED
    BY <1>1, <2>2, <2>3 DEF Typed, Known
<1>4. QED
  BY <1>2, <1>3 DEF LoadOverview

LEMMA LoadElementTyped ==
  ASSUME CursorOK, Typed, LoadingOK, LoadElement
  PROVE  Typed'
<1>1. /\ sizeDimensions' = sizeDimensions /\ complete' = complete /\ dimensions' = dimensions
  BY DEF LoadElement, Caught
<1>2. CASE elements' = elements
  BY <1>1, <1>2, SameTypes
<1>3. CASE elements' = [elements EXCEPT ![loading][Line.id] = TypeOf(Line)]
  <2>1. PICK f : f = [elements[loading] EXCEPT ![Line.id] = TypeOf(Line)]
    OBVIOUS
  <2>2. /\ DOMAIN elements' = DOMAIN elements
        /\ \A d \in DOMAIN elements : elements'[d] = elements[d] \/ (d = loading /\ elements'[d] = f)
    <3>1. elements' = [elements EXCEPT ![loading] = f]
      BY <1>3, <2>1
    <3>2. QED
      BY <3>1
  <2>3. TypeOf(Line) \in Kinds
    BY DEF TypeOf, Kinds
  <2>4. \A x \in DOMAIN f : x \in DOMAIN elements[loading] /\ (f[x] = TypeOf(Line) \/ f[x] = elements[loading][x])
    BY <2>1
  <2>5. loading \in DOMAIN elements => Range(f) \subseteq Kinds
    <3>1. loading \in DOMAIN elements => \A x \in DOMAIN elements[loading] : elements[loading][x] \in Kinds
      BY RangeWithin DEF Typed
    <3>2. QED
      BY <2>3, <2>4, <3>1, RangeWithin
  <2>6. QED
    BY <1>1, <2>2, <2>5 DEF Typed, Known
<1>4. QED
  BY <1>2, <1>3 DEF LoadElement, Caught

LEMMA EndElementsTyped ==
  ASSUME CursorOK, Typed, LoadingOK, EndElements
  PROVE  Typed'
<1>1. /\ sizeDimensions' = sizeDimensions /\ dimensions' = dimensions /\ complete' = complete \cup {loading}
      /\ elements' = [elements EXCEPT ![loading] = Cleared(@)] /\ pc = "element"
  BY DEF EndElements
<1>2. loading \in Known
  BY <1>1 DEF LoadingOK, Inside, First, InDimension
<1>3. PICK f : f = Cleared(elements[loading])
  OBVIOUS
<1>4. /\ DOMAIN elements' = DOMAIN elements
      /\ \A d \in DOMAIN elements : elements'[d] = elements[d] \/ elements'[d] = f
  BY <1>1, <1>3
<1>5. Range(f) \subseteq Kinds
  <2>1. \A x \in DOMAIN elements[loading] : elements[loading][x] \in Kinds
    BY <1>2, RangeWithin DEF Typed
  <2>2. \A x \in DOMAIN f : x \in DOMAIN elements[loading] /\ (f[x] = NoElement \/ f[x] = elements[loading][x])
    BY <1>3 DEF Cleared
  <2>3. NoElement \in Kinds
    BY DEF Kinds
  <2>4. QED
    BY <2>1, <2>2, <2>3, RangeWithin
<1>6. QED
  BY <1>1, <1>2, <1>4, <1>5 DEF Typed, Known

LEMMA TypedNext ==
  ASSUME CursorOK, Typed, LoadingOK, [Next]_vars
  PROVE  Typed'
<1>1. CASE DatabaseLine \/ DimensionLine \/ LoadOverview \/ LoadElement \/ EndElements
  BY <1>1, DatabaseLineTyped, DimensionLineTyped, LoadOverviewTyped, LoadElementTyped, EndElementsTyped
<1>2. CASE \/ DatabaseSection \/ DimensionsSection \/ EndDimensionLines \/ NextDimension
           \/ SearchOverview \/ FindElementSection
  <2>1. /\ sizeDimensions' = sizeDimensions /\ dimensions' = dimensions /\ complete' = complete
        /\ elements' = elements
    BY <1>2 DEF DatabaseSection, DimensionsSection, EndDimensionLines, NextDimension, SearchOverview,
                FindElementSection, dimensionVars
  <2>2. QED
    BY <2>1, SameTypes
<1>3. CASE \/ OpenAgain \/ FindCubes \/ CubeLine \/ EndCubes \/ SelectCube \/ TakeAnswer
           \/ LoadCube /\ UNCHANGED <<dimensionVars, given, answers, cubes>>
  BY <1>3, BehindLeaves, SameTypes
<1>4. CASE UNCHANGED vars
  BY <1>4, SameTypes DEF vars, dimensionVars
<1>5. QED
  BY <1>1, <1>2, <1>3, <1>4 DEF Next

-----------------------------------------------------------------------------
(* The choice of a cube. *)

\* The cubes that can be used are over dimensions there are.
Choosing ==
  /\ DOMAIN cubes \subseteq Nat /\ (DOMAIN cubes = {} => cubes = << >>)
  /\ \A c \in DOMAIN cubes : cubes[c] \in Seq(Known)
  /\ cube.dims \in Seq(Known) /\ (cube.id \in DOMAIN cubes \/ cube.dims = << >>)
  /\ pc = "cube" =>
       \E i \in Places(<<"CUBES">>) : i < at /\ \A k \in (i + 1)..(at - 1) : database[k].kind = "data"

LEMMA SeqsGrow ==
  ASSUME NEW S, NEW T, S \subseteq T
  PROVE  \A s \in Seq(S) : s \in Seq(T)
OBVIOUS

\* A list of numbers that are in a set is a list of its elements.
LEMMA SeqOfRange ==
  ASSUME NEW S, NEW T, NEW s \in Seq(S), Range(s) \subseteq T
  PROVE  s \in Seq(T)
<1>1. Len(s) \in Nat /\ DOMAIN s = 1..Len(s) /\ s = [k \in 1..Len(s) |-> s[k]]
  OBVIOUS
<1>2. \A k \in 1..Len(s) : s[k] \in T
  BY <1>1, RangeWithin
<1>3. PICK n : n = Len(s)
  OBVIOUS
<1>4. n \in Nat /\ s = [k \in 1..n |-> s[k]] /\ \A k \in 1..n : s[k] \in T
  BY <1>1, <1>2, <1>3
<1>5. s \in [1..n -> T]
  BY <1>4
<1>6. QED
  BY <1>4, <1>5

\* Dimensions are only added.
LEMMA KnownGrows ==
  ASSUME [Next]_vars
  PROVE  Known \subseteq Known'
<1>1. CASE DimensionLine
  BY <1>1 DEF DimensionLine, Known, Caught
<1>2. CASE \/ DatabaseSection \/ DatabaseLine \/ DimensionsSection \/ EndDimensionLines \/ NextDimension
           \/ SearchOverview \/ LoadOverview \/ FindElementSection \/ EndElements
  BY <1>2 DEF DatabaseSection, DatabaseLine, DimensionsSection, EndDimensionLines, NextDimension,
              SearchOverview, LoadOverview, FindElementSection, EndElements, dimensionVars, Known
<1>3. CASE LoadElement
  BY <1>3 DEF LoadElement, Caught, Known
<1>4. CASE \/ OpenAgain \/ FindCubes \/ CubeLine \/ EndCubes \/ SelectCube \/ TakeAnswer
           \/ LoadCube /\ UNCHANGED <<dimensionVars, given, answers, cubes>>
  BY <1>4, BehindLeaves DEF Known
<1>5. CASE UNCHANGED vars
  BY <1>5 DEF vars, dimensionVars, Known
<1>6. QED
  BY <1>1, <1>2, <1>3, <1>4, <1>5 DEF Next

\* Steps that choose nothing.
LEMMA ChoiceStays ==
  ASSUME Choosing, [Next]_vars, cube' = cube, cubes' = cubes, pc' # "cube"
  PROVE  Choosing'
<1>1. Known \subseteq Known'
  BY KnownGrows
<1>2. \A s \in Seq(Known) : s \in Seq(Known')
  BY <1>1, SeqsGrow
<1>3. QED
  BY <1>2 DEF Choosing

\* The cube to be loaded is one of those that can be used.
LEMMA LoadChooses ==
  ASSUME Choosing, NEW id \in DOMAIN cubes, Load(id), Known' = Known, cubes' = cubes
  PROVE  Choosing'
<1>1. cube' = [id |-> id, dims |-> cubes[id]] /\ pc' = "load"
  BY DEF Load, Stay
<1>2. cube'.dims = cubes[id] /\ cube'.id = id /\ cubes[id] \in Seq(Known)
  BY <1>1 DEF Choosing
<1>3. QED
  BY <1>1, <1>2 DEF Choosing

LEMMA FindCubesChoosing ==
  ASSUME CursorOK, Choosing, FindCubes
  PROVE  Choosing'
<1>1. /\ pc = "cubes" /\ cube' = cube /\ cubes' = cubes /\ Known' = Known /\ database' = database
  BY DEF FindCubes, cubeVars, dimensionVars, given, Known
<1>2. /\ file = database /\ Len(database) \in Nat
  BY <1>1, ReadableIs DEF CursorOK, Behind
<1>3. CASE InSection(<<"CUBES">>) /\ Goto("cube")
  <2>1. at \in Places(<<"CUBES">>) /\ at' = at + 1 /\ at \in Nat
    BY <1>2, <1>3, DatabaseLineIs, LineIs DEF Goto
  <2>2. at \in Places(<<"CUBES">>)'
    BY <1>1, <2>1, StillThere
  <2>3. at < at' /\ \A k \in (at + 1)..(at' - 1) : FALSE
    BY <2>1
  <2>4. QED
    BY <1>1, <2>2, <2>3 DEF Choosing
<1>4. CASE Goto(pc)
  BY <1>1, <1>4 DEF Goto, Choosing
<1>5. QED
  BY <1>3, <1>4 DEF FindCubes

\* The line of a cube has a number and a list of numbers.
LEMMA CubeLineIs ==
  ASSUME CursorOK, Choosing, pc = "cube", IsDataLine
  PROVE  /\ Line.id \in Nat /\ Line.dims \in Seq(Nat) /\ at \in Nat
         /\ \E i \in Places(<<"CUBES">>) : i < at /\ \A k \in (i + 1)..at : database[k].kind = "data"
<1>1. file = database /\ Readable(database) /\ OnceEach(database)
  BY DEF CursorOK, Behind
<1>2. PICK i \in Places(<<"CUBES">>) : i < at /\ \A k \in (i + 1)..(at - 1) : database[k].kind = "data"
  BY DEF Choosing
<1>3. i \in 1..Len(database) /\ database[i] = Section(<<"CUBES">>)
  BY <1>1, <1>2, UniquePlace
<1>4. /\ at \in 1..Len(database) /\ Line = database[at] /\ database[at].kind = "data"
      /\ Len(database) \in Nat /\ DOMAIN database = 1..Len(database)
  BY <1>1, DatabaseLineIs
<1>5. \A k \in (i + 1)..at : database[k].kind = "data"
  BY <1>2, <1>3, <1>4
<1>6. database[i].kind = "section" /\ database[i].name[1] = "CUBES"
  BY <1>3, SectionNames
<1>7. Belongs(database, i, at, "CUBES")
  BY <1>3, <1>4, <1>5, <1>6 DEF Belongs, IsData
<1>8. at \in (i + 1)..Len(database)
  BY <1>2, <1>3, <1>4
<1>9. Line.id \in Nat /\ Line.dims \in Seq(Nat)
  BY <1>1, <1>3, <1>4, <1>7, <1>8 DEF Readable
<1>10. QED
  BY <1>2, <1>4, <1>5, <1>9

LEMMA CubeLineChoosing ==
  ASSUME CursorOK, Choosing, CubeLine
  PROVE  Choosing'
<1>1. /\ pc = "cube" /\ IsDataLine /\ cube' = cube /\ Known' = Known /\ database' = database
  BY DEF CubeLine, cubeVars, dimensionVars, given, Known
<1>2. Line.id \in Nat /\ Line.dims \in Seq(Nat) /\ at \in Nat
  BY <1>1, CubeLineIs
<1>3. PICK i \in Places(<<"CUBES">>) : i < at /\ \A k \in (i + 1)..at : database[k].kind = "data"
  BY <1>1, CubeLineIs
<1>4. ASSUME Goto(pc)
      PROVE  \E j \in Places(<<"CUBES">>)' : j < at' /\ \A k \in (j + 1)..(at' - 1) : database[k].kind = "data"
  <2>1. at' = at + 1
    BY <1>1, <1>4, LineIs DEF Goto, IsDataLine, IsEndOfFile
  <2>2. i \in Places(<<"CUBES">>)' /\ i \in Nat
    BY <1>1, <1>3, StillThere, UniquePlace DEF CursorOK
  <2>3. i < at' /\ \A k \in (i + 1)..(at' - 1) : database[k].kind = "data"
    BY <1>2, <1>3, <2>1, <2>2
  <2>4. QED
    BY <2>2, <2>3
<1>5. CASE Goto(pc) /\ UNCHANGED cubes
  BY <1>1, <1>4, <1>5 DEF Choosing
<1>6. CASE Stay("aborted") /\ UNCHANGED cubes
  BY <1>1, <1>6 DEF Choosing, Stay
<1>7. CASE /\ Usable(Line) /\ Goto(pc)
           /\ cubes' = [c \in DOMAIN cubes \cup {Line.id} |-> IF c = Line.id THEN Line.dims ELSE cubes[c]]
  <2>1. Line.dims \in Seq(Known)
    BY <1>2, <1>7, SeqOfRange DEF Usable
  <2>2. /\ DOMAIN cubes' = DOMAIN cubes \cup {Line.id}
        /\ \A c \in DOMAIN cubes' : cubes'[c] = Line.dims \/ (c \in DOMAIN cubes /\ cubes'[c] = cubes[c])
    BY <1>7
  <2>3. QED
    BY <1>1, <1>2, <1>4, <1>7, <2>1, <2>2 DEF Choosing
<1>8. QED
  BY <1>5, <1>6, <1>7 DEF CubeLine

LEMMA SelectCubeChoosing ==
  ASSUME Choosing, SelectCube
  PROVE  Choosing'
<1>1. /\ pc = "select" /\ cubes' = cubes /\ Known' = Known /\ database' = database
  BY DEF SelectCube, dimensionVars, given, Known
<1>2. CASE UNCHANGED cube
  <2>1. pc' # "cube"
    BY DEF SelectCube, Stay, Load
  <2>2. QED
    BY <1>1, <1>2, <2>1 DEF Choosing
<1>3. CASE cubes # << >> /\ Load(Smallest(DOMAIN cubes))
  <2>1. DOMAIN cubes \subseteq Nat /\ DOMAIN cubes # {}
    BY <1>3 DEF Choosing
  <2>2. \E x \in DOMAIN cubes : \A y \in DOMAIN cubes : x =< y
    BY <2>1, MinExists
  <2>3. Smallest(DOMAIN cubes) \in DOMAIN cubes
    BY <2>2 DEF Smallest
  <2>4. QED
    BY <1>1, <1>3, <2>3, LoadChooses
<1>4. QED
  BY <1>2, <1>3 DEF SelectCube

LEMMA TakeAnswerChoosing ==
  ASSUME Choosing, TakeAnswer
  PROVE  Choosing'
<1>1. /\ pc = "ask" /\ cubes' = cubes /\ Known' = Known
  BY DEF TakeAnswer, dimensionVars, given, Known
<1>2. CASE UNCHANGED cube /\ Stay(pc)
  BY <1>1, <1>2 DEF Choosing, Stay
<1>3. CASE Head(answers) \in DOMAIN cubes /\ Load(Head(answers))
  BY <1>1, <1>3, LoadChooses
<1>4. QED
  BY <1>2, <1>3 DEF TakeAnswer

\* loadCube reads what was chosen.
LEMMA CubeSame ==
  ASSUME LoadCube
  PROVE  cube' = cube /\ pc' \in InCube \cup {"aborted"}
<1>1. CASE FileMissing \/ CubeSection \/ SizesLine \/ EndSizes
  BY <1>1 DEF FileMissing, CubeSection, SizesLine, EndSizes, Abort, cubeVars, InCube
<1>2. CASE CellLine \/ EndCells
  BY <1>2 DEF CellLine, EndCells, Abort, cubeVars, InCube
<1>3. CASE OpenCube
  BY <1>3, Zenon DEF OpenCube, InCube
<1>4. QED
  BY <1>1, <1>2, <1>3 DEF LoadCube

LEMMA ChoosingInit == Init => Choosing
BY DEF Init, Choosing

LEMMA ChoosingNext ==
  ASSUME CursorOK, Choosing, [Next]_vars
  PROVE  Choosing'
<1>1. CASE FindCubes \/ CubeLine \/ SelectCube \/ TakeAnswer
  BY <1>1, FindCubesChoosing, CubeLineChoosing, SelectCubeChoosing, TakeAnswerChoosing
<1>2. CASE \/ DatabaseSection \/ DatabaseLine \/ DimensionsSection \/ EndDimensionLines \/ NextDimension
           \/ SearchOverview \/ LoadOverview \/ FindElementSection \/ EndElements \/ OpenAgain \/ EndCubes
  <2>1. cube' = cube /\ cubes' = cubes /\ pc' # "cube"
    BY <1>2 DEF DatabaseSection, DatabaseLine, DimensionsSection, EndDimensionLines, NextDimension,
         SearchOverview, LoadOverview, FindElementSection, EndElements, OpenAgain, EndCubes, cubeVars,
         Stay, Goto, Caught
  <2>2. QED
    BY <2>1, ChoiceStays
<1>3. CASE DimensionLine
  <2>1. cube' = cube /\ cubes' = cubes /\ pc' # "cube"
    BY <1>3 DEF DimensionLine, cubeVars, Stay, Goto, Caught
  <2>2. QED
    BY <2>1, ChoiceStays
<1>4. CASE LoadElement
  <2>1. cube' = cube /\ cubes' = cubes /\ pc' # "cube"
    BY <1>4 DEF LoadElement, cubeVars, Stay, Goto, Caught
  <2>2. QED
    BY <2>1, ChoiceStays
<1>5. CASE LoadCube /\ UNCHANGED <<dimensionVars, given, answers, cubes>>
  <2>1. cube' = cube /\ cubes' = cubes /\ pc' # "cube"
    BY <1>5, CubeSame DEF InCube
  <2>2. QED
    BY <2>1, ChoiceStays
<1>6. CASE UNCHANGED vars
  <2>1. cube' = cube /\ cubes' = cubes /\ pc' = pc /\ at' = at /\ database' = database /\ Known' = Known
    BY <1>6 DEF vars, cubeVars, cursorVars, given, dimensionVars, Known
  <2>2. Places(<<"CUBES">>)' = Places(<<"CUBES">>)
    BY <2>1, StillThere
  <2>3. QED
    BY <2>1, <2>2 DEF Choosing
<1>7. QED
  BY <1>1, <1>2, <1>3, <1>4, <1>5, <1>6 DEF Next

-----------------------------------------------------------------------------
(* The cells that lines give. *)

OverBase(path, base) == \A k \in DOMAIN path : path[k] \in base[k]
PathsOf(lines, base) == {path \in {lines[i].path : i \in DOMAIN lines} : OverBase(path, base)}
Put(old, path, value) == [p \in DOMAIN old \cup {path} |-> IF p = path THEN value ELSE old[p]]
Giving(lines, path) == {i \in DOMAIN lines : lines[i].path = path}

LEMMA CellsByIs ==
  ASSUME NEW lines, NEW base
  PROVE  CellsBy(lines, base) = [path \in PathsOf(lines, base) |-> lines[Latest(Giving(lines, path))].value]
BY Zenon DEF CellsBy, PathsOf, Giving, OverBase

\* No lines give no cells.
LEMMA NoCells ==
  ASSUME NEW lines, NEW base, DOMAIN lines = {}
  PROVE  CellsBy(lines, base) = << >>
<1>1. PathsOf(lines, base) = {}
  BY DEF PathsOf
<1>2. CellsBy(lines, base) = [path \in {} |-> lines[Latest(Giving(lines, path))].value]
  BY <1>1, CellsByIs
<1>3. QED
  BY <1>2

\* One more line adds or replaces a cell, when its path is one of base elements.
LEMMA OneMoreCell ==
  ASSUME NEW lines, Readable(lines), NEW base, NEW a \in 1..(Len(lines) + 1), NEW e \in a..Len(lines),
         NEW path, path = lines[e].path, NEW old, old = CellsBy(SubSeq(lines, a, e - 1), base)
  PROVE  CellsBy(SubSeq(lines, a, e), base) =
           IF OverBase(path, base) THEN Put(old, path, lines[e].value) ELSE old
<1>1. Len(lines) \in Nat /\ DOMAIN lines = 1..Len(lines)
  BY ReadableIs
<1>2. PICK c, n, ls, ms : c = e - 1 /\ n = e - a /\ ls = SubSeq(lines, a, e - 1) /\ ms = SubSeq(lines, a, e)
  OBVIOUS
<1>3. /\ c \in (a - 1)..Len(lines) /\ e \in (a - 1)..Len(lines) /\ n \in Nat
      /\ c + 1 - a = n /\ e + 1 - a = n + 1 /\ a + (n + 1) - 1 = e
  BY <1>1, <1>2
<1>4. DOMAIN ls = 1..n /\ \A k \in 1..n : ls[k] = lines[a + k - 1]
  <2>1. /\ DOMAIN SubSeq(lines, a, c) = 1..(c + 1 - a)
        /\ \A k \in 1..(c + 1 - a) : SubSeq(lines, a, c)[k] = lines[a + k - 1]
    BY <1>3, LinesBetween
  <2>2. QED
    BY <1>2, <1>3, <2>1
<1>5. DOMAIN ms = 1..(n + 1) /\ \A k \in 1..(n + 1) : ms[k] = lines[a + k - 1]
  <2>1. /\ DOMAIN SubSeq(lines, a, e) = 1..(e + 1 - a)
        /\ \A k \in 1..(e + 1 - a) : SubSeq(lines, a, e)[k] = lines[a + k - 1]
    BY <1>3, LinesBetween
  <2>2. QED
    BY <1>2, <1>3, <2>1
<1>6. \A k \in 1..n : ms[k] = ls[k]
  <2>1. \A k \in 1..n : k \in 1..(n + 1)
    BY <1>3
  <2>2. QED
    BY <1>4, <1>5, <2>1
<1>7. ms[n + 1] = lines[e]
  <2>1. n + 1 \in 1..(n + 1)
    BY <1>3
  <2>2. QED
    BY <1>3, <1>5, <2>1
<1>8. \A i \in 1..(n + 1) : i \in 1..n \/ i = n + 1
  BY <1>3
<1>9. \A i \in 1..n : i \in 1..(n + 1)
  BY <1>3
<1>10. n + 1 \in 1..(n + 1)
  BY <1>3
<1>11. PathsOf(ms, base) = IF OverBase(path, base) THEN PathsOf(ls, base) \cup {path} ELSE PathsOf(ls, base)
  <2>1. PICK paths : paths = {ls[i].path : i \in DOMAIN ls}
    OBVIOUS
  <2>2. {ms[i].path : i \in DOMAIN ms} = paths \cup {path}
    <3>1. \A i \in 1..n : ms[i].path \in paths
      BY <1>4, <1>6, <2>1
    <3>2. \A p \in paths : \E i \in 1..(n + 1) : p = ms[i].path
      BY <1>4, <1>6, <1>9, <2>1
    <3>3. ms[n + 1].path = path
      BY <1>7
    <3>4. QED
      BY <1>5, <1>8, <1>10, <3>1, <3>2, <3>3
  <2>3. PathsOf(ms, base) = {p \in paths \cup {path} : OverBase(p, base)} /\ PathsOf(ls, base) = {p \in paths : OverBase(p, base)}
    BY <2>1, <2>2 DEF PathsOf
  <2>4. QED
    BY <2>3
<1> DEFINE Value(list, p) == list[Latest(Giving(list, p))].value
<1>12. ASSUME NEW p \in PathsOf(ls, base), p # path
       PROVE  Value(ms, p) = Value(ls, p)
  <2>1. Giving(ls, p) \subseteq 1..n /\ Giving(ls, p) # {}
    BY <1>4, <1>12 DEF PathsOf, Giving
  <2>2. Giving(ms, p) = Giving(ls, p)
    BY <1>4, <1>5, <1>6, <1>7, <1>8, <1>9, <1>12 DEF Giving
  <2>3. Latest(Giving(ls, p)) \in 1..n
    BY <1>3, <2>1, LatestIs
  <2>4. QED
    BY <1>6, <2>2, <2>3
<1>13. Value(ms, path) = lines[e].value
  <2>1. n + 1 \in Giving(ms, path) /\ Giving(ms, path) \subseteq 1..(n + 1)
    BY <1>5, <1>7, <1>10 DEF Giving
  <2>2. PICK m : m = n + 1
    OBVIOUS
  <2>3. Latest(Giving(ms, path)) \in 1..m /\ Latest(Giving(ms, path)) >= m
    BY <1>3, <2>1, <2>2, LatestIs
  <2>4. Latest(Giving(ms, path)) = n + 1
    BY <1>3, <2>2, <2>3
  <2>5. QED
    BY <1>7, <2>4
<1>14. /\ CellsBy(ms, base) = [p \in PathsOf(ms, base) |-> Value(ms, p)]
       /\ CellsBy(ls, base) = [p \in PathsOf(ls, base) |-> Value(ls, p)]
  BY CellsByIs, Zenon
<1>15. ~OverBase(path, base) => path \notin PathsOf(ls, base)
  BY DEF PathsOf
<1>16. old = CellsBy(ls, base) /\ CellsBy(SubSeq(lines, a, e), base) = CellsBy(ms, base)
  BY <1>2
<1> HIDE DEF Value
<1>17. CASE OverBase(path, base)
  <2>1. DOMAIN old = PathsOf(ls, base) /\ \A p \in PathsOf(ls, base) : old[p] = Value(ls, p)
    BY <1>14, <1>16
  <2>2. CellsBy(ms, base) = [p \in DOMAIN old \cup {path} |-> Value(ms, p)]
    BY <1>11, <1>14, <1>17, <2>1
  <2>3. \A p \in DOMAIN old \cup {path} : Value(ms, p) = IF p = path THEN lines[e].value ELSE old[p]
    BY <1>12, <1>13, <2>1
  <2>4. CellsBy(ms, base) = Put(old, path, lines[e].value)
    BY <2>2, <2>3 DEF Put
  <2>5. QED
    BY <1>16, <1>17, <2>4
<1>18. CASE ~OverBase(path, base)
  BY <1>11, <1>12, <1>14, <1>15, <1>16, <1>18
<1>19. QED
  BY <1>17, <1>18

\* The elements that loadCube takes for base elements are the ones that are.
LEMMA BaseIdsAre ==
  ASSUME Typed, Wholes, CursorOK, NEW d \in Known, NEW id
  PROVE  LookupElement(d, id) \notin {NoElement, "consolidated"} <=> id \in BaseIds[d]
<1>1. CASE d \in complete
  <2>1. elements[d] = TypesBy(ElementLines(d), SizeOf(d), NoElement)
    BY <1>1, Zenon DEF Wholes, Whole
  <2>2. PICK types, size : types = TypesBy(ElementLines(d), SizeOf(d), NoElement) /\ size = SizeOf(d)
    OBVIOUS
  <2>3. DOMAIN types = 0..(size - 1)
    BY <2>2, TypesByIs, Zenon
  <2>4. \A i \in DOMAIN types : types[i] \in Kinds /\ types[i] \in {"consolidated", "numeric", NoElement}
    <3>1. \A line : TypeOf(line) \in {"consolidated", "numeric"}
      BY DEF TypeOf
    <3>2. \A i \in 0..(size - 1) :
            types[i] = IF Mine(ElementLines(d), i) = {} THEN NoElement
                       ELSE TypeOf(ElementLines(d)[Latest(Mine(ElementLines(d), i))])
      BY <2>2, TypesByIs, Zenon
    <3>3. QED
      BY <2>3, <3>1, <3>2 DEF Kinds
  <2>5. BaseIds[d] = {i \in 0..(size - 1) : types[i] = "numeric"}
    BY <1>1, <2>2 DEF BaseIds
  <2>6. LookupElement(d, id) = IF id \in DOMAIN types THEN types[id] ELSE NoElement
    BY <2>1, <2>2 DEF LookupElement
  <2>7. QED
    BY <2>3, <2>4, <2>5, <2>6, NoElementAssumption
<1>2. CASE d \notin complete
  <2>1. BaseIds[d] = {i \in DOMAIN elements[d] : elements[d][i] \in {"undefined", "numeric"}}
    BY <1>2 DEF BaseIds
  <2>2. \A i \in DOMAIN elements[d] : elements[d][i] \in Kinds
    BY RangeWithin DEF Typed
  <2>3. QED
    BY <2>1, <2>2, NoElementAssumption DEF LookupElement, Kinds
<1>3. QED
  BY <1>1, <1>2

LEMMA BasePaths ==
  ASSUME Typed, Wholes, CursorOK, Choosing, NEW path \in Seq(Nat), Len(path) = Len(cube.dims)
  PROVE  IsBaseCell(path) <=> OverBase(path, BaseElements)
<1>1. cube.dims \in Seq(Known)
  BY DEF Choosing
<1>2. \A k \in DOMAIN path : cube.dims[k] \in Known /\ k \in DOMAIN cube.dims
  BY <1>1
<1>3. \A k \in DOMAIN path :
        LookupElement(cube.dims[k], path[k]) \notin {NoElement, "consolidated"} <=> path[k] \in BaseIds[cube.dims[k]]
  BY <1>2, BaseIdsAre
<1>4. \A k \in DOMAIN path : BaseElements[k] = BaseIds[cube.dims[k]]
  BY <1>2 DEF BaseElements
<1>5. QED
  BY <1>3, <1>4, Zenon DEF IsBaseCell, OverBase

-----------------------------------------------------------------------------
(* The cells of the cube. *)

\* The cells are those of the lines read.
Celled ==
  /\ pc \notin {"cells", "loaded", "aborted"} => cells = << >>
  /\ \A path \in Filled : Len(path) = Len(cube.dims)
  /\ pc = "overview" => at = 1
  /\ pc = "sizes" => at >= 2 /\ \A k \in 2..(at - 1) : file[k].kind = "data"
  /\ pc = "cells" =>
       \E n \in 2..(at - 1) :
         /\ file[n] = Section(<<"NUMERIC">>) /\ \A k \in 2..(n - 1) : file[k].kind = "data"
         /\ \A k \in (n + 1)..(at - 1) : file[k].kind = "data"
         /\ cells = CellsBy(SubSeq(file, n + 1, at - 1), BaseElements)
  /\ CellsAsInFile

\* What the cells are compared with does not change any more.
LEMMA BaseElementsStay ==
  ASSUME database' = database, dimensions' = dimensions, complete' = complete, elements' = elements,
         cube' = cube
  PROVE  BaseElements' = BaseElements
<1>1. \A d : SizeOf(d)' = SizeOf(d) /\ ElementLines(d)' = ElementLines(d)
  BY StillThere
<1>2. BaseIds' = BaseIds
  BY <1>1, Zenon DEF BaseIds, Known
<1>3. QED
  BY <1>2, Zenon DEF BaseElements

\* Before there are cells.
LEMMA NoCellsYet ==
  ASSUME Celled, pc \notin {"cells", "loaded", "aborted"}, cells' = cells,
         pc' \notin {"overview", "sizes", "cells", "loaded"}
  PROVE  Celled'
<1>1. cells' = << >> /\ Filled' = {}
  BY DEF Celled, Filled
<1>2. QED
  BY <1>1 DEF Celled, CellsAsInFile

LEMMA OpenCubeCelled ==
  ASSUME Celled, OpenCube
  PROVE  Celled'
<1>1. pc = "load" /\ pc' = "overview" /\ at' = 1 /\ cells' = cells
  BY Zenon DEF OpenCube, OpenFile
<1>2. cells' = << >> /\ Filled' = {}
  BY <1>1 DEF Celled, Filled
<1>3. QED
  BY <1>1, <1>2 DEF Celled, CellsAsInFile

LEMMA CubeSectionCelled ==
  ASSUME CursorOK, Celled, CubeSection
  PROVE  Celled'
<1>1. pc = "overview" /\ at = 1 /\ cells = << >> /\ Filled = {}
  BY DEF CubeSection, Celled, Filled
<1>2. CASE Abort
  BY <1>1, <1>2, NoCellsYet DEF Abort, cubeVars
<1>3. CASE InSection(<<"CUBE">>) /\ NextLine /\ pc' = "sizes" /\ UNCHANGED <<elements, cubeVars>>
  <2>1. at' = 2 /\ pc' = "sizes" /\ cells' = cells /\ Filled' = {}
    BY <1>1, <1>3, LineIs DEF cubeVars, Filled
  <2>2. at' >= 2 /\ \A k \in 2..(at' - 1) : FALSE
    BY <2>1
  <2>3. QED
    BY <1>1, <2>1, <2>2 DEF Celled, CellsAsInFile
<1>4. QED
  BY <1>2, <1>3 DEF CubeSection

LEMMA SizesLineCelled ==
  ASSUME CursorOK, Celled, SizesLine
  PROVE  Celled'
<1>1. pc = "sizes" /\ pc' = "sizes" /\ IsDataLine /\ cells' = cells /\ cells = << >> /\ Filled' = {}
  BY DEF SizesLine, Celled, Filled
<1>2. at >= 2 /\ \A k \in 2..(at - 1) : file[k].kind = "data"
  BY <1>1 DEF Celled
<1>3. file' = file /\ at' = at + 1 /\ at \in 1..Len(file) /\ file[at].kind = "data" /\ Len(file) \in Nat
  BY <1>1, LineIs DEF SizesLine, IsDataLine, IsEndOfFile
<1>4. at' >= 2 /\ \A k \in 2..(at' - 1) : file[k].kind = "data"
  BY <1>2, <1>3
<1>5. QED
  BY <1>1, <1>3, <1>4 DEF Celled, CellsAsInFile

\* What the lines up to the current one are, where the sizes end.
LEMMA SizesEnd ==
  ASSUME CursorOK, NEW n \in 2..(Len(file) + 1), \A k \in 2..(n - 1) : file[k].kind = "data",
         n = Len(file) + 1 \/ file[n].kind # "data"
  PROVE  Len(DataAfter(file, 1)) + 2 = n
<1>1. Readable(file) /\ Len(file) \in Nat /\ DOMAIN file = 1..Len(file) /\ 1 \in DOMAIN file
  BY ReadableIs DEF CursorOK
<1>2. n \in (1 + 1)..(Len(file) + 1) /\ \A k \in (1 + 1)..(n - 1) : file[k].kind = "data"
  BY <1>1
<1>3. DataAfter(file, 1) = SubSeq(file, 1 + 1, n - 1)
  BY <1>1, <1>2, DataAfterUntil
<1>4. PICK a, c : a = 1 + 1 /\ c = n - 1
  OBVIOUS
<1>5. a \in 1..(Len(file) + 1) /\ c \in (a - 1)..Len(file)
  BY <1>1, <1>4
<1>6. Len(SubSeq(file, a, c)) = c + 1 - a
  BY <1>1, <1>5, LinesBetween
<1>7. QED
  BY <1>3, <1>4, <1>6

LEMMA EndSizesCelled ==
  ASSUME CursorOK, Celled, EndSizes
  PROVE  Celled'
<1>1. pc = "sizes" /\ ~IsDataLine /\ cells = << >> /\ Filled = {}
  BY DEF EndSizes, Celled, Filled
<1>2. at >= 2 /\ \A k \in 2..(at - 1) : file[k].kind = "data"
  BY <1>1 DEF Celled
<1>3. /\ Readable(file) /\ Len(file) \in Nat /\ DOMAIN file = 1..Len(file) /\ at \in 1..(Len(file) + 1)
  BY ReadableIs DEF CursorOK
<1>4. CASE Abort
  BY <1>1, <1>4, NoCellsYet DEF Abort, cubeVars
<1>5. CASE InSection(<<"NUMERIC">>) /\ NextLine /\ pc' = "cells" /\ UNCHANGED <<elements, cubeVars>>
  <2>1. file' = file /\ at' = at + 1 /\ at \in 1..Len(file) /\ file[at] = Section(<<"NUMERIC">>)
    BY <1>5, LineIs DEF InSection
  <2>2. cells' = << >> /\ Filled' = {}
    BY <1>1, <1>5 DEF cubeVars, Filled
  <2>3. at \in 2..(at' - 1) /\ \A k \in (at + 1)..(at' - 1) : FALSE
    BY <1>2, <2>1
  <2>4. cells' = CellsBy(SubSeq(file, at + 1, at' - 1), BaseElements')
    <3>1. PICK a, c : a = at + 1 /\ c = at' - 1
      OBVIOUS
    <3>2. a \in 1..(Len(file) + 1) /\ c \in (a - 1)..Len(file) /\ c + 1 - a = 0
      BY <1>3, <2>1, <3>1
    <3>3. DOMAIN SubSeq(file, a, c) = 1..0
      BY <1>3, <3>2, LinesBetween
    <3>4. DOMAIN SubSeq(file, a, c) = {}
      BY <3>3
    <3>5. QED
      BY <2>2, <3>1, <3>4, NoCells
  <2>5. QED
    BY <1>2, <1>5, <2>1, <2>2, <2>3, <2>4 DEF Celled, CellsAsInFile
<1>6. CASE ~IsSectionLine /\ pc' = "loaded" /\ UNCHANGED <<cursorVars, elements, cubeVars>>
  <2>1. file' = file /\ at' = at /\ cells' = << >> /\ Filled' = {}
    BY <1>1, <1>6 DEF cursorVars, cubeVars, Filled
  <2>2. Len(DataAfter(file, 1)) + 2 = at
    <3>1. at \in 2..(Len(file) + 1) /\ (at = Len(file) + 1 \/ file[at].kind # "data")
      BY <1>1, <1>2, <1>3, LineIs DEF IsDataLine
    <3>2. QED
      BY <1>2, <3>1, SizesEnd
  <2>3. ~(at \in DOMAIN file /\ file[at] = Section(<<"NUMERIC">>))
    BY <1>3, <1>6, LineIs DEF IsSectionLine, IsEndOfFile, Section
  <2>4. CellsBy(<< >>, BaseElements') = << >>
    BY NoCells
  <2>5. QED
    BY <1>6, <2>1, <2>2, <2>3, <2>4 DEF Celled, CellsAsInFile
<1>7. QED
  BY <1>4, <1>5, <1>6 DEF EndSizes

\* What is known at the line of a cell.
LEMMA AtCellLine ==
  ASSUME CursorOK, Celled, pc = "cells", IsDataLine
  PROVE  \E n \in 2..(at - 1) :
           /\ file[n] = Section(<<"NUMERIC">>) /\ \A k \in 2..(n - 1) : file[k].kind = "data"
           /\ \A k \in (n + 1)..at : file[k].kind = "data"
           /\ n + 1 \in 1..(Len(file) + 1) /\ at \in (n + 1)..Len(file)
           /\ cells = CellsBy(SubSeq(file, n + 1, at - 1), BaseElements)
           /\ Line = file[at] /\ file[at].path \in Seq(Nat)
<1>1. /\ Readable(file) /\ Len(file) \in Nat /\ DOMAIN file = 1..Len(file)
      /\ at \in 1..Len(file) /\ Line = file[at] /\ file[at].kind = "data"
  BY ReadableIs, LineIs DEF CursorOK, IsDataLine, IsEndOfFile
<1>2. PICK n \in 2..(at - 1) :
        /\ file[n] = Section(<<"NUMERIC">>) /\ \A k \in 2..(n - 1) : file[k].kind = "data"
        /\ \A k \in (n + 1)..(at - 1) : file[k].kind = "data"
        /\ cells = CellsBy(SubSeq(file, n + 1, at - 1), BaseElements)
  BY DEF Celled
<1>3. n \in 1..Len(file) /\ n + 1 \in 1..(Len(file) + 1) /\ at \in (n + 1)..Len(file)
  BY <1>1
<1>4. \A k \in (n + 1)..at : file[k].kind = "data" /\ k \in DOMAIN file
  BY <1>1, <1>2, <1>3
<1>5. file[n].kind = "section" /\ file[n].name[1] = "NUMERIC"
  BY <1>2, SectionNames
<1>6. Belongs(file, n, at, "NUMERIC")
  BY <1>4, <1>5 DEF Belongs, IsData
<1>7. file[at].path \in Seq(Nat)
  BY <1>1, <1>3, <1>6 DEF Readable
<1>8. QED
  BY <1>1, <1>2, <1>3, <1>4, <1>7

LEMMA CellLineCelled ==
  ASSUME CursorOK, Typed, Wholes, Choosing, Celled, CellLine,
         UNCHANGED <<dimensionVars, given, answers, cubes>>
  PROVE  Celled'
<1>1. pc = "cells" /\ IsDataLine /\ database' = database /\ dimensions' = dimensions /\ complete' = complete
  BY DEF CellLine, dimensionVars, given
<1>2. CASE Abort
  <2>1. cells' = cells /\ cube' = cube /\ pc' = "aborted" /\ Filled' = Filled
    BY <1>2 DEF Abort, cubeVars, Filled
  <2>2. QED
    BY <2>1 DEF Celled, CellsAsInFile
<1>3. CASE /\ Len(Line.path) = Len(cube.dims) /\ NextLine /\ UNCHANGED <<pc, disk, elements, cube, sizes>>
           /\ IF IsBaseCell(Line.path) THEN SetValue(Line.path, Line.value) ELSE UNCHANGED <<cells, buckets>>
  <2>1. PICK n \in 2..(at - 1) :
           /\ file[n] = Section(<<"NUMERIC">>) /\ \A k \in 2..(n - 1) : file[k].kind = "data"
           /\ \A k \in (n + 1)..at : file[k].kind = "data"
           /\ n + 1 \in 1..(Len(file) + 1) /\ at \in (n + 1)..Len(file)
           /\ cells = CellsBy(SubSeq(file, n + 1, at - 1), BaseElements)
           /\ Line = file[at] /\ file[at].path \in Seq(Nat)
    BY <1>1, AtCellLine
  <2>2. file' = file /\ at' = at + 1 /\ pc' = "cells" /\ cube' = cube /\ at \in Nat /\ elements' = elements
    BY <1>1, <1>3, LineIs DEF IsDataLine, IsEndOfFile
  <2>3. BaseElements' = BaseElements
    BY <1>1, <2>2, BaseElementsStay
  <2>4. PICK path : path = file[at].path
    OBVIOUS
  <2>5. IsBaseCell(path) <=> OverBase(path, BaseElements)
    BY <1>3, <2>1, <2>4, BasePaths
  <2>6. cells' = IF OverBase(path, BaseElements) THEN Put(cells, path, file[at].value) ELSE cells
    BY <1>3, <2>1, <2>4, <2>5 DEF SetValue, Filled, Put
  <2>7. CellsBy(SubSeq(file, n + 1, at), BaseElements) = cells'
    <3>1. PICK a, base : a = n + 1 /\ base = BaseElements
      OBVIOUS
    <3>2. Readable(file) /\ a \in 1..(Len(file) + 1) /\ at \in a..Len(file)
      BY <2>1, <3>1 DEF CursorOK
    <3>3. cells = CellsBy(SubSeq(file, a, at - 1), base)
      BY <2>1, <3>1
    <3>4. CellsBy(SubSeq(file, a, at), base) =
            IF OverBase(path, base) THEN Put(cells, path, file[at].value) ELSE cells
      BY <2>4, <3>2, <3>3, OneMoreCell
    <3>5. QED
      BY <2>6, <3>1, <3>4
  <2>8. \A p \in Filled' : Len(p) = Len(cube.dims)
    <3>1. Len(path) = Len(cube.dims)
      BY <1>3, <2>1, <2>4
    <3>2. \A p \in Filled' : p \in Filled \/ p = path
      BY <2>6 DEF Filled, Put
    <3>3. QED
      BY <3>1, <3>2 DEF Celled
  <2>9. n \in 2..(at' - 1) /\ at' - 1 = at
    BY <2>1, <2>2
  <2>10. /\ n \in 2..(at' - 1) /\ file'[n] = Section(<<"NUMERIC">>)
         /\ \A k \in 2..(n - 1) : file'[k].kind = "data"
         /\ \A k \in (n + 1)..(at' - 1) : file'[k].kind = "data"
         /\ cells' = CellsBy(SubSeq(file', n + 1, at' - 1), BaseElements')
    BY <2>1, <2>2, <2>3, <2>7, <2>9
  <2>11. QED
    BY <2>2, <2>8, <2>10 DEF Celled, CellsAsInFile
<1>4. QED
  BY <1>2, <1>3 DEF CellLine

\* When all lines are read, the cells are those of the section.
LEMMA EndCellsCelled ==
  ASSUME CursorOK, Celled, EndCells, UNCHANGED <<dimensionVars, given, answers, cubes>>
  PROVE  Celled'
<1>1. /\ pc = "cells" /\ ~IsDataLine /\ pc' = "loaded" /\ file' = file /\ cells' = cells /\ cube' = cube
      /\ elements' = elements /\ Filled' = Filled /\ database' = database /\ dimensions' = dimensions
      /\ complete' = complete
  BY DEF EndCells, cursorVars, dimensionVars, given, Filled
<1>2. PICK n \in 2..(at - 1) :
        /\ file[n] = Section(<<"NUMERIC">>) /\ \A k \in 2..(n - 1) : file[k].kind = "data"
        /\ \A k \in (n + 1)..(at - 1) : file[k].kind = "data"
        /\ cells = CellsBy(SubSeq(file, n + 1, at - 1), BaseElements)
  BY <1>1 DEF Celled
<1>3. /\ Readable(file) /\ Len(file) \in Nat /\ DOMAIN file = 1..Len(file) /\ at \in 1..(Len(file) + 1)
      /\ (at = Len(file) + 1 \/ file[at].kind # "data")
  BY <1>1, ReadableIs, LineIs DEF CursorOK, IsDataLine
<1>4. file[n].kind # "data" /\ n \in DOMAIN file /\ n \in 2..(Len(file) + 1)
  BY <1>2, <1>3, SectionNames
<1>5. Len(DataAfter(file, 1)) + 2 = n
  BY <1>2, <1>4, SizesEnd
<1>6. DataAfter(file, n) = SubSeq(file, n + 1, at - 1)
  <2>1. at \in (n + 1)..(Len(file) + 1)
    BY <1>3
  <2>2. QED
    BY <1>2, <1>3, <1>4, <2>1, DataAfterUntil
<1>7. BaseElements' = BaseElements
  BY <1>1, BaseElementsStay
<1>8. CellsAsInFile'
  BY <1>1, <1>2, <1>4, <1>5, <1>6, <1>7 DEF CellsAsInFile
<1>9. QED
  BY <1>1, <1>8 DEF Celled

LEMMA CelledStutters ==
  ASSUME Celled, UNCHANGED vars
  PROVE  Celled'
<1>1. /\ pc' = pc /\ file' = file /\ at' = at /\ cells' = cells /\ cube' = cube
      /\ elements' = elements /\ Filled' = Filled /\ database' = database /\ dimensions' = dimensions
      /\ complete' = complete
  BY DEF vars, cursorVars, cubeVars, dimensionVars, given, Filled
<1>2. BaseElements' = BaseElements
  BY <1>1, BaseElementsStay
<1>3. QED
  BY <1>1, <1>2 DEF Celled, CellsAsInFile

LEMMA CelledInit == Init => Celled
BY DEF Init, Celled, CellsAsInFile, Filled

LEMMA CelledNext ==
  ASSUME CursorOK, Typed, Wholes, Choosing, Celled, [Next]_vars
  PROVE  Celled'
<1>1. CASE \/ DatabaseSection \/ DatabaseLine \/ DimensionsSection \/ DimensionLine \/ EndDimensionLines
           \/ NextDimension \/ SearchOverview \/ LoadOverview \/ FindElementSection \/ LoadElement
           \/ EndElements \/ OpenAgain \/ FindCubes \/ CubeLine \/ EndCubes \/ SelectCube \/ TakeAnswer
  <2>1. pc \notin {"cells", "loaded", "aborted"} /\ cells' = cells
    BY <1>1, ReadingSteps
  <2>2. pc' \notin {"overview", "sizes", "cells", "loaded"}
    BY <1>1, ReadingMoves DEF Early, InDimension, Behind
  <2>3. QED
    BY <2>1, <2>2, NoCellsYet
<1>2. CASE LoadCube /\ UNCHANGED <<dimensionVars, given, answers, cubes>>
  <2>1. CASE FileMissing
    BY <2>1, NoCellsYet DEF FileMissing, Abort, cubeVars
  <2>2. CASE OpenCube \/ CubeSection \/ SizesLine \/ EndSizes
    BY <2>2, OpenCubeCelled, CubeSectionCelled, SizesLineCelled, EndSizesCelled
  <2>3. CASE CellLine \/ EndCells
    BY <1>2, <2>3, CellLineCelled, EndCellsCelled
  <2>4. QED
    BY <1>2, <2>1, <2>2, <2>3 DEF LoadCube
<1>3. CASE UNCHANGED vars
  BY <1>3, CelledStutters
<1>4. QED
  BY <1>1, <1>2, <1>3 DEF Next

-----------------------------------------------------------------------------
(* The files. *)

Opened == file \in {database} \cup {f.lines : f \in UNION {Range(disk[c]) : c \in DOMAIN disk}}

LEMMA OpenedNext ==
  ASSUME FilesOK, CursorOK, Opened, [Next]_vars
  PROVE  Opened'
<1>1. CASE \/ DatabaseSection \/ DatabaseLine \/ DimensionsSection \/ DimensionLine \/ EndDimensionLines
           \/ NextDimension \/ SearchOverview \/ LoadOverview \/ FindElementSection \/ LoadElement
           \/ EndElements \/ OpenAgain \/ FindCubes \/ CubeLine \/ EndCubes \/ SelectCube \/ TakeAnswer
  <2>1. database' = database /\ (file' = file \/ file' = database)
    BY <1>1, ReadingMoves DEF NextLine, cursorVars, OpenFile
  <2>2. disk' = disk
    BY <1>1, ReadingSteps
  <2>3. QED
    BY <2>1, <2>2 DEF Opened
<1>2. CASE LoadCube /\ UNCHANGED <<dimensionVars, given, answers, cubes>>
  <2>1. CASE FileMissing \/ CubeSection \/ SizesLine \/ EndSizes \/ CellLine \/ EndCells
    <3>1. file' = file /\ database' = database
      BY <1>2, <2>1, CubeMoves DEF NextLine, cursorVars, given
    <3>2. disk' = disk
      <4>1. CASE FileMissing \/ CubeSection \/ SizesLine \/ EndSizes
        BY <4>1 DEF FileMissing, CubeSection, SizesLine, EndSizes, Abort, cubeVars
      <4>2. CASE CellLine \/ EndCells
        BY <4>2 DEF CellLine, EndCells, Abort, cubeVars
      <4>3. QED
        BY <2>1, <4>1, <4>2
    <3>3. QED
      BY <3>1, <3>2 DEF Opened
  <2>2. CASE OpenCube
    <3>1. PICK c \in DOMAIN disk : \E ext \in DOMAIN disk[c] :
           /\ file' = disk[c][ext].lines /\ c \in DOMAIN disk'
           /\ \E e \in DOMAIN disk'[c] : disk'[c][e] = disk[c][ext]
      BY <2>2, OpenedIs
    <3>2. PICK e \in DOMAIN disk'[c] : file' = disk'[c][e].lines
      BY <3>1
    <3>3. disk'[c][e] \in Range(disk'[c])
      BY DEF Range
    <3>4. file' \in {f.lines : f \in UNION {Range(disk'[x]) : x \in DOMAIN disk'}}
      BY <3>1, <3>2, <3>3
    <3>5. QED
      BY <3>4 DEF Opened
  <2>3. QED
    BY <1>2, <2>1, <2>2 DEF LoadCube
<1>3. CASE UNCHANGED vars
  BY <1>3 DEF vars, cursorVars, cubeVars, given, Opened
<1>4. QED
  BY <1>1, <1>2, <1>3 DEF Next

-----------------------------------------------------------------------------
(* The theorems. *)

\* The inductive invariant.
LoadIInv == BucketIInv /\ CursorOK /\ Typed /\ LoadingOK /\ Choosing /\ Celled /\ Opened

LEMMA LoadInit == Init => LoadIInv
<1>1. Init => Opened
  BY DEF Init, Opened
<1>2. QED
  BY <1>1, BucketsInit, CursorInit, TypedInit, LoadingInit, ChoosingInit, CelledInit DEF LoadIInv

LEMMA LoadNext ==
  ASSUME LoadIInv, [Next]_vars
  PROVE  LoadIInv'
<1>1. BucketIInv' /\ FilesOK /\ Wholes
  BY BucketsNext DEF LoadIInv, BucketIInv, LoadingOK
<1>2. CursorOK' /\ Opened'
  BY <1>1, CursorNext, OpenedNext DEF LoadIInv
<1>3. Typed' /\ LoadingOK'
  BY TypedNext, LoadingNext DEF LoadIInv
<1>4. Choosing' /\ Celled'
  BY <1>1, ChoosingNext, CelledNext DEF LoadIInv
<1>5. QED
  BY <1>1, <1>2, <1>3, <1>4 DEF LoadIInv

\* What the invariant is for.
LEMMA LoadHelps ==
  ASSUME LoadIInv
  PROVE  LoadedToTheFault /\ CellsAsInFile
<1>1. TypeOK
  <2>1. at \in 1..(Len(file) + 1) /\ Opened
    BY DEF LoadIInv, CursorOK
  <2>2. buckets \in Nat
    BY BucketsAssumption DEF LoadIInv, BucketIInv, Tabled
  <2>3. \A path \in Filled : Len(path) = Len(cube.dims)
    BY DEF LoadIInv, Celled
  <2>4. \A c \in DOMAIN cubes : Range(cubes[c]) \subseteq Known
    <3>1. ASSUME NEW s \in Seq(Known) PROVE Range(s) \subseteq Known
      BY DEF Range
    <3>2. QED
      BY <3>1 DEF LoadIInv, Choosing
  <2>5. cube.id \in DOMAIN cubes \/ cube.dims = << >>
    BY DEF LoadIInv, Choosing
  <2>6. QED
    BY <2>1, <2>2, <2>3, <2>4, <2>5, Zenon DEF TypeOK, LoadIInv, Typed, Kinds, Opened
<1>2. DimensionsRead <=> pc \in Behind \cup InCube \cup {"aborted"}
  BY DEF LoadIInv, CursorOK, DimensionsRead, Early, InDimension, Behind, InCube
<1>3. DimensionsRead /\ pc # "aborted" => Outcome
  BY <1>2 DEF LoadIInv, LoadingOK, After
<1>4. DimensionsRead => Remains
  BY <1>2 DEF LoadIInv, LoadingOK, After
<1>5. \A d \in complete : elements[d] = TypesBy(ElementLines(d), SizeOf(d), NoElement)
  BY Zenon DEF LoadIInv, LoadingOK, Wholes, Whole
<1>6. CellsAsInFile
  BY DEF LoadIInv, Celled
<1>7. QED
  BY <1>1, <1>3, <1>4, <1>5, <1>6, Zenon DEF LoadedToTheFault, Outcome, Remains

\* Whatever the database holds, its dimensions are loaded up to the first fault,
\* each with the elements its lines give, and nothing of what follows changes
\* them: AggrEnv::loadDimensions and Dimension::loadDimension.
THEOREM DimensionsAreLoaded == Spec => []LoadedToTheFault
<1>1. QED
  BY LoadInit, LoadNext, LoadHelps, PTL DEF Spec

\* The cube loaded has the cells its file gives over the base elements that were
\* loaded, and no other: Cube::loadCube.
THEOREM CellsAreLoaded == Spec => []CellsAsInFile
<1>1. QED
  BY LoadInit, LoadNext, LoadHelps, PTL DEF Spec

=============================================================================

------------------------------ MODULE StartUp -------------------------------
(***************************************************************************)
(* What main does before the first request: AggrEnv::loadDimensions reads  *)
(* the dimensions of the database file and their elements, collectCubeInfo *)
(* opens the file again and notes the cubes over those dimensions,         *)
(* selectAndLoadCube chooses one and loads it (CubeLoading).               *)
(*                                                                         *)
(* One FileReader serves all dimensions of loadDimensions; it never goes   *)
(* back.  A FileFormatException ends the loading of the dimensions but not *)
(* the program; an exception anywhere else ends the program.  Names of     *)
(* elements, relations between them and their order are the concern of     *)
(* Dimension: a line it refuses is one with lists that do not fit.         *)
(***************************************************************************)
EXTENDS CubeLoading, Functions

CONSTANT Situations   \* what the program finds when it is started: see Init

IsData(lines, i) == i \in DOMAIN lines /\ lines[i].kind = "data"

\* The data lines from one line to another belong to a section.
Belongs(lines, i, j, name) ==
  lines[i].kind = "section" /\ lines[i].name[1] = name /\ \A k \in (i + 1)..j : IsData(lines, k)

\* What a FileReader can be at; lines of a section have the fields it is read for.
Readable(lines) ==
  /\ lines \in Seq(Range(lines))
  /\ \A i \in DOMAIN lines : lines[i].kind \in {"section", "data", "other"}
  /\ \A i \in DOMAIN lines : \A j \in (i + 1)..Len(lines) :
       /\ \A name \in {"DATABASE", "DIMENSION"} : Belongs(lines, i, j, name) => lines[j].size \in Nat
       /\ \A name \in {"DIMENSIONS", "ELEMENTS", "CUBES"} :
            Belongs(lines, i, j, name) => lines[j].id \in Nat
       /\ Belongs(lines, i, j, "CUBES") => lines[j].dims \in Seq(Nat)
       /\ Belongs(lines, i, j, "NUMERIC") => lines[j].path \in Seq(Nat)

\* The database has each section once.
OnceEach(lines) ==
  \A i, j \in DOMAIN lines : lines[i].kind = "section" /\ lines[i] = lines[j] => i = j

\* The file of a cube has a newline behind each of its lines, except perhaps the
\* last one, and no more of them than the bound on the tables allows.
Countable(f) ==
  /\ Readable(f.lines)
  /\ f.newlines \in Nat /\ Len(f.lines) =< f.newlines + 1
  /\ BucketsAbove(f.newlines) # {}

ASSUME SituationsAssumption ==
  \A s \in Situations :
    /\ Readable(s.database) /\ OnceEach(s.database)
    /\ \A c \in DOMAIN s.disk :
         /\ DOMAIN s.disk[c] \subseteq {"csv", "tmp"}
         /\ \A ext \in DOMAIN s.disk[c] : Countable(s.disk[c][ext])

ASSUME NoElementAssumption == NoElement \notin {"undefined", "numeric", "consolidated"}

VARIABLES
  database,        \* the lines of the database file
  server,          \* whether it was started with -s
  answers,         \* the cubes the user will ask for, in this order
  sizeDimensions,  \* the bound on identifiers of dimensions
  dimensions,      \* dimensions[id]: the name of the dimension
  loading,         \* the dimension being loaded
  complete,        \* the dimensions loaded to the end
  cubes            \* cubes[id]: the dimensions of a cube that can be used

dimensionVars == <<sizeDimensions, dimensions, loading, complete>>
given == <<database, server>>
vars == <<pc, cursorVars, elements, cubeVars, dimensionVars, given, answers, cubes>>

Known == DOMAIN dimensions
Smallest(S) == CHOOSE x \in S : \A y \in S : x =< y
Latest(S) == CHOOSE i \in S : \A j \in S : i >= j

Init ==
  /\ \E s \in Situations :
       /\ database = s.database /\ disk = s.disk
       /\ server = s.server /\ answers = s.answers
  /\ file = database /\ at = 1
  /\ pc = "database"
  /\ sizeDimensions = 0 /\ dimensions = << >> /\ loading = 0 /\ complete = {}
  /\ elements = << >> /\ cubes = << >>
  /\ cube = [id |-> 0, dims |-> << >>]
  /\ sizes = << >> /\ cells = << >> /\ buckets = StartBuckets

-----------------------------------------------------------------------------
(* The sections DATABASE and DIMENSIONS. *)

Goto(place) == pc' = place /\ NextLine
Stay(place) == pc' = place /\ UNCHANGED cursorVars

\* The exception that loadDimensions catches.
Caught == Stay("collect") /\ UNCHANGED <<dimensions, elements>>

DatabaseSection ==
  /\ pc = "database"
  /\ IF InSection(<<"DATABASE">>) THEN Goto("size") ELSE Stay("dimensions")
  /\ UNCHANGED <<elements, cubeVars, dimensionVars, given, answers, cubes>>

DatabaseLine ==
  /\ pc = "size"
  /\ IF IsDataLine THEN sizeDimensions' = Line.size /\ Goto("dimensions")
                   ELSE Stay("dimensions") /\ UNCHANGED sizeDimensions
  /\ UNCHANGED <<elements, cubeVars, dimensions, loading, complete, given, answers, cubes>>

DimensionsSection ==
  /\ pc = "dimensions"
  /\ IF InSection(<<"DIMENSIONS">>) THEN Goto("dimension") ELSE Stay("collect")
  /\ UNCHANGED <<elements, cubeVars, dimensionVars, given, answers, cubes>>

InUse(line) == line.id \in Known \/ \E d \in Known : dimensions[d] = line.name

DimensionLine ==
  /\ pc = "dimension" /\ IsDataLine
  /\ \/ Line.id >= sizeDimensions /\ Caught
     \/ /\ Line.id < sizeDimensions /\ Line.type # 1
        /\ Goto(pc) /\ UNCHANGED <<dimensions, elements>>
     \/ /\ Line.id < sizeDimensions /\ Line.type = 1 /\ InUse(Line)
        /\ Stay("aborted") /\ UNCHANGED <<dimensions, elements>>
     \/ /\ Line.id < sizeDimensions /\ Line.type = 1 /\ ~InUse(Line)
        /\ dimensions' = [d \in Known \cup {Line.id} |->
                            IF d = Line.id THEN Line.name ELSE dimensions[d]]
        /\ elements' = [d \in DOMAIN dimensions' |-> << >>]
        /\ Goto(pc)
  /\ UNCHANGED <<cubeVars, sizeDimensions, loading, complete, given, answers, cubes>>

EndDimensionLines ==
  /\ pc = "dimension" /\ ~IsDataLine
  /\ Stay("next")
  /\ UNCHANGED <<elements, cubeVars, dimensionVars, given, answers, cubes>>

-----------------------------------------------------------------------------
(* Dimension::loadDimension, for one dimension after the other by identifier. *)

NextDimension ==
  /\ pc = "next"
  /\ IF Known = complete THEN Stay("collect") /\ UNCHANGED loading
     ELSE loading' = Smallest(Known \ complete) /\ Stay("search")
  /\ UNCHANGED <<elements, cubeVars, sizeDimensions, dimensions, complete, given, answers, cubes>>

Overview == <<"DIMENSION", loading>>
ElementSection == <<"ELEMENTS", "DIMENSION", loading>>

SearchOverview ==
  /\ pc = "search"
  /\ \/ IsEndOfFile /\ Stay("collect")
     \/ InSection(Overview) /\ Goto("dimensionInfo")
     \/ ~IsEndOfFile /\ ~InSection(Overview) /\ Goto(pc)
  /\ UNCHANGED <<elements, cubeVars, dimensionVars, given, answers, cubes>>

\* Elements are constructed for all identifiers before the first line is read.
LoadOverview ==
  /\ pc = "dimensionInfo"
  /\ \/ ~IsDataLine /\ Caught
     \/ /\ IsDataLine
        /\ elements' = [elements EXCEPT ![loading] = [id \in 0..(Line.size - 1) |-> "undefined"]]
        /\ Goto("elementSection")
  /\ UNCHANGED <<cubeVars, dimensionVars, given, answers, cubes>>

FindElementSection ==
  /\ pc = "elementSection"
  /\ IF InSection(ElementSection) THEN Goto("element") ELSE Stay("collect")
  /\ UNCHANGED <<elements, cubeVars, dimensionVars, given, answers, cubes>>

\* A line that loadElement throws an exception for, in a section of that size.
Refused(line, size) ==
  \/ line.type = "unknown"
  \/ line.type # "string" /\ (line.id >= size \/ line.listsDiffer)

\* The type follows from the children, whatever the line says.
TypeOf(line) == IF line.children THEN "consolidated" ELSE "numeric"

LoadElement ==
  /\ pc = "element" /\ IsDataLine
  /\ \/ Refused(Line, Cardinality(DOMAIN elements[loading])) /\ Caught
     \/ /\ ~Refused(Line, Cardinality(DOMAIN elements[loading]))
        /\ elements' = IF Line.type = "string" THEN elements
                       ELSE [elements EXCEPT ![loading][Line.id] = TypeOf(Line)]
        /\ Goto(pc)
        /\ UNCHANGED dimensions
  /\ UNCHANGED <<cubeVars, sizeDimensions, loading, complete, given, answers, cubes>>

\* Mutant: the last identifier is not looked at.
ClearedButLast(types) ==
  [id \in DOMAIN types |-> IF types[id] = "undefined" /\ id + 1 \in DOMAIN types
                           THEN NoElement ELSE types[id]]

\* The elements no line was found for are deleted.
Cleared(types) ==
  [id \in DOMAIN types |-> IF types[id] = "undefined" THEN NoElement ELSE types[id]]

EndElements ==
  /\ pc = "element" /\ ~IsDataLine
  /\ elements' = [elements EXCEPT ![loading] = Cleared(@)]
  /\ complete' = complete \cup {loading}
  /\ Stay("next")
  /\ UNCHANGED <<cubeVars, sizeDimensions, dimensions, loading, given, answers, cubes>>

-----------------------------------------------------------------------------
(* AggrEnv::collectCubeInfo and selectAndLoadCube. *)

OpenAgain ==
  /\ pc = "collect"
  /\ IF Known = {} THEN Stay("aborted") ELSE OpenFile(database) /\ pc' = "cubes"
  /\ UNCHANGED <<elements, cubeVars, dimensionVars, given, answers, cubes>>

\* At the end of the file the current line stays the last one for ever.
FindCubes ==
  /\ pc = "cubes"
  /\ IF InSection(<<"CUBES">>) THEN Goto("cube") ELSE Goto(pc)
  /\ UNCHANGED <<elements, cubeVars, dimensionVars, given, answers, cubes>>

Usable(line) == line.type \in {2, 7} /\ Range(line.dims) \subseteq Known

CubeLine ==
  /\ pc = "cube" /\ IsDataLine
  /\ \/ ~Usable(Line) /\ Goto(pc) /\ UNCHANGED cubes
     \/ Usable(Line) /\ Line.dims = << >> /\ Stay("aborted") /\ UNCHANGED cubes
     \/ /\ Usable(Line) /\ Line.dims # << >>
        /\ cubes' = [c \in DOMAIN cubes \cup {Line.id} |->
                       IF c = Line.id THEN Line.dims ELSE cubes[c]]
        /\ Goto(pc)
  /\ UNCHANGED <<elements, cubeVars, dimensionVars, given, answers>>

EndCubes ==
  /\ pc = "cube" /\ ~IsDataLine
  /\ Stay("select")
  /\ UNCHANGED <<elements, cubeVars, dimensionVars, given, answers, cubes>>

Load(id) == cube' = [id |-> id, dims |-> cubes[id]] /\ Stay("load")

SelectCube ==
  /\ pc = "select"
  /\ \/ cubes = << >> /\ Stay("aborted") /\ UNCHANGED cube
     \/ /\ cubes # << >> /\ (Cardinality(DOMAIN cubes) = 1 \/ server)
        /\ Load(Smallest(DOMAIN cubes))
     \/ Cardinality(DOMAIN cubes) > 1 /\ ~server /\ Stay("ask") /\ UNCHANGED cube
  /\ UNCHANGED <<elements, disk, sizes, cells, buckets, dimensionVars, given, answers, cubes>>

\* Mutant: the input that was wrong is read again.
SameAnswers == answers

\* The rest of a line that names no cube is skipped.
OtherAnswers == Tail(answers)

\* When the input ends, reading fails again and again.
TakeAnswer ==
  /\ pc = "ask"
  /\ \/ answers = << >> /\ Stay(pc) /\ UNCHANGED <<answers, cube>>
     \/ /\ answers # << >> /\ Head(answers) \in DOMAIN cubes
        /\ Load(Head(answers)) /\ UNCHANGED answers
     \/ /\ answers # << >> /\ Head(answers) \notin DOMAIN cubes
        /\ answers' = OtherAnswers /\ Stay(pc) /\ UNCHANGED cube
  /\ UNCHANGED <<elements, disk, sizes, cells, buckets, dimensionVars, given, cubes>>

Next ==
  \/ DatabaseSection \/ DatabaseLine \/ DimensionsSection \/ DimensionLine \/ EndDimensionLines
  \/ NextDimension \/ SearchOverview \/ LoadOverview \/ FindElementSection \/ LoadElement
  \/ EndElements
  \/ OpenAgain \/ FindCubes \/ CubeLine \/ EndCubes \/ SelectCube \/ TakeAnswer
  \/ LoadCube /\ UNCHANGED <<dimensionVars, given, answers, cubes>>

Spec == Init /\ [][Next]_vars

\* One thread, which nothing blocks.
FairSpec == Spec /\ WF_vars(Next)

-----------------------------------------------------------------------------
(* What the files say, found without a cursor. *)

Places(name) == {i \in DOMAIN database : database[i] = Section(name)}

\* The data lines that follow a line.
DataAfter(lines, i) ==
  LET ends == {j \in (i + 1)..Len(lines) : lines[j].kind # "data"} \cup {Len(lines) + 1}
  IN SubSeq(lines, i + 1, Smallest(ends) - 1)

SizeOf(d) == database[Smallest(Places(<<"DIMENSION", d>>)) + 1].size
ElementLines(d) == DataAfter(database, Smallest(Places(<<"ELEMENTS", "DIMENSION", d>>)))

\* The sections of a dimension are there, together, and with lines that fit.
Sound(d) ==
  \E i \in Places(<<"DIMENSION", d>>) :
    /\ i + 2 \in Places(<<"ELEMENTS", "DIMENSION", d>>)
    /\ database[i + 1].kind = "data"
    /\ \A line \in Range(ElementLines(d)) : ~Refused(line, SizeOf(d))
    /\ \A e \in Known : e < d => \E j \in Places(<<"DIMENSION", e>>) : j < i

\* The dimensions themselves could be read.
DimensionsListed ==
  \E i \in Places(<<"DIMENSIONS">>) :
    \A line \in Range(DataAfter(database, i)) : line.id < sizeDimensions

\* The types that lines give elements, and otherwise that of an element without one.
TypesBy(lines, size, otherwise) ==
  [id \in 0..(size - 1) |->
     LET mine == {i \in DOMAIN lines : lines[i].id = id /\ lines[i].type # "string"}
     IN IF mine = {} THEN otherwise
        ELSE TypeOf(lines[Latest(mine)])]

BeforeRefused(lines, size) ==
  LET bad == {i \in DOMAIN lines : Refused(lines[i], size)}
  IN IF bad = {} THEN lines ELSE SubSeq(lines, 1, Smallest(bad) - 1)

-----------------------------------------------------------------------------
(* Properties. *)

TypeOK ==
  /\ file \in {database} \cup {f.lines : f \in UNION {Range(disk[c]) : c \in DOMAIN disk}}
  /\ at \in 1..(Len(file) + 1)
  /\ sizeDimensions \in Nat /\ Known \subseteq Nat /\ complete \subseteq Known
  /\ DOMAIN elements = Known
  /\ \A d \in Known : Range(elements[d]) \subseteq {"undefined", "numeric", "consolidated", NoElement}
  /\ \A c \in DOMAIN cubes : Range(cubes[c]) \subseteq Known
  /\ cube.id \in DOMAIN cubes \/ cube.dims = << >>
  /\ buckets \in Nat /\ \A path \in Filled : Len(path) = Len(cube.dims)

DimensionsRead == pc \notin {"database", "size", "dimensions", "dimension", "next", "search",
                             "dimensionInfo", "elementSection", "element"}

\* After loadDimensions the dimensions up to the first fault of the file hold
\* just the elements their lines give, whatever the order of the lines; the
\* dimension with the fault may be half loaded, and is then left with what the
\* lines before the fault gave and the rest of its elements undefined; the
\* dimensions behind it are empty.  Sound files are loaded completely.
LoadedToTheFault ==
  /\ TypeOK
  /\ DimensionsRead /\ pc # "aborted" =>
       complete = IF DimensionsListed
                  THEN {d \in Known : \A e \in Known : e =< d => Sound(e)} ELSE {}
  /\ \A d \in complete : elements[d] = TypesBy(ElementLines(d), SizeOf(d), NoElement)
  /\ DimensionsRead => \A d \in Known \ complete :
       elements[d] # << >> =>
         /\ d = Smallest(Known \ complete)
         /\ \/ elements[d] = [id \in 0..(SizeOf(d) - 1) |-> "undefined"]
            \/ elements[d] = TypesBy(BeforeRefused(ElementLines(d), SizeOf(d)), SizeOf(d), "undefined")

\* The elements the database has as base elements; of a dimension that was not
\* reached there are none, of the one with the fault those that were left.
BaseIds ==
  [d \in Known |->
     IF d \in complete
     THEN {id \in 0..(SizeOf(d) - 1) : TypesBy(ElementLines(d), SizeOf(d), NoElement)[id] = "numeric"}
     ELSE {id \in DOMAIN elements[d] : elements[d][id] \in {"undefined", "numeric"}}]

\* Those of the dimensions of the cube, one after the other.
BaseElements == [k \in DOMAIN cube.dims |-> BaseIds[cube.dims[k]]]

\* The cells that lines give over some base elements.
CellsBy(lines, base) ==
  LET paths == {path \in {lines[i].path : i \in DOMAIN lines} : \A k \in DOMAIN path : path[k] \in base[k]}
  IN [path \in paths |-> lines[Latest({i \in DOMAIN lines : lines[i].path = path})].value]

\* The cube holds, for each path of its file over elements that the database has
\* as base elements, the value of the last line with that path, and no other
\* cell; over a dimension that was not reached it is empty.
CellsAsInFile ==
  pc = "loaded" =>
    LET numeric == Len(DataAfter(file, 1)) + 2
        lines == IF numeric \in DOMAIN file /\ file[numeric] = Section(<<"NUMERIC">>)
                 THEN DataAfter(file, numeric) ELSE << >>
    IN cells = CellsBy(lines, BaseElements)

\* Starting ends, with a cube or with an error, when the file has a section CUBES
\* and the input names a cube whenever the user is asked for one: the search for
\* a section, the loop over wrong answers and the scan of the cells come to an end.
Termination ==
  Places(<<"CUBES">>) # {} /\ [](pc = "ask" => Range(answers) \cap DOMAIN cubes # {}) => <>Done

=============================================================================

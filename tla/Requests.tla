------------------------------ MODULE Requests ------------------------------
(***************************************************************************)
(* How a request becomes an answer: AggrEnv::handleRequest for the two     *)
(* requests of the server, printCellValue and printAreaValues for the two  *)
(* commands of the prompt, with the two odometers they use: dotPaths,      *)
(* which turns the first dimension fastest, and Area::PathIterator, which  *)
(* turns the last one fastest.                                             *)
(*                                                                         *)
(* A request is what splitting leaves of its text: a sequence of fields,   *)
(* each a sequence of tokens.  What the aggregation computes is taken as   *)
(* Aggregation's AnswerCorrect states it: Value.  Every request builds its *)
(* own area, processor and result, so one request is one behaviour.        *)
(***************************************************************************)
EXTENDS NaturalOrder, Sequences, Functions

CONSTANTS
  N,             \* number of dimensions of the cube
  Known,         \* Known[d]: the identifiers of dimension d
  Consolidated,  \* Consolidated[d]: the consolidated elements among them
  Value,         \* the cells that have a value, with it
  Text,          \* a token that is no number
  Malformed,     \* a range of getArea with a missing or a third bound
  CubeId,
  Inputs         \* the requests considered

Dims == 1..N

ASSUME DimAssumption == N \in Nat \ {0} /\ Text # Malformed
ASSUME KnownAssumption ==
  /\ DOMAIN Known = Dims /\ DOMAIN Consolidated = Dims
  /\ \A d \in Dims : /\ Known[d] \subseteq Nat /\ IsFiniteSet(Known[d])
                     /\ Text \notin Known[d] /\ Malformed \notin Known[d]

\* What splitting leaves of a request: fields of identifiers, in getArea of ranges;
\* getCell takes one field.
ASSUME InputsAssumption ==
  \A r \in Inputs :
    /\ r.kind \in {"/cell/values", "/cell/area", "getCell", "getArea", "unsupported"}
    /\ IF r.kind = "getArea" THEN r.fields \in Seq(Seq((Nat \X Nat) \cup {Text, Malformed}))
       ELSE r.fields \in Seq(Seq(Nat \cup {Text}))
    /\ r.kind = "getCell" => Len(r.fields) = 1

VARIABLES
  request,   \* [kind, cube, fields]; cube and fields are << >> when not given
  area,      \* the sets of the CubeArea, per dimension
  lists,     \* what the odometer runs over, per dimension
  counter,   \* where it stands in each list
  paths,     \* the paths result() is asked for
  results,   \* the result storage of the processor
  lines,     \* the answer: records of a path and a value, {} for "not found"
  pc

requestVars == <<request, area, lists, counter, paths, results, lines, pc>>

Cells(A) == {path \in [Dims -> UNION {A[d] : d \in Dims}] : \A d \in Dims : path[d] \in A[d]}
IsBase(path) == \A d \in Dims : path[d] \notin Consolidated[d]

-----------------------------------------------------------------------------
(* Parsing.  The first token that does not fit decides: an ErrorException    *)
(* becomes an error answer, the std::exception of stol ends the program.     *)

Smallest(S) == CHOOSE i \in S : \A j \in S : i =< j
Greatest(S) == CHOOSE i \in S : \A j \in S : i >= j

Fits(d, token) == token \in Known[d]

Failure(token) == IF token = Text THEN "terminated" ELSE "error"

\* One path of getCellsFromUrl.
PathVerdict(path) ==
  LET bad == {d \in DOMAIN path : ~Fits(d, path[d])}
  IN CASE Len(path) # N -> "error"
       [] Len(path) = N /\ bad = {} -> "ok"
       [] OTHER -> Failure(path[Smallest(bad)])

\* One element set of getAreaPathFromUrl.
SetVerdict(d, elements) ==
  LET bad == {i \in DOMAIN elements : ~Fits(d, elements[i])}
  IN CASE elements = << >> -> "error"
       [] elements # << >> /\ bad = {} -> "ok"
       [] OTHER -> Failure(elements[Smallest(bad)])

\* One element set of getAreaPathFromString: a sequence of ranges <<low, high>>.
RangesVerdict(ranges) ==
  LET bad == {i \in DOMAIN ranges :
                ranges[i] \in {Text, Malformed} \/ ranges[i][1] > ranges[i][2]}
  IN IF bad = {} THEN "ok" ELSE Failure(ranges[Smallest(bad)])

FieldVerdict(kind, i, field) ==
  CASE kind = "/cell/values" -> PathVerdict(field)
    [] kind = "/cell/area" -> SetVerdict(i, field)
    [] kind = "getCell" -> IF PathVerdict(field) = "ok" THEN "ok" ELSE "error"
    [] kind = "getArea" -> RangesVerdict(field)

\* The checks in the order of handleRequest; an area has a field per dimension.
Verdict(r) ==
  LET bad == {i \in DOMAIN r.fields : FieldVerdict(r.kind, i, r.fields[i]) # "ok"}
  IN IF r.kind # "unsupported" /\ r.cube = <<Text>> THEN "terminated"
     ELSE IF \/ r.kind = "unsupported" \/ r.cube \notin {<< >>, <<CubeId>>} \/ r.fields = << >>
             \/ r.kind \in {"/cell/area", "getArea"} /\ Len(r.fields) # N THEN "error"
     ELSE IF bad = {} THEN "ok" ELSE FieldVerdict(r.kind, Smallest(bad), r.fields[Smallest(bad)])

-----------------------------------------------------------------------------

RequestInit ==
  /\ request \in Inputs
  /\ area = [d \in Dims |-> {}]
  /\ lists = [d \in Dims |-> << >>] /\ counter = [d \in Dims |-> 1]
  /\ paths = << >> /\ results = << >> /\ lines = << >>
  /\ pc = "check"

Refuse ==
  /\ pc = "check" /\ Verdict(request) # "ok"
  /\ pc' = Verdict(request)
  /\ UNCHANGED <<request, area, lists, counter, paths, results, lines>>

\* Mutant: the box of the last path alone.
BoxOfLast(cells) == [d \in Dims |-> {cells[Len(cells)][d]}]

\* The smallest area around the requested cells.
Box(cells) == [d \in Dims |-> {path[d] : path \in Range(cells)}]

\* Identifiers of the ranges that do not exist are passed over.
Existing(d, ranges) ==
  {id \in Known[d] : \E i \in DOMAIN ranges : ranges[i][1] =< id /\ id =< ranges[i][2]}

AreaOf(r) ==
  CASE r.kind \in {"/cell/values", "getCell"} -> Box(r.fields)
    [] r.kind = "/cell/area" -> [d \in Dims |-> Range(r.fields[d])]
    [] r.kind = "getArea" -> [d \in Dims |-> Existing(d, r.fields[d])]

Accept ==
  /\ pc = "check" /\ Verdict(request) = "ok"
  /\ area' = AreaOf(request)
  /\ lists' = IF request.kind = "/cell/area" THEN request.fields
              ELSE [d \in Dims |-> Ascending(area'[d])]
  /\ paths' = IF request.kind = "/cell/values" THEN request.fields ELSE << >>
  /\ pc' = IF request.kind = "/cell/area" THEN "dot" ELSE "aggregate"
  /\ UNCHANGED <<request, counter, results, lines>>

PathHere == [d \in Dims |-> lists[d][counter[d]]]
Open == {d \in Dims : counter[d] < Len(lists[d])}

\* dotPaths: the first wheel that can still be turned is; those before it start over.
DotTurned == [d \in Dims |-> IF d < Smallest(Open) THEN 1
                             ELSE IF d = Smallest(Open) THEN counter[d] + 1 ELSE counter[d]]

DotPath ==
  /\ pc = "dot"
  /\ paths' = Append(paths, PathHere)
  /\ \/ Open # {} /\ counter' = DotTurned /\ UNCHANGED pc
     \/ Open = {} /\ pc' = "aggregate" /\ UNCHANGED counter
  /\ UNCHANGED <<request, area, lists, results, lines>>

\* Mutant: the walk begins although a dimension is empty.
BeginWalkAlways == "walk"

\* pathBegin is pathEnd when the area is empty.
BeginWalk == IF Cells(area) = {} THEN "answered" ELSE "walk"

\* The processor, with its shortcut for a single base cell.
Aggregate ==
  /\ pc = "aggregate"
  /\ results' = IF Cardinality(Cells(area)) = 1 /\ \A path \in Cells(area) : IsBase(path)
                THEN << >> ELSE Restrict(Value, Cells(area) \cap DOMAIN Value)
  /\ counter' = [d \in Dims |-> 1]
  /\ pc' = IF request.kind \in {"/cell/values", "/cell/area"} THEN "result" ELSE BeginWalk
  /\ UNCHANGED <<request, area, lists, paths, lines>>

\* A base cell is read from the cube, any other from the result.
Line(path) ==
  LET values == IF IsBase(path) THEN Value ELSE results
  IN [path |-> path, value |-> IF path \in DOMAIN values THEN {values[path]} ELSE {}]

\* One turn of the loop of result().
ResultLine ==
  /\ pc = "result"
  /\ lines' = Append(lines, Line(paths[Len(lines) + 1]))
  /\ pc' = IF Len(lines') = Len(paths) THEN "answered" ELSE "result"
  /\ UNCHANGED <<request, area, lists, counter, paths, results>>

\* PathIterator: the last wheel that can still be turned is, those behind it start over.
WalkTurned == [d \in Dims |-> IF d > Greatest(Open) THEN 1
                              ELSE IF d = Greatest(Open) THEN counter[d] + 1 ELSE counter[d]]

\* One turn of the loop of print().
PrintLine ==
  /\ pc = "walk" /\ \A d \in Dims : lists[d] # << >>
  /\ lines' = Append(lines, Line(PathHere))
  /\ \/ Open # {} /\ counter' = WalkTurned /\ UNCHANGED pc
     \/ Open = {} /\ pc' = "answered" /\ UNCHANGED counter
  /\ UNCHANGED <<request, area, lists, paths, results>>

RequestNext == Refuse \/ Accept \/ DotPath \/ Aggregate \/ ResultLine \/ PrintLine

RequestSpec == RequestInit /\ [][RequestNext]_requestVars
\* One thread handles a request and nothing in it blocks.
FairRequestSpec == RequestSpec /\ WF_requestVars(RequestNext)

-----------------------------------------------------------------------------

Paths == [Dims -> UNION {Known[d] : d \in Dims}]

RequestTypeOK ==
  /\ request \in Inputs
  /\ \A d \in Dims : area[d] \subseteq Known[d] /\ lists[d] \in Seq(Known[d])
  /\ \A d \in Dims : counter[d] = 1 \/ counter[d] \in DOMAIN lists[d]
  /\ paths \in Seq(Paths) /\ DOMAIN results \subseteq Paths
  /\ \A i \in DOMAIN lines : lines[i].path \in Paths
  /\ pc \in {"check", "dot", "aggregate", "result", "walk", "answered", "error", "terminated"}

\* What a line should say, whatever else has been asked for.
TrueLine(path) ==
  [path |-> path, value |-> IF path \in DOMAIN Value THEN {Value[path]} ELSE {}]

IsAnswered(kinds) == pc = "answered" /\ request.kind \in kinds

\* A cell request is answered path by path, in the order and as often as asked,
\* each as if it had been asked for alone, although all are taken from one
\* aggregation over the box around them (handleRequest, result).
CellsAsAsked ==
  IsAnswered({"/cell/values", "getCell"}) =>
    lines = [i \in DOMAIN request.fields |-> TrueLine(request.fields[i])]

\* Product of the lengths of the first n lists.
Lap(n) == FoldFunctionOnSet(LAMBDA x, y : x * y, 1, [d \in Dims |-> Len(lists[d])], 1..n)

\* An area request is answered with every combination of the listed elements, a
\* repeated one repeatedly, the first dimension running fastest (dotPaths).
AreaInOrder ==
  IsAnswered({"/cell/area"}) =>
    lines = [k \in 1..Lap(N) |->
               TrueLine([d \in Dims |->
                 LET list == request.fields[d]
                 IN list[(((k - 1) \div Lap(d - 1)) % Len(list)) + 1]])]

Precedes(p, q) == \E d \in Dims : p[d] < q[d] /\ \A c \in 1..(d - 1) : p[c] = q[c]

\* getArea prints every cell of the area once, in lexicographic order, however its
\* ranges overlap, and nothing when a dimension is empty (PathIterator, print).
WalkInOrder ==
  IsAnswered({"getArea"}) =>
    /\ {lines[i] : i \in DOMAIN lines} = {TrueLine(path) : path \in Cells(AreaOf(request))}
    /\ \A i, j \in DOMAIN lines : i < j => Precedes(lines[i].path, lines[j].path)

\* Every kind of request is answered with the cells it names, in its order
\* (handleRequest, getCell, getArea).
AnsweredAsAsked == RequestTypeOK /\ CellsAsAsked /\ AreaInOrder /\ WalkInOrder

\* Every request ends in an answer, an error or the end of the program.
Termination == <>(pc \in {"answered", "error", "terminated"})
=============================================================================

# A verification project for StOAP

StOAP loads a cube of a Palo/Jedox database into memory and answers requests for
cells and areas by *source-based aggregation*: it walks over the filled base cells
once and adds each of them to every requested cell it counts into. This directory
holds TLA+ models of the program, configurations for TLC, and proofs that TLAPS
checks. Line numbers below refer to files under `src/`.

To check one model: `tlc -config MCAggregation.cfg MCAggregation.tla`. To check the
proofs of one module: `tlapm AggregationProofs.tla`. `PROJECT.json` lists every run,
the lines each definition stands for, the hazards, and for every property a mutated
definition that breaks it.

## 1. The system

| Part | State | Operations | Used by |
|---|---|---|---|
| `Set`, `WeightedSet` (Collections/WeightedSet) | identifiers as an ordered set of ranges, a size, a weight per range | insert, clear, look-up, iteration; erase, which nothing calls; fastAdd, consolidate | Area, Dimension, AggregationMap |
| `Dimension`, `Element` (Olap) | elements by identifier, relations child-parents and parent-children, topological order, level, depth, indent | loading, order and levels on demand, base elements of an element | Cube, CubeArea, CellPath |
| `Area`, `CubeArea` (Olap/Area) | a `Set` per dimension or a single path, and its size | expandBase, isInArea, isBase, PathIterator | processor, requests |
| `AggregationMap` (Engine) | base id to the parents it counts into; compacted index, target and weight buffers | buildBaseToParentMap, compactSourceToTarget, getTargets | processor |
| `AggregationProcessor` (Stoap) | source area, parent maps, a cached reader per dimension, the odometer, the result | aggregate, aggregateCell, initParentKey, nextParentKey, result, print | requests |
| `AggrEnv` (Stoap) | dimensions, cubes, the selected cube | loading, `handleRequest`, the prompt, `openPipe` | main |
| `Cube`, `DoubleStorage`, `CellPath` (Olap) | the filled cells in a hash table | loadCube, getValue, setValue, addValue | processor |
| `FileReader`, `StringUtils` | position in a file, the current line split in fields | nextLine, getData..., splitString | loading, requests |
| `AssociativeArray` | open-addressing table | addElement, findKey, clear; removeKey and removeElement, which nothing calls | Dimension |

How they work together. `main` loads the dimensions, finds the usable cubes, loads
one and then serves requests, from a pair of named pipes (`-s`) or from a prompt. A
request is split and its elements are looked up; a `CubeArea` is built around it. The
processor asks the area to expand: for each dimension and requested element the
dimension delivers the weighted base elements (`getBaseElements`, which fills and
consolidates a `WeightedSet`), whose ids go to the source area (a `Set`) and with
their weights to the `AggregationMap` of that dimension. Then the processor walks over
the hash table of the cube and turns, for each cell of the source area, an odometer
of readers, one per dimension. At last the answer is read, base cells from the cube
and all others from the result.

There is one thread. What runs concurrently are the *processes* at the named pipes:
the server and any number of clients.

What is hard, and what the properties are about:

- **Order nobody chose.** Cells come in hash order, lines of a dimension in file
  order; processor and topological sort carry state from one to the next.
- **State used after it changed.** Cached readers of which a copy is turned, a set that
  is changed while it is walked over (`consolidate`), an index whose
  representation switches in the middle of filling it.
- **Odometers and ends.** Four of them: nextParentKey (ends by the wrap-around of an
  unsigned index), PathIterator, dotPaths, the walk over ranges.
- **Hierarchies that are not trees.** Elements with several parents, reached over
  ways of different lengths, with weights on every link.
- **Processes.** When a pipe is opened, closed or dropped decides who gets an answer.
- **Partial failure.** An exception in a line, a number that is none, a client that
  is killed. The exception of a dimension's line is caught far above the loop it
  leaves, with half of a dimension loaded.
- **A cursor that never goes back.** One reader serves all dimensions of a file; a
  section it has passed is not found any more, and a search may not end.
- **Tables that must not fill up.** Searches in both hash tables end at a free place
  only.

The full list, with lines and with the properties that cover each item or the reason
why none does, is under `hazards` in `PROJECT.json`.

## 2. The modules

| Module | Models | EXTENDS / instance of |
|---|---|---|
| `NaturalOrder` | identifiers in iteration order, defined by rank | |
| `RangeSet` | `Set` | implements `IdSet` |
| `IdSet` | abstract: a plain set with size and the result of insert | |
| `WeightedRanges` | `WeightedSet` as `Dimension::getBaseElements` fills and reads it | implements `WeightMap` |
| `WeightMap` | abstract: a map to which weights are added | |
| `Dimension` | loading, order, levels, base elements | |
| `AggregationMap` | building, compacting and reading one map | `NaturalOrder` |
| `Aggregation` | expandBase, the processor, the reading of the result | implements `AbstractAggregation` |
| `AbstractAggregation` | abstract: every owed contribution is added once | |
| `Requests` | handleRequest, getCell, getArea, dotPaths, PathIterator, result, print | `NaturalOrder` |
| `FifoServer` | openPipe, the named pipes and the clients | |
| `ProbeTable` | `AssociativeArray`, one step for each place looked at | implements `TableMap` |
| `TableMap` | abstract: a set of elements with one for each key | |
| `Cursor` | an open `FileReader` as its callers see it | |
| `CubeLoading` | loadCube, loadCubeCells, `DoubleStorage` | `Cursor` |
| `StartUp` | loadDimensions, collectCubeInfo, selectAndLoadCube, then loadCube | `CubeLoading` |
| `Lines` | nextLine and splitString, from characters to fields | |
| `SharedLemmas` | sums, orders and recursion, for the proofs | `NaturalOrder`, `TLAPS` |
| `ServerProofs` | theorems of `FifoServer` and of `Requests` | both, `SharedLemmas` |
| `BaseElementsProofs` | theorems of `WeightedRanges` and of `AggregationMap` | both, `SharedLemmas` |
| `CollectionsProofs` | theorems of `RangeSet` and of `ProbeTable` | both, `SharedLemmas` |
| other `*Proofs` | theorems of the module they are named after | the module, `SharedLemmas`, `TLAPS` |
| `MC*` | constants for TLC | the module |

**How models fit together.** Each model uses the component below it through what the
run of that component establishes: `Dimension` and `WeightedRanges` yield base
elements with weights (`BaseElementsExact`, `ReadsSums`), which are the constant
`BaseElements` of `Aggregation` and `WeightOf` of `AggregationMap`; `RangeSet` shows
that `Set` is a set (`Refinement`), so areas are sets of identifiers everywhere else;
`AggregationMap` shows that a row read back is the row in ascending order of targets
(`IndexRight`), so `Aggregation` uses that row (`ParentMap`); `Aggregation` shows that
an answer is the weighted sum (`AnswerCorrect`), which is `Value` in `Requests`; and
`Requests` shows that a request comes to one end, which is the answer of `FifoServer`.
`Lines` shows that rows are read as they were written (`ReadAsWritten`), so a file is a
sequence of lines in `Cursor`; `StartUp` shows which elements and cells a program that
has started holds (`LoadedToTheFault`, `CellsAsInFile`), which are the file of
`Dimension` and the cube of `Aggregation`; `ProbeTable` shows that an `AssociativeArray`
is a map (`Refinement`), as which `Dimension` uses it for its relations.

### RangeSet
`ranges` is the ordered set of pairs, `siz` the counter, `iter` the one iterator a
client holds, `walked` (history) what it has stood on. The branches of `insert` are
`InsertPresent`, `InsertBehind` and `InsertBefore`; each does the erasures and
insertions of its branch. `Erase` yields the iterator that the code returns, which
for the last id of a range stands *before* the erased id. An insertion invalidates
the iterator, as a client has to assume. No loop of the program erases: `Erase` and the
part of `WalkComplete` about it are of the class as its header offers it
(WeightedSet.h:125, "Use 'it = set.erase(it)'").

### WeightedRanges
`list` is what `getBaseIWs` returned. `FastAddNew` and `FastAddAgain` are the two
outcomes of the insertion in `fastAdd`, `Join` and `NextRange` one turn of the inner
and of the outer loop of `consolidate`, `Read` one step of a reader. Weight 1 is
stored as nothing, in the model as in the code.

### Dimension
`file` is an element section by identifier, read in any order. `LoadElement` is one
line with its parents and children, including the correction of the type; a line
that cannot be loaded ends in `failed`. `HierarchyAssumption` is what the order needs
of a section and the loader does not check: no element is above itself, and every
parent has a line of its own that is kept. The recursion of `addParentsToSortedList` is
the variable `stack`, one look at a parent per step. `UpdateLevel` and
`UpdateDepthIndent` are one element of their loops each, because each reads what a
step before has written. `BaseIWs` is the recursion of `getBaseIWs` as a function
(a recursive *function*, so that theorems can be stated about the module).

### AggregationMap
First every parent is built (`BuildBaseToParentMap`), then every source is compacted
in ascending order (`StoreDistributionSequence`): its targets and weights are appended
(the search for an equal sequence stored before is disabled in the code; so is, in
effect, the padding of the weights, because `compactSourceToTarget` hands the weights of
every row over), and the index turns from a list into a vector when the
list would take more room. `GetTargets` reads in either form.

### Aggregation
`ExpandBase` is the constructor; an element whose `getBaseElements` throws has no base
elements in the model, because the code swallows the exception and goes on. `SkipCell`
and `EnterCell` take any cell not visited yet: that is the hash order. `InitParentKey`
is one dimension of the loop. A reader (`NewReader`) is a row and a place in it;
`lastTargets` holds one per dimension, which is copied as it stands into
`parentReaderVector` when the coordinate is the same, and `CacheFresh` says that it
still stands at its first target. `AddValue` and `TurnReader` are one turn of the loop of
`aggregateCell` and of the loop in `nextParentKey`;
`changeMultiDim` is counted from 1 here, so that 0 is the value after the unsigned
wrap-around. `Owed` maps the state to the contributions still to be made.

### Requests
A request is what splitting leaves of the text: a kind, a cube or none, and fields of
tokens, where a token is a number or `Text`. `Verdict` goes through the checks in the
order of the code: an `ErrorException` becomes an error answer, the exception of
`stol` ends the program. `DotPath`, `ResultLine` and `PrintLine` are one turn of their
loops, `WalkTurned` is `PathIterator::operator++`. `InputsAssumption` says what a request
may be: any number of fields of any length, of any numbers and texts; `getArea` has
ranges for tokens, and `getCell` is one path because the prompt does not split its
argument into several. Names are `RequestInit`, `RequestSpec` and so on, since
`ServerProofs` extends this module and `FifoServer` together (as `BaseElementsProofs` does
`AggregationMap`, with `MapInit` and so on).

### FifoServer
The external part is a named pipe as POSIX has it: opening one end waits for the
other; data are dropped when nobody has the pipe open; a reader sees the end of file
when there is no writer; a write without reader kills the writer. Each call of
`openPipe` is an action of the server (`FopenIn`, `FgetsLine` or `FgetsEof`,
`FopenOut`, `FlushAnswer` or `FlushBroken`, `FcloseOut`, `FcloseIn`), each command of a
client likewise (`cat` meets the end of the answer in `ReadEof` and closes the pipe in a
step of its own, `CloseAnswer`; between the two the server may already open the pipe for
somebody else). `handleRequest` runs in the state `"flush"`, before the answer leaves the
stdio buffer: either it yields an answer, or `stol` throws and nobody catches that
(`HandleThrows`), which ends the program with stoap-out open and the request lost. Which
requests do so is what `Requests` decides from their text; here it is chosen with
`usage.unreadable`. An answer is never empty: every return of `handleRequest` yields at
least one line.

`Usages` says in which companies the server is used: which clients there are, how many
requests each sends, which requests are unreadable, and at which moments of its commands
a client may be killed. Three things can bring the server down: the end of file at fgets,
the exception of `stol`, and SIGPIPE. `StaysUp` is about a single client, killed at will and
started again: each of the three then has one cause, and at any other moment killing
the client is harmless. `OwnAnswer` and `InTimeIsAnswered` are about one that waits as
well. With two clients none of this holds, even if both wait: one can read the other's
answer, and the server can open stoap-out to the reader of an earlier answer, which then
leaves (SIGPIPE), or meet the end of file when a client closes stoap-in whose request was
taken and thrown away together with another's. What is left is
`ServedInOrder`, and `TakenIsAnswered` with the loss of the reader as an outcome.

### ProbeTable
The table is a function from places to elements; `Hash` is a parameter, so that the
configuration chooses which keys collide. A call begins with `Call` and then looks at one
place per step (`ProbeNext`, `PlaceNext`, `MoveBack`, `LeaveThere`), because that is where the probe
loops can go wrong. In `TableMap` a call is made, with its name, key, element and overwrite flag (`Call`), and
answered by one step for that call and no other (`Find`, `Remove`, `AddNew`, `AddPresent`).
The mapping takes `elements` from the places of the table, the old one included while it
is copied (`Contents`), and the call in progress until it is answered (`Unanswered`), so
that a look-up that yields the element of another key, or none for a key that is there,
is no step of `TableMap`. The two ways to add enlarge the table at different moments:
`AddElement` has placed its element before the copying begins, `AddKey` places it after
the last element is copied (`CopyEnd`).

### Cursor, CubeLoading and StartUp
A file is the sequence of its lines that are neither empty nor comments; `at` is the
current one, and `NextLine` at the end changes nothing. Each turn of a loop of the code
that reads a line is one action, and every way to leave a loop is a disjunct of its
own: `Caught` is the exception that `loadDimensions` catches, `Abort` and `"aborted"` are
those that nobody catches. `complete` holds the dimensions whose sections were read to
the end. A line of an element section is reduced to what decides its fate: the
identifier, the type, whether it has children, and whether its lists do not fit
(`listsDiffer`); what lists do is in `Dimension`. `buckets` is the size of the
`dense_hash_map`, which is external: `Reserved`, `SetValue` and `Shrink` say when it
grows and shrinks, `BucketNumbers` which sizes it can have (powers of two).

### Lines
`NextLine` is one turn of the loop of nextLine, and each branch of the loop of
splitString is an action on one character (two, where the code looks at the next).
`ContinueRow` and `EndSplit` are what the three copies of splitString do at the end of
a line. `RowText`, `EscapeString` and the like are FileWriter, as functions: what they
write is the reference for what is read. `InputAssumption` says what is read: texts of any
characters, and some of which it is known what was written. Such a file (`FileWritten`) has
any number of sections and rows, with fields of any length; `passed` are the empty lines
and comments in front of each and behind the last, and `rest` is whatever comes behind, for
example a row that the end of the file cuts off. A field in quotes is of any
characters; one without holds no separator and no newline and does not begin with a quote,
a row does not begin with a mark (it would be a comment or a section), and the name of a
section has no bracket. A list or request (`ListWritten`) ends with a plain field, since one
in quotes is appended twice there (`hazards`); one empty field is not told from
none, and a request does not show an empty last field.

## 3. The runs

| Run | Shows | Bounds, and why they are enough |
|---|---|---|
| `aggregation_map` | `IndexRight`: whatever is compacted so far reads back, and the finished map is the one that was built | six bases with gaps, two targets, every pair of base sets: the index stays a list, switches in the middle, and switches with the last source; rows that are equal and rows that differ |
| `aggregation` | `AnswerCorrect`, `CacheFresh`, `OdometerCoherent`, `CombinationsOnce`, `Refinement` to `AbstractAggregation`, `Termination` | three dimensions, readers of length up to 3, cubes of none to four cells in any order: the odometer carries over two dimensions and cells share and change every coordinate; an element whose base elements cannot be had, alone and next to others |
| `range_set` | `Canonical`, `LookupExact`, `WalkComplete`, `Refinement` to `IdSet` (and so the counted size) | seven identifiers: room for three ranges with a gap, so every branch joins on both sides; the reachable states are all, without a bound on the number of operations |
| `weighted_set` | `RangesInOrder` (ranges apart while they are joined, and none left to join at the end), `ReadsSums`, `Refinement` to `WeightMap`, `Termination` | lists of three over four ids with weights that add up to 0 and 1; four neighbours with every pattern of two weights, in both orders and with entries that join or split them |
| `dimension` | `Hierarchy` (parents come before children in the sorted list), `LevelsExact`, `BaseElementsExact` (the base elements, and their weights where those above the first level are 1), `Termination` | all 543 acyclic hierarchies of four elements, lines in any order, parents in both orders, wrong types, gaps, string elements, lines that fail: four elements have ways of length 1, 2 and 3 between the same two |
| `requests` | `AnsweredAsAsked` (cells, areas and the walk over them in the order that was asked for), `Termination` | three dimensions, up to three paths, lists of up to three elements with repetitions, overlapping and empty ranges; unknown elements, texts, foreign cubes |
| `fifo` | `OwnAnswer` (a client alone reads its own answers only), `StaysUp` (the ways in which a single client brings the server down), `ServedInOrder`, `InTimeIsAnswered`, `TakenIsAnswered` | `Usages`: one client with three requests, killed at any of the 32 choices of moments, with and without a second request that is unreadable: each request can meet any point of the loop that handles the one before; two clients with two requests each, that wait, with and without an unreadable one, or are killed anywhere |
| `probe_table` | `PlaceFree` (a free place is always left), `NoGap` (no free place before an element on its way from home), `Refinement` to `TableMap`, `Termination` | four keys, three of them at home at the last place of a table of three or seven, two values; the table starts with one place and is enlarged up to fifteen: every call meets a home that is taken, a way that wraps around, a gap, and an enlargement |
| `start_up` | `LoadedToTheFault`, `CellsAsInFile`, `FreeBucket`, `Termination` | 1500 situations: two dimensions (one, two or none listed, out of order, twice), all pairs of ten element sections, seven files with sections missing or in another order, eight lists of cubes with and without server mode and with wrong answers, all cube files of up to three of five lines, and files that end early; tables start with 4 buckets instead of 32, so that four cells could fill one |
| `lines` | `ReadAsWritten`, `Termination` | rows of one quoted field of up to four characters and of two fields of up to two, with comments and empty lines before the next row or section; rows and sections with any three characters behind them, where the file ends; all files of up to four characters; lists and requests of up to four fields; quotes meet separators, newlines and each other in every order |
| `fifo_again` | **violated**: a request sent after the answer has been read can be lost | see below |
| `dimension_weights` | **violated**: weights above the first level are lost | see below |

A type invariant is checked with each module, in a run of its own name or as the first
part of the first invariant.

`LevelRange` is the nine bits of `level`, `depth` and `indent`; no hierarchy of four
elements reaches it. `MaxRequests` bounds the requests a client sends. `MapItemSize`
and `VectorItemSize` are the sizes of the items of the two index forms (8 and 4).
Integers stand for the doubles of values and weights: rounding is not modelled.
Runs with `CHECK_DEADLOCK FALSE` are of computations that end, and of clients that
may stop sending.

**Fairness.** The computations (`Aggregation`, `Dimension`, `WeightedRanges`,
`Requests`) have weak fairness of `Next`: one thread runs a loop in which nothing
blocks; the same holds for `StartUp` and `Lines`, and in `ProbeTable` for the steps of a
call that has begun. `Termination` of `StartUp` says when starting ends: with a section
CUBES in the file, and an input that names a cube where the user is asked for one. In
`FifoServer` the server, and each client that has begun a request, runs
whenever it is not blocked by a pipe; when a client begins, and whether it is killed, is
up to the user. Both liveness properties are about clients that wait.

### What the code does otherwise than it is said to

1. `SentIsAnswered` (Stoap/AggregationEnvironment.cpp:415). The server reads one line,
   answers, closes `stoap-out` and then `stoap-in`. A client that sees the end of its
   answer and sends the next request before the server's second close writes into the
   pipe that is dropped with that close; it then waits for ever. The README says that
   after a request was sent the answer can be fetched. `InTimeIsAnswered` says what
   holds instead: a readable request that arrives while the server waits in fgets is
   answered.
2. `WeightsExact` (Olap/Dimension.cpp:427). `getBaseIWs` passes weights of the first
   level up unchanged, and gives weight 1 to a base element next to a consolidated
   one under an element of level 2 or more. The example database has weights of 1
   only, for which `BaseElementsExact` holds.

Met on the way, without a run: with two clients an answer may go to the other one,
because whoever opens `stoap-out` gets it (AggregationEnvironment.cpp:398; `OwnAnswer`
is therefore about a client alone), and the server may be killed by a client that does
nothing but wait for its answers. String elements are deleted while the children
lists of their parents still point to them (Dimension.cpp:169); the number of used
elements counts their lines (:174). After a line that fails, elements that were
constructed and not loaded yet stay in the dimension as undefined, because
`loadDimensions` catches the exception and goes on (AggregationEnvironment.cpp:193), and
a cube over it takes cells of such elements (Cube.cpp:159): `LoadedToTheFault` and
`CellsAsInFile` say so. Without a section CUBES, and at the end of the input when a cube
is asked for, starting goes on for ever (AggregationEnvironment.cpp:266, :348). A cube
without a file is closed without having been opened (Cube.cpp:125). A list of quoted
strings as FileWriter writes it (FileWriter.cpp:182) cannot be read by FileReader, which
takes each quote before a comma for one within the field; nobody writes such a list.

## 4. The proofs

All proofs are in modules of their own; nothing is assumed but the named assumptions
on the constants in the modules they are about. TLC checked every inductive invariant
before it was proved, on the constants of the run (that of `Lines` with the places of the
fields computed, where the proof takes those that exist).

**CollectionsProofs** of `RangeSet`, for every `MaxId`: `SetTypeCorrect`, `RangesCanonical`,
`SizeIsExact`, `LookupIsExact`, `WalkIsComplete` and `SetRefinesIdSet`. The inductive
invariant is `SetTypeOK /\ Canonical /\ SizeExact /\ OnMember /\ WalkComplete`. Canonical
ranges are needed for the size (joining must not count an id twice), `OnMember` (an
iterator stands on a member) for the erasure, whose returned iterator may lie before
the erased id. Each branch of insert and erase has a lemma that says which members it
leaves; the refinement follows from these lemmas and the invariant.

**AggregationProofs**, for any number of dimensions, hierarchy, cube and area:
`TypeCorrect`, `CacheIsFresh`, `OdometerIsCoherent` and `CombinationsAddedOnce`; then
`AnswerIsCorrect` and `AddsWhatIsOwed`, the refinement of `AbstractAggregation`. The
inductive invariant `IInv` adds to the first three that the dimensions below the loop
index of initParentKey have their readers (`ReaderOK`), that `multiDims` lists, in
ascending order, exactly those with several targets (`MultiDimsOK`), and that in
nextParentKey the dimensions right of `changeMultiDim` have been reset (`ResetsOK`).
The last is what makes the order of combinations work: `NextVector` and `CarryVector`
show that of the vectors of positions after the present one, the one shown next is
the first, and that a carry loses none. `CombinationsAddedOnce` is the action
property: the combination added is one that remains, and only it stops remaining.
The sums rest on it (`SumsInvariance`): between two cells, the result holds for each
target the sum over the cells visited (`SumsOK`), and in the middle of a cell the
present one counts for the targets it has been added to (`ScanOK`). So an addition
changes one sum by one summand, the cell after the last combination is one visited,
and at the end the cells visited are all. That a cell outside the source area owes
nothing to any target is the other half. Two assumptions on the constants are used
for the first time here, and both say what the program guarantees: the cells of a cube
are finitely many, and an element that is not consolidated is its own base with weight 1
(`BaseAssumption`), so that a base cell may be read from the cube.

**SharedLemmas**: what several of the others cite. `Ascending(S)` of a finite set of
naturals lists every member once, in order. Sums and products over finite sets, which
the community modules define by a recursive fold over elements chosen arbitrarily:
that the fold exists, does not depend on the choice (`FoldOrder`), and grows by one
summand with one element (`SumStep`, `ProductStep`). Sums along a list. That a function
defined by recursion exists when a rank falls along the recursion (`RecursionExists`).
The library's induction takes an operator as a parameter, so each of these is an
argument about a smallest counterexample (`MinExists`, `SmallestSubset`). What the
community modules' flattening of a sequence of sequences is, step by step
(`FlattenedSteps`), on which the lists of `Dimension` and the texts of `Lines` rest.

**BaseElementsProofs** on `WeightedRanges`, for every list of entries: `AlwaysInOrder`, `WalkIsFaithful` and
`RangesAreAMap`, the refinement of `WeightMap`, and `WalkReadsSums`. The inductive invariant adds to the order
of the ranges where `consolidate` stands (`Position`: what lies behind the range
in hand is not joined yet, what lies before it cannot be joined any more), that the
size counts the identifiers (`Counted`), and that a reader has walked exactly what lies
before it (`Walked`). While entries are added every range is a single identifier; that
is why adding to the weight of a range changes one identifier only. For the sums it
also says what the entries handed over so far have come to (`Added`): `fastAdd` adds one
summand to one of them, and `consolidate` changes none.

**BaseElementsProofs** on `AggregationMap`, for every area, base sets and item sizes: `MapReadsBack`. The
inductive invariant says that `base2ParentMap` holds the elements handed over so far and
no others (`MapBuilt`), and that the index, as a list or as a vector, leads each stored
source to its own row in the buffers (`Compacted`). Two facts carry it across the change
of form: a source appended to the list is above all stored before (`LastBegun`), and a
vector is long enough for every source stored (`VectorLeads`).

**DimensionProofs**, for every section that satisfies `HierarchyAssumption` and every
order of lines and parents: `ParentsFirst`, `LevelsAreExact` and `BaseElementsAreExact`.
The inductive invariant says what the frames of the recursion are (`Frames`: each is
called for a parent of the frame below, whose parents before that one are listed), that
the rank given by the assumption falls along the stack (`Recursion`: so no element is on
it twice, and none is listed while a frame for it is open), and that the loop has listed
all elements it has passed (`Progress`). Before the order is built, `LoadInv` says that
the relations hold the parents of the lines read so far, whatever order they came in.

For the passes over the list, `PassInv` says that an element which a pass has done has
its final level (depth, indent), because the list has its children behind it and its
parents before it. The theorem has two premises that a section may violate, as the
loader checks neither: `Mirrored`, that each child is an element that has the element
among its parents, and `Shallow`, that a rank fits the bit fields of nine bits. Every
hierarchy that TLC considers satisfies both; without the second a level wraps around,
without the first a child can be missing (`hazards`). The values are compared with
`Height`, `Distance` and `Indentation`, which are recursive functions: the pass itself
yields a function with the same equation, and by the rank there is only one.

`BaseElementsAreExact` has the same premises. `KindInv` says that after loading the
elements with children are those of type consolidated, whatever their lines said.
With the exact levels it follows that an element of level 1 has numeric children only,
and that levels fall from an element to its children (`Layered`).
Then the list of `getBaseIWs` and the reference `WaysDown` are compared from the lowest
element up: `FlattenIs` says what the lists of the children come to one behind the
other, and `SameWeights` needs the weights above the first level to be 1, as the run
`dimension_weights` shows.

**ServerProofs** on `FifoServer`, for any set of clients and any usage: `TypeCorrect`,
`ServedOrder`, `LoneStaysUp` and `AloneReadsItsOwn`. The first says more than types: a process waits for the other
end of a pipe only while it holds its own. For the order, requests of one client are
numbered, and the invariant says that every request which is in the pipe, taken or being
answered lies above all answered before and at or below those sent (`Stands`, `Sent`,
`Ordered`). For a single client, wherever it may be killed (`Single`), the invariant says
which ends of the pipes are open in each state of the two (`Connected`) and where they can
meet (`Meets`): the client is in its first command whenever the server is connected in
fgets and nothing has come, unless it was killed there, and in its second one whenever the
server is connected in flush, unless it was killed there. So the end of file and SIGPIPE
have the one cause each. For one that waits, `Course` adds where its request is; that a
request and an answer can never be in the pipes together is what keeps the answers its
own, and when a request ends the server, nothing comes after it (`ServerDies`).

**ServerProofs** on `Requests`, for any number of dimensions, any cube and any request:
`RequestsAreAnswered`. The invariant `RequestIInv` says where each odometer stands. That
of dotPaths has made `k` paths when its wheels show the digits of `k` in the mixed base of
the lengths (`Dotting`); `OneTurn` shows that a turn counts one on, carry included, from
facts on quotients that the provers have to be led to (`QuotientOfQuotient`, `OneOn`).
That of `PathIterator` has passed exactly the cells that precede the one it stands on
(`Walking`), because a turn of the last wheel that can be turned leads to the next cell
(`WalkStep`), and none is left when no wheel can be turned (`WalkEnd`). The third part
(`Aggregated`) is that after the aggregation every cell of the area has its true line,
with the shortcut for a single base cell or without (`LineIsTrue`); `Accepted` and the
lemmas behind it say what the checks let through, so that no list is empty where an
odometer relies on it, and every path asked for lies in the area.

**CollectionsProofs** of `ProbeTable`, for any keys, hash function and initial size: `TypeCorrect`,
`PlaceAlwaysFree`, `NoGapEver` and `Implements`, the refinement of `TableMap`: every call
is answered once, for its own key. The
inductive invariant `IInv` adds to these that no key is stored twice, in the table or in
the part of the old one still to be copied (`Unique`); that a probe has passed no free
place and not the key it is for (`Passed`); that, while a removal closes its gap at `i`,
this is the only free place on the way to any element up to `k` (`Ways`); that `nrUsed`
counts the places used (`Counted`), and that the elements to come fit (`Sized`). `Moves` is
the test that keeps `Ways`, by lemmas about ways on a circle (`OneWay`, `WayOn`,
`WayHome`). The refinement follows because a probe that ends at a free place has seen all
places where the key could be (`ProbeComplete`), so that the key is absent.

**StartUpProofs**, for every database, every file of a cube and all numbers of buckets a
table may have: `AlwaysAFreeBucket`. Each cell has a line of its own, and two lines come
before the cells; the newlines, which the table is sized for, are at most one fewer than
the lines (`SituationsAssumption`). So the table never grows while cells are entered, and
one bucket stays free (`Tabled`); making it smaller leaves one too.

`DimensionsAreLoaded` and `CellsAreLoaded` say what a program that has started holds,
compared with what its files say when they are read without a cursor. The inductive
invariant `LoadIInv` says where the cursor stands: before the dimensions none of their
sections has been passed (`Beginning`); the complete dimensions are the first ones by
identifier and stand in the file in that order (`Wholes`), and any section that has been
passed lies before one of theirs (`Late`), so a dimension whose section is not found any
more, or is found with lines that do not fit, is not sound (`OutcomeAtFault`). While the
lines of elements are read, the types are those that the lines so far give (`Inside`,
`OneMoreLine`); the elements no line was found for go at the end (`ClearedTypes`). From
then on nothing touches the dimensions (`BehindKeeps`). For the cube, the cells are those
that the lines so far give over the base elements (`Celled`, `OneMoreCell`), because a
path that `loadCube` accepts is one over the elements that the files call base elements
(`BasePaths`).

Both theorems assume of the files what `SituationsAssumption` says: a line of a section
has the fields it is read for (`Readable`), and the database has no section twice
(`OnceEach`). The loader checks neither. The files are built by the Jedox server
(README.md:13 of the repository), and the database that comes with the program satisfies
both; with two sections of one dimension the cursor takes the next one behind it, and
which one counts would depend on the dimensions before. A database with sections missing
or in any order, with lines that are refused, or that ends anywhere is covered, and so is
any readable file of a cube.

**LinesProofs**, for all texts: `TypeCorrect`, for any characters whatever, and
`ReadBackAsWritten`, for every file, list and request that `InputAssumption` allows. The
text written is many texts put one behind the other, at three levels: items in a file,
fields in a row, characters in a field in quotes, where a quote takes two places. `Off` says
where each part begins (`OffPlaces`), so that `Start` and `At` are the places of the
fields and of the characters within them, and `QuotedLaid`, `PlainLaid`, `RowLaid` and
`FileLaid` say what stands there. The inductive invariant follows the reader along these
places. `Reading`: so many characters of the fields are read, the fields complete are
`elements`, and `s`, `first` and `escaped` are what goes with the place in the next one.
`LineIs` and `EndsAt`: the line in hand is what stands in the text up to the next
newline, where it is cut. `BetweenLines` and `InRow` say the same of the items of a file.

The heart of it is that each branch of splitString is right about the place where it is
taken. A quote before a separator ends the field, because a quote within is
written twice, so that the two are never side by side within; that is why the reader may
look no further than one character (`SplitAdvances`). A line that ends with something else
than a separator ends in a quoted field, at a newline that belongs to it
(`RowContinues`); one that ends where a field begins is the end of the row, because no plain
field holds a newline (`RowEnds`). No line in the middle of a field is taken for a comment
or section, because the reader asks for marks only between rows, and a row does not
begin with one (`RowBegins`). A list is treated as a row without its last separator and
newline. Once the items are read, the rest can only add to them (`Beyond`).

**Only model-checked.** Liveness (`Termination` everywhere, `InTimeIsAnswered` and
`TakenIsAnswered`), which is out of the provers' reach. Every other property of a run that
passes is the property of a theorem.

A word on the provers: the SMT translation of sequences takes `DOMAIN s = 1..Len(s)` for
granted wherever `Len(s)` is written. The modules apply `Len` to sequences only, and an
assumption that something is a sequence is stated with `Seq`, never with `Len` and
`DOMAIN`.

## 5. What is not modelled, and why

- Option parsing, the prompt's help and info commands, logging, timers and the
  formatting of answers: no behaviour a property is about.
- Numbers as texts: tokens and fields are abstract. That `stol` throws at a text is in
  `Requests`; that its result is cut to 32 bits, and that a loop up to the largest
  identifier does not end (AggregationEnvironment.cpp:867), is not.
- Names and positions of elements and the statistics of a dimension: look-ups by them are
  look-ups in an `AssociativeArray` (`ProbeTable`).
- Cyclic hierarchies and hierarchies deeper than 511 levels: the loader has no check for
  the first (`HierarchyAssumption`), and the second are beyond TLC (`hazards`).
- `intersection`, `insertRange`, `pushSorted` and the look-ups of `Area` that have no
  caller; the parts of `FileWriter`, `FileUtils` and `StringBuffer` that only move characters;
  `StringUtils` but for splitString; the exception classes.
- Removal of carriage returns and CTRL-Z from lines.
- Build files and the example data. `cpplint.py` is a style checker by Google that was
  copied into the repository; the program, which is written in C++, does not use it.

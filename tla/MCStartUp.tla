----------------------------- MODULE MCStartUp ------------------------------
(***************************************************************************)
(* Databases of two dimensions with two elements each, in three families:  *)
(* faults in the lists of dimensions and in their sections, cubes and the  *)
(* choice among them, and files of one cube.                               *)
(***************************************************************************)
EXTENDS StartUp

Other == [kind |-> "other"]
Data(fields) == [x \in DOMAIN fields \cup {"kind"} |-> IF x = "kind" THEN "data" ELSE fields[x]]

Header(size) == <<Section(<<"DATABASE">>), Data([size |-> size])>>
Dimension(id, name, type) == Data([id |-> id, name |-> name, type |-> type])
Dimensions(lines) == <<Section(<<"DIMENSIONS">>)>> \o lines

Element(id, type, children, listsDiffer) ==
  Data([id |-> id, type |-> type, children |-> children, listsDiffer |-> listsDiffer])
Base(id) == Element(id, "numeric", FALSE, FALSE)
Sum(id) == Element(id, "numeric", TRUE, FALSE)

Info(d, size) == <<Section(<<"DIMENSION", d>>), Data([size |-> size])>>
Elements(d, lines) == <<Section(<<"ELEMENTS", "DIMENSION", d>>)>> \o lines
Sections(d, lines) == Info(d, 2) \o Elements(d, lines)

Cubes(lines) == <<Section(<<"CUBES">>)>> \o lines
Cube(id, dims, type) == Data([id |-> id, dims |-> dims, type |-> type])

BothDimensions == Dimensions(<<Dimension(0, "a", 1), Dimension(1, "b", 1)>>)
BothCube == Cubes(<<Cube(7, <<0, 1>>, 2)>>)

-----------------------------------------------------------------------------
(* Files of a cube. *)

Sizes(n) == Data([sizes |-> [i \in 1..n |-> 2]])
Cell(path, value) == Data([path |-> path, value |-> value])
Filed(lines, open) == [lines |-> lines, newlines |-> Len(lines) - open]
CubeFile(cellLines) == <<Section(<<"CUBE">>), Sizes(2), Section(<<"NUMERIC">>)>> \o cellLines

Full == CubeFile(<<Cell(<<1, 1>>, 1), Cell(<<0, 0>>, 2), Cell(<<1, 0>>, 3), Cell(<<0, 1>>, 4)>>)
OnDisk(lines) == [c \in {6, 7} |-> [ext \in {"csv"} |-> Filed(lines, 0)]]

CellFiles ==
  {CubeFile(lines) : lines \in UNION {[1..n -> {Cell(<<0, 0>>, 1), Cell(<<0, 0>>, 2), Cell(<<1, 0>>, 1),
                                                Cell(<<1, 1>>, 3), Cell(<<0, 2>>, 1)}] : n \in 0..3}}
  \cup {CubeFile(<<Cell(<<0>>, 1)>>), CubeFile(<<Cell(<<0, 0>>, 1), Section(<<"STRING">>), Cell(<<1, 1>>, 1)>>),
        CubeFile(<<Cell(<<0, 0>>, 1), Other, Cell(<<1, 1>>, 1)>>), << >>,
        <<Section(<<"CUBE">>), Sizes(2)>>, <<Section(<<"CUBE">>), Sizes(1), Sizes(2), Other>>,
        <<Section(<<"CUBE">>), Section(<<"NUMERIC">>)>>,
        <<Section(<<"CUBE">>), Sizes(2), Section(<<"STRING">>)>>,
        <<Section(<<"CUBE">>), Sizes(2), Other, Cell(<<0, 0>>, 1)>>,
        <<Section(<<"CUBE">>), Sizes(1), Section(<<"NUMERIC">>), Cell(<<0>>, 1)>>}

-----------------------------------------------------------------------------
(* The situations. *)

\* Dimensions listed with faults, and with one that is not of type 1.
Lists ==
  {Header(size) \o Dimensions(lines) : size \in 0..2,
     lines \in {<<Dimension(0, "a", 1), Dimension(1, "b", 1)>>, <<Dimension(1, "b", 1), Dimension(0, "a", 1)>>,
                <<Dimension(0, "a", 1), Dimension(1, "b", 4)>>, <<Dimension(0, "a", 1), Dimension(1, "a", 1)>>,
                <<Dimension(1, "a", 1), Dimension(1, "b", 1)>>, << >>}}
  \cup {BothDimensions, << >>, <<Section(<<"DATABASE">>)>> \o BothDimensions, Header(2) \o <<Other>> \o BothDimensions}

\* Lines of an element section: in any order, missing, repeated, and refused.
ElementSections ==
  {<<Base(0), Base(1)>>, <<Sum(1), Base(0)>>, <<Base(1)>>, <<Base(1), Base(0), Sum(1)>>,
   <<Element(0, "string", FALSE, FALSE), Base(1)>>, <<Base(0), Element(5, "string", FALSE, TRUE)>>,
   <<Base(0), Base(2)>>, <<Base(0), Element(1, "numeric", TRUE, TRUE)>>,
   <<Element(0, "unknown", FALSE, FALSE), Base(1)>>, <<Base(1), Sum(0), Element(1, "unknown", FALSE, FALSE)>>}

Both(a, b) == Sections(0, a) \o Sections(1, b)
Loads ==
  {Both(a, b) : a, b \in ElementSections}
  \cup {Sections(1, <<Base(0), Base(1)>>) \o Sections(0, <<Base(0), Base(1)>>),
        Sections(0, <<Base(0)>>), Sections(1, <<Base(0)>>), Info(0, 0) \o Elements(0, << >>) \o Sections(1, <<Base(1)>>),
        Info(0, 2) \o Sections(1, <<Base(0)>>), <<Section(<<"DIMENSION", 0>>)>> \o Elements(0, <<Base(0)>>),
        Sections(0, <<Base(0), Other, Base(1)>>) \o Sections(1, <<Base(0)>>)}

CubeLists ==
  {Cubes(lines) : lines \in {
     <<Cube(7, <<0, 1>>, 2)>>, <<Cube(7, <<1>>, 2), Cube(6, <<0, 1>>, 7)>>,
     <<Cube(7, <<0, 1>>, 3), Cube(6, <<1, 0>>, 2)>>, <<Cube(7, <<0, 3>>, 2)>>,
     <<Cube(7, <<0>>, 2), Cube(7, <<1, 0>>, 2)>>, <<Cube(6, << >>, 2), Cube(7, <<0, 1>>, 2)>>,
     <<Other, Cube(7, <<0, 1>>, 2)>>}} \cup {<< >>}

Situation(db, onDisk, s, a) == [database |-> db, disk |-> onDisk, server |-> s, answers |-> a]

Sum1 == Both(<<Base(0), Sum(1)>>, <<Base(1), Base(0)>>)
Bases == Both(<<Base(0), Base(1)>>, <<Base(1), Base(0)>>)

MCSituations ==
  {Situation(l \o Bases \o BothCube, OnDisk(Full), TRUE, << >>) : l \in Lists}
  \cup {Situation(Header(2) \o BothDimensions \o l \o BothCube, OnDisk(Full), TRUE, << >>) : l \in Loads}
  \cup {Situation(Header(2) \o BothDimensions \o Bases \o c, OnDisk(Full), s, a) :
          c \in CubeLists, s \in BOOLEAN, a \in {<<7>>, <<5, 9, 6>>, <<9>>}}
  \cup {Situation(Header(2) \o BothDimensions \o e \o BothCube,
                  [c \in {7} |-> IF t THEN [ext \in {"tmp"} |-> Filed(f, o)] ELSE [ext \in {"csv"} |-> Filed(f, o)]],
                  TRUE, << >>) : e \in {Bases, Sum1}, f \in CellFiles \ {<< >>}, t \in BOOLEAN, o \in 0..1}
  \cup {Situation(Header(2) \o BothDimensions \o Bases \o BothCube, d, TRUE, << >>) :
          d \in {[c \in {7} |-> << >>], [c \in {7} |-> [ext \in {"csv"} |-> Filed(<< >>, 0)]],
                 [c \in {7} |-> [ext \in {"csv", "tmp"} |-> IF ext = "csv" THEN Filed(Full, 0) ELSE Filed(<< >>, 0)]]}}
=============================================================================

----------------------------- MODULE MCDimension -----------------------------
(***************************************************************************)
(* Dimensions of up to four elements for TLC: every hierarchy without a    *)
(* cycle, lines in any order, lists of parents in both orders.             *)
(***************************************************************************)
EXTENDS Dimension

Nodes == 0..3
Links == {link \in Nodes \X Nodes : link[1] # link[2]}

\* No cycle: taking away the elements that are nobody's child, again and again,
\* leaves nothing.
Acyclic(links) ==
  LET Inner(S) == {n \in S : \E p \in S : <<p, n>> \in links}
  IN Inner(Inner(Inner(Inner(Nodes)))) = {}

Hierarchies == {links \in SUBSET Links : Acyclic(links)}

Up(S) == SetToSortSeq(S, LAMBDA x, y : x < y)

ChildIds(links, p) == {n \in Nodes : <<p, n>> \in links}
ParentIds(links, c) == {n \in Nodes : <<n, c>> \in links}

\* The type as it should be, or the one loadElement has to correct.
TypeIn(links, n, swapped) ==
  IF (ChildIds(links, n) = {}) # swapped THEN "numeric" ELSE "consolidated"

\* The lines of some nodes, weight(p, c) on the link of parent and child; in the
\* odd variant the parents come in reverse order and the types are wrong.
Section(links, nodes, weight(_, _), odd) ==
  [n \in nodes |->
     LET children == Up(ChildIds(links, n))
         parents == Up(ParentIds(links, n))
     IN [type |-> TypeIn(links, n, odd), level |-> 3,
         parents |-> IF odd THEN Reverse(parents) ELSE parents,
         children |-> [i \in DOMAIN children |->
                         [id |-> children[i], weight |-> weight(n, children[i])]]]]

\* The weights of elements that have base elements only all differ, the others are 1.
Plain(links, nodes, odd) ==
  Section(links, nodes,
          LAMBDA p, c : IF \A n \in ChildIds(links, p) : ChildIds(links, n) = {}
                        THEN 4 * p + c + 2 ELSE 1, odd)

PlainFiles == {Plain(links, Nodes, odd) : links \in Hierarchies, odd \in BOOLEAN}

EmptyLine(type) == [type |-> type, level |-> 0, parents |-> << >>, children |-> << >>]

\* Element 1 is missing or a string element.
GapNodes == {0, 2, 3}
GapHierarchies == {links \in Hierarchies : links \subseteq GapNodes \X GapNodes}
GapFiles ==
  {Plain(links, GapNodes, FALSE) : links \in GapHierarchies} \cup
  {Plain(links, GapNodes, FALSE) @@ (1 :> EmptyLine("string")) : links \in GapHierarchies}

\* One line cannot be loaded.
BadLines ==
  {1 :> EmptyLine("unknown"), 4 :> EmptyLine("numeric"),
   1 :> [EmptyLine("numeric") EXCEPT !.parents = <<4>>],
   1 :> [EmptyLine("consolidated") EXCEPT !.children = <<[id |-> 4, weight |-> 1]>>]}
BadFiles == {Plain({<<0, 2>>, <<0, 3>>}, GapNodes, FALSE) @@ bad : bad \in BadLines}

AllFiles == PlainFiles \cup GapFiles \cup BadFiles

\* Every link has weight 2.
NestedFiles == {Section(links, Nodes, LAMBDA p, c : 2, FALSE) : links \in Hierarchies}
=============================================================================

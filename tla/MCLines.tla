------------------------------- MODULE MCLines -------------------------------
(***************************************************************************)
(* Files that FileWriter has written, with comments and empty lines in     *)
(* between, and some with anything behind; lists and requests; then files, *)
(* lists and requests of any characters.                                   *)
(***************************************************************************)
EXTENDS Lines

MCCharacters == {"x", Separator, Quote, NewLine, Comment, Opening, Closing}
Chars == MCCharacters \ {Closing}
Strings(S, n) == UNION {[1..k -> S] : k \in 0..n}

Plain(text) == [quoted |-> FALSE, text |-> text]
Quoted(text) == [quoted |-> TRUE, text |-> text]

AnyField == {Plain(t) : t \in Strings({"x"}, 2)} \cup {Quoted(t) : t \in Strings(Chars, 2)}
FewFields == {Plain(<<"x">>), Plain(<< >>), Quoted(<<Quote>>), Quoted(<<NewLine, Separator>>)}
LongFields == {Quoted(t) : t \in Strings({"x", Separator, Quote, NewLine}, 4)}

RowsOf(F) == {[kind |-> "row", fields |-> <<f>>] : f \in F}
Rows == RowsOf(LongFields) \cup
        {[kind |-> "row", fields |-> <<f, g>>] : f \in AnyField, g \in FewFields}
NextItems == RowsOf(FewFields) \cup {SectionOf(<<"x">>)}

\* Passed over between rows, and behind the last.
Noise == {<< >>, <<NewLine>>, <<Comment, Separator, Quote, NewLine, NewLine>>}

Known(items) == [known |-> TRUE, items |-> items]
KnownFile(items, passed, rest) ==
  [known |-> TRUE, items |-> items, passed |-> passed, rest |-> rest]
Unknown == [known |-> FALSE]
Input(f, text, w) == [form |-> f, text |-> text, written |-> w]

File(items, passed, rest) ==
  Input("file", FileText(items, passed, rest), KnownFile(items, passed, rest))
Files == {File(<<i, j>>, << << >>, noise, noise>>, << >>) :
            i \in Rows, j \in NextItems, noise \in Noise}

\* Files that end in the middle of something, or with something else.
CutFiles == {File(<<i>>, << << >>, noise>>, rest) :
               i \in NextItems, noise \in Noise, rest \in Strings(MCCharacters, 3) \ {<< >>}}

\* A list of one empty field has no text, which is split into no field.
ListFields == {Plain(<< >>), Plain(<<"x", "x">>), Quoted(<<Separator>>), Quoted(<<Quote, Separator>>)}
Lists == {l \o <<last>> : l \in Strings(ListFields, 3), last \in {Plain(<< >>), Plain(<<"x">>)}}
           \ {<<Plain(<< >>)>>}
Requests == {l \o <<Plain(<<"x">>)>> : l \in Strings(ListFields, 3)}

MCInputs ==
  Files \cup CutFiles
  \cup {Input("list", ListText(l), Known(l)) : l \in Lists}
  \cup {Input("request", ListText(l), Known(l)) : l \in Requests}
  \cup {Input("file", t, Unknown) : t \in Strings(MCCharacters, 4)}
  \cup {Input(f, t, Unknown) : f \in {"list", "request"}, t \in Strings({"x", Separator, Quote}, 5)}
=============================================================================

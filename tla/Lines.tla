-------------------------------- MODULE Lines --------------------------------
(***************************************************************************)
(* From characters to fields: FileReader::nextLine, which passes over      *)
(* empty lines and comments, and splitString, which splits a line at its   *)
(* separators.  A field that begins with a quote ends at a quote before a  *)
(* separator, and quotes within it are written twice.  A row of a file     *)
(* goes on in the next line until one ends with a separator.               *)
(*                                                                         *)
(* splitString is there three times over: for the rows of a file, for      *)
(* lists within a field (FileReader::getDataStrings), and for requests     *)
(* (StringUtils::splitString).  They differ in what the end of the line    *)
(* means.  FileWriter gives the form of rows, fields and quotes.  Carriage *)
(* returns and CTRL-Z, which are taken out of lines, do not occur here.    *)
(***************************************************************************)
EXTENDS Naturals, SequencesExt

CONSTANTS
  Characters,
  Inputs       \* what is read, of which form, and what was written: see InputAssumption

Separator == ";"
Quote == "q"
NewLine == "n"
Comment == "#"
Opening == "["
Closing == "]"

Row(fields) == [kind |-> "row", fields |-> fields]
SectionOf(name) == [kind |-> "section", name |-> name]

-----------------------------------------------------------------------------
(* How FileWriter writes. *)

\* escapeString: in quotes, every quote within written twice.
Doubled(text) == [i \in DOMAIN text |-> IF text[i] = Quote THEN <<Quote, Quote>> ELSE <<text[i]>>]

EscapeString(text) == <<Quote>> \o FlattenSeq(Doubled(text)) \o <<Quote>>

FieldText(f) == IF f.quoted THEN EscapeString(f.text) ELSE f.text

\* appendString and appendEscapeString put a separator behind every field.
Closed(fields) == [i \in DOMAIN fields |-> Append(FieldText(fields[i]), Separator)]

RowText(fields) == FlattenSeq(Closed(fields)) \o <<NewLine>>

SectionText(name) == <<Opening>> \o name \o <<Closing, NewLine>>

\* Lists and requests have separators between their fields.
Joined(fields) == [i \in DOMAIN fields |-> IF i = 1 THEN FieldText(fields[i])
                                            ELSE <<Separator>> \o FieldText(fields[i])]

ListText(fields) == FlattenSeq(Joined(fields))

\* A file: in front of each item, and behind the last, something may be passed over; the
\* rest is of any characters, such as a row that is cut off.
ItemText(item) == IF item.kind = "section" THEN SectionText(item.name) ELSE RowText(item.fields)

Pieces(items, passed) == [i \in DOMAIN items |-> passed[i] \o ItemText(items[i])]

FileText(items, passed, rest) ==
  FlattenSeq(Pieces(items, passed)) \o (passed[Len(items) + 1] \o rest)

-----------------------------------------------------------------------------
(* What may be written in that form, so that it says what it says.         *)

Fields == [quoted : BOOLEAN, text : Seq(Characters)]
Items == [kind : {"section"}, name : Seq(Characters)] \cup [kind : {"row"}, fields : Seq(Fields)]

\* Without quotes, a field holds no separator and does not begin with a quote.
WellFormed(fields) ==
  /\ fields \in Seq(Fields)
  /\ \A i \in DOMAIN fields : ~fields[i].quoted =>
       \A j \in DOMAIN fields[i].text :
         fields[i].text[j] # Separator /\ (j = 1 => fields[i].text[j] # Quote)

\* In a row it holds no newline either, and the row does not begin with a mark; one
\* without a field would be an empty line.
RowWritten(fields) ==
  /\ fields # << >> /\ WellFormed(fields)
  /\ \A i \in DOMAIN fields : ~fields[i].quoted =>
       \A j \in DOMAIN fields[i].text :
         /\ fields[i].text[j] # NewLine
         /\ i = 1 /\ j = 1 => fields[i].text[j] \notin {Comment, Opening}

SectionWritten(name) == \A j \in DOMAIN name : name[j] \notin {NewLine, Closing}

ItemWritten(item) ==
  \/ item.kind = "section" /\ SectionWritten(item.name)
  \/ item.kind = "row" /\ RowWritten(item.fields)

\* Empty lines and comments, each ended by a newline.
PassedOver(text) ==
  /\ \A j \in DOMAIN text : j = 1 \/ text[j - 1] = NewLine => text[j] \in {Comment, NewLine}
  /\ text # << >> => text[Len(text)] = NewLine

FileWritten(text, items, passed, rest) ==
  /\ items \in Seq(Items) /\ \A i \in DOMAIN items : ItemWritten(items[i])
  /\ passed \in Seq(Seq(Characters)) /\ Len(passed) = Len(items) + 1
  /\ \A i \in DOMAIN passed : PassedOver(passed[i])
  /\ rest \in Seq(Characters)
  /\ text = FileText(items, passed, rest)

\* A list or request ends with a plain field: behind a quoted one the field would be
\* appended twice (QuoteAtEnd).  One empty field is not told from none, and a request
\* does not show an empty last one.
ListWritten(text, fields, lastHolds) ==
  /\ WellFormed(fields) /\ text = ListText(fields)
  /\ fields # << >> => ~fields[Len(fields)].quoted
  /\ fields # << >> /\ (Len(fields) = 1 \/ lastHolds) => fields[Len(fields)].text # << >>

\* Texts are of any characters; where it is known what was written, it was written so.
ASSUME InputAssumption ==
  /\ {Separator, Quote, NewLine, Comment, Opening, Closing} \subseteq Characters
  /\ \A i \in Inputs :
       /\ i.form \in {"file", "list", "request"} /\ i.text \in Seq(Characters)
       /\ i.written.known \in BOOLEAN
       /\ i.written.known =>
            IF i.form = "file"
            THEN FileWritten(i.text, i.written.items, i.written.passed, i.written.rest)
            ELSE ListWritten(i.text, i.written.items, i.form = "request")

-----------------------------------------------------------------------------

VARIABLES
  form,       \* what is split: a "file", a "list" or a "request"
  written,    \* what was written, where that is known
  input,      \* the characters not taken from the stream yet
  eof,        \* whether the stream has found its end
  line,       \* the line being split
  pos,        \* the place in it
  s, first, escaped,  \* the field being put together, whether it is to begin, and is quoted
  elements,   \* the fields of the row so far
  read,       \* history: the rows and sections read
  pc

given == <<form, written>>
stream == <<input, eof>>
field == <<s, first, escaped>>
vars == <<given, stream, line, pos, field, elements, read, pc>>

Begin == s' = << >> /\ first' = TRUE /\ escaped' = FALSE

Init ==
  /\ \E i \in Inputs :
       /\ form = i.form /\ written = i.written
       /\ input = IF i.form = "file" THEN i.text ELSE << >>
       /\ line = IF i.form = "file" THEN << >> ELSE i.text
       /\ pc = IF i.form = "file" THEN "next" ELSE IF i.text = << >> THEN "end" ELSE "split"
  /\ eof = FALSE /\ pos = 1
  /\ s = << >> /\ first = TRUE /\ escaped = FALSE
  /\ elements = << >> /\ read = << >>

-----------------------------------------------------------------------------
(* Lines. *)

Before(text, c) ==
  IF Contains(text, c) THEN SubSeq(text, 1, Min({i \in DOMAIN text : text[i] = c}) - 1) ELSE text

\* getline: the end of the stream is noticed when no newline is found.
Taken == Before(input, NewLine)
GetLine ==
  /\ input' = SubSeq(input, Len(Taken) + 2, Len(input))
  /\ eof' = ~Contains(input, NewLine)

\* Mutant: the end of the stream is not looked at.
NeverAtEnd == FALSE

AtEnd == eof

\* An empty line is passed over like a comment.
Mark(text) == IF text = << >> THEN Comment ELSE Head(text)

\* One turn of the loop of nextLine; a section line without its bracket is neither
\* section nor data, and the reader is asked for the next one.
NextLine ==
  /\ pc = "next" /\ ~AtEnd
  /\ GetLine
  /\ \/ /\ Mark(Taken) = Comment
        /\ UNCHANGED <<line, pos, field, elements, read, pc>>
     \/ /\ Mark(Taken) = Opening
        /\ read' = IF Contains(Taken, Closing)
                   THEN Append(read, SectionOf(Tail(Before(Taken, Closing)))) ELSE read
        /\ UNCHANGED <<line, pos, field, elements, pc>>
     \/ /\ Mark(Taken) \notin {Comment, Opening}
        /\ line' = Taken /\ pos' = 1 /\ elements' = << >>
        /\ Begin /\ pc' = "split"
        /\ UNCHANGED read
  /\ UNCHANGED given

NoMoreLines ==
  /\ pc = "next" /\ AtEnd
  /\ pc' = "end"
  /\ UNCHANGED <<given, stream, line, pos, field, elements, read>>

-----------------------------------------------------------------------------
(* Fields: one action for each branch of the loop of splitString. *)

InLine == pc = "split" /\ pos \in DOMAIN line
Char == line[pos]

StartQuoted ==
  /\ first /\ Char = Quote
  /\ escaped' = TRUE /\ first' = FALSE /\ pos' = pos + 1
  /\ UNCHANGED <<s, elements>>

StartPlain ==
  /\ first /\ Char \notin {Quote, Separator}
  /\ s' = Append(s, Char) /\ first' = FALSE /\ pos' = pos + 1
  /\ UNCHANGED <<escaped, elements>>

\* Mutant: the field that follows a quoted one counts as quoted.
FieldDoneEscaped == elements' = Append(elements, s) /\ s' = << >> /\ first' = TRUE /\ UNCHANGED escaped

FieldDone == elements' = Append(elements, s) /\ Begin

EndPlain ==
  /\ Char = Separator /\ (first \/ ~escaped)
  /\ FieldDone /\ pos' = pos + 1

EndQuoted ==
  /\ ~first /\ escaped /\ Char = Quote /\ pos < Len(line) /\ line[pos + 1] = Separator
  /\ FieldDone /\ pos' = pos + 2

\* Whatever follows a quote in a quoted field, it stands for a quote.
QuoteWithin ==
  /\ ~first /\ escaped /\ Char = Quote /\ pos < Len(line) /\ line[pos + 1] # Separator
  /\ s' = Append(s, Quote) /\ pos' = pos + 2
  /\ UNCHANGED <<first, escaped, elements>>

\* The field is appended, and goes on all the same.
QuoteAtEnd ==
  /\ ~first /\ escaped /\ Char = Quote /\ pos = Len(line)
  /\ elements' = Append(elements, s) /\ pos' = pos + 1
  /\ UNCHANGED field

CharWithin ==
  /\ ~first /\ Char # IF escaped THEN Quote ELSE Separator
  /\ s' = Append(s, Char) /\ pos' = pos + 1
  /\ UNCHANGED <<first, escaped, elements>>

SplitChar ==
  /\ InLine
  /\ \/ StartQuoted \/ StartPlain \/ EndPlain \/ EndQuoted \/ QuoteWithin \/ QuoteAtEnd
     \/ CharWithin
  /\ UNCHANGED <<given, stream, line, read, pc>>

-----------------------------------------------------------------------------
(* The end of a line. *)

RowDone(fields) ==
  /\ elements' = fields
  /\ read' = Append(read, Row(fields))
  /\ pc' = IF form = "file" THEN "next" ELSE "end"

\* The row goes on in the next line; a last line without newline is lost.
ContinueRow ==
  /\ pc = "split" /\ pos > Len(line) /\ form = "file" /\ ~first
  /\ GetLine
  /\ line' = Taken /\ pos' = 1
  /\ IF eof' THEN RowDone(Append(elements, s)) /\ UNCHANGED s
             ELSE s' = Append(s, NewLine) /\ UNCHANGED <<elements, read, pc>>
  /\ UNCHANGED <<given, first, escaped>>

\* A request ends with its last separator, a row or list has a field after it.
EndSplit ==
  /\ pc = "split" /\ pos > Len(line) /\ (form = "file" => first)
  /\ RowDone(IF form = "request" /\ first THEN elements ELSE Append(elements, s))
  /\ UNCHANGED <<given, stream, line, pos, field>>

Next == NextLine \/ NoMoreLines \/ SplitChar \/ ContinueRow \/ EndSplit

Spec == Init /\ [][Next]_vars
FairSpec == Spec /\ WF_vars(Next)

-----------------------------------------------------------------------------
(* Properties. *)

TypeOK ==
  /\ form \in {"file", "list", "request"}
  /\ pc \in {"next", "split", "end"}
  /\ pos \in 1..(Len(line) + 1)
  /\ {eof, first, escaped} \subseteq BOOLEAN
  /\ first => s = << >>

Texts(fields) == [i \in DOMAIN fields |-> fields[i].text]

ReadOf(item) == IF item.kind = "section" THEN item ELSE Row(Append(Texts(item.fields), << >>))

AllRead(items) == [i \in DOMAIN items |-> ReadOf(items[i])]

\* Rows and sections that FileWriter has written are read back as they were,
\* with one empty field behind the last separator of a row: fields may hold
\* separators, quotes, newlines and the marks of comments and sections, in any
\* order.  If something else follows them, such as a row that the end of the file cuts
\* off, they are read all the same, before whatever the rest is taken for.  Lists, and
\* requests, whose last field is plain are split as they were joined.
ReadBack ==
  pc = "end" /\ written.known =>
    IF form = "file"
    THEN /\ IsPrefix(AllRead(written.items), read)
         /\ written.rest = << >> => read = AllRead(written.items)
    ELSE elements = Texts(written.items)

ReadAsWritten == TypeOK /\ ReadBack

\* Reading ends for any characters whatever, also when the file ends in the
\* middle of a quoted field.
Termination == <>(pc = "end")

=============================================================================

--------------------------- MODULE MCDocumentIndex ---------------------------
(***************************************************************************)
(* What is checked together with DocumentIndex: the chunks and the facts   *)
(* that its workers and those of GraphPipeline make.  A behaviour is one   *)
(* of DocumentIndex, of Chunking or of GraphExtraction, while the others   *)
(* have not begun.                                                         *)
(***************************************************************************)
EXTENDS DocumentIndex, Chunking, GraphExtraction, TLC

VARIABLE part

partVars == <<part, vars, chunkingVars, extraction>>

Symmetry == Permutations(Workers) \cup Permutations(Targets)

-----------------------------------------------------------------------------
(* Documents with two bodies of every form, under up to two headings, and  *)
(* some with three.  The characters of block k are numbered from 1000k on. *)

Letters(n) == [i \in 1..n |-> "letter"]
Sentences == Letters(5) \o <<"stop">> \o Letters(3) \o <<"stop">> \o Letters(6) \o <<"stop">>
LongLines == Letters(3) \o <<"line">> \o Letters(13) \o <<"line">> \o Letters(2)

Block(kind, text, rows, caption) ==
  [kind |-> kind, text |-> text, rows |-> rows, caption |-> caption,
   header |-> 1, level |-> 0, title |-> "", artifact |-> FALSE]

Heading(level, title) ==
  [Block("heading", Letters(1), << >>, << >>) EXCEPT !.level = level, !.title = title]

Short == Block("paragraph", Letters(2), << >>, << >>)
LongParagraph == Block("paragraph", Sentences, << >>, << >>)
Bodies == {Short, LongParagraph}
Table == Block("table", << >>, <<Letters(2), Letters(4), Letters(3), Letters(11)>>, << >>)

AnyForms ==
  {Short, LongParagraph, Table,
   Block("paragraph", Letters(6), << >>, << >>), Block("paragraph", LongLines, << >>, << >>),
   Block("code", Letters(17), << >>, << >>), Block("code", Letters(3), << >>, << >>),
   Block("table", << >>, <<Letters(1), Letters(2)>>, << >>)}

PdfForms == AnyForms \cup
  {[Table EXCEPT !.caption = Letters(1)], Block("table", Letters(3), << >>, Letters(1)),
   [Short EXCEPT !.artifact = TRUE], Block("image", << >>, << >>, Letters(2)),
   Block("image", << >>, << >>, << >>)}

Above == {<< >>, <<Heading(1, "h")>>, <<Heading(1, "h"), Heading(2, "a")>>,
          <<Heading(2, "a"), Heading(1, "h")>>}
Between == {<< >>, <<Heading(1, "h")>>, <<Heading(2, "a")>>, <<Heading(2, "b")>>}
Below == {<< >>, <<Heading(2, "b")>>}

Numbered(k, block) ==
  LET From(kinds, n) == [i \in DOMAIN kinds |-> [at |-> 1000 * k + n + i, kind |-> kinds[i]]]
  IN [block EXCEPT !.caption = From(@, 0), !.text = From(@, 2),
                   !.rows = [r \in DOMAIN @ |-> From(@[r], 20 * r)]]

OnPage(blocks, page) == [i \in DOMAIN blocks |-> blocks[i] @@ [page |-> page]]

Document(format, blocks, uncached) ==
  [format |-> format, uncached |-> uncached,
   blocks |-> [k \in DOMAIN blocks |-> Numbered(k, blocks[k])]]

(* Only a PDF has pages.                                                   *)
PdfInit ==
  \/ \E above \in Above, f \in PdfForms, between \in Between, g \in PdfForms, below \in Below,
       page \in 1..2 :
       document = Document("pdf", OnPage(above \o <<f>>, 1)
                                    \o OnPage(between \o <<g>> \o below, page), FALSE)
  \/ \E f \in Bodies, g \in Bodies, h \in Bodies, left \in Between, right \in Between,
       page \in 1..2 :
       document = Document("pdf", OnPage(<<Heading(1, "h"), Heading(2, "a"), f>> \o left
                                           \o <<g>>, 1) \o OnPage(right \o <<h>>, page), FALSE)

MarkdownInit ==
  \E above \in Above, f \in AnyForms, between \in Between, g \in AnyForms, below \in Below :
    document = Document("markdown", OnPage(above \o <<f>> \o between \o <<g>> \o below, 1), FALSE)

SheetOf(rows, header, title) ==
  [Block("sheet", << >>, rows, << >>) EXCEPT !.header = header, !.title = title]

(* Titles, an instruction, a header and records; an empty row may come     *)
(* anywhere.                                                               *)
SheetRows ==
  LET long == <<Letters(1), Letters(1), Letters(2), Letters(3), Letters(5), Letters(1), Letters(4)>>
      short == <<Letters(2), Letters(3)>>
      Parted(rows, n) == SubSeq(rows, 1, n) \o << << >> >> \o SubSeq(rows, n + 1, Len(rows))
  IN {long, short} \cup {Parted(long, n) : n \in 1..6} \cup {Parted(short, n) : n \in 0..2}

WorkbookInit ==
  \E f \in SheetRows, g \in SheetRows, m \in {1, 3}, n \in {1, 3}, uncached \in BOOLEAN :
    document = Document("xlsx", OnPage(<<SheetOf(f, m, "h"), SheetOf(g, n, "b")>>, 1), uncached)

(* Up to four lines, empty or of some lengths.                             *)
Lines(lengths) == Block("lines", << >>, [i \in DOMAIN lengths |-> Letters(lengths[i])], << >>)

TextInit ==
  \E n \in 1..4 : \E lengths \in [1..n -> {0, 2, 5, 15}] :
    document = Document("txt", OnPage(<<Lines(lengths)>>, 1), FALSE)

-----------------------------------------------------------------------------
PartInit ==
  /\ part \in {"index", "chunking", "extraction"}
  /\ Init /\ ExtractionInit
  /\ IF part = "chunking"
     THEN (PdfInit \/ MarkdownInit \/ WorkbookInit \/ TextInit) /\ ChunkingInit
     ELSE document = [format |-> "none"] /\ outcome = "none" /\ chunks = << >>

PartNext ==
  /\ UNCHANGED part
  /\ \/ part = "index" /\ Next /\ UNCHANGED <<chunkingVars, extraction>>
     \/ part = "chunking" /\ ProcessDocument /\ UNCHANGED <<vars, extraction>>
     \/ part = "extraction" /\ ExtractionNext /\ UNCHANGED <<vars, chunkingVars>>

PartSpec == PartInit /\ [][PartNext]_partVars
=============================================================================

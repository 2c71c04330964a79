------------------------------ MODULE Chunking ------------------------------
(***************************************************************************)
(* How a document is parsed, cleaned and cut into chunks: every element is *)
(* put under the headings above it; headers and footers of pages are       *)
(* dropped; bodies of one section and page go together, long texts are cut *)
(* at natural boundaries with an overlap, tables by rows under a repeated  *)
(* header, and small neighbours are merged again.  A document of which a   *)
(* part could not be read is refused; of another the text, its sources and *)
(* its rows have to be found again in chunks that fit the embedding model. *)
(*                                                                         *)
(* A document has a format and blocks, in the order of the file; a block   *)
(* has its kind, text and page, a heading its level and title, a table its *)
(* rows and caption, and artifact is true for what is on the page only.  A *)
(* sheet has its title, rows and the number of its header row, and the     *)
(* lines of a plain text are rows.  uncached says that a formula has no    *)
(* value.                                                                  *)
(*                                                                         *)
(* A text is a sequence of characters; `at' numbers those of the document, *)
(* 0 are added ones.  Each character is a token, and so is each heading of *)
(* a path; tokens are added up, so that hard_split(), for texts that are   *)
(* worth more tokens than their parts, is never needed and left out.       *)
(***************************************************************************)
EXTENDS Naturals, Sequences, FiniteSets, SequencesExt

CONSTANTS
  MaxTokens, OverlapTokens, MinChunkTokens,
  MaxTableRows   \* of a table of a workbook

(* ChunkConfig demands 32; from 12 on every piece has room beside a path   *)
(* and an overlap.                                                         *)
ASSUME ChunkConfigAssumption ==
  /\ MaxTokens \in Nat /\ MaxTokens >= 12
  /\ OverlapTokens \in Nat /\ OverlapTokens < MaxTokens \div 2
  /\ MinChunkTokens \in Nat /\ MaxTableRows \in Nat \ {0}

VARIABLES
  document, \* chosen by the checked instance
  outcome,  \* "none" before, "CHUNKS" or an error code
  chunks    \* what it was cut into

chunkingVars == <<document, outcome, chunks>>

Character == [at : Nat, kind : {"letter", "stop", "line"}]
Text == Seq(Character)
LineBreak == [at |-> 0, kind |-> "line"]
Word == [at |-> 0, kind |-> "letter"]
Body == {"text", "paragraph"}

(* What is left of base when every element of s has taken its step.        *)
Fold(Step(_, _), base, s) ==
  LET partial[i \in 0..Len(s)] ==
        IF i = 0 THEN base ELSE Step(partial[i - 1], s[i])
  IN partial[Len(s)]

Flattened(seqs) == Fold(LAMBDA all, s : all \o s, << >>, seqs)

(* The elements of s that are in S, in their order.                        *)
Selected(s, S) ==
  Fold(LAMBDA kept, e : IF e \in S THEN Append(kept, e) ELSE kept, << >>, s)

-----------------------------------------------------------------------------
(* Parsing *)

Join(texts, separator) ==
  Fold(LAMBDA all, t : IF all = << >> THEN t ELSE all \o separator \o t, << >>, texts)

NonEmpty(text) == IF text = << >> THEN << >> ELSE <<text>>

(* In a PDF, the headings above what follows a heading.                    *)
PdfHeadings(above, heading) ==
  Append(SubSeq(above, 1, Min({heading.level - 1, Len(above)})),
         [level |-> heading.level, title |-> heading.title])

(* In other formats.                                                       *)
OutlineHeadings(above, heading) ==
  Append(Selected(above, {h \in Range(above) : h.level < heading.level}),
         [level |-> heading.level, title |-> heading.title])

(* A picture without text says what its caption says.                      *)
BlockText(block) ==
  IF block.kind = "image" /\ block.text = << >> THEN block.caption ELSE block.text

Element(block, path, ref) ==
  [kind |-> IF block.kind = "image" THEN "paragraph" ELSE block.kind,
   text |-> BlockText(block), rows |-> block.rows, caption |-> block.caption,
   header |-> block.header, page |-> block.page, path |-> path, ref |-> ref,
   artifact |-> block.artifact]

AddBlock(format, result, block) ==
  LET above == IF block.kind # "heading" THEN result.above
               ELSE IF format = "pdf" THEN PdfHeadings(result.above, block)
               ELSE OutlineHeadings(result.above, block)
  IN IF BlockText(block) = << >> /\ block.kind # "table" THEN result
     ELSE [above |-> above,
           elements |-> Append(result.elements,
                               Element(block, [i \in DOMAIN above |-> above[i].title],
                                       Len(result.elements) + 1))]

ParseBlocks(d) ==
  Fold(LAMBDA result, block : AddBlock(d.format, result, block),
       [above |-> << >>, elements |-> << >>], d.blocks).elements

(* Rows up to an empty one, or as many as a table may have.                *)
AddRow(regions, row, limit) ==
  IF row = << >>
  THEN [done |-> regions.done \o NonEmpty(regions.open), open |-> << >>]
  ELSE IF Len(regions.open) + 1 >= limit
  THEN [done |-> Append(regions.done, Append(regions.open, row)), open |-> << >>]
  ELSE [regions EXCEPT !.open = Append(@, row)]

Regions(rows, limit) ==
  LET last == Fold(LAMBDA regions, row : AddRow(regions, row, limit),
                   [done |-> << >>, open |-> << >>], rows)
  IN last.done \o NonEmpty(last.open)

(* A sheet has tables.  Any of them may begin with rows before its header; *)
(* here all do that are long enough, or none.                              *)
TablesOf(sheet) ==
  LET regions == Regions(sheet.rows, MaxTableRows)
  IN [i \in DOMAIN regions |->
        Element([sheet EXCEPT !.kind = "table", !.rows = regions[i],
                              !.header = IF @ < Len(regions[i]) THEN @ ELSE 1],
                <<sheet.title>>, <<sheet.title, i>>)]

ParseWorkbook(d) == Flattened([k \in DOMAIN d.blocks |-> TablesOf(d.blocks[k])])

(* Lines up to an empty one are a paragraph.                               *)
ParseText(d) ==
  LET lines == d.blocks[1].rows
      paragraphs == Regions(lines, Len(lines) + 1)
  IN [i \in DOMAIN paragraphs |->
        Element([d.blocks[1] EXCEPT !.kind = "paragraph", !.rows = << >>,
                                    !.text = Join(paragraphs[i], <<LineBreak>>)],
                << >>, i)]

ParseDocument(d) ==
  IF d.format = "xlsx" THEN ParseWorkbook(d)
  ELSE IF d.format = "txt" THEN ParseText(d)
  ELSE ParseBlocks(d)

(* OCR_NO_TEXT: a page of pictures nobody could read.                      *)
HasUnreadPage(d) ==
  \E i \in DOMAIN d.blocks :
    /\ d.blocks[i].kind = "image" /\ d.blocks[i].text = << >>
    /\ \A j \in DOMAIN d.blocks :
         d.blocks[j].page = d.blocks[i].page =>
           d.blocks[j].artifact \/ (BlockText(d.blocks[j]) = << >> /\ d.blocks[j].rows = << >>)

(* str.strip() *)
Strip(text) ==
  LET solid == {i \in DOMAIN text : text[i].kind # "line"}
  IN IF solid = {} THEN << >>
     ELSE SubSeq(text, Min(solid), Max(solid))

Clean(element) ==
  [element EXCEPT !.text = Strip(@), !.caption = Strip(@),
                  !.rows = [r \in DOMAIN @ |-> Strip(@[r])]]

(* clean_document() *)
CleanDocument(elements) ==
  LET cleaned == [i \in DOMAIN elements |-> Clean(elements[i])]
  IN Selected(cleaned, {e \in Range(cleaned) : ~ e.artifact /\ (e.text # << >> \/ e.rows # << >>)})

IsComplete(d, cleaned) == cleaned # << >> /\ ~ HasUnreadPage(d) /\ ~ d.uncached

-----------------------------------------------------------------------------
(* Texts *)

(* context(): the headings, cut at a quarter of the budget, and at 96.     *)
ContextLimit == IF MaxTokens \div 4 <= 96 THEN MaxTokens \div 4 ELSE 96

ContextTokens(path) == IF Len(path) <= ContextLimit THEN Len(path) ELSE ContextLimit

(* The line break between them takes one.                                  *)
ContentBudget(path) ==
  MaxTokens - ContextTokens(path) - IF ContextTokens(path) > 0 THEN 1 ELSE 0

Fits(content, path) == Len(content) <= ContentBudget(path)

(* A separator stays with the piece it ends.                               *)
AddCharacter(split, character, separator) ==
  IF character.kind = separator
  THEN [done |-> Append(split.done, Append(split.pending, character)), pending |-> << >>]
  ELSE [split EXCEPT !.pending = Append(@, character)]

(* The pieces so far, with the one that could still grow.                  *)
Split(state) == state.done \o NonEmpty(state.pending)

NoPieces == [done |-> << >>, pending |-> << >>]

Pieces(text, separator) ==
  Split(Fold(LAMBDA split, character : AddCharacter(split, character, separator),
             NoPieces, text))

(* Pieces that fit are put together while they do; what a longer one was   *)
(* cut into stays as it is.                                                *)
AddPiece(split, cut, budget) ==
  IF Len(cut) > 1
  THEN [done |-> Split(split) \o cut, pending |-> << >>]
  ELSE IF Len(split.pending \o cut[1]) > budget
  THEN [done |-> Split(split), pending |-> cut[1]]
  ELSE [split EXCEPT !.pending = @ \o cut[1]]

Gathered(cuts, budget) ==
  Split(Fold(LAMBDA split, cut : AddPiece(split, cut, budget), NoPieces, cuts))

SplitByBudget(text, budget) ==
  IF Len(text) <= budget THEN <<text>>
  ELSE Gathered([i \in DOMAIN text |-> <<<<text[i]>>>>], budget)

SplitAt(separator, SplitPiece(_, _), text, budget) ==
  IF Len(text) <= budget THEN <<text>>
  ELSE LET pieces == Pieces(text, separator)
       IN Gathered([k \in DOMAIN pieces |-> SplitPiece(pieces[k], budget)], budget)

SplitAtStops(text, budget) == SplitAt("stop", SplitByBudget, text, budget)
RecursiveSplit(text, budget) == SplitAt("line", SplitAtStops, text, budget)

(* Short pieces join the piece before.                                     *)
Rejoin(joined, piece, path) ==
  IF joined # << >> /\ Len(piece) < MinChunkTokens /\ Fits(Last(joined) \o piece, path)
  THEN Append(Front(joined), Last(joined) \o piece)
  ELSE Append(joined, piece)

Rejoined(pieces, path) ==
  Fold(LAMBDA joined, piece : Rejoin(joined, piece, path), << >>, pieces)

(* The end of the text before it, as far as there is room.                 *)
Overlapped(previous, base, path) ==
  LET room == {m \in 1..OverlapTokens :
                 m <= Len(previous) /\ m + 1 + Len(base) <= ContentBudget(path)}
      n == Max({0} \cup room)
  IN IF n = 0 THEN base
     ELSE SubSeq(previous, Len(previous) - n + 1, Len(previous)) \o <<LineBreak>> \o base

(* Every piece but the first begins with an overlap, if there is any.      *)
WithOverlaps(bases, path, reserved) ==
  [i \in DOMAIN bases |-> IF i = 1 \/ reserved = 0 THEN bases[i]
                          ELSE Overlapped(bases[i - 1], bases[i], path)]

Stripped(pieces) ==
  LET stripped == [i \in DOMAIN pieces |-> Strip(pieces[i])]
  IN Selected(stripped, Range(stripped) \ {<< >>})

SplitText(text, path, overlap) ==
  LET reserved == IF overlap THEN OverlapTokens ELSE 0
  IN IF Fits(text, path) THEN <<text>>
     ELSE Stripped(WithOverlaps(
            Rejoined(RecursiveSplit(text, ContentBudget(path) - reserved - 2), path),
            path, reserved))

-----------------------------------------------------------------------------
(* Chunks *)

(* emit(): elements of one path and page; rows are those of a table.       *)
Drafted(pieces, elements, kind, rows) ==
  [i \in DOMAIN pieces |->
     [content |-> pieces[i], path |-> elements[1].path, page |-> elements[1].page, kind |-> kind,
      refs |-> {elements[k].ref : k \in DOMAIN elements}, rows |-> rows,
      split |-> Len(pieces) > 1, merged |-> FALSE]]

EmitText(text, elements, kind, rows) ==
  IF text = << >> THEN << >>
  ELSE Drafted(SplitText(text, elements[1].path, kind # "table"), elements, kind, rows)

Emit(content, elements, kind, rows) == EmitText(Strip(content), elements, kind, rows)

(* _table_markdown(): a line per row, and one under the header.            *)
Markdown(rows) ==
  Join(IF Len(rows) > 1 THEN <<rows[1], <<Word>> >> \o Tail(rows) ELSE rows, <<LineBreak>>)

Caption(element) ==
  IF element.caption = << >> THEN << >> ELSE Append(element.caption, LineBreak)

(* Rows of a table under its header; the caption comes with them unless it *)
(* comes with rows before the header.                                      *)
Group(element, from, to) ==
  (IF element.header > 1 THEN << >> ELSE Caption(element))
    \o Markdown(<<element.rows[element.header]>> \o SubSeq(element.rows, from, to))

EmitGroup(element, from, to) ==
  Emit(Group(element, from, to), <<element>>, "table", <<from, to, element.header>>)

EmitPreamble(element) ==
  Emit(Caption(element) \o Join(SubSeq(element.rows, 1, element.header - 1), <<LineBreak>>),
       <<element>>, "table", <<1, element.header - 1, 0>>)

(* Where the groups of a table begin: before a row that would not fit.     *)
AddStart(starts, row, element) ==
  IF /\ row > Last(starts)
     /\ Len(Group(element, Last(starts), row)) > ContentBudget(element.path)
  THEN Append(starts, row) ELSE starts

GroupStarts(element) ==
  Fold(LAMBDA starts, row : AddStart(starts, row, element),
       <<element.header + 1>>,
       [i \in 1..(Len(element.rows) - element.header) |-> element.header + i])

EmitGroups(element, starts) ==
  Flattened([k \in DOMAIN starts |->
    EmitGroup(element, starts[k],
              IF k = Len(starts) THEN Len(element.rows) ELSE starts[k + 1] - 1)])

(* A table by its rows; element.header is the number of its header row,    *)
(* the rows before it come by themselves.                                  *)
TableChunks(element) ==
  LET count == Len(element.rows)
      whole == Caption(element) \o Markdown(element.rows)
  IN IF element.rows = << >>
     THEN Emit(Caption(element) \o element.text, <<element>>, "table", << >>)
     ELSE IF Len(whole) <= ContentBudget(element.path) \/ count = 1
     THEN Emit(whole, <<element>>, "table", <<1, count, 0>>)
     ELSE (IF element.header = 1 THEN << >> ELSE EmitPreamble(element))
            \o EmitGroups(element, GroupStarts(element))

Texts(elements) == [k \in DOMAIN elements |-> elements[k].text]

(* flush() *)
Flushed(state) ==
  IF state.pending = << >> THEN state
  ELSE [state EXCEPT
          !.done = @ \o Emit(Join(Texts(state.pending), <<LineBreak, LineBreak>>),
                             state.pending, "text", << >>),
          !.pending = << >>]

(* May the element join the pending ones?                                  *)
JoinsPending(state, element) ==
  LET first == state.pending[1]
  IN state.pending # << >> =>
       /\ first.page = element.page /\ first.path = element.path
       /\ Fits(Join(Append(Texts(state.pending), element.text), <<LineBreak, LineBreak>>),
               element.path)

IsLong(element) == element.kind = "paragraph" /\ ~ Fits(element.text, element.path)

(* An element that does not join what is pending.                          *)
AddApart(flushed, element) ==
  LET after == [flushed EXCEPT !.headings = << >>]
  IN CASE element.kind = "heading" -> [flushed EXCEPT !.headings = Append(@, element)]
       [] element.kind = "table" -> [after EXCEPT !.done = @ \o TableChunks(element)]
       [] element.kind = "code" \/ IsLong(element) ->
            [after EXCEPT !.done = @ \o Emit(element.text, <<element>>, element.kind, << >>)]
       [] OTHER -> [after EXCEPT !.pending = <<element>>]

AddElement(state, element) ==
  IF element.kind = "paragraph" /\ ~ IsLong(element) /\ JoinsPending(state, element)
  THEN [state EXCEPT !.headings = << >>, !.pending = Append(@, element)]
  ELSE AddApart(Flushed(state), element)

(* Headings that nothing follows become a chunk of their own.              *)
WithHeadings(last) ==
  IF last.headings = << >> THEN last.done
  ELSE last.done \o Emit(Join(Texts(last.headings), <<LineBreak>>),
                         last.headings, "heading", << >>)

Drafts(elements) ==
  WithHeadings(Flushed(
    Fold(AddElement, [done |-> << >>, pending |-> << >>, headings |-> << >>], elements)))

Tokens(chunk) ==
  Len(chunk.content) + MaxTokens - ContentBudget(chunk.path)

AreSiblings(left, right) ==
  left # right /\ Len(left) > 1 /\ right # << >> /\ Front(left) = Front(right)

(* Fault for checking: chunks of different pages are merged.               *)
MayMerge_AnyPage(left, right) ==
  /\ Tokens(left) < MinChunkTokens \/ Tokens(right) < MinChunkTokens
  /\ left.kind \in Body /\ right.kind \in Body
  /\ ~ left.split /\ ~ right.split /\ ~ left.merged
  /\ left.path = right.path \/ AreSiblings(left.path, right.path)

MayMerge(left, right) ==
  /\ Tokens(left) < MinChunkTokens \/ Tokens(right) < MinChunkTokens
  /\ left.page = right.page
  /\ left.kind \in Body /\ right.kind \in Body
  /\ ~ left.split /\ ~ right.split /\ ~ left.merged
  /\ left.path = right.path \/ AreSiblings(left.path, right.path)

(* Of two sections, each keeps its title in the text.                      *)
Merged(left, right) ==
  LET same == left.path = right.path
      Titled(chunk) == IF same THEN chunk.content ELSE <<Word, LineBreak>> \o chunk.content
  IN [left EXCEPT
        !.content = Titled(left) \o <<LineBreak, LineBreak>> \o Titled(right),
        !.path = IF same THEN @ ELSE Front(@),
        !.kind = "text", !.refs = @ \cup right.refs, !.merged = ~ same]

AddChunk(result, chunk) ==
  LET left == Last(result)
      merged == Merged(left, chunk)
  IN IF result # << >> /\ MayMerge(left, chunk) /\ Fits(merged.content, merged.path)
     THEN Append(Front(result), merged)
     ELSE Append(result, chunk)

ChunkDocument(elements) == Fold(AddChunk, << >>, Drafts(elements))

-----------------------------------------------------------------------------
(* Documents *)

FileBlock ==
  [kind : {"heading", "paragraph", "code", "table", "image", "sheet", "lines"},
   text : Text, rows : Seq(Text), caption : Text, header : Nat \ {0}, level : Nat,
   title : STRING, artifact : BOOLEAN, page : Nat]

(* Sheets and plain texts have nothing but rows; a table has rows or a     *)
(* text without any, and nothing else has rows.                            *)
IsOfFormat(block, format) ==
  IF format \in {"xlsx", "txt"}
  THEN /\ block.kind = IF format = "xlsx" THEN "sheet" ELSE "lines"
       /\ block.text = << >> /\ block.caption = << >> /\ ~ block.artifact
  ELSE /\ block.kind \notin {"sheet", "lines"}
       /\ block.kind = "heading" => block.level > 0
       /\ block.rows # << >> => block.kind = "table" /\ block.text = << >> /\ block.header = 1

(* The characters of a block, in the order of the file.                    *)
Flow(block) == block.caption \o block.text \o Flattened(block.rows)

(* The characters are numbered in the order of the file.                   *)
IsNumbered(flow) == \A i \in 1..(Len(flow) - 1) : flow[i].at < flow[i + 1].at

IsDocument(d) ==
  /\ d.format \in {"pdf", "markdown", "docx", "xlsx", "txt"} /\ d.uncached \in BOOLEAN
  /\ d.blocks \in Seq(FileBlock)
  /\ d.format = "txt" => Len(d.blocks) = 1
  /\ \A k \in DOMAIN d.blocks : IsOfFormat(d.blocks[k], d.format)
  /\ IsNumbered(Flattened([k \in DOMAIN d.blocks |-> Flow(d.blocks[k])]))

ChunkingInit == IsDocument(document) /\ outcome = "none" /\ chunks = << >>

(* process_document(), and what the worker is told of it.                  *)
Process(cleaned) ==
  IF ~ IsComplete(document, cleaned)
  THEN outcome' = "PARSE_INCOMPLETE" /\ UNCHANGED chunks
  ELSE /\ chunks' = ChunkDocument(cleaned)
       /\ outcome' = IF chunks' = << >> THEN "NO_USABLE_CONTENT" ELSE "CHUNKS"

ProcessDocument ==
  outcome = "none" /\ UNCHANGED document /\ Process(CleanDocument(ParseDocument(document)))

ChunkingSpec == ChunkingInit /\ [][ProcessDocument]_chunkingVars

-----------------------------------------------------------------------------
(* Properties *)

(* The characters of a body, of a block or an element.                     *)
CharactersOf(body) ==
  Range(BlockText(body)) \cup (UNION {Range(body.rows[r]) : r \in DOMAIN body.rows})
    \cup IF body.kind = "table" THEN Range(body.caption) ELSE {}

Solid(characters) == {c.at : c \in {x \in characters : x.kind # "line"}} \ {0}

(* The characters of the document that are in chunk i and in none before.  *)
Begun(i) ==
  Solid(Range(chunks[i].content))
    \ UNION {Solid(Range(chunks[j].content)) : j \in 1..(i - 1)}

Blocks == {b \in Range(document.blocks) : b.kind # "heading"}
Found == UNION {Begun(i) : i \in DOMAIN chunks}

(* A table that is a caption of nothing.                                   *)
IsBlankTable(block) == block.kind = "table" /\ Strip(block.text) = << >> /\ block.rows = << >>

(* Every character of a body or a table is in a chunk, and none of a       *)
(* header or footer.  Nothing is said of headings, which a chunk carries   *)
(* in its path and which are dropped when others follow them at once, nor  *)
(* of the caption of a block other than a table that has a text of its own *)
(* (code, an image that was read), which is dropped.                       *)
NothingIsLost ==
  \A b \in Blocks :
    IF b.artifact THEN Solid(CharactersOf(b)) \cap Found = {}
    ELSE IsBlankTable(b) \/ Solid(CharactersOf(b)) \subseteq Found

ChunksKeepTheOrder ==
  \A i, j \in DOMAIN chunks : i < j => \A a \in Begun(i), b \in Begun(j) : a < b

(* A chunk names the page, the source and a part of the path of what it    *)
(* has from an element, and the rows of its table that are in it, if they  *)
(* are not its header or caption.                                          *)
NamesItsSource(chunk, element) ==
  LET here == Solid(Range(chunk.content)) \cap Solid(CharactersOf(element))
  IN here # {} =>
       /\ chunk.page = element.page /\ element.ref \in chunk.refs
       /\ IsPrefix(chunk.path, element.path)
       /\ chunk.kind = "table" =>
            \A r \in DOMAIN element.rows :
              Solid(Range(element.rows[r])) \cap here # {} =>
                r = chunk.rows[3] \/ (chunk.rows[1] <= r /\ r <= chunk.rows[2])

ChunksNameTheirSources ==
  LET parsed == ParseDocument(document)
  IN \A i \in DOMAIN chunks, e \in DOMAIN parsed :
       parsed[e].kind # "heading" /\ ~ parsed[e].artifact => NamesItsSource(chunks[i], parsed[e])

(* A document is cut only when each of its pages and formulas was read.    *)
(* Then each chunk fits; each character of a body or table (see            *)
(* NothingIsLost for what is not one) is in a chunk, first in the order of *)
(* the document, and none of a header or footer; a chunk names the page,   *)
(* the source and a part of the path of everything in it, and the rows of  *)
(* its table that are in it, if they are not its header or caption.        *)
ChunksCarryTheDocument ==
  outcome = "CHUNKS" =>
    /\ ~ HasUnreadPage(document) /\ ~ document.uncached
    /\ \A i \in DOMAIN chunks : Tokens(chunks[i]) <= MaxTokens
    /\ NothingIsLost /\ ChunksKeepTheOrder /\ ChunksNameTheirSources
=============================================================================

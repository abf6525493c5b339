---------------------------- MODULE MarkdownView ----------------------------
(***************************************************************************)
(* client/lib/markdown/gwm-widget.js turns the syntax tree of a document   *)
(* into elements. A node says where it begins and where it ends in the     *)
(* source; text that belongs to no child is copied from between them, with *)
(* a position that is moved on child by child. A character is named by its *)
(* position in the source, and what is rendered is the positions copied.   *)
(***************************************************************************)
EXTENDS Integers, Sequences, SequencesExt

CONSTANTS
  Word,          \* inline pieces without parts: "text", "Escape", ...
  Span,          \* inline pieces with parts: "Emphasis", "Link", ...
  Block,         \* blocks
  MaxPieces      \* how many pieces stand in a row

VARIABLES doc, rendered

markdownVars == <<doc, rendered>>

NotYet == <<0>>
Node(name, from, to, kids) == [name |-> name, from |-> from, to |-> to, kids |-> kids]
Slice(a, b) == [i \in 1..(b - a) |-> a + i - 1]
-----------------------------------------------------------------------------
(* The parser: a piece is laid out at a position, and the character by     *)
(* character text a reader of the document expects of it is kept.          *)
Piece(name, parts) == [name |-> name, parts |-> parts]
Rows(S) == UNION {[1..n -> S] : n \in 1..MaxPieces}
Words == {Piece(w, <<>>) : w \in Word}
Inlines == Words \cup {Piece(s, parts) : s \in Span, parts \in Rows(Words)}
Documents == {Piece(b, parts) : b \in Block, parts \in Rows(Inlines)}

Laid(nodes, to, text) == [nodes |-> nodes, to |-> to, text |-> text]
Mark(name, pos) == Laid(<<Node(name, pos, pos + 1, <<>>)>>, pos + 1, <<>>)
Then(l, m) == Laid(l.nodes \o m.nodes, m.to, l.text \o m.text)
Wrap(name, pos, l) == Laid(<<Node(name, pos, l.to, l.nodes)>>, l.to, l.text)

RECURSIVE Lay(_, _)
LayAll(parts, l) == FoldLeft(LAMBDA m, p : Then(m, Lay(p, m.to)), l, parts)
LayMarked(open, parts, pos) == LayAll(parts, IF open = "" THEN Laid(<<>>, pos, <<>>) ELSE Mark(open, pos))
Closed(l, name) == Then(l, Mark(name, l.to))
Lay(p, pos) ==
  CASE p.name = "text" -> Laid(<<>>, pos + 1, <<pos>>)
    [] p.name \in {"HardBreak", "Comment"} -> Mark(p.name, pos)
    [] p.name = "Escape" -> Laid(<<Node(p.name, pos, pos + 2, <<>>)>>, pos + 2, <<pos + 1>>)
    [] p.name \in {"InlineCode", "Autolink", "Entity"} ->
         Laid(<<Node(p.name, pos, pos + 3, Mark("CodeMark", pos).nodes)>>, pos + 3, Slice(pos, pos + 3))
    [] p.name = "Emphasis" ->
         Wrap(p.name, pos, Closed(LayMarked("EmphasisMark", p.parts, pos), "EmphasisMark"))
    [] p.name \in {"Link", "Image"} ->
         LET label == Closed(LayMarked("LinkMark", p.parts, pos), "LinkMark")
             all == Closed(Closed(Closed(label, "LinkMark"), "URL"), "LinkMark")
         IN Wrap(p.name, pos, IF p.name = "Link" THEN all
                              ELSE [all EXCEPT !.text = Slice(pos + 1, label.to - 1)])
    [] p.name = "Paragraph" -> Wrap(p.name, pos, LayMarked("", p.parts, pos))
    [] p.name = "ATXHeading1" -> Wrap(p.name, pos, LayMarked("HeaderMark", p.parts, pos))
    [] p.name = "Task" -> Wrap(p.name, pos, LayMarked("TaskMarker", p.parts, pos))
    [] p.name = "Blockquote" ->
         LET quote == Mark("QuoteMark", pos) IN
         Wrap(p.name, pos, Then(quote, Lay(Piece("Paragraph", p.parts), quote.to)))
    [] p.name = "FencedCode" ->
         LET opened == Mark("CodeMark", pos)
             code == LayAll(p.parts, Mark("CodeInfo", opened.to)).to
         IN Wrap(p.name, pos, Laid(opened.nodes \o Mark("CodeInfo", opened.to).nodes
                                     \o <<Node("CodeText", pos + 2, code, <<>>)>> \o Mark("CodeMark", code).nodes,
                                   code + 1, Slice(pos + 1, code)))
    [] p.name = "Table" ->
         LET cell(at) == LET l == LayAll(p.parts, Laid(<<>>, at, <<>>)) IN
                         Laid(<<Node("TableCell", at, l.to, l.nodes)>>, l.to, Slice(at, l.to))
             row(at) == Then(Closed(cell(at), "TableDelimiter"), cell(cell(at).to + 1))
             head == Closed(Wrap("TableHeader", pos, row(pos)), "TableDelimiter")
         IN Wrap(p.name, pos, Then(head, Wrap("TableRow", head.to, row(head.to))))
-----------------------------------------------------------------------------
SKIP == {"HeaderMark", "QuoteMark", "ListMark", "EmphasisMark", "CodeMark", "LinkMark", "URL",
         "CodeInfo", "StrikethroughMark", "TableDelimiter"}
Shown(kids) == SelectSeq(kids, LAMBDA c : c.name \notin SKIP)
Named(node, name) == SelectSeq(node.kids, LAMBDA c : c.name = name)
Later(a, b) == IF a < b THEN b ELSE a

RECURSIVE RenderNode(_)

(* Where a child leaves the position: behind it, be it shown or not.       *)
BehindShown(pos, child) == IF child.name \in SKIP THEN pos ELSE child.to
Behind(pos, child) == child.to

(* attachChildren, and the loops of Task and Link that are written out.    *)
AttachChildren(node) ==
  LET step(a, c) == [pos |-> Behind(a.pos, c),
                     out |-> a.out \o Slice(a.pos, c.from) \o RenderNode(c)]
      all == FoldLeft(step, [pos |-> node.from, out |-> <<>>], node.kids)
  IN all.out \o Slice(all.pos, node.to)

RenderTask(node) ==
  LET step(a, c) == IF c.name = "TaskMarker" THEN [a EXCEPT !.pos = c.to]
                    ELSE [pos |-> c.to, out |-> a.out \o Slice(a.pos, c.from) \o RenderNode(c)]
      all == FoldLeft(step, [pos |-> node.from, out |-> <<>>], node.kids)
  IN all.out \o Slice(all.pos, node.to)

Label(node) ==
  LET marks == Named(node, "LinkMark")
  IN IF Len(marks) >= 2 THEN <<marks[1].to, marks[2].from>> ELSE <<node.from, node.to>>

RenderLink(node) ==
  LET step(a, c) == [pos |-> Later(a.pos, c.to),
                     out |-> a.out \o Slice(a.pos, c.from) \o RenderNode(c)]
      all == FoldLeft(step, [pos |-> Label(node)[1], out |-> <<>>], Shown(node.kids))
  IN all.out \o Slice(all.pos, Label(node)[2])

RenderImage(node) == Slice(Label(node)[1], Label(node)[2])

RenderFenced(node) ==
  FlattenSeq([i \in DOMAIN Named(node, "CodeInfo") |->
                Slice(Named(node, "CodeInfo")[i].from, Named(node, "CodeInfo")[i].to)])
    \o (IF Named(node, "CodeText") = <<>> THEN <<>>
        ELSE Slice(Named(node, "CodeText")[1].from, Named(node, "CodeText")[1].to))

(* Tables: the rows, and of a row the cells, as they are in the source.    *)
RenderTable(node) == FoldLeft(LAMBDA out, c : out \o RenderNode(c), <<>>, Shown(node.kids))
RenderRow(node) == FoldLeft(LAMBDA out, c : out \o Slice(c.from, c.to), <<>>, Shown(node.kids))

RenderNode(node) ==
  CASE node.name \in SKIP \cup {"Comment", "HardBreak"} -> <<>>
    [] node.name \in {"ATXHeading1", "Paragraph", "Blockquote", "Emphasis"} -> AttachChildren(node)
    [] node.name = "Task" -> RenderTask(node)
    [] node.name = "FencedCode" -> RenderFenced(node)
    [] node.name = "Link" -> RenderLink(node)
    [] node.name = "Image" -> RenderImage(node)
    [] node.name = "Escape" -> <<node.from + 1>>
    [] node.name = "Table" -> RenderTable(node)
    [] node.name \in {"TableHeader", "TableRow"} -> RenderRow(node)
    [] OTHER -> Slice(node.from, node.to)
-----------------------------------------------------------------------------
Init == doc \in Documents /\ rendered = NotYet

(* buildContent, for a document of one block *)
Render ==
  /\ rendered = NotYet
  /\ rendered' = RenderNode(Lay(doc, 1).nodes[1])
  /\ UNCHANGED doc

Next == Render
-----------------------------------------------------------------------------
(* Every character of the text is shown, once and in its order, however    *)
(* the pieces are nested, and no mark of the syntax is. (Of a link with a  *)
(* title this is not so: the title, and what stands between it and the     *)
(* label, is copied too. Such links are not among the documents.)          *)
TextShownOnce == rendered \in {NotYet, Lay(doc, 1).text}
=============================================================================

------------------------------ MODULE NoteChunks ------------------------------
(***************************************************************************)
(* How a note is cut into chunks for the embedding index (turbovault-      *)
(* tools, embedding_engine.rs): the tree of its sections, and from it the  *)
(* largest pieces that stay below a limit, with some blocks repeated.      *)
(*                                                                         *)
(* Text is a sequence of characters, each a number of its own; zero ends a *)
(* line, and the hashes of a heading are -1.                               *)
(***************************************************************************)
EXTENDS Integers, FiniteSets, Sequences, SequencesExt

Paragraphs(parts) == FoldLeft(LAMBDA t, x : IF x = <<>> THEN t ELSE IF t = <<>> THEN x ELSE t \o <<0, 0>> \o x, <<>>, parts)
Lines(parts) == FoldLeft(LAMBDA t, x : IF t = <<>> THEN x ELSE t \o <<0>> \o x, <<>>, parts)
NoHeading == [level |-> 0, text |-> <<>>]

-----------------------------------------------------------------------------
(* The sections.  A line is [kind, level, text]: of text, blank, a heading *)
(* or a fence.                                                             *)

Node(parent, heading) == [parent |-> parent, heading |-> heading, blocks |-> <<>>, children |-> <<>>]

FlushBlock(t) ==
  LET text == Lines(t.buffer) IN
  IF text = <<>> THEN t
  ELSE [t EXCEPT !.nodes[t.at].blocks = Append(@, IF Last(text) = 0 THEN Front(text) ELSE text), !.buffer = <<>>]

\* The section a heading goes into: the first around the present one that is above it.
RECURSIVE Above(_, _, _)
Above(nodes, at, level) ==
  IF at = 1 \/ nodes[at].heading.level < level THEN at ELSE Above(nodes, nodes[at].parent, level)

\* In a fence a heading is text.  A blank line ends the fence too.
SectionLine(t, line) ==
  LET text == [t EXCEPT !.buffer = Append(@, line.text)] IN
  CASE line.kind = "fence" -> [text EXCEPT !.fenced = ~@]
    [] line.kind = "blank" /\ t.fenced -> [text EXCEPT !.fenced = FALSE]
    [] line.kind = "blank" /\ ~t.fenced -> FlushBlock(t)
    [] line.kind = "heading" /\ ~t.fenced ->
         LET u == FlushBlock(t)
             parent == Above(u.nodes, u.at, line.level)
             new == Len(u.nodes) + 1
         IN  [u EXCEPT !.nodes = [Append(@, Node(parent, [level |-> line.level, text |-> line.text]))
                                    EXCEPT ![parent].children = Append(@, new)],
                       !.at = new]
    [] OTHER -> text

SectionTree(lines) ==
  FlushBlock(FoldLeft(SectionLine, [nodes |-> <<Node(0, NoHeading)>>, at |-> 1, buffer |-> <<>>, fenced |-> FALSE], lines)).nodes

RECURSIVE Render(_, _)
Render(nodes, id) ==
  LET h == nodes[id].heading IN
  Paragraphs((IF h = NoHeading THEN <<>> ELSE <<[k \in 1 .. h.level + 1 |-> -1] \o h.text>>) \o nodes[id].blocks
             \o [i \in DOMAIN nodes[id].children |-> Render(nodes, nodes[id].children[i])])

-----------------------------------------------------------------------------
(* Blocks are packed; one that is too long is split, at the ends of its    *)
(* lines if that makes the pieces short enough.                            *)

SplitLines(text) ==
  LET ends == SelectSeq([k \in 1 .. Len(text) + 1 |-> k], LAMBDA k : k = Len(text) + 1 \/ text[k] = 0)
  IN  [i \in DOMAIN ends |-> SubSeq(text, IF i = 1 THEN 1 ELSE ends[i - 1] + 1, ends[i] - 1)]

Closed(t) == IF t.now = <<>> THEN t.packed ELSE Append(t.packed, t.now)
Joined(now, part) == IF now = <<>> THEN part ELSE now \o <<0>> \o part
PackLines(parts, max) ==
  Closed(FoldLeft(LAMBDA t, part : IF Len(Joined(t.now, part)) <= max THEN [t EXCEPT !.now = Joined(@, part)]
                                   ELSE [packed |-> Append(t.packed, t.now), now |-> part],
                  [packed |-> <<>>, now |-> <<>>], parts))
SplitAndPack(text, parts, max) ==
  IF Len(parts) < 2 \/ \E i \in DOMAIN parts : Len(parts[i]) > max THEN <<text>> ELSE PackLines(parts, max)

RECURSIVE Slabs(_, _)
Slabs(text, max) == IF Len(text) <= max THEN <<text>> ELSE <<SubSeq(text, 1, max)>> \o Slabs(SubSeq(text, max + 1, Len(text)), max)

Pieces(block, pieces, max) ==
  IF Len(pieces) > 1 /\ \A i \in DOMAIN pieces : Len(pieces[i]) <= max THEN pieces ELSE Slabs(block, max)
SplitOversized(block, max) ==
  IF Len(block) <= max THEN <<block>> ELSE Pieces(block, SplitAndPack(block, SplitLines(block), max), max)

\* The last blocks that fit into the overlap together.
RECURSIVE Trailing(_, _)
Trailing(blocks, room) ==
  IF blocks = <<>> \/ Len(Last(blocks)) > room THEN <<>>
  ELSE Append(Trailing(Front(blocks), room - Len(Last(blocks)) - 2), Last(blocks))

TrailingWholeBlocks(blocks, overlap) == IF overlap = 0 \/ Len(blocks) < 2 THEN <<>> ELSE Trailing(blocks, overlap)

\* A chunk begins with blocks repeated from the one before, if there is room.
Fits(blocks, max) == Len(Paragraphs(blocks)) <= max
PackUnit(t, unit, carry, max) ==
  CASE Fits(Append(t.now, unit), max) -> [t EXCEPT !.now = Append(@, unit)]
    [] ~Fits(Append(t.now, unit), max) /\ Fits(Append(carry, unit), max) -> [packed |-> Closed(t), now |-> Append(carry, unit)]
    [] OTHER -> [packed |-> Closed(t), now |-> <<unit>>]
PackUnits(units, max, overlap) ==
  Closed(FoldLeft(LAMBDA t, unit : PackUnit(t, unit, TrailingWholeBlocks(t.now, overlap), max), [packed |-> <<>>, now |-> <<>>], units))
Labelled(packed, heading) == [i \in DOMAIN packed |-> [heading |-> heading, text |-> Paragraphs(packed[i])]]
PackBlocks(blocks, heading, max, overlap) ==
  Labelled(PackUnits(FlattenSeq([i \in DOMAIN blocks |-> SplitOversized(blocks[i], max)]), max, overlap), heading)

-----------------------------------------------------------------------------

\* A section that fits is one chunk.  Of one that does not, the blocks are packed,
\* neighbouring subsections go together while they fit, and those that do not fit
\* are cut up in turn.
Group(t, nodes, label) ==
  IF t.ids = <<>> THEN t
  ELSE [chunks |-> Append(t.chunks, [heading |-> IF Len(t.ids) = 1 THEN Append(label, nodes[t.ids[1]].heading.text) ELSE label,
                                     text |-> t.text]),
        ids |-> <<>>, text |-> <<>>]
Include(t, c, text) == [t EXCEPT !.ids = Append(@, c), !.text = Paragraphs(<<@, text>>)]

RECURSIVE EmitSection(_, _, _, _, _, _)
EmitSection(nodes, id, whole, label, max, overlap) ==
  LET Child(t, c, text) ==
        CASE Len(text) > max ->
               [Group(t, nodes, label) EXCEPT !.chunks = @ \o EmitSection(nodes, c, text, Append(label, nodes[c].heading.text), max, overlap)]
          [] Len(text) <= max /\ ~Fits(<<t.text, text>>, max) -> Include(Group(t, nodes, label), c, text)
          [] OTHER -> Include(t, c, text)
      None == [chunks |-> <<>>, ids |-> <<>>, text |-> <<>>]
  IN  IF Len(whole) <= max THEN <<[heading |-> label, text |-> whole]>>
      ELSE PackBlocks(nodes[id].blocks, label, max, overlap)
             \o Group(FoldLeft(LAMBDA t, c : Child(t, c, Render(nodes, c)), None, nodes[id].children), nodes, label).chunks

\* A first heading that is the note's title is not a section of its own.
Wraps(nodes, title) ==
  LET top == nodes[1].children IN
  /\ Len(top) = 1 /\ nodes[1].blocks = <<>>
  /\ nodes[top[1]].heading.level = 1 /\ nodes[top[1]].heading.text = title /\ nodes[top[1]].children # <<>>
ChunkTree(nodes, body, around, max, overlap) ==
  PackBlocks(nodes[body].blocks, around, max, overlap)
    \o FlattenSeq([i \in DOMAIN nodes[body].children |->
         LET c == nodes[body].children[i] IN EmitSection(nodes, c, Render(nodes, c), Append(around, nodes[c].heading.text), max, overlap)])
ChunkNodes(nodes, title, max, overlap) ==
  IF Wraps(nodes, title) THEN ChunkTree(nodes, nodes[1].children[1], <<title>>, max, overlap) ELSE ChunkTree(nodes, 1, <<>>, max, overlap)
ChunkMarkdown(lines, title, max, overlap) == ChunkNodes(SectionTree(lines), title, max, overlap)

-----------------------------------------------------------------------------

\* No chunk is longer than the limit; every character of the note's text is in
\* some chunk, and the first chunks that have them are in the note's order; a
\* chunk repeats at most the overlap, from the chunk right before it; and its
\* heading is the path of a section it has text of.
ChunksHoldTheNote(lines, max, overlap, chunks) ==
  LET body == FlattenSeq([i \in DOMAIN lines |-> IF lines[i].kind \in {"text", "fence"} THEN lines[i].text ELSE <<>>])
      Chars(k) == {c \in Range(chunks[k].text) : c > 0}
      New(k) == SelectSeq(chunks[k].text, LAMBDA c : c > 0 /\ \A j \in 1 .. k - 1 : c \notin Chars(j))
      Seen == FlattenSeq([k \in DOMAIN chunks |-> New(k)])
  IN  /\ \A k \in DOMAIN chunks : Len(chunks[k].text) <= max
      /\ SelectSeq(Seen, LAMBDA c : c \in Range(body)) = body
      /\ \A k \in DOMAIN chunks : \A j \in 1 .. k - 1 : Chars(k) \cap Chars(j) # {} =>
           /\ j = k - 1
           /\ Cardinality(Chars(k) \cap Chars(j)) <= overlap
      /\ \A k \in DOMAIN chunks : \A i \in DOMAIN lines : lines[i].kind = "text" /\ Range(lines[i].text) \cap Chars(k) # {} =>
           \A h \in Range(chunks[k].heading) : \E j \in 1 .. i : lines[j].text = h
=============================================================================

------------------------------ MODULE NoteBlocks ------------------------------
(***************************************************************************)
(* The block parser (turbovault-parser, blocks.rs): it takes the events of *)
(* a markdown parser one by one, gathers text in the buffer its flags call *)
(* for, and puts a block out when the element ends.  There is one buffer   *)
(* of each kind and one flag, however deep elements nest.                  *)
(*                                                                         *)
(* A piece of text, and a link's or image's destination, is the number of  *)
(* its event; a buffer is a sequence of them.                              *)
(***************************************************************************)
EXTENDS Naturals, Sequences, FiniteSets, SequencesExt

CONSTANTS
  MaxTexts,   \* pieces of text and destinations
  MaxOpens,   \* elements
  MaxDepth    \* how deep they nest

VARIABLES
  open,       \* the elements that are open, the innermost last
  s,          \* the parser's state
  n, dests,   \* pieces so far, and those that are destinations
  opens,      \* elements so far
  odd         \* what the parser is known not to cope with
blockVars == <<open, s, n, dests, opens, odd>>

Lists == {"list", "tightList"}
Items == {"item", "tightItem"}

Start ==
  [out |-> <<>>, para |-> <<>>, inl |-> <<>>, items |-> <<>>, blocks |-> <<>>, code |-> <<>>, quote |-> <<>>,
   heading |-> <<>>, row |-> <<>>, table |-> <<>>, label |-> <<>>, url |-> 0, savedUrl |-> 0,
   task |-> "none", saved |-> <<>>, lists |-> 0, depth |-> 0,
   inPara |-> FALSE, inList |-> FALSE, inCode |-> FALSE, inQuote |-> FALSE, inTable |-> FALSE,
   inHeading |-> FALSE, inLink |-> FALSE, inImage |-> FALSE, imageInLink |-> FALSE]

Block(kind, texts, inline) == [kind |-> kind, texts |-> texts, inline |-> inline]

-----------------------------------------------------------------------------
(* A block goes out when its flag is up and its buffer is not empty; only  *)
(* then is the flag taken down.                                            *)

FlushPara(t) ==
  IF ~t.inPara \/ t.para = <<>> THEN t
  ELSE [t EXCEPT !.out = Append(@, Block("paragraph", t.para, t.inl)), !.para = <<>>, !.inl = <<>>, !.inPara = FALSE]

FlushCode(t) ==
  IF ~t.inCode \/ t.code = <<>> THEN t
  ELSE [t EXCEPT !.out = Append(@, Block("code", t.code, <<>>)), !.code = <<>>, !.inCode = FALSE]

FlushQuote(t) ==
  IF ~t.inQuote \/ t.quote = <<>> THEN t
  ELSE [t EXCEPT !.out = Append(@, Block("quote", t.quote, t.quote)), !.quote = <<>>, !.inQuote = FALSE]

ItemTexts(item) == item.texts \o FlattenSeq([i \in DOMAIN item.blocks |-> item.blocks[i].texts])

\* An item has the inline elements of the blocks in it.
ItemInline(item) == item.inline \o FlattenSeq([i \in DOMAIN item.blocks |-> item.blocks[i].inline])

FlushList(t) ==
  IF ~t.inList \/ t.items = <<>> THEN t
  ELSE [t EXCEPT !.out = Append(@, [kind |-> "list", items |-> t.items,
                                    texts |-> FlattenSeq([i \in DOMAIN t.items |-> ItemTexts(t.items[i])]),
                                    inline |-> FlattenSeq([i \in DOMAIN t.items |-> ItemInline(t.items[i])])]),
                 !.items = <<>>, !.inList = FALSE]

FlushTable(t) ==
  IF ~t.inTable \/ t.table = <<>> THEN t
  ELSE [t EXCEPT !.out = Append(@, Block("table", FlattenSeq(t.table), <<>>)),
                 !.table = <<>>, !.row = <<>>, !.para = <<>>, !.inl = <<>>, !.inTable = FALSE]

Finalize(t) == FlushTable(FlushQuote(FlushCode(FlushList(FlushPara(t)))))

-----------------------------------------------------------------------------
(* Elements begin.                                                         *)

\* A nested item puts its task marker into the text.
Marked(t) == IF t.inList /\ t.depth > 1 THEN [t EXCEPT !.task = "none"] ELSE t

\* An image in a link keeps the link's destination for its end.
StartImage(t, id) ==
  [t EXCEPT !.imageInLink = @ \/ t.inLink, !.savedUrl = IF t.inLink THEN t.url ELSE @,
            !.inImage = TRUE, !.url = id, !.label = <<>>]

Begin(t, tag, id) ==
  CASE tag = "paragraph" -> [t EXCEPT !.inPara = TRUE]
    [] tag = "code"  -> [t EXCEPT !.inCode = TRUE]
    [] tag \in Lists -> [t EXCEPT !.lists = @ + 1, !.inList = @ \/ t.lists = 0]
    [] tag \in Items ->
         IF t.depth = 0 THEN [t EXCEPT !.depth = 1, !.para = <<>>, !.inl = <<>>, !.blocks = <<>>]
         ELSE [t EXCEPT !.depth = @ + 1, !.saved = Append(@, t.task), !.task = "none"]
    [] tag = "quote" -> [t EXCEPT !.inQuote = TRUE]
    [] tag = "table" -> [t EXCEPT !.inTable = TRUE]
    [] tag = "row"   -> t
    [] tag = "cell"  -> [t EXCEPT !.para = <<>>, !.inl = <<>>]
    [] tag = "heading" -> [FlushPara(t) EXCEPT !.inHeading = TRUE, !.heading = <<>>]
    [] tag = "link"  -> [Marked(t) EXCEPT !.inLink = TRUE, !.url = id, !.label = <<>>]
    [] tag = "image" -> StartImage(t, id)

-----------------------------------------------------------------------------
(* Elements end.                                                           *)

\* In a quote all is kept for the second parse; in an item, for the item.
EndParagraph(t) ==
  IF t.inQuote THEN [t EXCEPT !.inPara = FALSE]
  ELSE IF t.depth >= 1 /\ t.inPara /\ t.para # <<>>
  THEN [t EXCEPT !.blocks = Append(@, Block("paragraph", t.para, t.inl)),
                 !.para = <<>>, !.inl = <<>>, !.inPara = FALSE]
  ELSE FlushPara(t)

EndCode(t) ==
  IF t.inQuote /\ t.inCode THEN [t EXCEPT !.quote = @ \o t.code, !.code = <<>>, !.inCode = FALSE]
  ELSE IF t.depth >= 1 /\ t.inCode /\ t.code # <<>>
  THEN [t EXCEPT !.blocks = Append(@, Block("code", t.code, <<>>)), !.code = <<>>, !.inCode = FALSE]
  ELSE FlushCode(t)

\* The text of an item is what has gathered, or else its first paragraph.
EndItem(t) ==
  LET first == t.para = <<>> /\ t.blocks # <<>> /\ t.blocks[1].kind = "paragraph"
      item == [checked |-> t.task,
               texts   |-> IF first THEN t.blocks[1].texts ELSE t.para,
               inline  |-> IF first THEN t.blocks[1].inline ELSE IF t.para # <<>> THEN t.inl ELSE <<>>,
               blocks  |-> IF first THEN Tail(t.blocks) ELSE t.blocks]
  IN  IF t.depth > 1 THEN [t EXCEPT !.task = Last(t.saved), !.saved = Front(@), !.depth = @ - 1]
      ELSE [t EXCEPT !.items = Append(@, item), !.para = <<>>, !.inl = <<>>, !.blocks = <<>>,
                     !.task = "none", !.depth = 0]

EndHeading(t) ==
  [t EXCEPT !.out = IF t.inHeading /\ t.heading # <<>> THEN Append(@, Block("heading", t.heading, t.heading)) ELSE @,
            !.inHeading = FALSE, !.heading = <<>>]

\* Label and destination are written back: to the quote, or to the text.
EndLink(t) ==
  LET url == IF t.imageInLink THEN t.savedUrl ELSE t.url
      done == [t EXCEPT !.inLink = FALSE, !.label = <<>>, !.url = 0, !.savedUrl = 0, !.imageInLink = FALSE]
  IN  IF t.inQuote
      THEN [done EXCEPT !.quote = @ \o t.label \o (IF t.imageInLink THEN <<t.url, url>> ELSE <<url>>)]
      ELSE [done EXCEPT !.inl = @ \o t.label \o <<url>>, !.para = @ \o t.label \o <<url>>]

EndImage(t) ==
  LET whole == t.label \o <<t.url>>
      done == [t EXCEPT !.inImage = FALSE, !.label = <<>>, !.url = 0]
  IN  IF t.inQuote /\ ~t.imageInLink THEN [done EXCEPT !.quote = @ \o whole]
      ELSE IF t.imageInLink THEN [t EXCEPT !.inImage = FALSE, !.inl = @ \o whole]
      ELSE IF t.inPara \/ t.depth >= 1 THEN [done EXCEPT !.inl = @ \o whole, !.para = @ \o whole]
      ELSE [FlushPara(done) EXCEPT !.out = Append(@, Block("image", whole, whole)), !.para = <<>>]

Finish(t, tag) ==
  CASE tag = "paragraph" -> EndParagraph(t)
    [] tag = "code"  -> EndCode(t)
    [] tag \in Lists -> LET u == [t EXCEPT !.lists = @ - 1] IN IF u.lists = 0 THEN FlushList(u) ELSE u
    [] tag \in Items -> EndItem(t)
    [] tag = "quote" -> FlushQuote(t)
    [] tag = "table" -> FlushTable(t)
    [] tag = "row"   -> [t EXCEPT !.table = Append(@, FlattenSeq(t.row)), !.row = <<>>]
    [] tag = "cell"  -> [t EXCEPT !.row = Append(@, t.para), !.para = <<>>, !.inl = <<>>]
    [] tag = "heading" -> EndHeading(t)
    [] tag = "link"  -> EndLink(t)
    [] tag = "image" -> EndImage(t)

-----------------------------------------------------------------------------
(* Text.                                                                   *)

Plain(t, id) == [Marked(t) EXCEPT !.para = Append(@, id), !.inl = Append(@, id)]

Say(t, id) ==
  CASE t.inCode -> [t EXCEPT !.code = Append(@, id)]
    [] ~t.inCode /\ t.inQuote /\ (t.inImage \/ t.inLink) -> [t EXCEPT !.label = Append(@, id)]
    [] ~t.inCode /\ t.inQuote /\ ~(t.inImage \/ t.inLink) -> [t EXCEPT !.quote = Append(@, id)]
    [] ~t.inCode /\ ~t.inQuote /\ t.inHeading -> [t EXCEPT !.heading = Append(@, id)]
    [] ~t.inCode /\ ~t.inQuote /\ ~t.inHeading /\ (t.inLink \/ t.inImage) -> [t EXCEPT !.label = Append(@, id)]
    [] OTHER -> Plain(t, id)

\* Inline code does not look at links and images.
SayCode(t, id) ==
  CASE t.inHeading -> [t EXCEPT !.heading = Append(@, id)]
    [] ~t.inHeading /\ t.inQuote -> [t EXCEPT !.quote = Append(@, id)]
    [] ~t.inHeading /\ ~t.inQuote /\ t.inTable -> [t EXCEPT !.para = Append(@, id)]
    [] OTHER -> [t EXCEPT !.para = Append(@, id), !.inl = Append(@, id)]

-----------------------------------------------------------------------------
(* The events: elements nest as the markdown parser lets them.             *)

Inner == IF open = <<>> THEN "top" ELSE Last(open)
Within(tag) == tag \in Range(open)

Flow == {"paragraph", "code", "quote", "table", "heading"} \cup Lists

\* What may begin in an element.  The items of a tight list hold their text
\* themselves, those of a loose one in paragraphs.
MayHold(tag) ==
  CASE tag \in {"top", "quote", "item"} -> Flow
    [] tag = "tightItem" -> (Flow \ {"paragraph"}) \cup {"link", "image"}
    [] tag = "list"  -> {"item"}
    [] tag = "tightList" -> {"tightItem"}
    [] tag = "table" -> {"row"}
    [] tag = "row"   -> {"cell"}
    [] tag \in {"paragraph", "heading", "cell"} -> {"link", "image"}
    [] tag = "link"  -> {"image"}
    [] OTHER -> {}

HoldsText(tag) == tag \in {"paragraph", "heading", "cell", "tightItem", "link", "image", "code"}

\* What the parser puts elsewhere or takes for something else: blocks other than
\* paragraphs and code in an item or a quote, destinations in headings and cells,
\* and an image that is not all of its link's label.
Misplaced(tag) ==
  \/ tag \in Lists /\ Within("quote")
  \/ tag \in {"quote", "table", "heading"} /\ (s.depth > 0 \/ Within("quote"))
  \/ tag \in {"link", "image"} /\ Within("heading")
  \/ tag = "image" /\ (Within("cell") \/ (s.inLink /\ (s.label # <<>> \/ s.imageInLink)))

\* Text that an item holds itself, behind a block of its own or of the item around
\* it: it is put before that block.
Behind == Within("tightItem") /\ s.blocks # <<>>

BlocksInit == open = <<>> /\ s = Start /\ n = 0 /\ dests = {} /\ opens = 0 /\ odd = FALSE

Open(tag) ==
  /\ tag \in MayHold(Inner) /\ opens < MaxOpens /\ Len(open) < MaxDepth
  /\ tag \in {"link", "image"} => n < MaxTexts
  /\ s' = Begin(s, tag, n + 1)
  /\ open' = Append(open, tag) /\ opens' = opens + 1
  /\ n' = IF tag \in {"link", "image"} THEN n + 1 ELSE n
  /\ dests' = IF tag \in {"link", "image"} THEN dests \cup {n + 1} ELSE dests
  /\ odd' = (odd \/ Misplaced(tag))

\* An empty fenced block or quote leaves its flag up: what follows is taken for its
\* text.
Close ==
  /\ open # <<>>
  /\ s' = Finish(s, Inner)
  /\ open' = Front(open)
  /\ odd' = (odd \/ (Inner = "code" /\ s.code = <<>> /\ ~s.inQuote) \/ (Inner = "quote" /\ s.quote = <<>>))
  /\ UNCHANGED <<n, dests, opens>>

Text ==
  /\ HoldsText(Inner) /\ n < MaxTexts
  /\ s' = Say(s, n + 1) /\ n' = n + 1
  /\ odd' = (odd \/ Behind)
  /\ UNCHANGED <<open, dests, opens>>

InlineCode ==
  /\ HoldsText(Inner) /\ Inner # "code" /\ n < MaxTexts
  /\ s' = SayCode(s, n + 1) /\ n' = n + 1
  /\ odd' = (odd \/ Behind \/ Inner \in {"link", "image"})
  /\ UNCHANGED <<open, dests, opens>>

TaskListMarker ==
  /\ Inner \in Items /\ s.task = "none"
  /\ \E checked \in {"yes", "no"} : s' = [s EXCEPT !.task = checked]
  /\ UNCHANGED <<open, n, dests, opens, odd>>

BlocksNext == Close \/ Text \/ InlineCode \/ TaskListMarker \/ \E tag \in Flow \cup Items \cup {"row", "cell", "link", "image"} : Open(tag)

-----------------------------------------------------------------------------

Texts == LET out == Finalize(s).out IN FlattenSeq([i \in DOMAIN out |-> out[i].texts])
Inline == LET out == Finalize(s).out IN FlattenSeq([i \in DOMAIN out |-> out[i].inline])

\* When the note ends, every piece of text is in the blocks, once and in the
\* note's order, whatever stood between; no link or image lost its destination.
BlocksKeepText ==
  open = <<>> /\ ~odd =>
    /\ SelectSeq(Texts, LAMBDA x : x \notin dests) = SelectSeq([i \in 1 .. n |-> i], LAMBDA x : x \notin dests)
    /\ dests \subseteq Range(Texts) \cup Range(Inline)

=============================================================================

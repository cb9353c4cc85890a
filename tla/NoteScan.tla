------------------------------- MODULE NoteScan -------------------------------
(***************************************************************************)
(* The parse engine (turbovault-parser, engine.rs).  One pass over the     *)
(* events of a markdown parser finds headings, tasks and links and notes   *)
(* the ranges where nothing else is looked for; passes over the text find  *)
(* wikilinks, embeds, tags, callouts and the tasks that markdown does not  *)
(* know.                                                                   *)
(*                                                                         *)
(* A note is a sequence of pieces, and a piece's offset is its number less *)
(* one; "mark" is what opens an element.                                   *)
(***************************************************************************)
EXTENDS Naturals, Sequences, FiniteSets, SequencesExt

CONSTANTS MaxPieces, MaxNested   \* pieces of a note, and how deep elements nest

VARIABLES
  note,      \* the pieces
  within,    \* the elements that are open, as [tag, start], the innermost last
  p,         \* what the first pass keeps
  elements,  \* every element so far, as [tag, from, to, texts, codes, nested]
  found      \* what the engine answers, once it has
scanVars == <<note, within, p, elements, found>>

\* Plain words are to the engine what a tag or a link is, but never looked for.
InText == {"wikilink", "anchor", "embed", "tag"}
AtLineStart == {"callout", "quote", "extendedTask"}
Verbatim == {"codeBlock", "code", "html"}

NoFinding == [headings |-> <<>>, tasks |-> <<>>, links |-> <<>>]

Fresh == [excluded |-> <<>>, bodyStart |-> 0, inCodeBlock |-> FALSE, codeStart |-> 0, inMeta |-> FALSE,
          inHeading |-> FALSE, heading |-> <<>>, inTask |-> FALSE, task |-> <<>>,
          inLink |-> FALSE, label |-> <<>>, linkStart |-> 0, imageStart |-> 0, result |-> NoFinding]

-----------------------------------------------------------------------------
(* Ranges that are left alone.                                             *)

Exclude(t, from, to) == [t EXCEPT !.excluded = Append(@, <<from, to>>)]

\* Sorted, and what overlaps or touches made one.
Optimize(ranges) ==
  FoldLeft(LAMBDA merged, r :
             IF merged # <<>> /\ r[1] <= Last(merged)[2]
             THEN Append(Front(merged), <<Last(merged)[1], IF r[2] > Last(merged)[2] THEN r[2] ELSE Last(merged)[2]>>)
             ELSE Append(merged, r),
           <<>>, SortSeq(ranges, LAMBDA a, b : a[1] < b[1]))

\* Only the last range that starts by the offset is looked at.
Hides(ranges, offset) ==
  LET index == Cardinality({i \in DOMAIN ranges : ranges[i][1] <= offset})
  IN  index > 0 /\ offset < ranges[index][2]

-----------------------------------------------------------------------------
(* The first pass.                                                         *)

Begins(t, tag, start) ==
  CASE tag = "metadata"  -> [t EXCEPT !.inMeta = TRUE]
    [] tag = "codeBlock" -> [t EXCEPT !.inCodeBlock = TRUE, !.codeStart = start]
    [] tag = "heading"   -> [t EXCEPT !.inHeading = TRUE, !.heading = <<>>]
    [] tag = "task"      -> [t EXCEPT !.inTask = TRUE]
    [] tag = "link" /\ ~t.inCodeBlock  -> [t EXCEPT !.inLink = TRUE, !.label = <<>>, !.linkStart = start]
    [] tag = "image" /\ ~t.inCodeBlock -> [t EXCEPT !.imageStart = start]
    [] OTHER -> t

\* Inline code is heard of as one event, when it is over.
Ends(t, tag, start, end) ==
  CASE tag = "metadata"  -> [t EXCEPT !.inMeta = FALSE, !.bodyStart = end]
    [] tag = "codeBlock" -> [Exclude(t, t.codeStart, end) EXCEPT !.inCodeBlock = FALSE]
    [] tag = "code"      -> [Exclude(t, start, end) EXCEPT
                               !.heading = IF t.inHeading THEN @ \o [k \in 1 .. end - start - 1 |-> start + k] ELSE @]
    [] tag = "html"      -> Exclude(t, start, end)
    [] tag = "heading"   -> [t EXCEPT !.inHeading = FALSE, !.result.headings = Append(@, t.heading)]
    [] tag \in {"item", "task"} /\ t.inTask ->
         [t EXCEPT !.inTask = FALSE, !.task = <<>>, !.result.tasks = IF t.task = <<>> THEN @ ELSE Append(@, t.task)]
    [] tag = "link"      -> [Exclude(t, t.linkStart, end) EXCEPT
                               !.inLink = FALSE, !.label = <<>>, !.result.links = Append(@, t.label)]
    [] tag = "image"     -> Exclude(t, t.imageStart, end)
    [] OTHER -> t

\* Text belongs to the first of these that is open.
TextEvent(t, offset) ==
  CASE t.inMeta -> t
    [] ~t.inMeta /\ t.inHeading -> [t EXCEPT !.heading = Append(@, offset)]
    [] ~t.inMeta /\ ~t.inHeading /\ t.inTask -> [t EXCEPT !.task = Append(@, offset)]
    [] ~t.inMeta /\ ~t.inHeading /\ ~t.inTask /\ t.inLink -> [t EXCEPT !.label = Append(@, offset)]
    [] OTHER -> t

-----------------------------------------------------------------------------
(* The passes over the text behind the front matter.                       *)

Offsets(kinds, from, to) == SelectSeq([k \in 1 .. to - from |-> from + k - 1], LAMBDA o : note[o + 1] \in kinds)
InBody(kinds) == Offsets(kinds, p.bodyStart, Len(note))
Visible(kinds, ranges) == SelectSeq(InBody(kinds), LAMBDA o : ~Hides(ranges, o))

\* Front matter is scanned for links on its own.
Wikilinks(ranges) == Offsets({"wikilink", "anchor"}, 0, p.bodyStart) \o Visible({"wikilink", "anchor"}, ranges)
Embeds(ranges) == Offsets({"embed"}, 0, p.bodyStart) \o Visible({"embed"}, ranges)

\* The "#" of a heading that is linked to is no tag.
Tags(ranges) ==
  LET spans == FoldLeft(LAMBDA seq, o : Append(seq, <<o, o + 1>>), ranges, InBody({"wikilink", "anchor", "embed"}))
  IN  Visible({"tag", "anchor"}, Optimize(spans))

\* The first piece of every line of the body.
LineStarts == SelectSeq([k \in 1 .. Len(note) - p.bodyStart |-> p.bodyStart + k - 1],
                        LAMBDA o : o = p.bodyStart \/ note[o] = "eol")

ExtendedTasks(ranges) == SelectSeq(LineStarts, LAMBDA o : note[o + 1] = "extendedTask" /\ ~Hides(ranges, o))

\* A callout takes the quoted lines behind it, up to another callout or a line of
\* another kind; lines left alone are passed over.
Callouts(ranges) ==
  LET Line(t, o) ==
        CASE Hides(ranges, o) -> t
          [] ~Hides(ranges, o) /\ note[o + 1] = "callout" ->
               [out |-> Append(t.out, [at |-> o, content |-> <<>>]), on |-> TRUE]
          [] ~Hides(ranges, o) /\ note[o + 1] = "quote" /\ t.on ->
               [t EXCEPT !.out[Len(t.out)].content = Append(@, o)]
          [] OTHER -> [t EXCEPT !.on = FALSE]
  IN  FoldLeft(Line, [out |-> <<>>, on |-> FALSE], LineStarts).out

-----------------------------------------------------------------------------
(* The markdown parser's events.                                           *)

Around == IF within = <<>> THEN "top" ELSE Last(within).tag

MayContain(tag) ==
  CASE tag = "top"  -> {"heading", "task", "item", "codeBlock", "html", "link", "image", "code"}
    [] tag \in {"task", "item"} -> {"task", "item", "codeBlock", "link", "image", "code"}
    [] tag = "heading" -> {"link", "image", "code"}
    [] tag = "link" -> {"image", "code"}
    [] tag = "image" -> {"code"}
    [] OTHER -> {}

\* Lines end where nothing inline is open, and in code.
Kinds ==
  LET linesEnd == Around \in Verbatim \cup {"top"} /\ \A i \in DOMAIN within : within[i].tag # "heading"
      newLine == note = <<>> \/ Last(note) = "eol"
  IN  InText \cup (IF linesEnd THEN {"eol"} ELSE {}) \cup (IF linesEnd /\ newLine THEN AtLineStart ELSE {})

ScanInit == note = <<>> /\ within = <<>> /\ p = Fresh /\ elements = {} /\ found = <<>>

OpenElement(tag) ==
  /\ found = <<>> /\ Len(note) < MaxPieces /\ Len(within) < MaxNested
  /\ tag \in MayContain(Around) \/ (tag = "metadata" /\ note = <<>>)
  /\ note' = Append(note, "mark")
  /\ within' = Append(within, [tag |-> tag, start |-> Len(note)])
  /\ p' = Begins(p, tag, Len(note))
  /\ UNCHANGED <<elements, found>>

CloseElement ==
  /\ found = <<>> /\ within # <<>>
  /\ LET e == Last(within) IN
     /\ p' = Ends(p, e.tag, e.start, Len(note))
     /\ elements' = elements \cup {[tag |-> e.tag, from |-> e.start, to |-> Len(note),
                                    around |-> {within[i].tag : i \in 1 .. Len(within) - 1}]}
  /\ within' = Front(within)
  /\ UNCHANGED <<note, found>>

Piece(kind) ==
  /\ found = <<>> /\ Len(note) < MaxPieces /\ kind \in Kinds
  /\ note' = Append(note, kind)
  /\ p' = IF kind = "eol" \/ Around \in {"code", "html"} THEN p ELSE TextEvent(p, Len(note))
  /\ UNCHANGED <<within, elements, found>>

Answer ==
  /\ found = <<>> /\ within = <<>> /\ note # <<>>
  /\ LET ranges == Optimize(p.excluded) IN
     found' = <<[wikilinks |-> Wikilinks(ranges), embeds |-> Embeds(ranges), tags |-> Tags(ranges),
                 extended |-> ExtendedTasks(ranges), callouts |-> Callouts(ranges)]>>
  /\ UNCHANGED <<note, within, p, elements>>

ScanNext ==
  \/ \E tag \in {"metadata", "heading", "task", "item", "codeBlock", "html", "code", "link", "image"} : OpenElement(tag)
  \/ CloseElement
  \/ \E kind \in InText \cup AtLineStart \cup {"eol"} : Piece(kind)
  \/ Answer

-----------------------------------------------------------------------------

InElement(o, tags) == \E e \in elements : e.tag \in tags /\ e.from <= o /\ o < e.to
Of(kinds, hidden) == {o \in 0 .. Len(note) - 1 : note[o + 1] \in kinds /\ ~InElement(o, hidden)}

\* Each thing is found once and in its order.
Exactly(seq, S) == Range(seq) = S /\ \A i, j \in DOMAIN seq : i < j => seq[i] # seq[j]

\* Whatever stands in code, in HTML or in a link of the other kind is not taken
\* for a link, a tag, a task or a callout, everything else is; and text is given
\* to the heading, task or link it stands in.
ScanIsRight ==
  found # <<>> =>
    LET hidden == Verbatim \cup {"link", "image"}
        fm == {"metadata"}
        Inside(e, kinds) == SelectSeq([k \in 1 .. e.to - e.from |-> e.from + k - 1], LAMBDA o : note[o + 1] \in kinds)
        TextIn(e, but) == SelectSeq(Inside(e, InText \cup AtLineStart), LAMBDA o : ~\E c \in elements : c.tag \in but /\ e.from <= c.from /\ c.from <= o /\ o < c.to)
        nested == \E e \in elements : e.tag \in {"task", "item"} /\ "task" \in e.around
    IN
    /\ Exactly(found[1].wikilinks, Of({"wikilink", "anchor"}, hidden))
    /\ Exactly(found[1].embeds, Of({"embed"}, hidden))
    /\ Exactly(found[1].tags, Of({"tag"}, hidden \cup fm))
    /\ Range(found[1].extended) \subseteq Of({"extendedTask"}, hidden)
    /\ {c.at : c \in Range(found[1].callouts)} = Of({"callout"}, hidden)
    /\ \A c \in Range(found[1].callouts) : \A o \in Range(c.content) :
         /\ o \in Of({"quote"}, hidden) /\ c.at < o
         /\ ~\E d \in Range(found[1].callouts) : c.at < d.at /\ d.at < o
    /\ {TextIn(e, {}) : e \in {f \in elements : f.tag = "heading"}} = Range(p.result.headings)
    /\ ~nested => \A e \in elements : e.tag = "task" /\ TextIn(e, {"code"}) # <<>> => TextIn(e, {"code"}) \in Range(p.result.tasks)
    /\ \A e \in elements : e.tag = "link" /\ e.around = {} => TextIn(e, {"code"}) \in Range(p.result.links)
=============================================================================

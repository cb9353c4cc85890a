------------------------------- MODULE NoteText -------------------------------
(***************************************************************************)
(* What the regular expressions of turbovault-parser find in a note's      *)
(* characters: links, embeds, tags, citations and front matter, by the     *)
(* engine (engine.rs), by the parsers it replaced (parsers/*.rs), and by   *)
(* the rewriting that comes before the blocks are parsed (blocks.rs); and  *)
(* the positions and the plain text that models.rs gives them.             *)
(*                                                                         *)
(* A text is a sequence of characters, and an offset is a number of them.  *)
(***************************************************************************)
EXTENDS Naturals, Sequences, FiniteSets, SequencesExt, FiniteSetsExt

CONSTANTS
  Absent,
  Letters,       \* what a word, a tag or a path is made of
  Digits,        \* the letters that are digits
  Schemes        \* the beginnings that make a destination external, as texts

Blank == {" ", "\n", "\r"}

Slice(text, from, to) == SubSeq(text, from, Min({to, Len(text)}))
Char(text, i) == IF i \in DOMAIN text THEN text[i] ELSE ""
Reads(text, i, word) == Slice(text, i, i + Len(word) - 1) = word

\* The end of the run of characters other than these that begins at i, and of the run of just these.
Until(text, i, these) == Min({j \in i .. Len(text) : text[j] \in these} \cup {Len(text) + 1})
While(text, i, these) == Min({j \in i .. Len(text) : text[j] \notin these} \cup {Len(text) + 1})

TrimEnd(text) == Slice(text, 1, Max({i \in DOMAIN text : text[i] \notin Blank} \cup {0}))
Trim(text) == TrimEnd(Slice(text, While(text, 1, Blank), Len(text)))

\* A match as [from, to, ...], to the offset where the next one may begin; matches are taken from the left.
InTurn(matches) ==
  FoldLeft(LAMBDA taken, m : IF taken = <<>> \/ Last(taken).to <= m.from THEN Append(taken, m) ELSE taken,
           <<>>, SetToSortSeq(matches, LAMBDA a, b : a.from < b.from))

-----------------------------------------------------------------------------
(* Positions.                                                              *)

LineStarts(text) == <<0>> \o SetToSortSeq({i \in DOMAIN text : text[i] = "\n"}, <)

\* Counted in what comes before, and looked up in the line starts.
FromOffset(text, offset) ==
  LET breaks == {i \in DOMAIN text : i <= offset /\ text[i] = "\n"}
  IN  [line |-> Cardinality(breaks) + 1, column |-> IF breaks = {} THEN offset + 1 ELSE offset - (Max(breaks) - 1)]

FromOffsetIndexed(starts, offset) ==
  LET line == Cardinality({k \in DOMAIN starts : starts[k] <= offset})
  IN  [line |-> Max({line, 1}), column |-> offset - (starts[Max({line, 1})]) + 1]

LineStart(starts, line) == IF line \in DOMAIN starts THEN starts[line] ELSE Absent

LineEnd(text, start) ==
  LET end == Until(text, start + 1, {"\n"}) - 1
  IN  IF end > start /\ Char(text, end) = "\r" THEN end - 1 ELSE end

\* A task runs from the first thing on its marker's line to the end of that line.
TaskLine(text, marker) ==
  LET start == LineStart(LineStarts(text), FromOffsetIndexed(LineStarts(text), marker).line)
      from  == While(Slice(text, 1, LineEnd(text, start)), start + 1, {" "}) - 1
  IN  [from |-> from, to |-> LineEnd(text, from)]

-----------------------------------------------------------------------------
(* Wikilinks and embeds.                                                   *)

Bracketed(text) ==
  {m \in {[from |-> i, to |-> Until(text, i + 2, {"]"}) + 2, inner |-> Slice(text, i + 2, Until(text, i + 2, {"]"}) - 1)] :
            i \in {i \in DOMAIN text : Reads(text, i, <<"[", "[">>)}} :
     m.inner # <<>> /\ Reads(text, m.to - 2, <<"]", "]">>)}

WikilinkMatches(text) == InTurn(Bracketed(text))
EmbedMatches(text) ==
  InTurn({[m EXCEPT !.from = @ - 1] : m \in {m \in Bracketed(text) : Char(text, m.from - 1) = "!"}})

ParseLinkTarget(raw) ==
  LET bar == Until(raw, 1, {"|"})
  IN  [target |-> Slice(raw, 1, bar - 1), display |-> IF bar \in DOMAIN raw THEN Slice(raw, bar + 1, Len(raw)) ELSE Absent]

Anchored(target, plain) ==
  LET hash == Until(target, 1, {"#"})
  IN  CASE hash \notin DOMAIN target         -> plain
        [] Char(target, hash + 1) = "^"      -> "BlockRef"
        [] Char(target, hash + 1) # "^" /\ hash = 1 -> "Anchor"
        [] OTHER                             -> "HeadingRef"

ClassifyWikilink(target) == Anchored(target, "WikiLink")
ClassifyUrl(url) == IF \E s \in Schemes : IsPrefix(s, url) THEN "ExternalLink" ELSE Anchored(url, "MarkdownLink")

Link(kind, part, m) == [kind |-> kind, target |-> part.target, display |-> part.display, offset |-> m.from - 1, length |-> m.to - m.from]

Unembedded(text) == SelectSeq(WikilinkMatches(text), LAMBDA m : Char(text, m.from - 1) # "!")

\* The parsers that were replaced: every wikilink is of one kind.
ParseWikilinks(text) == [k \in DOMAIN Unembedded(text) |-> Link("WikiLink", ParseLinkTarget(Unembedded(text)[k].inner), Unembedded(text)[k])]
ParseEmbeds(text) == [k \in DOMAIN EmbedMatches(text) |-> Link("Embed", ParseLinkTarget(EmbedMatches(text)[k].inner), EmbedMatches(text)[k])]

\* The engine, which reads front matter and body each on its own and leaves what is excluded in the body alone.
Shifted(links, by) == [k \in DOMAIN links |-> [links[k] EXCEPT !.offset = @ + by]]
Kinds(links) == [k \in DOMAIN links |-> [links[k] EXCEPT !.kind = ClassifyWikilink(links[k].target)]]
Outside(links, excluded) == SelectSeq(links, LAMBDA l : \A r \in excluded : ~(r[1] <= l.offset /\ l.offset < r[2]))
InParts(text, body, front, rest, excluded) == front \o Outside(Shifted(rest, body), excluded)

Body(text, body) == Slice(text, body + 1, Len(text))

EngineWikilinks(text, body, excluded) ==
  InParts(text, body, Kinds(ParseWikilinks(Slice(text, 1, body))), Kinds(ParseWikilinks(Body(text, body))), excluded)
EngineEmbeds(text, body, excluded) ==
  InParts(text, body, ParseEmbeds(Slice(text, 1, body)), ParseEmbeds(Body(text, body)), excluded)

\* A note's content goes on without its front matter; its positions are those of the text with it.
ParseContent(text, body, excluded) ==
  [content |-> IF body > 0 THEN Body(text, body) ELSE text,
   links   |-> EngineWikilinks(text, body, excluded) \o EngineEmbeds(text, body, excluded)]

-----------------------------------------------------------------------------
(* Markdown links, and the citations among them.                           *)

\* A label's brackets may hold one more pair; it ends at the first closing one of its own.
LabelEnds(text, from) ==
  {j \in from + 1 .. Len(text) :
     /\ text[j] = "]"
     /\ LET depth(k) == Cardinality({i \in from + 1 .. k : text[i] = "["}) - Cardinality({i \in from + 1 .. k - 1 : text[i] = "]"})
        IN  depth(j) = 0 /\ \A k \in from + 1 .. j - 1 : depth(k) \in {0, 1} /\ (text[k] = "]" => depth(k) = 1)}

\* What may stand between the parentheses, up to where a title or the closing one comes.
Destinations(text, at) ==
  LET closing == Until(text, at + 1, {">"})
      end     == Until(text, at, {"(", ")", "\""} \cup Blank)
  IN  (IF Char(text, at) = "<" /\ Char(text, closing) = ">" /\ closing > at + 1
       THEN {[url |-> Slice(text, at + 1, closing - 1), next |-> closing + 1, angle |-> TRUE]} ELSE {})
      \cup (IF end > at THEN {[url |-> Slice(text, at, end - 1), next |-> end, angle |-> FALSE]} ELSE {})

AfterTitle(text, at) ==
  LET quote == While(text, at, Blank)
      close == Until(text, quote + 1, {"\""})
  IN  IF quote > at /\ Char(text, quote) = "\"" /\ Char(text, close) = "\"" THEN close + 1 ELSE at

MarkdownMatches(text) ==
  InTurn(UNION {LET label == LabelEnds(text, i)
                    ways  == UNION {{d \in Destinations(text, j + 2) : Char(text, AfterTitle(text, d.next)) = ")"} :
                                      j \in {j \in label : Char(text, j + 1) = "("}}
                    best  == IF \E d \in ways : d.angle THEN {d \in ways : d.angle} ELSE ways
                IN  {[from |-> i, to |-> AfterTitle(text, d.next) + 1, url |-> d.url, label |-> Slice(text, i + 1, Min(label) - 1)] : d \in best} :
                  i \in {i \in DOMAIN text : text[i] = "["}})

ParseMarkdownLinks(text) ==
  LET links == SelectSeq(MarkdownMatches(text), LAMBDA m : Char(text, m.from - 1) # "!")
  IN  [k \in DOMAIN links |-> Link(ClassifyUrl(links[k].url), [target |-> links[k].url, display |-> links[k].label], links[k])]

\* An optional number in brackets, then a link whose label holds none.
CitationMatches(line) ==
  LET plain == {[from |-> i, to |-> Until(line, Until(line, i + 1, {"[", "]"}) + 2, {"(", ")"} \cup Blank) + 1,
                 text |-> Slice(line, i + 1, Until(line, i + 1, {"[", "]"}) - 1),
                 url |-> Slice(line, Until(line, i + 1, {"[", "]"}) + 2, Until(line, Until(line, i + 1, {"[", "]"}) + 2, {"(", ")"} \cup Blank) - 1)] :
                  i \in {i \in DOMAIN line : line[i] = "[" /\ Reads(line, Until(line, i + 1, {"[", "]"}), <<"]", "(">>)}}
      good  == {m \in plain : m.text # <<>> /\ m.url # <<>> /\ Char(line, m.to - 1) = ")"}
      number(m, i) == /\ Char(line, i) = "[" /\ While(line, i + 1, Digits) > i + 1
                      /\ Char(line, While(line, i + 1, Digits)) = "]"
                      /\ While(line, While(line, i + 1, Digits) + 1, Blank) = m.from
  IN  InTurn({IF \E i \in 1 .. m.from - 1 : number(m, i) THEN [m EXCEPT !.from = CHOOSE i \in 1 .. m.from - 1 : number(m, i)] ELSE m : m \in good})

Citations(line) == SelectSeq(CitationMatches(line), LAMBDA m : Char(line, m.from - 1) # "!")

\* The lines of the section headed so, up to the next heading of its level or above.  headings: [line, level, cites].
CitedLines(headings, count) ==
  IF \A h \in headings : ~h.cites THEN {}
  ELSE LET start == CHOOSE h \in headings : h.cites /\ \A other \in headings : other.cites => h.line <= other.line
           ends  == {h.line : h \in {h \in headings : h.line > start.line /\ h.level <= start.level}}
       IN  start.line + 1 .. (IF ends = {} THEN count ELSE Min(ends) - 1)

-----------------------------------------------------------------------------
(* Tags and front matter.                                                  *)

TagMatches(text) ==
  InTurn({[from |-> i, to |-> While(text, i + 1, Letters \cup {"/", "-"}), hash |-> i] : i \in {i \in DOMAIN text : i = 1 /\ text[i] = "#"}}
         \cup {[from |-> i - 1, to |-> While(text, i + 1, Letters \cup {"/", "-"}), hash |-> i] :
                 i \in {i \in DOMAIN text : text[i] = "#" /\ Char(text, i - 1) \in Blank \cup {"[", "("}}})

\* What links and embeds cover is no tag's place, nor what is excluded already.
AddWikilinkExclusions(text, excluded) ==
  excluded \cup {<<m.from - 1, m.to - 1>> : m \in Range(WikilinkMatches(text)) \cup Range(EmbedMatches(text))}

ParseTags(text, excluded) ==
  LET tags == SelectSeq(TagMatches(text), LAMBDA m : Char(text, m.hash + 1) \in Letters)
  IN  Outside([k \in DOMAIN tags |-> [name |-> Slice(text, tags[k].hash + 1, tags[k].to - 1), offset |-> tags[k].hash - 1,
                                      nested |-> "/" \in Range(Slice(text, tags[k].hash + 1, tags[k].to - 1))]],
              AddWikilinkExclusions(text, excluded))

\* Between a first "---" and the next, each with nothing else on its line; blank lines go with them.
Rule == <<"-", "-", "-">>
ExtractFrontmatter(text) ==
  LET open   == While(text, 4, Blank)
      breaks == {i \in 4 .. open - 1 : text[i] = "\n"}
      closes(i) == /\ text[i] = "\n" /\ Reads(text, i + 1, Rule)
                   /\ LET end == While(text, i + 4, Blank) IN end > Len(text) \/ \E j \in i + 4 .. end - 1 : text[j] = "\n"
      last(i) == LET end == While(text, i + 4, Blank)
                     feeds == {j \in i + 4 .. end - 1 : text[j] = "\n"}
                 IN  IF end > Len(text) THEN Len(text) ELSE Max(feeds)
      ways == {b \in breaks : \E i \in b + 1 .. Len(text) : closes(i)}
  IN  IF ~Reads(text, 1, Rule) \/ ways = {} THEN [fm |-> Absent, rest |-> text]
      ELSE LET close == Min({i \in Max(ways) + 1 .. Len(text) : closes(i)})
           IN  [fm |-> Slice(text, Max(ways) + 1, close - 1), rest |-> Slice(text, last(close) + 1, Len(text))]

-----------------------------------------------------------------------------
(* What is rewritten before the blocks are parsed.                         *)

Rewrite(text, matches, Written(_)) ==
  LET upto(k) == IF k = 0 THEN 1 ELSE matches[k].to
  IN  FlattenSeq([k \in DOMAIN matches |-> Slice(text, upto(k - 1), matches[k].from - 1) \o Written(matches[k])])
        \o Slice(text, upto(Len(matches)), Len(text))

\* Here a target has no bar, and a bar is followed by something.
PreprocessWikilinks(text, scheme) ==
  LET whole == {m \in Bracketed(text) :
                  \/ "|" \notin Range(m.inner)
                  \/ Until(m.inner, 1, {"|"}) \in 2 .. Len(m.inner) - 1}
      parts(m) == ParseLinkTarget(m.inner)
      shown(m) == Trim(IF parts(m).display = Absent THEN parts(m).target ELSE parts(m).display)
  IN  Rewrite(text, InTurn(whole), LAMBDA m : <<"[">> \o shown(m) \o <<"]", "(">> \o scheme \o Trim(parts(m).target) \o <<")">>)

\* A quoted run at the end, with a blank before it and something before that.
SplitLinkTitle(target) ==
  LET trimmed == TrimEnd(target)
      quotes  == {i \in 1 .. Len(trimmed) - 1 : trimmed[i] = "\""}
      url     == TrimEnd(Slice(trimmed, 1, Max(quotes) - 1))
  IN  IF \/ trimmed = <<>> \/ Char(trimmed, Len(trimmed)) # "\"" \/ quotes = {}
      THEN [url |-> target, title |-> Absent]
      ELSE IF Char(trimmed, Max(quotes) - 1) \notin Blank \/ url = <<>> THEN [url |-> target, title |-> Absent]
      ELSE [url |-> url, title |-> Slice(trimmed, Max(quotes), Len(trimmed))]

SpacedLinks(text) ==
  InTurn({m \in {[from |-> i, to |-> Until(text, Until(text, i + 1, {"]"}) + 2, {")", "<", ">"}) + 1,
                  label |-> Slice(text, i + 1, Until(text, i + 1, {"]"}) - 1),
                  target |-> Slice(text, Until(text, i + 1, {"]"}) + 2, Until(text, Until(text, i + 1, {"]"}) + 2, {")", "<", ">"}) - 1)] :
                   i \in {i \in DOMAIN text : text[i] = "[" /\ Reads(text, Until(text, i + 1, {"]"}), <<"]", "(">>)}} :
            m.label # <<>> /\ Char(text, m.to - 1) = ")" /\ \E k \in 2 .. Len(m.target) : m.target[k] \in Blank})

PreprocessLinksWithSpaces(text) ==
  Rewrite(text, SpacedLinks(text),
    LAMBDA m : LET split == SplitLinkTitle(m.target)
               IN  IF " " \notin Range(split.url) THEN Slice(text, m.from, m.to - 1)
                   ELSE <<"[">> \o m.label \o <<"]", "(", "<">> \o split.url \o <<">">>
                          \o (IF split.title = Absent THEN <<>> ELSE <<" ">> \o split.title) \o <<")">>)

Prepared(text, scheme) == PreprocessLinksWithSpaces(PreprocessWikilinks(text, scheme))

\* An image as it is written back.
FormatImage(alt, src, title) ==
  LET dest == IF Range(src) \cap Blank # {} THEN <<"<">> \o src \o <<">">> ELSE src
  IN  <<"!", "[">> \o alt \o <<"]", "(">> \o dest
        \o (IF title = Absent THEN <<>> ELSE IF "\"" \in Range(title) THEN <<>> ELSE <<" ", "\"">> \o title \o <<"\"">>) \o <<")">>

\* Words of letters, joined by one hyphen each; everything but letters, blanks and hyphens is dropped first.
Slugify(text) ==
  LET kept == SelectSeq(text, LAMBDA c : c \in Letters \cup Blank \cup {"-"})
      flat == [k \in DOMAIN kept |-> IF kept[k] \in Letters THEN kept[k] ELSE "-"]
  IN  SelectSeq([k \in DOMAIN flat |-> IF flat[k] = "-" /\ (k = 1 \/ Char(flat, k - 1) = "-" \/ \A j \in k .. Len(flat) : flat[j] = "-")
                                       THEN "" ELSE flat[k]], LAMBDA c : c # "")

-----------------------------------------------------------------------------
(* The words of a tree of blocks, with line ends and tabs between them.  *)

\* A word is <<block, number>>.
NewLine == <<0, 0>>
Tab == <<0, 1>>

Joined(parts, sep) == FlattenSeq([k \in DOMAIN parts |-> IF k = 1 THEN parts[k] ELSE sep \o parts[k]])

RECURSIVE BlockText(_), ItemText(_)
BlockText(b) ==
  CASE b.kind \in {"heading", "paragraph", "code", "image"} -> b.words
    [] b.kind = "list"       -> Joined([k \in DOMAIN b.items |-> ItemText(b.items[k])], <<NewLine>>)
    [] b.kind = "blockquote" -> Joined([k \in DOMAIN b.blocks |-> BlockText(b.blocks[k])], <<NewLine>>)
    [] b.kind = "table"      -> Joined([k \in DOMAIN b.rows |-> Joined(b.rows[k], <<Tab>>)], <<NewLine>>)
    [] b.kind = "rule"       -> <<>>
    [] b.kind = "details"    -> LET inside == Joined([k \in DOMAIN b.blocks |-> BlockText(b.blocks[k])], <<NewLine>>)
                                IN  IF inside = <<>> THEN b.words ELSE b.words \o <<NewLine>> \o inside
ItemText(item) ==
  FoldLeft(LAMBDA text, b : IF text # <<>> /\ Last(text) # NewLine THEN text \o <<NewLine>> \o BlockText(b) ELSE text \o BlockText(b),
           item.words, item.blocks)

ToPlainText(blocks) == Joined([k \in DOMAIN blocks |-> BlockText(blocks[k])], <<NewLine>>)

\* Reference: the words in the order they are met.
RECURSIVE WordsOf(_)
WordsOf(b) ==
  CASE b.kind \in {"heading", "paragraph", "code", "image"} -> SelectSeq(b.words, LAMBDA w : w # NewLine)
    [] b.kind = "list"       -> FlattenSeq([k \in DOMAIN b.items |-> b.items[k].words \o FlattenSeq([j \in DOMAIN b.items[k].blocks |-> WordsOf(b.items[k].blocks[j])])])
    [] b.kind = "table"      -> FlattenSeq([k \in DOMAIN b.rows |-> FlattenSeq(b.rows[k])])
    [] b.kind = "rule"       -> <<>>
    [] b.kind \in {"blockquote", "details"} ->
         (IF b.kind = "details" THEN b.words ELSE <<>>) \o FlattenSeq([j \in DOMAIN b.blocks |-> WordsOf(b.blocks[j])])

-----------------------------------------------------------------------------
(* Properties.                                                             *)

Cut(text, offset, length) == Slice(text, offset + 1, offset + length)

\* A position is the same counted in the text and looked up in the line index (SourcePosition, LineIndex), its line
\* starts where the index says, and a task's position covers its line's text without blanks before or a line end in it.
PositionsAgree(text) ==
  /\ \A offset \in 0 .. Len(text) :
       LET pos == FromOffset(text, offset)
       IN  /\ pos = FromOffsetIndexed(LineStarts(text), offset)
           /\ LineStart(LineStarts(text), pos.line) + pos.column - 1 = offset
  /\ \A marker \in {i \in DOMAIN text : text[i] \notin Blank} :
       LET task == TaskLine(text, marker - 1)
       IN  /\ task.from < marker /\ marker <= task.to
           /\ "\n" \notin Range(Cut(text, task.from, task.to - task.from)) /\ text[task.from + 1] # " "

\* Where no target holds a bracket, every pair of double brackets is told once, as a wikilink or as an embed, by the
\* engine (parse_wikilinks, parse_embeds) as by the parsers it replaced; a position cuts out the link it is of; and what
\* is told does not depend on where the front matter ends, as long as it ends at a line's end.
LinksAreToldOnce(text) ==
  (\A m \in Bracketed(text) : "[" \notin Range(m.inner)) =>
     LET links  == EngineWikilinks(text, 0, {})
         embeds == EngineEmbeds(text, 0, {})
     IN  /\ {l.offset : l \in Range(links)} \cup {e.offset + 1 : e \in Range(embeds)} = {m.from - 1 : m \in Bracketed(text)}
         /\ Len(links) + Len(embeds) = Cardinality(Bracketed(text))
         /\ Kinds(ParseWikilinks(text)) = links /\ ParseEmbeds(text) = embeds
         /\ \A l \in Range(links \o embeds) :
              LET shown == IF l.display = Absent THEN <<>> ELSE <<"|">> \o l.display
              IN  Cut(text, l.offset, l.length)
                    = (IF l.kind = "Embed" THEN <<"!">> ELSE <<>>) \o <<"[", "[">> \o l.target \o shown \o <<"]", "]">>
         /\ \A body \in {i \in DOMAIN text : text[i] = "\n" /\ \A m \in Bracketed(text) : i < m.from \/ m.to <= i} :
              Range(ParseContent(text, body, {}).links) = Range(links \o embeds)

\* Nothing in a link is a tag, and what is a tag does not depend on what the links beside it say (parse_tags).
TagsLeaveLinksAlone(text) ==
  LET covered == UNION {m.from .. m.to - 1 : m \in Range(WikilinkMatches(text)) \cup Range(EmbedMatches(text))}
  IN  ParseTags(text, {}) = ParseTags([i \in DOMAIN text |-> IF i \in covered THEN "." ELSE text[i]], {})

\* The citations of a line are its markdown links (parse_citations, parse_markdown_links), where the two agree on what
\* a link is: no label in a label, no title, no angle brackets, no numbered image.
CitationsAreLinks(line) ==
  ({"\"", "<"} \cap Range(line) = {} /\ (Range(line) \cap Digits = {} \/ "!" \notin Range(line))
     /\ \A m \in Range(MarkdownMatches(line)) : "[" \notin Range(m.label)) =>
    [k \in DOMAIN Citations(line) |-> Citations(line)[k].url]
      = LET links == SelectSeq(ParseMarkdownLinks(line), LAMBDA l : l.display # <<>>) IN [k \in DOMAIN links |-> links[k].target]

\* A section of citations ends where the outline says: no heading of its level or above is among its lines, and every
\* line up to the next one is.
CitationsStayInSection(headings, count) ==
  LET lines == CitedLines(headings, count)
  IN  lines # {} => \E h \in headings :
                       /\ h.cites /\ h.line = Min(lines) - 1
                       /\ \A other \in headings : other.level <= h.level => other.line \notin lines
                       /\ Max(lines) = count \/ \E other \in headings : other.line = Max(lines) + 1 /\ other.level <= h.level

\* Taking front matter off loses the two rules and blanks, nothing else, and leaves no rule in it (extract_frontmatter).
FrontmatterIsCutClean(text) ==
  LET cut   == ExtractFrontmatter(text)
      words == SelectSeq(text, LAMBDA c : c \notin Blank)
      of(t) == SelectSeq(t, LAMBDA c : c \notin Blank)
  IN  IF cut.fm = Absent THEN cut.rest = text
      ELSE /\ words = Rule \o of(cut.fm) \o Rule \o of(cut.rest)
           /\ IsSuffix(cut.rest, text)
           /\ \A i \in DOMAIN cut.fm : ~(cut.fm[i] = "\n" /\ Reads(cut.fm, i + 1, Rule \o <<"\n">>))

\* A wikilink or an embed is a link of the prepared text, with its target after the scheme, in the same order; preparing
\* links with blanks again changes nothing.  Targets hold no quotes, parentheses, angle brackets or line ends, and there
\* are no other brackets.
LinksSurvivePreparation(text, scheme) ==
  LET told     == SortSeq(EngineWikilinks(text, 0, {}) \o EngineEmbeds(text, 0, {}), LAMBDA a, b : a.offset < b.offset)
      prepared == Prepared(text, scheme)
      plain(t) == t # Absent => Trim(t) # <<>> /\ Range(t) \cap {"\"", "[", "(", ")", "<", ">", "\n", "\r", "|"} = {}
  IN  /\ PreprocessLinksWithSpaces(prepared) = prepared
      /\ (/\ Cardinality({i \in DOMAIN text : text[i] \in {"[", "]"}}) = 4 * Cardinality(Bracketed(text))
          /\ \A l \in Range(told) : plain(l.target) /\ plain(l.display)) =>
            [k \in DOMAIN MarkdownMatches(prepared) |-> MarkdownMatches(prepared)[k].url]
              = [k \in DOMAIN told |-> scheme \o Trim(told[k].target)]

\* An image that is written back reads as the image it was (format_image): nothing in it may end it early.
ImagesAreWrittenBack(alt, src, title) ==
  (Range(alt) \cap {"[", "]"} = {} /\ src # <<>> /\ Range(src) \cap {"(", ")", "<", ">", "\"", "\n", "\r"} = {} /\ Trim(src) = src) =>
    LET written == FormatImage(alt, src, title)
        read    == MarkdownMatches(written)
    IN  Len(read) = 1 /\ read[1].url = src /\ read[1].label = alt /\ read[1].to = Len(written) + 1

\* A slug has no hyphen at its ends and no two together, and is its own slug (slugify).
SlugsAreStable(text) ==
  LET slug == Slugify(text)
  IN  /\ Slugify(slug) = slug
      /\ \A k \in DOMAIN slug : slug[k] = "-" => 1 < k /\ k < Len(slug) /\ slug[k + 1] # "-"
      /\ SelectSeq(slug, LAMBDA c : c # "-") = SelectSeq(text, LAMBDA c : c \in Letters)

\* The plain text of a note (to_plain_text) has every word of its blocks once, in their order, and never puts two
\* blocks' words next to each other.
PlainTextKeepsWords(blocks) ==
  LET text == ToPlainText(blocks)
  IN  /\ SelectSeq(text, LAMBDA c : c[1] # 0) = FlattenSeq([k \in DOMAIN blocks |-> WordsOf(blocks[k])])
      /\ \A k \in 1 .. Len(text) - 1 : (text[k][1] # 0 /\ text[k + 1][1] # 0) => text[k][1] = text[k + 1][1]
==============================================================================

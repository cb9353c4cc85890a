------------------------------ MODULE NoteSlices ------------------------------
(***************************************************************************)
(* Parts of a note, by offsets: slices of lines and of sections, and front *)
(* matter (turbovault-tools, file_tools.rs); and the parts that are not    *)
(* code, where links are rewritten (wikilink_rewriter.rs).                 *)
(*                                                                         *)
(* A text is a sequence of symbols: "nl" and "cr" end lines, a heading is  *)
(* its level's number in "h1" .. "h3", "---" is one symbol, and so is a    *)
(* run of backticks or tildes.  Offsets count from zero.                   *)
(***************************************************************************)
EXTENDS Integers, FiniteSets, Sequences, SequencesExt, FiniteSetsExt

Part(text, from, to) == SubSeq(text, from + 1, to)
End(text) == Len(text)
None == -1

-----------------------------------------------------------------------------
(* Slices.                                                                 *)

\* A spec may ask for lines from one end, or for sections from one end.
Refused(spec) ==
  \/ spec.first # None /\ spec.last # None
  \/ spec.head # None /\ spec.tail # None
  \/ (spec.head # None \/ spec.tail # None) /\ (spec.level # None \/ spec.first # None \/ spec.last # None)

\* What ends the text begins no line.
LineStarts(text) == <<0>> \o SelectSeq([k \in 1 .. Len(text) |-> k], LAMBDA k : text[k] = "nl" /\ k < Len(text))

\* The line an offset is in: the last one that starts by it.
LineOf(starts, offset) == Max({1} \cup {i \in DOMAIN starts : starts[i] <= offset})

Level(symbol) == CASE symbol = "h1" -> 1 [] symbol = "h2" -> 2 [] symbol = "h3" -> 3 [] OTHER -> 0
Headings(text) == SelectSeq([k \in 1 .. Len(text) |-> k - 1], LAMBDA o : Level(text[o + 1]) > 0)

\* A section ends at the next heading of its own level or above.
SectionEnd(text, start) ==
  Min({End(text)} \cup {o \in Range(Headings(text)) : start < o /\ Level(text[o + 1]) <= Level(text[start + 1])})

SliceSections(text, spec) ==
  LET starts == LineStarts(text)
      matched == SelectSeq(Headings(text), LAMBDA o : spec.level \in {None, Level(text[o + 1])})
      count == Len(matched)
      chosen == CASE spec.first # None -> SubSeq(matched, 1, Min({spec.first, count}))
                  [] spec.last # None -> SubSeq(matched, Max({0, count - spec.last}) + 1, count)
                  [] OTHER -> matched
      sections == [i \in DOMAIN chosen |->
        [from |-> chosen[i], to |-> SectionEnd(text, chosen[i]),
         startLine |-> LineOf(starts, chosen[i]), endLine |-> LineOf(starts, SectionEnd(text, chosen[i]) - 1)]]
      content == FlattenSeq([i \in DOMAIN sections |-> Part(text, sections[i].from, sections[i].to)])
  IN  [content |-> content, truncated |-> Len(content) < Len(text), matched |-> count, sections |-> sections]

SliceLines(text, spec) ==
  LET starts == LineStarts(text)
      total == IF text = <<>> THEN 0 ELSE Len(starts)
      kept == Min({spec.head, total})
      skipped == Max({0, total - spec.tail})
      from == IF spec.tail = None THEN 0 ELSE IF skipped < Len(starts) THEN starts[skipped + 1] ELSE End(text)
      to == IF spec.tail # None \/ kept >= total THEN End(text) ELSE starts[kept + 1]
      first == IF spec.tail = None THEN 1 ELSE skipped + 1
      last == IF spec.tail = None THEN kept ELSE total
  IN  [content |-> Part(text, from, to), truncated |-> from > 0 \/ to < End(text), total |-> total,
       lines |-> IF first <= last THEN <<first, last>> ELSE <<>>]

Slice(text, spec) ==
  CASE Refused(spec) -> [by |-> "refused"]
    [] ~Refused(spec) /\ (spec.head # None \/ spec.tail # None) -> [by |-> "lines"] @@ SliceLines(text, spec)
    [] OTHER -> [by |-> "sections"] @@ SliceSections(text, spec)

-----------------------------------------------------------------------------
(* Front matter.                                                           *)

\* What ends a line at offset o, if anything does: one symbol or two.
EndsLine(text, o) ==
  CASE o < Len(text) /\ text[o + 1] = "nl" -> 1
    [] o + 1 < Len(text) /\ text[o + 1] = "cr" /\ text[o + 2] = "nl" -> 2
    [] OTHER -> 0

Opening(text) == IF text # <<>> /\ text[1] = "---" THEN EndsLine(text, 1) ELSE 0

\* The first line after the opening one that is "---" and nothing else.
FrontmatterEnd(text) ==
  LET start == 1 + Opening(text)
      begins == {start} \cup {o \in start + 1 .. Len(text) - 1 :
                                text[o] = "nl" \/ (text[o] = "cr" /\ text[o + 1] # "nl")}
      closings == {o \in begins : /\ o < Len(text) /\ text[o + 1] = "---"
                                  /\ o + 1 = Len(text) \/ EndsLine(text, o + 1) > 0}
  IN  IF Opening(text) = 0 \/ closings = {} THEN None ELSE Min(closings) + 1 + EndsLine(text, Min(closings) + 1)

\* The closing line is found again by what the text before its end looks like.
SplitFrontmatter(text) ==
  LET end == FrontmatterEnd(text)
      closing == CASE end >= 3 /\ text[end] = "nl" /\ text[end - 1] = "cr" -> 3
                   [] end >= 2 /\ text[end] = "nl" /\ text[end - 1] # "cr" -> 2
                   [] OTHER -> 1
  IN  IF end = None THEN [yaml |-> <<>>, body |-> text]
      ELSE [yaml |-> Part(text, 1 + Opening(text), end - closing), body |-> Part(text, end, Len(text))]

-----------------------------------------------------------------------------
(* Links outside code.  A run of backticks is [tick, n], one of tildes     *)
(* [tilde, n]; a link that is struck stands between two "tildes2".              *)

TextLines(text) ==
  LET ends == SelectSeq([k \in 1 .. Len(text) |-> k], LAMBDA k : text[k] = "nl" \/ k = Len(text))
  IN  [i \in DOMAIN ends |-> SubSeq(text, IF i = 1 THEN 1 ELSE ends[i - 1] + 1, ends[i])]

Ticks == {"tick", "ticks2", "ticks3"}
FenceMarks == {"ticks3", "tildes3"}

\* Strikes the links of a text that holds no code.
Strike(text) ==
  FlattenSeq([i \in DOMAIN text |->
    IF text[i] = "link" /\ ~(1 < i /\ i < Len(text) /\ text[i - 1] = "tildes2" /\ text[i + 1] = "tildes2")
    THEN <<"tildes2", "link", "tildes2">> ELSE <<text[i]>>])

\* Code in a line runs from some backticks to as many; no such end, no code.
RECURSIVE OutsideInlineCode(_, _)
OutsideInlineCode(plain, rest) ==
  LET open == SelectInSeq(rest, LAMBDA x : x \in Ticks)
      behind == IF open = 0 THEN <<>> ELSE SubSeq(rest, open + 1, Len(rest))
      close == IF open = 0 THEN 0 ELSE SelectInSeq(behind, LAMBDA x : x = rest[open])
  IN  CASE open = 0 -> Strike(plain \o rest)
        [] open # 0 /\ close = 0 -> OutsideInlineCode(plain \o SubSeq(rest, 1, open), behind)
        [] OTHER -> Strike(plain \o SubSeq(rest, 1, open - 1)) \o <<rest[open]>> \o SubSeq(behind, 1, close)
                      \o OutsideInlineCode(<<>>, SubSeq(behind, close + 1, Len(behind)))

\* A fence is closed by a line that begins with as long a run of its character.
StruckOutsideCode(text) ==
  LET Line(t, line) ==
        LET mark == IF line[1] \in FenceMarks THEN line[1] ELSE "" IN
        CASE t.fence # "" -> [out |-> t.out \o line, fence |-> IF mark = t.fence THEN "" ELSE t.fence]
          [] t.fence = "" /\ mark # "" -> [out |-> t.out \o line, fence |-> mark]
          [] OTHER -> [t EXCEPT !.out = @ \o OutsideInlineCode(<<>>, line)]
  IN  FoldLeft(Line, [out |-> <<>>, fence |-> ""], TextLines(text)).out

-----------------------------------------------------------------------------

\* A section slice of a level has what stands under headings of that level and
\* nothing else, each piece once; the lines named are those it stands in.
SectionsAreWhole(text, spec, slice) ==
  LET Under(o) == \E h \in Range(Headings(text)) :
                    /\ h <= o /\ Level(text[h + 1]) = spec.level
                    /\ \A g \in Range(Headings(text)) : h < g /\ g <= o => Level(text[g + 1]) > spec.level
      LinesBefore(o) == 1 + Cardinality({k \in 1 .. o : text[k] = "nl"})
      all == spec.first = None /\ spec.last = None
  IN  /\ spec.level # None /\ all =>
           /\ slice.content = [i \in DOMAIN SelectSeq([k \in 1 .. Len(text) |-> k - 1], Under)
                                 |-> text[SelectSeq([k \in 1 .. Len(text) |-> k - 1], Under)[i] + 1]]
           /\ slice.truncated = (slice.content # text)
      /\ \A sec \in Range(slice.sections) :
           /\ sec.startLine = LinesBefore(sec.from) /\ sec.endLine = LinesBefore(sec.to - 1)
           /\ sec.to = Len(text) \/ Level(text[sec.to + 1]) \in 1 .. Level(text[sec.from + 1])
      /\ spec.first # None => Len(slice.sections) = Min({spec.first, slice.matched})

\* The first lines and the lines after them are the note.
LinesAddUp(text, spec, slice) ==
  LET rest == SliceLines(text, [spec EXCEPT !.head = None, !.tail = Max({0, slice.total - spec.head})])
  IN  spec.head # None =>
        /\ slice.content \o rest.content = text
        /\ slice.truncated = (slice.content # text)
        /\ slice.lines # <<>> => slice.lines[2] = Cardinality({k \in DOMAIN slice.content : slice.content[k] = "nl" \/ k = Len(slice.content)})

\* Front matter and body are the note's own lines: nothing is lost between them
\* but the two lines of dashes, the first that can be.
FrontmatterIsCutOut(text, parts) ==
  LET lines == TextLines(text)
      IsRule(line) == line \in {<<"---", "nl">>, <<"---", "cr", "nl">>, <<"---">>}
      rules == {i \in 2 .. Len(lines) : IsRule(lines[i])}
      has == lines # <<>> /\ IsRule(lines[1]) /\ Last(lines[1]) = "nl" /\ rules # {}
      lone == \E k \in DOMAIN text : text[k] = "cr" /\ (k = Len(text) \/ text[k + 1] # "nl")
  IN  ~lone =>
        IF has THEN /\ parts.yaml = FlattenSeq(SubSeq(lines, 2, Min(rules) - 1))
                    /\ parts.body = FlattenSeq(SubSeq(lines, Min(rules) + 1, Len(lines)))
        ELSE parts = [yaml |-> <<>>, body |-> text]

\* Striking changes nothing but links, strikes each at most once however often it
\* is done, and leaves lines between fences as they are.
StrikingIsCareful(text, struck) ==
  LET Plain(t) == SelectSeq(t, LAMBDA x : x # "tildes2")
      fenced == text # <<>> /\ text[1] \in FenceMarks /\ ~\E k \in 2 .. Len(text) : text[k - 1] = "nl" /\ text[k] = text[1]
      bare == \A k \in DOMAIN text : text[k] \notin Ticks \cup FenceMarks \cup {"tildes2"}
  IN  /\ Plain(struck) = Plain(text)
      /\ StruckOutsideCode(struck) = struck
      /\ fenced => struck = text
      /\ bare => \A k \in DOMAIN struck : struck[k] = "link" => struck[k - 1] = "tildes2" /\ struck[k + 1] = "tildes2"
=============================================================================

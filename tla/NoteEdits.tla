------------------------------- MODULE NoteEdits -------------------------------
(***************************************************************************)
(* Edits by search and replace (turbovault-vault, edit.rs): blocks are     *)
(* read from lines between fences, and each is applied to the text the one *)
(* before it left, by the first of four ways to find what it searches for. *)
(*                                                                         *)
(* A text is a sequence of characters: a space, "nl" for the end of a line *)
(* and "cr" for what some notes have before it; offsets count from zero.   *)
(***************************************************************************)
EXTENDS Integers, FiniteSets, Sequences, SequencesExt, FiniteSetsExt

CONSTANTS
  Percent,             \* how different a text may be that is still found
  MaxSearch, MaxBudget \* how long a search, and search times text, may be for that

NotFound == [pos |-> 0, len |-> -1, by |-> "nothing"]
Found(pos, len, by) == [pos |-> pos, len |-> len, by |-> by]
Cut(text, from, to) == SubSeq(text, from + 1, to)

-----------------------------------------------------------------------------
(* Lines.                                                                  *)

\* Without what ends them; nothing behind the last end is no line.
RECURSIVE Lines(_)
Lines(text) ==
  IF text = <<>> THEN <<>>
  ELSE LET end == SelectInSeq(text, LAMBDA c : c = "nl")
           line == IF end = 0 THEN text ELSE SubSeq(text, 1, end - 1)
           bare == IF end # 0 /\ line # <<>> /\ Last(line) = "cr" THEN Front(line) ELSE line
       IN  <<bare>> \o (IF end = 0 THEN <<>> ELSE Lines(SubSeq(text, end + 1, Len(text))))

White == {" ", "cr"}
RECURSIVE Trimmed(_)
Trimmed(line) ==
  CASE line # <<>> /\ Head(line) \in White -> Trimmed(Tail(line))
    [] line # <<>> /\ Head(line) \notin White /\ Last(line) \in White -> Trimmed(Front(line))
    [] OTHER -> line

\* Any run of white space is one space.
Normalized(line) ==
  LET t == Trimmed(line) IN
  FoldLeft(LAMBDA s, c : IF c \notin White THEN Append(s, c) ELSE IF Last(s) = " " THEN s ELSE Append(s, " "), <<>>, t)

\* The first run of lines that look like those searched for; every line is taken
\* to be one byte longer than it looks.
Look(line, by) == IF by = "whitespace" THEN Normalized(line) ELSE Trimmed(line)
Size(lines) == Len(FlattenSeq(lines)) + Len(lines)
MatchAt(have, want, hits, by) ==
  IF want = <<>> \/ hits = {} THEN NotFound
  ELSE LET k == Min(hits) IN Found(Size(SubSeq(have, 1, k)), Size(SubSeq(have, k + 1, k + Len(want))) - 1, by)
MatchIn(have, want, by) ==
  MatchAt(have, want, {k \in 0 .. Len(have) - Len(want) : \A i \in DOMAIN want : Look(have[k + i], by) = Look(want[i], by)}, by)
MatchLines(text, search, by) == MatchIn(Lines(text), Lines(search), by)

-----------------------------------------------------------------------------
(* A text that is nearly the one searched for: one pass of edit distances  *)
(* finds where it ends, another, backwards from there, where it begins.    *)

MinOf(a, b) == IF a <= b THEN a ELSE b
Threshold(m) == (m * Percent) \div 100

\* The next row of distances, when character c is read; what comes before it is
\* free.
NextRow(row, search, c) ==
  FoldLeft(LAMBDA new, j : Append(new, MinOf(MinOf(row[j] + (IF c = search[j] THEN 0 ELSE 1), row[j + 1] + 1), Last(new) + 1)),
           <<0>>, [j \in 1 .. Len(search) |-> j])

\* Where the distance first becomes as small as it gets.
Advance(t, row, i, limit) ==
  [row |-> row,
   best |-> IF Last(row) <= limit /\ (t.best.at = 0 \/ Last(row) < t.best.d) THEN [at |-> i, d |-> Last(row)] ELSE t.best]
FirstBest(chars, search, limit) ==
  FoldLeft(LAMBDA t, i : Advance(t, NextRow(t.row, search, chars[i]), i, limit),
           [row |-> [j \in 1 .. Len(search) + 1 |-> j - 1], best |-> [at |-> 0, d |-> 0]], [i \in DOMAIN chars |-> i]).best.at

Backwards(text, search, limit, end) ==
  FirstBest(Reverse(Cut(text, end - MinOf(Len(search) + limit, end), end)), Reverse(search), limit)
Span(end, len) == IF end = 0 \/ len = 0 THEN NotFound ELSE Found(end - len, len, "fuzzy")
\* Nothing is compared that would take too long.
TooLarge(text, search) == Len(search) > MaxSearch \/ Len(text) * Len(search) > MaxBudget
Nearly(text, search) ==
  LET limit == Threshold(Len(search))
      end == FirstBest(text, search, limit)
  IN  IF search = <<>> \/ text = <<>> \/ TooLarge(text, search) THEN NotFound
      ELSE Span(end, Backwards(text, search, limit, end))

-----------------------------------------------------------------------------

Exactly(text, search) ==
  LET at == {k \in 0 .. Len(text) - Len(search) : Cut(text, k, k + Len(search)) = search}
  IN  IF at = {} THEN NotFound ELSE Found(Min(at), Len(search), "exact")

FirstOf(ways) == LET hit == SelectInSeq(ways, LAMBDA w : w # NotFound) IN IF hit = 0 THEN NotFound ELSE ways[hit]
Find(text, search) ==
  FirstOf(<< Exactly(text, search), MatchLines(text, search, "whitespace"), MatchLines(text, search, "indentation"),
             Nearly(text, search) >>)

ReplaceSpan(text, at, replacement) == Cut(text, 0, at.pos) \o replacement \o Cut(text, at.pos + at.len, Len(text))

\* All blocks or none.
ApplyBlock(text, t, at, replacement) ==
  IF ~t.ok \/ at = NotFound THEN [ok |-> FALSE, text |-> text] ELSE [ok |-> TRUE, text |-> ReplaceSpan(t.text, at, replacement)]
ApplyBlocks(text, blocks) ==
  FoldLeft(LAMBDA t, b : ApplyBlock(text, t, Find(t.text, b.search), b.replace), [ok |-> TRUE, text |-> text], blocks)

-----------------------------------------------------------------------------
(* Blocks between fences.  A line is a fence, as [mark, width], or text.   *)

Fence(mark, width) == [mark |-> mark, width |-> width]

ParseBlocks(lines) ==
  LET Line(t, line) ==
        CASE t.error -> t
          [] ~t.error /\ t.width = 0 /\ line.mark = "<" -> [t EXCEPT !.width = line.width, !.buffer = <<>>]
          [] ~t.error /\ t.width = 0 /\ line.mark = ">" -> [t EXCEPT !.error = TRUE]
          [] ~t.error /\ t.width # 0 /\ line = Fence("<", t.width) -> [t EXCEPT !.error = TRUE]
          [] ~t.error /\ t.width # 0 /\ line = Fence(">", t.width) ->
               LET dividers == {i \in DOMAIN t.buffer : t.buffer[i] = Fence("=", t.width)} IN
               IF Cardinality(dividers) # 1 THEN [t EXCEPT !.error = TRUE]
               ELSE LET d == CHOOSE i \in dividers : TRUE IN
                    [t EXCEPT !.width = 0, !.blocks = Append(@, [search |-> SubSeq(t.buffer, 1, d - 1),
                                                                 replace |-> SubSeq(t.buffer, d + 1, Len(t.buffer))])]
          [] ~t.error /\ t.width # 0 /\ line \notin {Fence("<", t.width), Fence(">", t.width)} ->
               [t EXCEPT !.buffer = Append(@, line)]
          [] OTHER -> t
      end == FoldLeft(Line, [blocks |-> <<>>, buffer |-> <<>>, width |-> 0, error |-> FALSE], lines)
  IN  [ok |-> ~end.error /\ end.width = 0 /\ end.blocks # <<>>, blocks |-> end.blocks]

-----------------------------------------------------------------------------

\* The edit distance of two texts.
RECURSIVE Distance(_, _)
Distance(a, b) ==
  IF a = <<>> \/ b = <<>> THEN Len(a) + Len(b)
  ELSE LET d == Distance(Front(a), Front(b)) IN
       IF Last(a) = Last(b) THEN d ELSE 1 + MinOf(d, MinOf(Distance(Front(a), b), Distance(a, Front(b))))

\* What is replaced is the text searched for: itself, where it first stands; or
\* whole lines that differ from it in white space only; or the nearest text there
\* is, within the threshold, and no longer than it need be.  If nothing is found,
\* nothing within the threshold stands there, unless the search is too large for
\* near texts to be looked for: then it is only found exactly or by lines.  (Notes
\* whose lines end in "cr": the line ways count each such line one short.)
EditsHitTheirText(text, search, at) ==
  LET hit == Cut(text, at.pos, at.pos + at.len)
      Spans == {<<i, j>> \in (0 .. Len(text)) \X (0 .. Len(text)) : i <= j}
      near == {Distance(Cut(text, sp[1], sp[2]), search) : sp \in Spans}
      Squeezed(s) == SelectSeq(s, LAMBDA c : c \notin White)
  IN
  /\ at = NotFound /\ search # <<>> =>
       IF Len(search) <= MaxSearch /\ Len(text) * Len(search) <= MaxBudget
       THEN \A d \in near : d > Threshold(Len(search))
       ELSE \A sp \in Spans : Cut(text, sp[1], sp[2]) # search
  /\ at.by = "fuzzy" => Len(search) <= MaxSearch /\ Len(text) * Len(search) <= MaxBudget
  /\ at.by = "exact" => hit = search
  /\ at.by \in {"whitespace", "indentation"} /\ "cr" \notin Range(text) =>
       /\ Squeezed(hit) = Squeezed(IF search # <<>> /\ Last(search) = "nl" THEN Front(search) ELSE search)
       /\ at.pos = 0 \/ text[at.pos] = "nl"
       /\ at.pos + at.len \in {Len(text)} \cup {k \in 0 .. Len(text) - 1 : text[k + 1] = "nl"}
  /\ at.by = "fuzzy" =>
       /\ Distance(hit, search) = Min(near) /\ Min(near) <= Threshold(Len(search))
       /\ \A sp \in Spans : Distance(Cut(text, sp[1], sp[2]), search) = Min(near) =>
            at.pos + at.len <= sp[2] /\ (sp[2] = at.pos + at.len => at.len <= sp[2] - sp[1])

\* Two blocks give one outcome in either order, when each searches for what stands
\* in the text once, apart from the other, and puts in what neither searches for;
\* and blocks that do not all apply change nothing.
EditsDoNotMeddle(text, first, second, applied) ==
  LET At(s) == {k \in 0 .. Len(text) - Len(s) : Cut(text, k, k + Len(s)) = s}
      apart == \A i \in At(first.search), j \in At(second.search) :
                 i + Len(first.search) < j \/ j + Len(second.search) < i
  IN  /\ ~applied.ok => applied.text = text
      /\ Cardinality(At(first.search)) = 1 /\ Cardinality(At(second.search)) = 1 /\ apart
        /\ (Range(first.replace) \cup Range(second.replace)) \cap Range(text) = {} =>
           applied.ok /\ applied = ApplyBlocks(text, <<second, first>>)
      /\ Find(text, first.search) = NotFound => ~applied.ok

\* Blocks come out of their fences as they were put in, if no fence of that width
\* stands in them; a second divider is refused.
Rendered(blocks, width) ==
  FlattenSeq([i \in DOMAIN blocks |->
    <<Fence("<", width)>> \o blocks[i].search \o <<Fence("=", width)>> \o blocks[i].replace \o <<Fence(">", width)>>])

FencesHold(blocks, width, parsed) ==
  LET bodies == UNION {Range(b.search) \cup Range(b.replace) : b \in Range(blocks)} IN
  /\ (\A line \in bodies : line.width # width) => parsed = [ok |-> TRUE, blocks |-> blocks]
  /\ (Fence("=", width) \in bodies /\ bodies \cap {Fence("<", width), Fence(">", width)} = {}) => ~parsed.ok
=============================================================================

------------------------------ MODULE NoteQuality ------------------------------
(***************************************************************************)
(* How good a note is (turbovault-tools, quality_tools.rs): four scores    *)
(* out of 100, one made of them, and a report on all notes of a vault.     *)
(*                                                                         *)
(* A note is what the scores look at: its grade (the reading level, in     *)
(* hundredths), diverse, headings (their levels), keys (of its front       *)
(* matter, -1 for none), tags, links, words, linked (to), days since it    *)
(* was changed, and newer (notes it links to).                             *)
(***************************************************************************)
EXTENDS Integers, FiniteSets, Sequences, SequencesExt, FiniteSetsExt

\* The points of the highest of some marks that a number has reached.
Points(number, marks) == Max({0} \cup {m[2] : m \in {x \in marks : number >= x[1]}})
If(condition, points) == IF condition THEN points ELSE 0

Readability(note) ==
  LET g == note.grade
      score == CASE g < 0 -> 95
                 [] g \in 0 .. 800 -> 90 + ((800 - g) * 125) \div 10000
                 [] g \in 801 .. 1200 -> 70 + ((1200 - g) * 5) \div 100
                 [] g \in 1201 .. 1600 -> 50 + ((1600 - g) * 5) \div 100
                 [] g > 1600 -> Max({0, Min({49, (5000 - (g - 1600) * 3) \div 100})})
  IN  Max({0, score - If(~note.diverse, 15)})

\* The first heading is of level one, and none skips a level.
HierarchyValid(headings) ==
  \A i \in DOMAIN headings : headings[i] <= IF i = 1 THEN 1 ELSE headings[i - 1] + 1

Structure(note) ==
  If(1 \in Range(note.headings), 20) + Points(Len(note.headings), {<<1, 8>>, <<2, 15>>})
    + If(HierarchyValid(note.headings), 10) + If(note.keys >= 0, 20)
    + Points(note.tags, {<<1, 8>>, <<2, 15>>}) + Points(note.links, {<<1, 10>>, <<3, 20>>})

Completeness(note) ==
  LET density == CASE note.words > 0 /\ note.links * 100 >= note.words -> 20
                   [] note.words > 0 /\ note.links * 100 < note.words /\ note.links * 200 >= note.words -> 12
                   [] OTHER -> If(note.links > 0, 5)
  IN  Points(note.words, {<<30, 8>>, <<100, 15>>, <<300, 25>>}) + density
        + Points(note.keys, {<<0, 10>>, <<3, 20>>}) + If(note.tags > 0, 15)
        + If(note.links > 0, 10) + If(note.linked, 10)

\* A note that many newer ones are linked to from may be out of date.
Staleness(note) ==
  LET aged == 100 - Points(note.days, {<<1, 10>>, <<8, 25>>, <<31, 45>>, <<91, 65>>, <<181, 80>>, <<366, 90>>})
  IN  Max({0, aged - 2 * Min({20, note.newer})})

Overall(note) == (2 * Readability(note) + 3 * Structure(note) + 3 * Completeness(note) + 2 * Staleness(note) + 5) \div 10

-----------------------------------------------------------------------------
(* Reports.                                                                *)

Buckets == <<0 .. 20, 21 .. 40, 41 .. 60, 61 .. 80, 81 .. 100>>

\* Notes by a measure, the smallest first; those alike in their order.
Ordered(notes, measure) ==
  LET Before(i, j) == measure[notes[i]] < measure[notes[j]] \/ (measure[notes[i]] = measure[notes[j]] /\ i < j)
  IN  [k \in DOMAIN notes |-> notes[CHOOSE i \in DOMAIN notes : Cardinality({j \in DOMAIN notes : Before(j, i)}) = k - 1]]

VaultReport(notes, bottom) ==
  LET ordered == Ordered(notes, [note \in Range(notes) |-> Overall(note)])
      take == Min({bottom, Len(notes)})
      In(b) == Cardinality({i \in DOMAIN notes : Overall(notes[i]) \in Buckets[b]})
  IN  [distribution |-> [b \in 1 .. 5 |-> In(b)],
       lowest |-> SubSeq(ordered, 1, take), highest |-> SubSeq(Reverse(ordered), 1, take),
       review |-> In(1) > Len(notes) \div 4]

StaleNotes(notes, threshold, limit) ==
  LET stale == Ordered(SelectSeq(notes, LAMBDA note : note.days >= threshold), [note \in Range(notes) |-> -note.days])
  IN  SubSeq(stale, 1, Min({limit, Len(stale)}))

-----------------------------------------------------------------------------

\* No score leaves its range, which a byte holds; what makes a note better never
\* costs it points: a link, a tag, front matter, a link to it, a day less, words
\* that are read more easily.
ScoresAreFair(note) ==
  LET scores == <<Readability(note), Structure(note), Completeness(note), Staleness(note), Overall(note)>>
      better == { [note EXCEPT !.links = @ + 1], [note EXCEPT !.tags = @ + 1], [note EXCEPT !.keys = @ + 1],
                  [note EXCEPT !.linked = TRUE], [note EXCEPT !.diverse = TRUE], [note EXCEPT !.newer = Max({0, @ - 1})],
                  [note EXCEPT !.days = Max({0, @ - 1})], [note EXCEPT !.grade = Max({0, @ - 1})] }
      nested == \A i \in DOMAIN note.headings : \A level \in 1 .. note.headings[i] - 1 :
                  \E j \in 1 .. i - 1 : note.headings[j] = level /\ \A k \in j + 1 .. i - 1 : note.headings[k] > level
  IN  /\ \A k \in DOMAIN scores : scores[k] \in 0 .. 100
      /\ note.grade >= 0 => \A b \in better : /\ Readability(b) >= scores[1] /\ Structure(b) >= scores[2]
                                              /\ Completeness(b) >= scores[3] /\ Staleness(b) >= scores[4]
                                              /\ Overall(b) >= scores[5]
      /\ HierarchyValid(note.headings) = nested

\* Every note is in one bucket; none is better than the best reported or worse than
\* the worst, and with room for all nobody is in both lists at different ends.
ReportAddsUp(notes, bottom, report) ==
  /\ FoldLeft(LAMBDA sum, b : sum + b, 0, report.distribution) = Len(notes)
  /\ \A note \in Range(notes) :
       /\ \A low \in Range(report.lowest) : note \notin Range(report.lowest) => Overall(low) <= Overall(note)
       /\ \A high \in Range(report.highest) : note \notin Range(report.highest) => Overall(high) >= Overall(note)
  /\ \A note \in Range(StaleNotes(notes, 31, bottom)) : note.days >= 31
  /\ \A note \in Range(notes) : note.days >= 31 /\ note \notin Range(StaleNotes(notes, 31, bottom)) =>
       \A other \in Range(StaleNotes(notes, 31, bottom)) : other.days >= note.days
=============================================================================

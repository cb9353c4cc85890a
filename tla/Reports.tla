------------------------------- MODULE Reports --------------------------------
(***************************************************************************)
(* Reports a vault exports (turbovault-export, lib.rs; turbovault-tools,   *)
(* export_tools.rs): what they compute from the link graph and the notes,  *)
(* and the CSV text they are written as.                                   *)
(*                                                                         *)
(* A text is a sequence of characters; a CSV line is one too, its end "nl".*)
(* graph is [files, links, orphans]; a note [markdown, parses, words,      *)
(* chars].  Rates are in thousandths.                                      *)
(***************************************************************************)
EXTENDS Integers, FiniteSets, Sequences, SequencesExt, FiniteSetsExt, TLC

CONSTANTS Refused

Thousandths(a, b) == (1000 * a) \div b

-----------------------------------------------------------------------------
(* CSV.                                                                    *)

Formula == {"=", "+", "-", "@"}
CsvEscape(value) ==
  LET safe == IF value # <<>> /\ Head(value) \in Formula THEN <<"'">> \o value ELSE value
  IN  <<"quote">> \o FlattenSeq([k \in DOMAIN safe |-> IF safe[k] = "quote" THEN <<"quote", "quote">> ELSE <<safe[k]>>]) \o <<"quote">>

Number(n) == <<ToString(n)>>
Joined(cells, by) == FlattenSeq([k \in DOMAIN cells |-> IF k = 1 THEN cells[k] ELSE <<by>> \o cells[k]])
Header(names) == Joined([k \in DOMAIN names |-> <<names[k]>>], ",")

HealthCsv(r) ==
  Header(<<"timestamp", "vault_name", "health_score", "total_notes", "total_links", "broken_links", "orphaned_notes",
           "connectivity_rate", "link_density", "status">>) \o <<"nl">>
  \o Joined(<<CsvEscape(r.timestamp), CsvEscape(r.vault), Number(r.score), Number(r.notes), Number(r.links), Number(r.broken),
              Number(r.orphans), Number(r.connectivity), Number(r.density), CsvEscape(r.status)>>, ",")

BrokenLinksCsv(links) ==
  Header(<<"source_file", "target", "line", "suggestions">>) \o <<"nl">>
  \o FlattenSeq([k \in DOMAIN links |->
       Joined(<<CsvEscape(links[k].source), CsvEscape(links[k].target), Number(links[k].line),
                CsvEscape(Joined(links[k].suggestions, "|"))>>, ",") \o <<"nl">>])

StatsCsv(r) ==
  Header(<<"timestamp", "vault_name", "total_files", "total_links", "orphaned_files", "average_links_per_file",
           "total_words", "total_readable_chars", "avg_words_per_note">>) \o <<"nl">>
  \o Joined(<<CsvEscape(r.timestamp), CsvEscape(r.vault), Number(r.files), Number(r.links), Number(r.orphans), Number(r.average),
              Number(r.words), Number(r.chars), Number(r.averageWords)>>, ",")

AnalysisCsv(r) ==
  Header(<<"timestamp", "vault_name", "health_score", "total_notes", "total_links", "broken_links", "orphaned_notes",
           "broken_links_count", "recommendations">>) \o <<"nl">>
  \o Joined(<<CsvEscape(r.timestamp), CsvEscape(r.vault), Number(r.health.score), Number(r.health.notes), Number(r.health.links),
              Number(r.health.broken), Number(r.health.orphans), Number(r.broken), CsvEscape(Joined(r.advice, "|"))>>, ",")

-----------------------------------------------------------------------------
(* What the reports say.                                                   *)

Status(score) == CASE score >= 80 -> "Healthy" [] score \in 60 .. 79 -> "Fair" [] score \in 40 .. 59 -> "Needs Attention" [] OTHER -> "Critical"

\* The share of orphans of no notes is no number, and above nothing.
CreateHealthReport(vault, now, score, notes, links, broken, orphans) ==
  [timestamp |-> now, vault |-> vault, score |-> score, notes |-> notes, links |-> links, broken |-> broken, orphans |-> orphans,
   connectivity |-> IF notes > 0 THEN Thousandths(notes - orphans, notes) ELSE 0,
   density |-> IF notes > 1 THEN Thousandths(links, notes * (notes - 1)) ELSE 0,
   status |-> <<Status(score)>>,
   advice |-> {a \in {"broken", "orphans", "density"} :
                 CASE a = "broken" -> broken > 0
                   [] a = "orphans" -> notes > 0 /\ 10 * orphans > notes
                   [] a = "density" -> notes <= 1 \/ 20 * links < notes * (notes - 1)}]

HealthScore(broken, orphans) == CASE broken = 0 /\ orphans = 0 -> 100 [] broken = 0 /\ orphans # 0 -> 80 [] OTHER -> 70

\* Broken links are not counted: the report takes none.
HealthOf(graph, now) ==
  CreateHealthReport(<<"default">>, now, HealthScore(0, graph.orphans), graph.files, graph.links, 0, graph.orphans)

\* The totals are of the Markdown notes that parse.
VaultStats(graph, notes, now) ==
  LET counted == SelectSeq(notes, LAMBDA note : note.markdown /\ note.parses)
      words == FoldLeft(LAMBDA sum, note : sum + note.words, 0, counted)
  IN  [timestamp |-> now, vault |-> <<"default">>, files |-> graph.files, links |-> graph.links, orphans |-> graph.orphans,
       average |-> IF graph.files > 0 THEN Thousandths(graph.links, graph.files) ELSE 0,
       words |-> words, chars |-> FoldLeft(LAMBDA sum, note : sum + note.chars, 0, counted),
       averageWords |-> IF counted = <<>> THEN 0 ELSE Thousandths(words, Len(counted))]

\* Its advice is the same for every vault.
AnalysisOf(graph, now) ==
  [timestamp |-> now, vault |-> <<"default">>, health |-> HealthOf(graph, now), broken |-> 0, orphans |-> graph.orphans,
   advice |-> <<<<"Ensure all notes are linked for better connectivity">>, <<"Review and fix broken links regularly">>>>]

HealthIn(format, r) == CASE format = "json" -> r [] format = "csv" -> HealthCsv(r) [] OTHER -> Refused
LinksIn(format, links) == CASE format = "json" -> links [] format = "csv" -> BrokenLinksCsv(links) [] OTHER -> Refused
StatsIn(format, r) == CASE format = "json" -> r [] format = "csv" -> StatsCsv(r) [] OTHER -> Refused
AnalysisIn(format, r) == CASE format = "json" -> r [] format = "csv" -> AnalysisCsv(r) [] OTHER -> Refused

ExportHealthReport(graph, now, format) == HealthIn(format, HealthOf(graph, now))
ExportBrokenLinks(format) == LinksIn(format, <<>>)
ExportVaultStats(graph, notes, now, format) == StatsIn(format, VaultStats(graph, notes, now))
ExportAnalysisReport(graph, now, format) == AnalysisIn(format, AnalysisOf(graph, now))

-----------------------------------------------------------------------------
(* A reader of CSV (RFC 4180): <<rows, row, cell, whether in quotes>>.     *)

ReadChar(state, char) ==
  LET rows == state[1]
      row == state[2]
      cell == state[3]
      at == state[4]
  IN  CASE at = "quoted" /\ char = "quote" -> <<rows, row, cell, "closing">>
        [] at = "quoted" /\ char # "quote" -> <<rows, row, Append(cell, char), "quoted">>
        [] at = "closing" /\ char = "quote" -> <<rows, row, Append(cell, "quote"), "quoted">>
        [] at # "quoted" /\ char = "," -> <<rows, Append(row, cell), <<>>, "plain">>
        [] at # "quoted" /\ char = "nl" -> <<Append(rows, Append(row, cell)), <<>>, <<>>, "plain">>
        [] at = "plain" /\ char = "quote" -> <<rows, row, cell, "quoted">>
        [] OTHER -> <<rows, row, Append(cell, char), at>>
ReadCsv(text) ==
  LET last == FoldLeft(ReadChar, <<<<>>, <<>>, <<>>, "plain">>, text)
  IN  IF last[2] = <<>> /\ last[3] = <<>> /\ last[4] = "plain" THEN last[1] ELSE Append(last[1], Append(last[2], last[3]))

Shown(value) == IF value # <<>> /\ Head(value) \in Formula THEN <<"'">> \o value ELSE value

-----------------------------------------------------------------------------
(* Properties.                                                             *)

\* Whatever a path, a target or a suggestion is spelled with, a reader of the
\* broken links finds one row for each, each value in its own column under the
\* header's names, and nothing a spreadsheet takes for a formula.
RowsReadBack(rows, links) ==
  /\ Len(rows) = Len(links) + 1 /\ rows[1] = <<<<"source_file">>, <<"target">>, <<"line">>, <<"suggestions">>>>
  /\ \A k \in DOMAIN links :
       /\ rows[k + 1] = <<Shown(links[k].source), Shown(links[k].target), Number(links[k].line), Shown(Joined(links[k].suggestions, "|"))>>
       /\ \A c \in {1, 2, 4} : rows[k + 1][c] # <<>> => Head(rows[k + 1][c]) \notin {"=", "+", "-", "@"}
LinksReadBack(links) == RowsReadBack(ReadCsv(BrokenLinksCsv(links)), links)

\* The value under a column's name, of a text of one row.
Column(rows, name) == rows[2][CHOOSE c \in DOMAIN rows[1] : rows[1][c] = <<name>>]
ReadsBack(rows, now, values) ==
  /\ Len(rows) = 2 /\ Len(rows[1]) = Len(rows[2])
  /\ Column(rows, "timestamp") = Shown(now) /\ Column(rows, "vault_name") = <<"default">>
  /\ \A name \in DOMAIN values : Column(rows, name) = values[name]

HealthReadsBack(r, now) ==
  r = Refused \/ ReadsBack(ReadCsv(HealthCsv(r)), now,
    [status |-> r.status, health_score |-> Number(r.score), total_notes |-> Number(r.notes), total_links |-> Number(r.links),
     orphaned_notes |-> Number(r.orphans), connectivity_rate |-> Number(r.connectivity), link_density |-> Number(r.density)])
StatsReadBack(r, now) ==
  r = Refused \/ ReadsBack(ReadCsv(StatsCsv(r)), now,
    [total_files |-> Number(r.files), total_links |-> Number(r.links), orphaned_files |-> Number(r.orphans),
     average_links_per_file |-> Number(r.average), total_words |-> Number(r.words), total_readable_chars |-> Number(r.chars),
     avg_words_per_note |-> Number(r.averageWords)])
AnalysisReadsBack(r, now) ==
  r = Refused \/ ReadsBack(ReadCsv(AnalysisCsv(r)), now,
    [health_score |-> Number(r.health.score), total_notes |-> Number(r.health.notes), broken_links_count |-> Number(r.broken),
     orphaned_notes |-> Number(r.health.orphans), recommendations |-> r.advice[1] \o <<"|">> \o r.advice[2]])

\* The CSV of each report of a vault reads back as what its JSON says, column
\* by column.
ReportsReadBack(graph, notes, now) ==
  /\ HealthReadsBack(ExportHealthReport(graph, now, "json"), now)
  /\ StatsReadBack(ExportVaultStats(graph, notes, now, "json"), now)
  /\ AnalysisReadsBack(ExportAnalysisReport(graph, now, "json"), now)

\* The reports of one vault agree with each other; a perfect score is given
\* exactly to a vault without orphans; linking one more orphan never lowers
\* the score or the connectivity or brings advice; and the words counted are at
\* most those of all its notes.
Agree(graph, notes, health, better, stats, analysis, all) ==
  /\ health = analysis.health /\ stats.orphans = health.orphans /\ stats.files = health.notes
  /\ health.score = 100 <=> graph.orphans = 0
  /\ health.connectivity \in 0 .. 1000
  /\ graph.orphans > 0 =>
       better.score >= health.score /\ better.connectivity >= health.connectivity /\ better.advice \subseteq health.advice
  /\ stats.words <= all /\ stats.averageWords <= 1000 * all
  /\ (\A k \in DOMAIN notes : notes[k].markdown /\ notes[k].parses) => stats.words = all
ReportsAgree(graph, notes, now) ==
  Agree(graph, notes, HealthOf(graph, now), HealthOf([graph EXCEPT !.orphans = @ - 1, !.links = @ + 1], now),
        VaultStats(graph, notes, now), AnalysisOf(graph, now), FoldLeft(LAMBDA sum, note : sum + note.words, 0, notes))
=============================================================================

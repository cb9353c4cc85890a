------------------------------ MODULE Conformance ------------------------------
(***************************************************************************)
(* What a vault is held to: the validators (turbovault-core, validation.rs *)
(* and validation_tools.rs), and the Open Knowledge Format, its reports,   *)
(* its indexes and its logs (okf.rs, okf_tools.rs).                        *)
(*                                                                         *)
(* A note has a directory, the names from the vault's root down, and a     *)
(* name; "index" and "log" are reserved.  Its fields are None when it has  *)
(* no front matter, a link is the sort of target it has, a line of a log   *)
(* is a title, a heading (a date's or another), an entry or blank.         *)
(***************************************************************************)
EXTENDS Integers, FiniteSets, Sequences, SequencesExt, FiniteSetsExt

CONSTANT None

-----------------------------------------------------------------------------
(* Validation.                                                             *)

Severities == {"info", "warning", "error", "critical"}
Clean == [passed |-> TRUE, issues |-> <<>>, count |-> [s \in Severities |-> 0]]

AddIssue(report, severity) ==
  [passed |-> report.passed /\ severity \notin {"error", "critical"},
   issues |-> Append(report.issues, severity), count |-> [report.count EXCEPT ![severity] = @ + 1]]
Merge(report, issues) == FoldLeft(AddIssue, report, issues)

Repeat(severity, k) == [i \in 1 .. k |-> severity]
Only(condition, severity) == IF condition THEN <<severity>> ELSE <<>>

\* Tags are a list, of which some are no strings, one string, or neither.
FrontmatterIssues(note, rules) ==
  IF note.fields = None THEN Only(rules.required \/ rules.fields # {}, "error")
  ELSE Repeat("error", Cardinality(rules.fields \ note.fields)) \o Repeat("warning", note.oddTags)

LinkIssues(note) ==
  FlattenSeq([i \in DOMAIN note.links |-> Only(note.links[i] = "", "error") \o Only(note.links[i] = "url", "warning")
                                          \o Only(note.links[i] = "#heading", "info")])

ContentIssues(note, rules) ==
  Only(note.length < rules.min, "warning") \o Only(note.length > rules.max, "warning")
  \o Only(rules.heading /\ ~note.headed, "warning")

Validate(note, rules) ==
  Merge(Clean, (IF rules.front THEN FrontmatterIssues(note, rules) ELSE <<>>)
               \o (IF rules.links THEN LinkIssues(note) ELSE <<>>) \o ContentIssues(note, rules))

NoLimit == 1000
DefaultRules == [front |-> TRUE, required |-> FALSE, fields |-> {}, links |-> TRUE, min |-> 0, max |-> NoLimit, heading |-> FALSE]

\* Without a field to require the front matter is not looked at, whatever its tags.
CustomRules(required, fields, links, min) ==
  [DefaultRules EXCEPT !.front = required \/ fields # {}, !.required = required, !.fields = fields, !.links = links, !.min = min]

ValidateVault(notes) == FoldLeft(LAMBDA report, note : Merge(report, Validate(note, DefaultRules).issues), Clean, notes)

ValidateVaultQuick(notes, max) ==
  FoldLeft(LAMBDA report, note :
             LET issues == Validate(note, DefaultRules).issues
                 room == max - Len(report.issues)
             IN  IF room <= 0 THEN report ELSE Merge(report, SubSeq(issues, 1, Min({room, Len(issues)}))),
           Clean, notes)

-----------------------------------------------------------------------------
(* The knowledge format.                                                   *)

Reserved(note) == note.name \in {"index", "log"}
Typed(note) == note.fields # None /\ note.type # ""
Under(dir, note) == IsPrefix(dir, note.dir)
Conforms(note) == Reserved(note) \/ Typed(note)

OfType(notes) ==
  LET Concept(note) == ~Reserved(note) /\ Typed(note)
      concepts == SelectSeq(notes, Concept)
  IN  [t \in {note.type : note \in Range(concepts)} |-> Len(SelectSeq(concepts, LAMBDA note : note.type = t))]

\* "concepts" counts every note that is not reserved, conformant or not.
ValidateBundle(notes, subtree) ==
  LET files == SelectSeq(notes, LAMBDA note : Under(subtree, note)) IN
  [total |-> Len(files), conformant |-> Len(SelectSeq(files, Conforms)), reserved |-> Len(SelectSeq(files, Reserved)),
   concepts |-> Len(files) - Len(SelectSeq(files, Reserved)), types |-> OfType(files),
   failing |-> {note \in Range(files) : ~Conforms(note)}]

DetectBundle(notes) ==
  LET concepts == FoldSet(LAMBDA t, sum : sum + OfType(notes)[t], 0, DOMAIN OfType(notes))
      others == Len(notes) - Len(SelectSeq(notes, Reserved))
      index == \E note \in Range(notes) : note.dir = <<>> /\ note.name = "index"
  IN  [total |-> Len(notes), concepts |-> concepts, reserved |-> Len(SelectSeq(notes, Reserved)), index |-> index,
       bundle |-> concepts >= 1 /\ (2 * concepts >= others \/ index)]

\* The notes and the directories right under a directory.
Concepts(notes, dir) == SelectSeq(notes, LAMBDA note : note.dir = dir /\ ~Reserved(note))
Subdirectories(notes, dir) ==
  {note.dir[Len(dir) + 1] : note \in {m \in Range(notes) : Under(dir, m) /\ m.dir # dir}}

\* Notes by their titles, those with one title in the order the cache gives them.
RenderIndex(notes, dir) ==
  LET concepts == Concepts(notes, dir)
      Before(i, j) == concepts[i].title < concepts[j].title \/ (concepts[i].title = concepts[j].title /\ i < j)
      At(k) == CHOOSE i \in DOMAIN concepts : Cardinality({j \in DOMAIN concepts : Before(j, i)}) = k - 1
  IN  [notes |-> [k \in DOMAIN concepts |-> concepts[At(k)].name], dirs |-> Subdirectories(notes, dir)]

\* What becomes of the indexes on disk, by directory, and what is reported.
GenerateIndex(notes, disk, base, recursive, dry) ==
  LET known == {note.dir : note \in Range(notes)} \cup UNION {{SubSeq(note.dir, 1, k) : k \in 0 .. Len(note.dir)} : note \in Range(notes)}
      wanted == IF recursive THEN {dir \in known : IsPrefix(base, dir)} \cup {base} ELSE {base}
      targets == {dir \in wanted : Concepts(notes, dir) # <<>> \/ Subdirectories(notes, dir) # {}}
      content == [dir \in targets |-> RenderIndex(notes, dir)]
      written == {dir \in targets : ~dry /\ ~(dir \in DOMAIN disk /\ disk[dir] = content[dir])}
  IN  [disk |-> [dir \in DOMAIN disk \cup written |-> IF dir \in written THEN content[dir] ELSE disk[dir]],
       indexes |-> targets, written |-> written,
       entries |-> FoldSet(LAMBDA dir, sum : sum + Len(content[dir].notes) + Cardinality(content[dir].dirs), 0, targets)]

-----------------------------------------------------------------------------
(* Logs.                                                                   *)

Blank == [kind |-> "blank", of |-> 0]
Date(d) == [kind |-> "date", of |-> d]
Heads(line) == line.kind \in {"title", "date", "heading"}

\* Under its date, behind what stands there; a new date goes on top.
BuildLogContent(lines, date, entry) ==
  LET at == SelectInSeq(lines, LAMBDA line : line = Date(date))
      end == Min({i \in at + 1 .. Len(lines) : Heads(lines[i])} \cup {Len(lines) + 1})
      last == Max({at} \cup {i \in at + 1 .. end - 1 : lines[i] # Blank})
      title == SelectInSeq(lines, LAMBDA line : line.kind = "title")
      top == IF title \in 1 .. Len(lines) - 1 /\ lines[title + 1] = Blank THEN title + 1 ELSE title
      Put(k, new) == SubSeq(lines, 1, k) \o new \o SubSeq(lines, k + 1, Len(lines))
  IN  CASE Range(lines) \subseteq {Blank} ->
             [lines |-> <<[kind |-> "title", of |-> 0], Blank, Date(date), Blank, entry>>, file |-> TRUE, section |-> TRUE]
        [] at # 0 -> [lines |-> Put(last, <<entry>>), file |-> FALSE, section |-> FALSE]
        [] OTHER -> [lines |-> Put(top, <<Date(date), Blank, entry, Blank>>), file |-> FALSE, section |-> TRUE]

-----------------------------------------------------------------------------

\* A report counts what it lists and passes exactly without errors; the quick one is
\* the beginning of the whole one, and it is the whole one when it does not come to
\* its limit.  A note that passes with more fields required passes with fewer.
ReportsCount(notes, max) ==
  LET whole == ValidateVault(notes)
      quick == ValidateVaultQuick(notes, max)
      Adds(report) ==
        /\ \A s \in Severities : report.count[s] = Len(SelectSeq(report.issues, LAMBDA issue : issue = s))
        /\ report.passed <=> {"error", "critical"} \cap Range(report.issues) = {}
  IN  /\ Adds(whole) /\ Adds(quick)
      /\ quick.issues = SubSeq(whole.issues, 1, Min({max, Len(whole.issues)}))
      /\ Len(quick.issues) < max => quick = whole
      /\ \A note \in Range(notes) : \A fields \in SUBSET {"a", "b"} :
           LET report == Validate(note, CustomRules(FALSE, fields, FALSE, 0)) IN
           /\ report.passed <=> fields = {} \/ (note.fields # None /\ fields \subseteq note.fields)
           /\ \A fewer \in SUBSET fields : report.passed => Validate(note, CustomRules(FALSE, fewer, FALSE, 0)).passed

\* The two reports on a bundle agree about its notes; a bundle of which every note
\* conforms is taken for one, as soon as it holds a concept.
BundlesAgree(notes) ==
  LET report == ValidateBundle(notes, <<>>)
      info == DetectBundle(notes)
      parts == {ValidateBundle(notes, <<d>>) : d \in {note.dir[1] : note \in {m \in Range(notes) : m.dir # <<>>}}}
  IN  /\ report.total = info.total /\ report.reserved = info.reserved
      /\ report.conformant = info.concepts + info.reserved
      /\ report.failing = {} <=> report.conformant = report.total
      /\ report.failing = {} /\ report.concepts > 0 => info.bundle
      /\ info.bundle => info.concepts > 0
      /\ report.failing = UNION {part.failing : part \in parts} \cup {note \in report.failing : note.dir = <<>>}

\* Indexed from the root down, every concept is in the index of its directory once,
\* and every directory that holds one is reached from the root's.  A dry run writes
\* nothing but tells the same; nothing outside is touched; and unless two notes of a
\* directory share a title, indexing again finds nothing to do, whatever the order
\* of the notes.
IndexesLeadEverywhere(notes, disk, base, recursive) ==
  LET done == GenerateIndex(notes, disk, base, recursive, FALSE)
      dry == GenerateIndex(notes, disk, base, recursive, TRUE)
      indexed == notes \o SetToSeq({[notes[1] EXCEPT !.dir = dir, !.name = "index"] : dir \in done.written})
      again == GenerateIndex(Reverse(indexed), done.disk, base, recursive, FALSE)
      apart == \A i, j \in DOMAIN notes : notes[i].dir = notes[j].dir /\ notes[i].title = notes[j].title => i = j
  IN  /\ dry.disk = disk /\ dry.written = {} /\ dry.indexes = done.indexes /\ dry.entries = done.entries
      /\ \A dir \in DOMAIN done.disk : IsPrefix(base, dir) \/ (dir \in DOMAIN disk /\ done.disk[dir] = disk[dir])
      /\ \A note \in Range(notes) :
           /\ ~Reserved(note) /\ note.dir \in done.indexes =>
                Len(SelectSeq(done.disk[note.dir].notes, LAMBDA name : name = note.name)) = 1
           /\ recursive /\ Under(base, note) /\ ~Reserved(note) => note.dir \in done.indexes
           /\ recursive /\ Under(base, note) => \A k \in Len(base) .. Len(note.dir) - 1 :
                note.dir[k + 1] \in done.disk[SubSeq(note.dir, 1, k)].dirs
      /\ apart => again.written = {}

\* A log keeps its lines in their order and gains the entry, under its own date
\* (under which entries come, too, that stood right below the title); a log made by appending has one section for each date, all its entries in it as
\* they came, and the date that was new last on top.
LogsKeepTheirEntries(lines, date, entry, answer) ==
  LET new == answer.lines
      At == {i \in DOMAIN new : new[i] = entry}
      Above(i) == Max({0} \cup {j \in 1 .. i - 1 : Heads(new[j])})
      Kept(log) == SelectSeq(log, LAMBDA line : line # Blank /\ line # entry)
      Dates(log) == SelectSeq(log, LAMBDA line : line.kind = "date")
  IN  /\ Cardinality(At) = 1 + Cardinality({i \in DOMAIN lines : lines[i] = entry})
      /\ \E i \in At : Above(i) # 0 /\ new[Above(i)] = Date(date)
           /\ ~answer.section => \A j \in i + 1 .. Len(new) : new[j].kind = "entry" => Above(j) # Above(i)
      /\ \E k \in 0 .. Len(Kept(lines)) :
           Kept(lines) = SubSeq(Kept(new), 1, k) \o SubSeq(Kept(new), k + 1 + Len(Kept(new)) - Len(Kept(lines)), Len(Kept(new)))
      /\ answer.file => Kept(lines) = <<>>
      /\ answer.section <=> Date(date) \notin Range(lines)
      /\ answer.section /\ lines # <<>> /\ lines[1].kind = "title" => Dates(new) = <<Date(date)>> \o Dates(lines)

AppendAll(dates) ==
  FoldLeft(LAMBDA lines, i : BuildLogContent(lines, dates[i], [kind |-> "entry", of |-> i]).lines, <<>>, [i \in DOMAIN dates |-> i])
LogsAreInOrder(dates) ==
  LET log == AppendAll(dates)
      At(line) == CHOOSE i \in DOMAIN log : log[i] = line
      Entry(i) == At([kind |-> "entry", of |-> i])
  IN  \A i, j \in DOMAIN dates :
        /\ Cardinality({k \in DOMAIN log : log[k] = Date(dates[i])}) = 1
        /\ i < j /\ dates[i] = dates[j] => Entry(i) < Entry(j)
        /\ i < j /\ dates[j] \notin Range(SubSeq(dates, 1, j - 1)) => Entry(j) < Entry(i)
=============================================================================

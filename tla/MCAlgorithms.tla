----------------------------- MODULE MCAlgorithms -----------------------------
\* Every behaviour runs one of the algorithms: a machine that takes its events one
\* by one, or an operator that is given one of a set of inputs and answers once.
EXTENDS Integers, FiniteSets, Sequences, SequencesExt, FiniteSetsExt, TLC

CONSTANTS MaxTexts, MaxOpens, MaxDepth, MaxPieces, MaxNested, Absent, Declined

VARIABLES
  in, out,                               \* the input, and <<the answer>>
  open, s, n, dests, opens, odd,         \* NoteBlocks
  note, within, p, elements, found,      \* NoteScan
  circuit, now, request, streak, calls, registry, value, adding, added,   \* CoreHelpers
  files, copies, tx, failures,           \* FileTransactions
  disk, running, missed, events, mirror, changes                          \* FileWatcher

blockVars == <<open, s, n, dests, opens, odd>>
scanVars == <<note, within, p, elements, found>>
helperVars == <<circuit, now, request, streak, calls, registry, value, adding, added>>
fileVars == <<files, copies, tx, failures>>
watchVars == <<disk, running, missed, events, mirror, changes>>

Blocks == INSTANCE NoteBlocks
Scan == INSTANCE NoteScan
Tasks == INSTANCE TaskText WITH MaxDescription <- 3, MaxItems <- 2
Edits == INSTANCE NoteEdits WITH Percent <- 40, MaxSearch <- 4, MaxBudget <- 20
Slices == INSTANCE NoteSlices
Chunks == INSTANCE NoteChunks
Found == INSTANCE Retrieval WITH RankOffset <- 2, PoolFloor <- 2
Quality == INSTANCE NoteQuality
Graph == INSTANCE GraphAnswers WITH MaxHops <- 2, SuggestionLimit <- 2
Held == INSTANCE Conformance WITH None <- Absent
Surface == INSTANCE ToolSurface WITH None <- Absent, MaxWords <- 4, MaxValues <- 2
Extensions == ("n.md" :> "md") @@ ("N.MD" :> "MD") @@ ("t.txt" :> "txt") @@ [name \in {"/", "v", "o", "l", "a", "b", ".obsidian", ".turbovault", ".", ".."} |-> Absent]
FoldedExtensions == (".md" :> "md") @@ ("md" :> "md") @@ ("MD" :> "md") @@ (".txt" :> "txt") @@ ("txt" :> "txt") @@ (".canvas" :> "canvas")
Policy == INSTANCE VaultPolicy WITH None <- Absent, Extension <- Extensions, Folded <- FoldedExtensions, SizeLimit <- 1
Start == INSTANCE Startup WITH None <- Absent, Extension <- Extensions, Folded <- FoldedExtensions, SizeLimit <- 1, MaxVaults <- 2,
                               Order <- <<"b", "default", "x">>, SpacedNames <- {"a b"}, LongNames <- {"long"}, Features <- {"http"}, WorkingDir <- <<"/", "o">>
Text == INSTANCE NoteText WITH Letters <- {"a", "1"}, Digits <- {"1"}, Schemes <- {<<"a", "a">>}
Index == INSTANCE IndexContents WITH None <- Absent, Schema <- 2, Chunker <- "c1",
                                     Type <- ("n" :> "md") @@ ("d" :> "pdf") @@ ("w" :> "docx") @@ ("t" :> "txt")
History == INSTANCE Versions WITH Paths <- {"a", "b"}, Refused <- Declined, InlineLimit <- 1
ReadsAs(text) == IF {":", "nl"} \cap Range(text) # {} THEN "break" ELSE IF text \in {<<"1">>, <<"7">>} THEN "value" ELSE "text"
Made == INSTANCE Templates WITH Refused <- Declined, Numbers <- {<<"1">>, <<"7">>}, YamlText <- ReadsAs
Exports == INSTANCE Reports WITH Refused <- Declined
Judge == INSTANCE Grounding WITH MaxClaims <- 2, MinClaimWords <- 2, DefaultLimit <- 2

TakesRow(row) == \A k \in DOMAIN row : row[k] # <<"number", 9>>
ReadsNumber(text) == IF text = <<"3">> THEN 3 ELSE Declined
Asked == INSTANCE NoteTables WITH Absent <- Declined, Storable <- TakesRow, NumberOf <- ReadsNumber


Helpers == INSTANCE CoreHelpers WITH Callers <- {1, 2}, FailureThreshold <- 2, SuccessThreshold <- 2, Timeout <- 1,
                                     Largest <- 3, Amounts <- {1, 2}, MaxTime <- 2, MaxCalls <- 6

Op(op, path, to) == [op |-> op, path |-> path, to |-> to]
Transactions ==
  { <<Op("write", "a", "a"), Op("delete", "b", "b")>>, <<Op("write", "a", "a"), Op("move", "a", "b")>>,
    <<Op("move", "a", "b"), Op("write", "a", "a")>> }
Transacted == INSTANCE FileTransactions WITH Files <- {"a", "b", "a.tmp"}, TempOf <- ("a" :> "a.tmp"), Partial <- "cut",
                                              Transactions <- Transactions, Runs <- {"t1", "t2"}, MaxFailures <- 2

EntryIn(folder, name, markdown, hidden) == [folder |-> folder, name |-> name, markdown |-> markdown, hidden |-> hidden]
Entries == { EntryIn("", "a", TRUE, FALSE), EntryIn("x", "b", TRUE, FALSE), EntryIn("y", "b", TRUE, FALSE),
             EntryIn("", "c", FALSE, FALSE), EntryIn("", "d", TRUE, TRUE) }
Watcher == INSTANCE FileWatcher WITH Folders <- {"x", "y"}, MaxChanges <- 3

SeqsTo(S, k) == UNION {[1 .. i -> S] : i \in 0 .. k}
Distinct(seq) == Cardinality(Range(seq)) = Len(seq)

-----------------------------------------------------------------------------
(* Inputs.                                                                 *)

Rule == [mark |-> "", width |-> 0]
FenceLines == {Rule} \cup {[mark |-> m, width |-> w] : m \in {"<", "=", ">"}, w \in {7, 8}}
EditTexts == SeqsTo({"a", "b", " ", "nl"}, 4) \cup SeqsTo({"a", "b"}, 6)
Searches == SeqsTo({"a", "b"}, 5) \cup SeqsTo({"a", " ", "nl"}, 2)
EditBlocks == {b \in SeqsTo([search : SeqsTo(FenceLines, 1), replace : SeqsTo(FenceLines, 1)], 2) : b # <<>>}

SliceSpecs == [head : -1 .. 3, tail : -1 .. 2, level : {-1, 1, 2}, first : {-1, 0, 1}, last : {-1, 1}]
Runs == {{"tick", "ticks2", "ticks3"}, {"tildes2", "tildes3"}}
LinkTexts == {t \in SeqsTo({"link", "nl", "tick", "ticks2", "ticks3", "tildes2", "tildes3"}, 5) :
                \A k \in 2 .. Len(t) : ~\E r \in Runs : {t[k - 1], t[k]} \subseteq r}

LineShapes == {<<"heading", 1, 1>>, <<"heading", 2, 1>>, <<"text", 0, 1>>, <<"text", 0, 3>>, <<"blank", 0, 0>>, <<"fence", 0, 1>>}
Lines(shapes) == [i \in DOMAIN shapes |->
  [kind |-> shapes[i][1], level |-> shapes[i][2], text |-> [k \in 1 .. shapes[i][3] |-> 10 * i + k]]]

Paths == {"a", "b", "c"}
Dense == {Found!Failed} \cup {Found!Hits(q) : q \in SeqsTo(Paths, 3)}
Sparse == {Found!Failed} \cup {Found!Hits(q) : q \in {x \in SeqsTo(Paths, 3) : Distinct(x)}}
PoolOf(i) == Found!MinOf(Found!MaxOf(i.limit, 2), Cardinality(Range(i.dense.hits) \cup Range(i.sparse.hits)))
BatchSizes(i) == CASE PoolOf(i) = 3 -> <<2, 1>> [] PoolOf(i) \in 1 .. 2 -> <<PoolOf(i)>> [] OTHER -> <<>>
BatchAnswers == SUBSET [index : 0 .. 2, score : {1}]
                \cup {{[index |-> 0, score |-> 1], [index |-> 1, score |-> 2]}, {[index |-> 0, score |-> 3]}}
Hybrid == {i \in [job : {"hybrid"}, dense : Dense, sparse : Sparse, answers : SeqsTo(BatchAnswers, 2), limit : {1, 3}] :
             i.answers # <<>> => Len(i.answers) = Len(BatchSizes(i))}
Pairs == {x \in SUBSET Paths : Cardinality(x) = 2}

GraphNote(i) == [name |-> i, folder |-> <<"", "root", "d", "d">>[i]]
Edge(a, b, nr) == [from |-> GraphNote(a), to |-> GraphNote(b), nr |-> nr]
GraphsOf(k, edges, broken) == [notes : {[i \in 1 .. k |-> GraphNote(i)]}, edges : SUBSET edges, broken : broken]
Graphs ==
  UNION { GraphsOf(0, {}, {{}, {1}}), GraphsOf(1, {}, {{}, {1}}),
          GraphsOf(2, {Edge(a, b, nr) : a, b, nr \in 1 .. 2}, {{}, {1}}),
          GraphsOf(3, {Edge(a, b, 1) : a, b \in 1 .. 3}, {{}, 1 .. 4}),
          GraphsOf(4, {Edge(x[1], x[2], 1) : x \in {<<1, 2>>, <<2, 1>>, <<2, 3>>, <<3, 4>>, <<4, 3>>, <<1, 4>>, <<4, 4>>, <<3, 1>>}}, {{1}}) }

PlainNote == [grade |-> 900, diverse |-> TRUE, headings |-> <<1>>, keys |-> -1, tags |-> 0, links |-> 0, words |-> 150,
              linked |-> FALSE, days |-> 30, newer |-> 0]
QualityNotes ==
  {[PlainNote EXCEPT !.grade = g, !.diverse = d] : g \in {-200, 0, 400, 800, 801, 1200, 1201, 1600, 1601, 2400, 3000}, d \in BOOLEAN}
  \cup {[PlainNote EXCEPT !.headings = h, !.keys = k] : h \in SeqsTo(1 .. 3, 3), k \in {-1, 0, 2, 3}}
  \cup {[PlainNote EXCEPT !.keys = k, !.tags = t, !.links = l, !.words = w, !.linked = b] :
           k \in {-1, 2}, t \in 0 .. 2, l \in 0 .. 3, w \in {0, 29, 30, 99, 100, 299, 300, 600}, b \in BOOLEAN}
  \cup {[PlainNote EXCEPT !.days = d, !.newer = x] : d \in {0, 1, 7, 8, 30, 31, 90, 91, 180, 181, 365, 366}, x \in {0, 1, 3, 20, 25}}
ReportNotes ==
  { PlainNote, [PlainNote EXCEPT !.days = 400, !.grade = 3000], [PlainNote EXCEPT !.days = 40, !.headings = <<3>>],
    [PlainNote EXCEPT !.keys = 3, !.tags = 2, !.links = 3, !.linked = TRUE, !.days = 0, !.words = 300, !.headings = <<1, 2>>] }

Directories == SeqsTo({"x", "y"}, 2)

RuleNotes == [fields : {Absent, {}, {"a"}, {"a", "b"}}, oddTags : {0, 2}, links : SeqsTo({"", "url", "#heading", "note"}, 1), length : {1}, headed : {FALSE}]
OkfNote(dir, name, title, fields, type) == [dir |-> dir, name |-> name, title |-> title, fields |-> fields, type |-> type]
Apart(notes) == \A i, j \in DOMAIN notes : notes[i].dir = notes[j].dir /\ notes[i].name = notes[j].name => i = j
TypedNotes == {OkfNote(d, m, 1, f[1], f[2]) : d \in {<<>>, <<"x">>}, m \in {"a", "b", "index"}, f \in {<<Absent, "">>, <<{}, "">>, <<{}, "T">>}}
TitledNotes == {OkfNote(d, m[1], m[2], Absent, "") : d \in {<<>>, <<"x">>, <<"x", "y">>},
                  m \in {<<"a", 1>>, <<"a", 2>>, <<"b", 1>>, <<"index", 1>>}}
OldIndex == [notes |-> <<"z">>, dirs |-> {}]
LogLines == {[kind |-> k, of |-> 0] : k \in {"title", "heading", "blank", "entry"}} \cup {Held!Date(1), Held!Date(2)}
LogEntry == [kind |-> "entry", of |-> 1]

PluginOf(id, tools, prompts) == [id |-> id, tools |-> tools, prompts |-> prompts, resources |-> <<>>, templates |-> <<>>, config |-> <<>>,
                                 titled |-> TRUE, builds |-> TRUE]
PlainPlugin == [PluginOf(<<"t">>, <<<<"x">>>>, <<<<"x">>>>) EXCEPT !.resources = <<"x">>, !.templates = <<"y">>]
Plugins ==
  {PluginOf(id, t, q) : id \in {<<"t">>, <<"t", "b">>, <<"read">>, <<"files">>},
                        t \in {<<>>, <<<<"x">>>>, <<<<"b", "x">>, <<"x">>>>, <<<<"note">>>>}, q \in {<<>>, <<<<"b", "x">>>>}}
  \cup { PlainPlugin, [PlainPlugin EXCEPT !.titled = FALSE], [PlainPlugin EXCEPT !.builds = FALSE], [PlainPlugin EXCEPT !.id = <<"obsidian">>],
         [PlainPlugin EXCEPT !.id = <<"-">>], [PlainPlugin EXCEPT !.tools = <<<<"x">>, <<"x">>>>], [PlainPlugin EXCEPT !.tools = <<<<"?">>>>],
         [PlainPlugin EXCEPT !.tools = <<<<"x", "x", "x", "x">>>>], [PlainPlugin EXCEPT !.resources = <<"a://b">>],
         [PlainPlugin EXCEPT !.config = <<<<".obsidian", "..", "a">>>>], [PlainPlugin EXCEPT !.id = <<"u">>, !.config = <<<<".obsidian", "a">>>>] }
Outcomes == Surface!InvalidCodes \cup {"ok", "unavailable", "internal", "timeout", "panic", "hang"}
Settings(name) == [allowed : {<<>>, <<name, "">>}, hidden : {<<>>, <<"b">>}, disabled : {<<>>, <<"", "a">>}, disabledTags : {<<>>, <<"w">>}, readOnly : BOOLEAN]
VisibleTools == [name : {"a", "b"}, tags : SUBSET {"w"}, readOnly : BOOLEAN]
Leaves == [types : {{"integer"}, {"string"}, {"null", "number"}}, format : {Absent, "f"}, nested : {<<>>}]
Branches(S) == {[leaf EXCEPT !.nested = q] : leaf \in Leaves, q \in SeqsTo(S, 1)}

Entry(kind, size, to) == [kind |-> kind, size |-> size, to |-> to]
Folder == Entry("dir", 0, Absent)
SmallFile == Entry("file", 1, Absent)
LargeFile == Entry("file", 2, Absent)
LinkTo(to) == Entry("link", 0, to)
RootAt == <<"/", "v">>
Base == (<<"/">> :> Folder) @@ (RootAt :> Folder) @@ (<<"/", "o">> :> Folder) @@ (<<"/", "o", "n.md">> :> SmallFile) @@ (<<"/", "l">> :> LinkTo(RootAt))
          @@ (RootAt \o <<"n.md">> :> SmallFile) @@ (RootAt \o <<".obsidian">> :> Folder) @@ (RootAt \o <<".obsidian", "n.md">> :> SmallFile)
          @@ (RootAt \o <<"t.txt">> :> SmallFile)
InA(entry, big) == (RootAt \o <<"a">> :> Folder) @@ (RootAt \o <<"a", "n.md">> :> entry) @@ (RootAt \o <<"a", "N.MD">> :> big)
Trees == { Base, InA(SmallFile, LargeFile) @@ Base, InA(LinkTo(<<"/", "o", "n.md">>), SmallFile) @@ Base, InA(LinkTo(RootAt \o <<"n.md">>), SmallFile) @@ Base,
           InA(Folder, SmallFile) @@ (RootAt \o <<"a", "b">> :> Folder) @@ (RootAt \o <<"a", "b", "n.md">> :> SmallFile) @@ Base,
           (RootAt \o <<"a">> :> LinkTo(<<"/", "o">>)) @@ Base, (RootAt \o <<"a">> :> LinkTo(RootAt \o <<".obsidian">>)) @@ Base,
           (RootAt \o <<"a">> :> LinkTo(RootAt \o <<"b", "a">>)) @@ (RootAt \o <<"b">> :> Folder) @@ (RootAt \o <<"b", "a">> :> Folder) @@ Base,
           (RootAt \o <<"a">> :> SmallFile) @@ Base, [at \in {<<"/">>} |-> Folder] }
PlainVault == Policy!Builder("x", RootAt)
ConfigOf(vaults) == [Policy!ServerDefault EXCEPT !.vaults = vaults]
ManagedConfigs ==
  { ConfigOf(<<PlainVault>>), ConfigOf(<<Policy!Builder("y", <<"/", "o">>), [PlainVault EXCEPT !.isDefault = TRUE, !.components = {"a"}]>>),
    ConfigOf(<<[PlainVault EXCEPT !.subtrees = {<<"a", "b">>}]>>), [ConfigOf(<<PlainVault>>) EXCEPT !.subtrees = {<<"a", "">>}, !.components = {}],
    [ConfigOf(<<PlainVault>>) EXCEPT !.extensions = {"txt"}], ConfigOf(<<[PlainVault EXCEPT !.backend = "git", !.git = Policy!VaultGitDefault]>>) }
AskedPaths ==
  {q \o r : q \in SeqsTo({"", ".", "..", "a", "b", "v"}, 2), r \in {<<>>, <<"n.md">>, <<"N.MD">>, <<"..", "n.md">>}}
    \cup {<<a, "n.md">> : a \in {".obsidian", ".turbovault"}} \cup {<<"/">> \o q \o <<"n.md">> : q \in SeqsTo({"v", "l", "o", "a", ".."}, 2)} \cup {<<"t.txt">>}
Roots == { RootAt, <<"/", "v", "b", "b">>, <<"/", "v", "n.md">>, <<"/", "v", "n.md", "b">>, <<"/", "l", "a">> }
VaultConfigs == {[Policy!Builder(name, path) EXCEPT !.isDefault = default, !.subtrees = t] :
                   name \in {"", "x", "y"}, path \in Roots, default \in BOOLEAN, t \in {{}, {<<"a", ".", "b">>}, {<<"">>}}}
SomeVaults == {w \in VaultConfigs : w.subtrees = {} \/ (w.path = RootAt /\ w.isDefault)}

OtherAt == <<"/", "o">>
CachedVaults == {PlainVault, Policy!Builder("x", OtherAt), Policy!Builder("default", RootAt), [Policy!Builder("b", OtherAt) EXCEPT !.backend = "git"]}
Caches == {Start!NoCache} \cup [vaults : {Start!BrokenVaults} \cup SeqsTo(CachedVaults, 2), active : {Absent, "x", "b"}]
FileVaults == CachedVaults \cup {Policy!Builder("x", <<"/", "l">>), [PlainVault EXCEPT !.backend = "git"]}
StartArgs == [config : {Absent}, transport : {"stdio"}, format : {"json"}, vault : {Absent, RootAt, OtherAt \o <<"a">>}, backend : {"direct"}, opts : {Absent, Policy!VaultGitDefault}]
               \cup [config : {Absent}, transport : {"http", "tcp", "pipe"}, format : {"human", "xml"}, vault : {RootAt}, backend : {"git"}, opts : {Policy!VaultGitDefault}]
Orders == {[names \in SUBSET {"b", "default", "x"} |-> SelectSeq(q, LAMBDA name : name \in names)] : q \in {<<"b", "default", "x">>, <<"x", "default", "b">>}}
Registries == {Start!EmptyRegistry, Start!AddVault(Start!EmptyRegistry, PlainVault), Start!AddVault(Start!AddVault(Start!EmptyRegistry, PlainVault), Policy!Builder("b", OtherAt))}
Readme == (RootAt \o <<"README.md">> :> LargeFile) @@ Base
NewTrees == { Base, Readme, (RootAt \o <<"README.md">> :> Folder) @@ Base, (RootAt \o <<"Team">> :> SmallFile) @@ Base }

Composed(chunks, k) == {FlattenSeq(q) : q \in SeqsTo(chunks, k)}
WikiTexts == Composed({<<"[", "[">>, <<"]", "]">>, <<"!">>, <<"[", "[", "a">>, <<"[", "[", "a", "]", "]">>, <<"!", "[", "[", "a", "|", "a", "]", "]">>,
                       <<"[", "[", "a", " ", "a", "#", "a", "]", "]">>, <<"a">>, <<"|">>, <<"#">>, <<"^">>, <<" ">>, <<"\n">>, <<"\r", "\n">>, <<"#", "a", "/", "a">>}, 3)
LineTexts == Composed({<<"[">>, <<"[", "1", "]">>, <<"[", "a", "]">>, <<"]", "(">>, <<"(", "a", "a", ")">>, <<"(", "<", "a", ">">>, <<")">>, <<"!">>, <<" ">>, <<"\"">>, <<"a", "#", "a">>}, 3)
               \cup Composed({<<"[", "a", "]", "(">>, <<"<", "a", " ", "a", ">">>, <<"a">>, <<" ", "\"">>, <<"\"", ")">>, <<")">>, <<"[">>}, 4)
RuledTexts == Composed({<<"-", "-", "-">>, <<"-">>, <<"\n">>, <<" ">>, <<"a">>}, 5) \cup {<<"-", "-", "-", "\n">> \o q : q \in Composed({<<"-", "-", "-">>, <<"\n">>, <<" ">>, <<"a">>}, 5)}
Outlines == {h \in SUBSET [line : 1 .. 4, level : 1 .. 2, cites : BOOLEAN] : \A x, y \in h : x.line = y.line => x = y}
WordsIn(b, k) == [j \in 1 .. k |-> <<b, j>>]
TextLeaves(b) == {[kind |-> "paragraph", words |-> WordsIn(b, k)] : k \in 0 .. 2}
              \cup {[kind |-> "code", words |-> WordsIn(b, 1) \o <<Text!NewLine>>], [kind |-> "rule"], [kind |-> "table", rows |-> <<<<WordsIn(b, 1), WordsIn(b + 1, 2)>>, <<WordsIn(b + 2, 1), <<>>>>>>]}
TextItems(b) == {[words |-> WordsIn(b, k), blocks |-> q] : k \in 0 .. 1, q \in UNION {{<<x>>, <<x, y>>} : x \in TextLeaves(b + 10), y \in {[kind |-> "paragraph", words |-> WordsIn(b + 20, 1)]}} \cup {<<>>}}
BlockTrees == TextLeaves(1) \cup {[kind |-> "list", items |-> <<x, y>>] : x \in TextItems(1), y \in {[words |-> WordsIn(60, 1), blocks |-> <<>>]}}
           \cup {[kind |-> k, words |-> WordsIn(40, j), blocks |-> q] : k \in {"blockquote", "details"}, j \in 0 .. 1, q \in {<<>>} \cup {<<x, y>> : x \in TextLeaves(1), y \in {[kind |-> "list", items |-> <<z>>] : z \in TextItems(5)}}}

Unset == [chunk |-> -1, overlap |-> -1, batch |-> -1, docMax |-> -1, refresh |-> -1, rerankBatch |-> -1, model |-> Absent, key |-> Absent,
          rerankKey |-> Absent, reranks |-> Absent, rerankEndpoint |-> Absent, documents |-> Absent, dir |-> Absent, cache |-> Absent, home |-> Absent]
Environments ==
  {[Unset EXCEPT !.chunk = c, !.overlap = o, !.batch = b] : c \in {-2, -1, 0, 1, 2, 3}, o \in -2 .. 3, b \in {-1, 0, 1}}
  \cup {[Unset EXCEPT !.key = k, !.rerankKey = r, !.reranks = x, !.rerankEndpoint = e] :
          k \in {Absent, "blank", "k"}, r \in {Absent, "blank", "r"}, x \in {Absent, "blank", "0", "false", "1"}, e \in {Absent, "blank", "e"}}
  \cup {[Unset EXCEPT !.dir = d, !.cache = c, !.home = h, !.model = m] : d \in {Absent, "d"}, c \in {Absent, "c"}, h \in {Absent, "h"}, m \in {Absent, "m"}}
  \cup {[Unset EXCEPT !.docMax = x, !.documents = y, !.refresh = z, !.rerankBatch = w] :
          x \in {-2, 0, 1}, y \in {Absent, "on", "off", "maybe"}, z \in {-2, 0}, w \in {-2, 0, 1}}
IndexConfig == [failed |-> FALSE, model |-> "m", chunk |-> 2, overlap |-> 1, batch |-> 2, documents |-> TRUE, docMax |-> 2]
IndexConfigs == {IndexConfig, [IndexConfig EXCEPT !.chunk = 1, !.overlap = 0], [IndexConfig EXCEPT !.model = "k"], [IndexConfig EXCEPT !.documents = FALSE],
                 [IndexConfig EXCEPT !.docMax = 1], [IndexConfig EXCEPT !.batch = 1]}
IndexFile(path, front, headings, text, readable, modified) ==
  [path |-> path, front |-> front, headings |-> headings, text |-> text, readable |-> readable, modified |-> modified]
IndexNotes == {IndexFile(<<"n">>, f, h, t, TRUE, 1) : f \in {Absent, "t"}, h \in {<<>>, <<"h">>}, t \in {<<"a", " ", "b">>}}
              \cup {IndexFile(<<"n">>, Absent, <<>>, t, TRUE, 1) : t \in {<<" ">>, <<"a">>, <<"a", "b", "a", "b">>}} \cup {IndexFile(<<"n">>, Absent, <<>>, <<"a">>, FALSE, 1)}
IndexDocuments == {IndexFile(<<"d">>, Absent, <<>>, t, r, 1) : t \in {<<"a">>, <<"b", "a">>}, r \in BOOLEAN}
Hidden == {IndexFile(<<".trash", "n">>, Absent, <<>>, <<"a">>, TRUE, 1), IndexFile(<<"t">>, Absent, <<>>, <<"a">>, TRUE, 1)}
WasSets == {{x, y} \cup Hidden : x \in IndexNotes, y \in {IndexFile(<<"d">>, Absent, <<>>, <<"a">>, TRUE, 1)}} \cup {{x} : x \in IndexDocuments}
FileSets == {{x, y} \cup Hidden : x \in IndexNotes, y \in IndexDocuments} \cup {{x, IndexFile(<<"w", "n">>, Absent, <<"h">>, <<"b">>, TRUE, 1)} : x \in IndexNotes} \cup {{}}
NoIndex == [index |-> Absent, stale |-> FALSE, incompatible |-> FALSE, running |-> FALSE, trail |-> <<Index!BeginReindex>>]
Before(i) == Index!Restarted(Index!RunReindex(NoIndex, i.was.files, {}, i.was.config, "v", 0, <<"whole">>), i.config, "v")
Rebuilt(old, new, i) ==
  /\ Index!RebuildIsWhole(old, new, i.was, i.files, i.config, {}) /\ Index!VectorsFit(old, new)
  /\ Index!StatusIsTrue(new, i.files, {}, {<<"d">>}, i.config) /\ Index!ProgressIsHonest(new.trail)
DenseHits == {[path |-> <<x>>, id |-> <<<<x>>, k>>, text |-> <<"a">>] : x \in {"n", "w"}, k \in 0 .. 1}
WordHits == {[path |-> <<x>>, text |-> <<"b">>] : x \in {"n", "w", "d"}}
HitEngine == [NoIndex EXCEPT !.index = [chunks |-> {[id |-> <<<<x>>, k>>, path |-> <<x>>, text |-> <<"a">>] : x \in {"n", "w"}, k \in 0 .. 1}]]

NoteTrees == [{"a", "b"} -> {Absent, "x", "y"}]
FewTrees == {[q \in {"a", "b"} |-> IF q = "a" THEN t[1] ELSE t[2]] : t \in {<<Absent, "x">>, <<"x", Absent>>, <<"y", "x">>}}
Commit(parents, tree) == [parents |-> parents, tree |-> tree]
TwoCommits == {<<Commit(<<>>, t), Commit(<<1>>, u)>> : t \in NoteTrees, u \in NoteTrees}
MoreCommits == {<<Commit(<<>>, t), Commit(<<1>>, u), Commit(q, v), Commit(r, u)>> :
                  t \in FewTrees, u \in FewTrees, v \in FewTrees, q \in {<<1>>, <<2>>, <<2, 1>>, <<>>}, r \in {<<3>>, <<2, 3>>, <<3, 2>>, <<1>>}}
RestorePaths == {<<>>, <<"a">>, <<"b">>, <<"a", "b">>, <<"a", "a">>}
Logged(world, op, path, before, after) ==
  [world EXCEPT !.log = Append(@, [id |-> Len(@) + 1, op |-> op, path |-> path, before |-> before, after |-> after, time |-> Len(@) + 1]),
                !.snapshots = @ \cup ({before, after} \ {Absent})]
Happened(world, event) ==
  CASE event \in {"x", "y"} -> [Logged(world, IF world.files["a"] = Absent THEN "create" ELSE "update", "a", world.files["a"], event) EXCEPT !.files["a"] = event]
    [] event = "delete" /\ world.files["a"] # Absent -> [Logged(world, "delete", "a", world.files["a"], Absent) EXCEPT !.files["a"] = Absent]
    [] event = "move" /\ world.files["a"] # Absent ->
         [Logged(world, "move", "a", world.files["a"], world.files["a"]) EXCEPT !.files["a"] = Absent, !.files["b"] = world.files["a"]]
    [] event = "write b" -> [Logged(world, IF world.files["b"] = Absent THEN "create" ELSE "update", "b", world.files["b"], "x") EXCEPT !.files["b"] = "x"]
    [] event = "outside" -> [world EXCEPT !.files["a"] = IF @ = Absent THEN "z" ELSE Absent]
    [] event = "torn" -> [world EXCEPT !.log = Append(@, History!Torn)]
    [] event = "lost" -> [world EXCEPT !.snapshots = {}]
    [] event = "undo" -> History!Execute(world, 1, Len(world.log) + 1, Len(world.log) + 1).world
    [] OTHER -> world
WorldsAfter(happenings) == {FoldLeft(Happened, [files |-> [q \in {"a", "b"} |-> Absent], log |-> <<>>, snapshots |-> {}], e) : e \in happenings}
LogFilters == [path : {Absent, {"a"}}, op : {Absent, "update"}, since : {Absent, 2}, until : {Absent, 2}, limit : 0 .. 2]
Scripts == SeqsTo([tag : {"equal", "insert", "delete"}, line : {"a", "b"}], 4)
RollbackHolds(world, id, backend, logged, newId) ==
  /\ History!PreviewIsKept(world, id, newId, newId)
  /\ History!RollbacksAreSeen(backend, logged, world, world.files, id, newId, newId)
AMessage == <<[count |-> 1, word |-> "mine", plural |-> FALSE]>>
BatchOf(kinds) == [k \in DOMAIN kinds |-> [kind |-> kinds[k], path |-> "a", to |-> "b"]]

Dated == <<"2", "0", "2", "5", "-", "1", "2", "-", "3", "1">>
CustomTemplates ==
  {Made!Template("own", [kind |-> <<"k">>], <<Made!Field("title", "text", FALSE), Made!Choice("x", type, {<<"low">>, <<"high">>}, TRUE)>>, <<"a", Made!Hole("x"), "b", Made!Hole("title"), Made!Hole("x")>>) :
     type \in {"text", "date", "select", "multi", "number", "boolean"}}
  \cup {Made!Template("7", [kind |-> <<"k">>], <<>>, <<"a", Made!Hole("x")>>)}
FieldTexts == {<<>>, <<"low">>, <<"low", ",", " ", "high", " ">>, <<"1">>, <<"yes">>, Dated, Front(Dated), <<"c", ":", "d">>, <<Made!Hole("x")>>, <<Made!Hole("title")>>}
FieldValues(names) == UNION {[given -> FieldTexts] : given \in SUBSET names}
TemplateVault == [q \in {"n", "m"} |-> IF q = "m" THEN [front |-> [template |-> <<"task">>], content |-> <<"m">>] ELSE Absent]
TemplatesHold(templates, id, values, path) ==
  /\ Made!DefaultsAreComplete
  /\ Made!NotesFollowTemplates(templates, id, values, TemplateVault, path)
  /\ Made!MadeNotesAreFound(templates, id, values, TemplateVault, path)
CsvTexts == SeqsTo({"a", ",", "quote", "nl", "=", "'"}, 2)
ReportGraphs == {g \in [files : {0, 1, 2, 4, 11}, links : {0, 1, 6}, orphans : {0, 1, 2, 11}] : g.orphans <= g.files /\ (g.links = 0 => g.orphans = g.files)}
CountedNotes == {[markdown |-> m, parses |-> x, words |-> 3, chars |-> 9] : m \in BOOLEAN, x \in BOOLEAN}

Sentences == SeqsTo({"a", ".", " ", "nl"}, 5)
ProseTexts == {<<>>, <<" ">>, <<"a">>, <<"a", " ", "b">>, <<"a", " ", "b", ".", " ", "b", " ", "a">>, <<"7", " ", "7", ".", "7">>, <<"http://", " ", "a">>, <<"a", " ", "b", "nl", "b", " ", "b", "nl", "a", " ", "a">>, <<"a", "nl", "b">>}
ProseBlocks == [kind : {"paragraph", "quote", "list", "code", "heading"}, text : ProseTexts]
JudgedNotes == [path : {1, 2, 3}, blocks : {<<[kind |-> k, text |-> x]>> : k \in {"paragraph", "code"}, x \in {<<" ">>, <<"a", " ", "b">>, <<"a", " ", "b", "nl", "b", " ", "b", "nl", "a", " ", "a">>}}, citations : {<<>>, <<"c">>}, headings : {{}}]

Fields(names, values) == UNION {[given -> values] : given \in SUBSET names}
Scalars == {Asked!Null, Asked!Str(<<"x">>), <<"number", 1>>}
SqlNote(q, front) == [path |-> <<q>>, markdown |-> TRUE, parses |-> TRUE, front |-> front]
SqlNotes == {SqlNote("n", front) : front \in {Declined} \cup Fields({<<"a">>}, Scalars \cup {<<"boolean", TRUE>>})}
            \cup {[SqlNote("n", [k \in {<<"a">>} |-> Asked!Null]) EXCEPT !.markdown = FALSE], [SqlNote("n", [k \in {<<"a">>} |-> <<"number", 1>>]) EXCEPT !.parses = FALSE]}
OddNotes == {SqlNote("o", front) : front \in Fields({<<"a">>, <<"path">>, <<"a", ".", "b">>}, {Asked!Null, Asked!Str(<<"x">>)}) \cup {[k \in {<<"a">>} |-> <<"number", 9>>]}}
TagTexts == SeqsTo({"x", "#", ",", " ", "'"}, 3)
TagValues == {Asked!Str(t) : t \in TagTexts} \cup {<<"array", <<Asked!Str(t), <<"number", 1>>, Asked!Str(<<"x">>)>>>> : t \in TagTexts} \cup {Asked!Null}
PatternTexts == SeqsTo({"quote", "contains(", ")", ":", " > ", "3"}, 3)
InnerValues == {Asked!Null, <<"number", 1>>} \cup {Asked!Obj(map) : map \in Fields({<<"a">>}, {Asked!Null, <<"number", 1>>})}
FrontValues == Fields({<<"a">>, <<"b">>}, InnerValues)
DottedKeys == {<<"a">>, <<"b">>, <<"a", ".", "a">>, <<"b", ".", "a">>, <<"a", ".", "b">>}
TablesHold(table) ==
  /\ Asked!SchemaTellsTable(table)
  /\ \A key \in {<<"a">>, <<"path">>, <<"a", ".", "b">>}, v \in Scalars : Asked!QueriesAgree(table, key, v)

Inputs ==
  UNION { [job : {"blocks", "scan", "breaker", "counters", "transactions", "watch"}],
          [job : {"graph"}, graph : Graphs],
          [job : {"quality"}, note : QualityNotes],
          [job : {"report"}, notes : SeqsTo(ReportNotes, 3), bottom : 1 .. 2],
          [job : {"retry"}, outcomes : SeqsTo({"ok", "down", "busy"}, 4),
                            config : [attempts : 0 .. 4, multiplier : {1, 2}, longest : {3, 10}, first : {1, 4}]],
          [job : {"project"}, marked : SUBSET Directories, root : Directories, other : Directories],
          [job : {"validate"}, notes : SeqsTo(RuleNotes, 2), max : 0 .. 3],
          [job : {"bundle"}, notes : {q \in SeqsTo(TypedNotes, 3) : Apart(q)}],
          [job : {"index"}, notes : {q \in SeqsTo(TitledNotes, 3) : q # <<>> /\ Apart(q)}, base : {<<>>, <<"x">>}, recursive : BOOLEAN,
                            disk : {<<>>, (<<>> :> OldIndex) @@ (<<"z">> :> OldIndex)}],
          [job : {"log"}, lines : SeqsTo(LogLines, 4), date : {1, 2}],
          [job : {"logs"}, dates : SeqsTo(1 .. 3, 4)],
          [job : {"catalog"}, plugins : SeqsTo(Plugins, 2)],
          [job : {"failure"}, plugin : {[PlainPlugin EXCEPT !.id = id] : id \in {<<"t">>, <<"files", "x">>}}, outcome : Outcomes,
                              completion : [values : SeqsTo({"v", "w"}, 3), more : {Absent, TRUE, FALSE}]],
          [job : {"config"}, declared : {<<".obsidian", "a">>, <<".obsidian">>, <<".obsidian", ".", "a">>, <<".obsidian", "..", "a">>},
                             path : SeqsTo({"", ".", "..", ".obsidian", "a"}, 3) \ {<<>>}, found : {"bytes", "missing", "outside"}],
          [job : {"visible"}, settings : Settings("a"), overrides : Settings("b")],
          [job : {"schema"}, schema : Branches(Branches(Leaves))],
          [job : {"paths"}, tree : Trees, config : ManagedConfigs],
          [job : {"vaults"}, tree : {Base}, config : {[ConfigOf(q) EXCEPT !.subtrees = t] : q \in SeqsTo(SomeVaults, 2), t \in {{}, {<<"..">>}}}],
          [job : {"start"}, cache : Caches, vaults : {q \in SeqsTo(FileVaults, 2) : Len(q) < 2 \/ q[1] = PlainVault}, args : StartArgs],
          [job : {"save"}, cache : Caches, vaults : SeqsTo(CachedVaults, 2)],
          [job : {"create"}, tree : NewTrees, multi : Registries, name : {"", "x", "default", "a b", "long"}, path : {RootAt, <<"a", "b">>, <<"n.md">>, <<"/", "l">>},
                             template : {Absent, "default", "team", "other"}],
          [job : {"linktext"}, text : WikiTexts],
          [job : {"linetext"}, text : LineTexts],
          [job : {"ruledtext"}, text : RuledTexts],
          [job : {"image"}, alt : {<<>>, <<"a">>, <<"[">>}, src : Composed({<<"a">>, <<" ">>, <<"#">>, <<"(">>}, 3), title : {Absent, <<"a", " ">>, <<"\"">>, <<>>}],
          [job : {"slug"}, text : Composed({<<"a">>, <<" ">>, <<"-">>, <<".">>}, 5)],
          [job : {"outline"}, headings : {h \in Outlines : Cardinality(h) < 4}],
          [job : {"plain"}, blocks : {<<t>> : t \in BlockTrees} \cup {<<t, [kind |-> "heading", words |-> WordsIn(90, 2)], t>> : t \in TextLeaves(1)}],
          [job : {"settings"}, env : Environments, other : {Unset, [Unset EXCEPT !.model = "m", !.dir = "d"], [Unset EXCEPT !.home = "h"]}],
          [job : {"rebuild"}, was : [files : WasSets, config : {IndexConfig, [IndexConfig EXCEPT !.documents = FALSE]}], files : FileSets, config : IndexConfigs, styles : {<<"reversed">>}],
          [job : {"rebuild"}, was : [files : WasSets, config : {IndexConfig}], files : FileSets, config : {IndexConfig, [IndexConfig EXCEPT !.batch = 1]}, styles : {<<"whole", "down">>, <<"short">>, <<"wide">>}],
          [job : {"refresh"}, built : -1 .. 4, threshold : 0 .. 3, now : 0 .. 4],
          [job : {"hits"}, dense : {q \in SeqsTo(DenseHits, 3) : Distinct(q)}, sparse : {q \in SeqsTo(WordHits, 3) : Distinct(q)}],
          [job : {"restore"}, repo : [commits : TwoCommits, head : {Absent, 1, 2}], target : {1, 2}, paths : RestorePaths, other : FewTrees],
          [job : {"range"}, repo : [commits : MoreCommits, head : {4}], stop : {Absent} \cup 1 .. 4, tip : 2 .. 4],
          [job : {"history"}, world : WorldsAfter(SeqsTo({"x", "delete", "write b", "torn", "undo"}, 4)), filter : LogFilters],
          [job : {"rollback"}, world : WorldsAfter(SeqsTo({"x", "y", "delete", "move", "outside", "torn", "lost", "undo"}, 4)), id : 1 .. 4, backend : {"direct"}, logged : {TRUE}],
          [job : {"rollback"}, world : WorldsAfter(SeqsTo({"x", "delete"}, 3)), id : 1 .. 3, backend : {"direct", "git"}, logged : BOOLEAN],
          [job : {"diff"}, script : Scripts],
          [job : {"named"}, backend : {"direct", "git"}, required : BOOLEAN, message : {Absent, <<>>, AMessage}, batch : {BatchOf(q) : q \in SeqsTo(Range(History!BatchKinds), 2)}],
          [job : {"template"}, own : CustomTemplates, id : {"own", "7"}, values : FieldValues({"title", "x"}), path : {"n"}],
          [job : {"template"}, own : {Made!Template("own", [kind |-> <<"k">>], <<>>, <<"a">>)}, id : {"doc", "task", "none"}, values : FieldValues({"title", "priority"}) \cup {[title |-> t, summary |-> u] : t \in FieldTexts, u \in {<<"a">>, <<>>}}, path : {"n", "m"}],
          [job : {"csv"}, links : {<<>>} \cup {<<[source |-> x, target |-> y, line |-> 1, suggestions |-> q]>> : x \in CsvTexts, y \in SeqsTo({"a", "="}, 1), q \in SeqsTo(SeqsTo({"b", ","}, 1), 2)} \cup {<<l, l>> : l \in {[source |-> x, target |-> x, line |-> 2, suggestions |-> <<>>] : x \in CsvTexts}}],
          [job : {"export"}, graph : ReportGraphs, notes : SeqsTo(CountedNotes, 2), now : {<<"t">>}],
          [job : {"sentences"}, text : Sentences],
          [job : {"claims"}, blocks : SeqsTo(ProseBlocks, 2)],
          [job : {"ungrounded"}, notes : {q \in [1 .. 2 -> JudgedNotes] : q[1].path # q[2].path} \cup {<<[a EXCEPT !.path = 2], [b EXCEPT !.path = 1], [a EXCEPT !.path = 3]>> : a \in JudgedNotes, b \in JudgedNotes}, limit : {-1, 0, 1}],
          [job : {"schematable"}, files : SeqsTo(SqlNotes, 3) \cup SeqsTo(OddNotes, 2)],
          [job : {"tagrows"}, note : {[SqlNote("n", [k \in {<<"tags">>} |-> v]) EXCEPT !.path = <<"n", "'">>] : v \in TagValues}],
          [job : {"pattern"}, key : {<<>>} \cup Composed({<<"k">>, <<" ">>, <<" > ">>, <<":">>}, 2), text : PatternTexts],
          [job : {"merge"}, front : FrontValues \cup {Declined}, overlay : FrontValues],
          [job : {"task"}, task : Tasks!TaskTexts],
          [job : {"edit"}, text : EditTexts, search : Searches],
          [job : {"apply"}, text : SeqsTo({"a", "b", "nl"}, 4), first : [search : SeqsTo({"a", "b"}, 2), replace : {<<"y">>, <<"b", "a">>}],
                            second : [search : SeqsTo({"a", "b"}, 2), replace : {<<"z">>}]],
          [job : {"fences"}, blocks : EditBlocks, width : {7, 8}],
          [job : {"slice"}, text : SeqsTo({"x", "nl", "h1", "h2"}, 4), spec : SliceSpecs],
          [job : {"frontmatter"}, text : SeqsTo({"---", "nl", "cr", "x"}, 6)],
          [job : {"strike"}, text : LinkTexts],
          [job : {"chunk"}, lines : SeqsTo(LineShapes, 4), max : {5, 8}, overlap : {0, 4}, titled : BOOLEAN],
          [job : {"chunk"}, lines : SeqsTo(LineShapes, 5), max : {5}, overlap : {4}, titled : {TRUE}],
          Hybrid,
          [job : {"passage"}, chunks : SeqsTo([root : {"x", "y"}, size : {1, 3}], 4), anchor : 1 .. 4,
                              neighbors : 0 .. 3, budget : {1, 2, 5}],
          [job : {"filter"}, hits : SeqsTo([path : Paths, tags : SUBSET {"t"}, readable : BOOLEAN], 3),
                             tags : SUBSET {"t"}, excluded : {{}, {"a"}}, limit : 1 .. 2],
          [job : {"duplicates"}, score : [Pairs -> {0, 50, 90}], apart : [Pairs -> {0, 1, 3}],
                                 threshold : {50, 80}, limit : 1 .. 3] }

TitleOf(i) == IF i.titled /\ i.lines # <<>> THEN Lines(i.lines)[1].text ELSE <<>>

Answers(i) ==
  CASE i.job = "task"   -> {Tasks!ParseTask(Tasks!TaskWords(i.task))}
    [] i.job = "edit"   -> {Edits!Find(i.text, i.search)}
    [] i.job = "apply"  -> {Edits!ApplyBlocks(i.text, <<i.first, i.second>>)}
    [] i.job = "fences" -> {Edits!ParseBlocks(Edits!Rendered(i.blocks, i.width))}
    [] i.job = "slice"  -> {Slices!Slice(i.text, i.spec)}
    [] i.job = "frontmatter" -> {Slices!SplitFrontmatter(i.text)}
    [] i.job = "strike" -> {Slices!StruckOutsideCode(i.text)}
    [] i.job = "chunk"  -> {Chunks!ChunkMarkdown(Lines(i.lines), TitleOf(i), i.max, i.overlap)}
    [] i.job = "hybrid" -> Found!HybridSearch(i.dense, i.sparse, i.answers, BatchSizes(i), i.limit)
    [] i.job = "passage" -> {Found!ExpandPassage(i.chunks, i.anchor, TRUE, i.neighbors, i.budget)}
    [] i.job = "filter" -> {Found!BuildResults(i.hits, i.tags, i.excluded, i.limit)}
    [] i.job = "duplicates" -> Found!FindDuplicates(Pairs, i.score, i.apart, 4, i.threshold, i.limit)
    [] i.job = "graph"  -> Graph!Analyze(i.graph)
    [] i.job = "quality" -> {Quality!Overall(i.note)}
    [] i.job = "report" -> {Quality!VaultReport(i.notes, i.bottom)}
    [] i.job = "retry"  -> {Helpers!Retry(i.outcomes, i.config)}
    [] i.job = "project" -> {Helpers!ProjectRoot(i.root, i.marked)}
    [] i.job = "validate" -> {Held!ValidateVaultQuick(i.notes, i.max)}
    [] i.job = "bundle" -> {Held!DetectBundle(i.notes)}
    [] i.job = "index"  -> {Held!GenerateIndex(i.notes, i.disk, i.base, i.recursive, FALSE)}
    [] i.job = "log"    -> {Held!BuildLogContent(i.lines, i.date, LogEntry)}
    [] i.job = "logs"   -> {Held!AppendAll(i.dates)}
    [] i.job = "catalog" -> {Surface!Assemble(i.plugins)}
    [] i.job = "failure" -> Surface!CompletePrompt(Surface!Assemble(<<i.plugin>>), i.plugin.id \o i.plugin.prompts[1], i.outcome, i.completion)
    [] i.job = "config" -> {Surface!NormalizeConfigPath(i.path)}
    [] i.job = "visible" -> {Surface!MergeCli(i.settings, i.overrides)}
    [] i.job = "schema" -> {Surface!Visit(i.schema)}
    [] i.job = "paths" -> {Policy!ManagerNew(i.config, {RootAt})}
    [] i.job = "vaults" -> {Policy!DefaultVault(i.config)}
    [] i.job \in {"start", "save"} -> {Start!Recover(i.cache)}
    [] i.job = "create" -> {Start!ExpandPath(i.tree, i.path)}
    [] i.job = "linktext" -> {Text!ParseTags(i.text, {})}
    [] i.job = "linetext" -> {Text!ParseMarkdownLinks(i.text)}
    [] i.job = "ruledtext" -> {Text!ExtractFrontmatter(i.text)}
    [] i.job = "image" -> {Text!FormatImage(i.alt, i.src, i.title)}
    [] i.job = "slug" -> {Text!Slugify(i.text)}
    [] i.job = "outline" -> {Text!CitedLines(i.headings, 4)}
    [] i.job = "plain" -> {Text!ToPlainText(i.blocks)}
    [] i.job = "settings" -> {Index!FromEnvironment(i.env, "v")}
    [] i.job = "rebuild" -> {Index!Reindex(Before(i), i.files, {}, i.config, "v", 1, i.styles).engine}
    [] i.job = "refresh" -> {Index!RefreshDue(TRUE, i.built, i.threshold, i.now)}
    [] i.job = "hits" -> {Index!Merge(i.dense, i.sparse)}
    [] i.job = "restore" -> {History!BuildRestore(i.repo, i.target, i.paths)}
    [] i.job = "range" -> {History!FirstParentRange(i.repo, i.stop, i.tip)}
    [] i.job = "history" -> {History!AuditLog("direct", TRUE, i.world.log, i.filter.path, i.filter.op, i.filter.limit)}
    [] i.job = "rollback" -> {History!VersionShown(i.backend, i.logged, i.world, "a", i.id)}
    [] i.job = "diff" -> {History!DiffContent(i.script)}
    [] i.job = "named" -> {History!DeriveBatchMessage(i.batch)}
    [] i.job = "template" -> {Made!CreateFromTemplate(Made!Register(Made!DefaultTemplates, i.own), i.id, i.values, TemplateVault, i.path)}
    [] i.job = "csv" -> {Exports!BrokenLinksCsv(i.links)}
    [] i.job = "export" -> {Exports!ExportVaultStats(i.graph, i.notes, i.now, "json")}
    [] i.job = "sentences" -> {Judge!SplitSentences(i.text)}
    [] i.job = "claims" -> {Judge!AnalyzeNote([path |-> 1, blocks |-> i.blocks, citations |-> <<>>, headings |-> {"schema"}])}
    [] i.job = "ungrounded" -> {Judge!FindUngrounded(i.notes, i.limit)}
    [] i.job = "schematable" -> {Asked!Query(Asked!Session(i.files, <<[target |-> <<"'">>, valid |-> TRUE]>>), <<>>)}
    [] i.job = "tagrows" -> {Asked!TagRowsOf(i.note)}
    [] i.job = "pattern" -> {Asked!ParseQuery(i.key \o <<":">> \o i.text), Asked!ParseQuery(i.text)}
    [] i.job = "merge" -> {Asked!UpdatedFront(i.front, i.overlay, FALSE)}
    [] OTHER -> {}

-----------------------------------------------------------------------------

\* A machine that does not run has no state.
Init ==
  /\ in \in Inputs /\ out = <<>> /\ Blocks!BlocksInit /\ Scan!ScanInit /\ Watcher!WatchInit
  /\ IF in.job \in {"breaker", "counters"} THEN Helpers!HelpersInit
     ELSE /\ circuit = <<>> /\ now = 0 /\ request = {} /\ streak = <<>> /\ calls = 0
          /\ registry = <<>> /\ value = <<>> /\ adding = <<>> /\ added = <<>>
  /\ IF in.job = "transactions" THEN Transacted!FilesInit
     ELSE files = <<>> /\ copies = <<>> /\ tx = <<>> /\ failures = 0

Answer ==
  /\ out = <<>> /\ \E a \in Answers(in) : out' = <<a>>
  /\ UNCHANGED <<in, blockVars, scanVars, helperVars, fileVars, watchVars>>

Next ==
  \/ Answer
  \/ /\ in.job = "blocks" /\ Blocks!BlocksNext
     /\ UNCHANGED <<in, out, scanVars, helperVars, fileVars, watchVars>>
  \/ /\ in.job = "scan" /\ Scan!ScanNext
     /\ UNCHANGED <<in, out, blockVars, helperVars, fileVars, watchVars>>
  \/ /\ \/ in.job = "breaker" /\ Helpers!BreakerNext
        \/ in.job = "counters" /\ Helpers!CountersNext
     /\ UNCHANGED <<in, out, blockVars, scanVars, fileVars, watchVars>>
  \/ /\ in.job = "transactions" /\ Transacted!FilesNext
     /\ UNCHANGED <<in, out, blockVars, scanVars, helperVars, watchVars>>
  \/ /\ in.job = "watch" /\ Watcher!WatchNext
     /\ UNCHANGED <<in, out, blockVars, scanVars, helperVars, fileVars>>

vars == <<in, out, blockVars, scanVars, helperVars, fileVars, watchVars>>
Spec == Init /\ [][Next]_vars

-----------------------------------------------------------------------------

\* What is read out of a note, changed in it or cut from it is what stands there:
\* each text lands in one place, in its order, and code is left alone
\* (turbovault-parser, turbovault-vault/edit.rs, turbovault-tools/file_tools.rs,
\* wikilink_rewriter.rs and the chunks of embedding_engine.rs).
TextIsKept ==
  /\ Blocks!BlocksKeepText
  /\ Scan!ScanIsRight
  /\ out # <<>> =>
       CASE in.job = "task"   -> Tasks!TaskTextIsSplit(in.task, out[1])
         [] in.job = "edit"   -> Edits!EditsHitTheirText(in.text, in.search, out[1])
         [] in.job = "apply"  -> Edits!EditsDoNotMeddle(in.text, in.first, in.second, out[1])
         [] in.job = "fences" -> Edits!FencesHold(in.blocks, in.width, out[1])
         [] in.job = "slice" /\ out[1].by = "lines" -> Slices!LinesAddUp(in.text, in.spec, out[1])
         [] in.job = "slice" /\ out[1].by = "sections" -> Slices!SectionsAreWhole(in.text, in.spec, out[1])
         [] in.job = "frontmatter" -> Slices!FrontmatterIsCutOut(in.text, out[1])
         [] in.job = "strike" -> Slices!StrikingIsCareful(in.text, out[1])
         [] in.job = "chunk"  -> Chunks!ChunksHoldTheNote(Lines(in.lines), in.max, in.overlap, out[1])
         [] in.job = "log"    -> Held!LogsKeepTheirEntries(in.lines, in.date, LogEntry, out[1])
         [] in.job = "logs"   -> Held!LogsAreInOrder(in.dates)
         [] in.job = "ruledtext" /\ out # <<>> -> Text!FrontmatterIsCutClean(in.text)
         [] in.job = "image" /\ out # <<>> -> Text!ImagesAreWrittenBack(in.alt, in.src, in.title)
         [] in.job = "slug" /\ out # <<>> -> Text!SlugsAreStable(in.text)
         [] in.job = "plain" /\ out # <<>> -> Text!PlainTextKeepsWords(in.blocks)
         [] in.job = "restore" /\ out # <<>> -> History!RestoresReturn(in.repo, in.target, in.paths, in.other)
         [] in.job = "range" /\ out # <<>> -> History!RangesAddUp(in.repo, in.stop, in.tip) /\ (in.stop = Absent => History!UndoIsWhole(in.repo, in.tip))
         [] in.job = "csv" /\ out # <<>> -> Exports!LinksReadBack(in.links)
         [] in.job = "sentences" /\ out # <<>> -> Judge!SentencesKeepText(in.text)
         [] in.job = "tagrows" /\ out # <<>> -> Asked!TagRowsAreTags(in.note)
         [] in.job = "pattern" /\ out # <<>> -> Asked!PatternsReadBack(in.key, in.text)
         [] OTHER -> TRUE

\* What is found is in the order it should be and complete within its limit,
\* whichever part of the search fails (turbovault-tools: embedding_engine.rs,
\* search_engine.rs, duplicate_tools.rs).
AnswersAreRight ==
  out # <<>> =>
    CASE in.job = "hybrid"  -> Found!FusionIsFair(in.dense, in.sparse, in.answers, in.limit, out[1])
      [] in.job = "passage" -> Found!PassageIsAround(in.chunks, in.anchor, in.neighbors, in.budget, out[1])
      [] in.job = "filter"  -> Found!FilterIsExact(in.hits, in.tags, in.excluded, in.limit, out[1])
      [] in.job = "duplicates" -> Found!DuplicatesAreFound(Pairs, in.score, in.apart, 4, in.threshold, in.limit, out[1])
      [] in.job = "graph"   -> Graph!ReachIsRight(in.graph) /\ Graph!HealthIsFair(in.graph) /\ Graph!RelationsAreFair(in.graph)
      [] in.job = "quality" -> Quality!ScoresAreFair(in.note)
      [] in.job = "report"  -> Quality!ReportAddsUp(in.notes, in.bottom, out[1])
      [] in.job = "validate" -> Held!ReportsCount(in.notes, in.max)
      [] in.job = "bundle"  -> Held!BundlesAgree(in.notes)
      [] in.job = "index"   -> Held!IndexesLeadEverywhere(in.notes, in.disk, in.base, in.recursive)
      [] in.job = "linktext" /\ out # <<>> -> /\ Text!PositionsAgree(in.text) /\ Text!LinksAreToldOnce(in.text)
                                         /\ Text!TagsLeaveLinksAlone(in.text) /\ Text!LinksSurvivePreparation(in.text, <<"w">>)
      [] in.job = "linetext" /\ out # <<>> -> Text!CitationsAreLinks(in.text)
      [] in.job = "outline" /\ out # <<>> -> Text!CitationsStayInSection(in.headings, 4)
      [] in.job = "rebuild" /\ out # <<>> -> Rebuilt(Before(in), out[1], in)
      [] in.job = "hits" /\ out # <<>> -> Index!HitsReopen(HitEngine, {}, in.dense, in.sparse)
      [] in.job = "history" /\ out # <<>> -> History!LogTellsHistory(in.world, in.filter)
      [] in.job = "diff" /\ out # <<>> -> History!DiffAddsUp(History!LinesOf(History!Tagged(in.script, {"equal", "delete"})), History!LinesOf(History!Tagged(in.script, {"equal", "insert"})), in.script)
      [] in.job = "export" /\ out # <<>> -> Exports!ReportsReadBack(in.graph, in.notes, in.now) /\ Exports!ReportsAgree(in.graph, in.notes, in.now)
      [] in.job = "ungrounded" /\ out # <<>> -> Judge!UngroundedAgree(in.notes, in.limit)
      [] in.job = "schematable" /\ out # <<>> -> TablesHold(in.files)
      [] OTHER -> TRUE

\* What the others build on keeps its word whoever uses it at the same time: the
\* breaker, counters, retries and registries of turbovault-core (resilience.rs,
\* metrics.rs, cache.rs), and transactions on files and the file watcher of
\* turbovault-vault (atomic.rs, watcher.rs).
HelpersKeepTheirWord ==
  CASE in.job = "breaker"      -> Helpers!BreakerHolds
    [] in.job = "counters"     -> Helpers!CountsAddUp
    [] in.job = "transactions" -> Transacted!FilesAllOrNothing
    [] in.job = "watch"        -> Watcher!EventsReachMirror
    [] in.job = "retry" /\ out # <<>> -> Helpers!RetriesEnd(in.outcomes, in.config, out[1])
    [] in.job = "project"      -> Helpers!ProjectsAreApart(in.marked, in.root, in.other)
    [] in.job = "catalog" /\ out # <<>> -> Surface!CatalogsLeadBack(in.plugins)
    [] in.job = "failure" /\ out # <<>> -> Surface!FailuresStayRequests(in.plugin, in.outcome, in.completion)
    [] in.job = "config" /\ out # <<>> -> Surface!ConfigReadsAreDeclared(in.declared, in.path, in.found)
    [] in.job = "visible" /\ out # <<>> -> Surface!OverridesOnlyTighten(in.settings, in.overrides, VisibleTools)
    [] in.job = "schema" /\ out # <<>> -> Surface!FormatsAreCut(in.schema, out[1])
    [] in.job = "paths" /\ out # <<>> -> \A path \in AskedPaths : /\ Policy!ResolvedStaysInside(in.tree, out[1], path) /\ Policy!ScanAgreesWithReads(in.tree, out[1], path)
                                                              /\ Policy!ExclusionsAgree(in.tree, in.config, out[1], path) /\ Policy!DeletesCanBeUndone(in.tree, out[1], path)
    [] in.job = "vaults" /\ out # <<>> -> Policy!AcceptedConfigStarts(in.tree, in.config)
    [] in.job = "start" /\ out # <<>> -> \A order \in Orders : Start!StartsAreStable(Base, {RootAt}, in.cache, in.vaults, in.args, order)
    [] in.job = "save" /\ out # <<>> -> \A active \in {in.vaults[k].name : k \in DOMAIN in.vaults}, steps \in 0 .. 4 : Start!CutSavesAreSurvived(in.cache, in.vaults, active, steps)
    [] in.job = "create" /\ out # <<>> -> \A backend \in {"direct", "git"}, opts \in {Absent, Policy!VaultGitDefault} :
                                        Start!VaultsAreMadeWhole(in.tree, {RootAt}, in.multi, in.name, in.path, in.template, backend, opts)
    [] in.job = "settings" /\ out # <<>> -> Index!SettingsWork(in.env, in.other, SeqsTo({"a", "b"}, 4))
    [] in.job = "refresh" /\ out # <<>> -> Index!RefreshIsPaced(in.built, in.threshold, in.now)
    [] in.job = "rollback" /\ out # <<>> -> RollbackHolds(in.world, in.id, in.backend, in.logged, Len(in.world.log) + 1)
    [] in.job = "named" /\ out # <<>> -> History!CallsAreNamed(in.backend, in.required, in.message, in.batch)
    [] in.job = "template" /\ out # <<>> -> TemplatesHold(Made!Register(Made!DefaultTemplates, in.own), in.id, in.values, in.path)
    [] in.job = "claims" /\ out # <<>> -> Judge!ClaimsStandInProse(in.blocks)
    [] in.job = "merge" /\ out # <<>> -> Asked!MergeKeepsTheRest(in.front, in.overlay, DottedKeys)
    [] OTHER -> TRUE
=============================================================================

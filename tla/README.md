# TurboVault in TLA+

TurboVault is an MCP server over directories of Markdown notes ("vaults").
Agents read and change notes through its tools while people, sync clients and
git work on the same files. This directory holds TLA+ models of the server:
how a change reaches disk and history, how what is derived from the notes
follows, how vaults, fan-outs and plugins come and go, what undoing, failing
and crashing do to all of it, and the algorithms that read and rewrite notes.
TLC checks small instances; TLAPS proves the safety properties of the git
commit pipeline (and that it implements its abstract history), of index
synchronisation, of the direct backend, of the server's vaults, of its engines,
of the change feed and of the tools that change notes for every instance.

Paths below are relative to `src/crates/`.

## Inventory

| Part | State it keeps | Operations | What is hard | What makes it correct | Modelled in |
|---|---|---|---|---|---|
| Git commit pipeline (`turbovault-git`: changeset, cas, occ, materialize, plumbing, repo, locks) | branch, files, git index, commit mutex, lock file | `commit_changeset` | several processes and people, compare-and-swap losses, crashes after HEAD moved | no lost update, no partial commit, nobody's uncommitted bytes destroyed, truthful replies | `GitCommit`, `VaultHistory` |
| Write substrates (`turbovault-vault/src/substrate.rs`) | files, write lock | `apply` of a change plan | plans that stop half-way, devices, guards that go stale | guards hold when changes land, outcomes are the landed prefix | `DirectVault` |
| Audit log, snapshots, rollback (`turbovault-audit`) | JSONL log, content-addressed snapshots | record, store, query, preview, rollback | files written in place, no lock shared with writes | the log replays to the vault, a rollback restores what was | `DirectVault`, `Versions` |
| Vault manager, reindex queue (`manager.rs`, `reindex.rs`) | note cache, link graph, write claims, pending commits, cursor | write, edit, flush, sweep, graph reads | three kinds of task index the same note with no lock per note | derived views follow the disk; a flushed read sees every commit queued before it | `IndexSync` |
| Path policy (`manager.rs`, `config.rs`) | none | resolve, admit, list, exclude | symlinks, several vaults, different walks | nothing outside the vault; what is listed can be read | `VaultPolicy` |
| Tools that change notes (`file_tools`, `batch_tools`, `metadata_tools`, `templates`, `okf_tools`) | none | read, plan, apply, reply | others act between the reading and the applying; batches read what they will write | what was guarded is not lost, reports say what was done, links are looked after | `VaultTools`, `LinkGraph` |
| Link graph (`turbovault-graph`) | nodes in slots, edges, indices, placeholders | add, update links, rename, remove, queries | notes linked before they exist; removal moves slots | indices and edges name the notes there are | `LinkGraph`, `GraphAnswers` |
| Vault registry and lifecycle (`multi_vault.rs`, `vault_lifecycle.rs`, `cli.rs`, `cache.rs`) | map of vaults, default, active vault, persisted cache | add, create, remove, switch, save, restore | several locks taken one after another, saves in place | default and active vault exist, a restart finds what was saved | `ServerVaults`, `Startup` |
| Fan-out worktrees (`turbovault-git/src/fanout.rs`, `turbovault/.../providers/fanout.rs`) | worktrees, branches, record of active fan-outs | begin, commit, abandon, refresh, shutdown, orphans | merges that conflict, cleanup that fails, crashes | at most one per vault, nothing merged is lost | `ServerVaults` |
| Engine caches (`tools.rs`, `search_engine.rs`, `similarity_engine.rs`, `embedding_engine.rs`) | engines, index file, staleness mark, rebuild switch | search, reindex, tell of changes, evict | engines built from scans that writes overtake, dropped requests | no answer older than what the server was told | `DerivedViews` |
| Plugin host and hook bus (`turbovault-plugin-api`, `plugin_host.rs`, `plugin_storage.rs`) | event sequence, ring, subscribers, storage | publish, receive, resync, store, close | bounded queue, slow subscribers, active vault changes | no silent gap, truthful events, shutdown ends | `PluginFeed` |
| Tool providers and visibility (`providers.rs`, `tool_visibility.rs`) | catalog, visible sets | register, dispatch, configure | name clashes, overrides | each name leads to one tool, overrides only tighten | `ToolSurface` |
| History restore (`restore.rs`), diffs | none | plan from an old tree, diff | merges, renames | restores the chosen state or nothing | `Versions` |
| Parsers (`turbovault-parser`, `task_parser.rs`) | none | blocks, links, tags, tasks, citations | overlapping syntax, code | each text lands in one place, code is left alone | `NoteBlocks`, `NoteScan`, `NoteText`, `TaskText` |
| Edits, slices, rewriting (`edit.rs`, `file_tools.rs`, `wikilink_rewriter.rs`) | none | search/replace, sections, links | offsets, fuzzy matches | only the named text changes | `NoteEdits`, `NoteSlices` |
| Chunking, index contents, ranking (`embedding_engine.rs`, `search_engine.rs`, `duplicate_tools.rs`) | chunks, hashes | rebuild, load, fuse, filter | reuse of unchanged files, failing parts | chunks hold the note, limits are kept | `NoteChunks`, `IndexContents`, `Retrieval` |
| Quality, conformance, reports, grounding, tables, templates | none | pure | - | figures agree with the notes | `NoteQuality`, `Conformance`, `Reports`, `Grounding`, `NoteTables`, `Templates` |
| Exported helpers (`resilience.rs`, `metrics.rs`, `atomic.rs`, `watcher.rs`) | circuit, counters, copies | call, count, transact, watch | threads, failures half-way | see `HelpersKeepTheirWord` | `CoreHelpers`, `FileTransactions`, `FileWatcher` |
| Resources, completion, output formatting, viewer, document extraction, transports | none | - | - | formatting, I/O | not modelled |

How they interact: a tool builds a `ChangePlan` and calls the manager, which
claims the plan's paths, applies it through the vault's substrate (direct files
or git commits), updates graph and cache from disk, releases the claim and
calls the change listener, which updates the engines and the change feed. The
git substrate also hands each commit to the reindex queue through a hook run
inside the commit lock. Read tools first pass a freshness gate: flush the
queue, then sweep the disk for changes nobody reported. Rollback works beside
all this, on the files themselves.

`PROJECT.json` lists every component with its sources and, under `hazards`,
what in each is hard to test, with the properties that watch it. Its `map`
says which lines a definition stands for; a helper of an algorithm module whose
lines lie within those of the definition that uses it is covered by that entry.

## Modules

Each system module has one action per step of the code between two awaits,
lock sections or file-system calls; `Next` is their disjunction. Each algorithm
module has operators and the properties of them; `MCAlgorithms` runs them.

Systems:

| Module | Models |
|---|---|
| `VaultTree` | change plans, preconditions and their meaning on a tree; shared by the backends |
| `VaultHistory` | abstract: a branch as a sequence of justified commits, calls that commit, decline or fail at one instant |
| `GitCommit` | the git commit pipeline in several processes, with a person in the same repository |
| `IndexSync` | one manager's cache and graph: writes, queue flushes, ref listener, sweep |
| `DirectVault` | the direct substrate with audit log, snapshots, `edit_file` and rollback |
| `ServerVaults` | the registry, lock section by lock section, and the server's vaults and fan-outs as tool calls handle them, with saves, crashes and restarts |
| `DerivedViews` | full-text, similarity and embedding engines beside the vault |
| `PluginFeed` | change bus, plugin worker, plugin tool and storage, shutdown |
| `LinkGraph` | the graph with its slots and indices |
| `VaultTools` | the tools that change notes, single and in batches, on both backends, over `LinkGraph` |

Algorithms and small machines, run by `MCAlgorithms`: `NoteBlocks`, `NoteScan`,
`NoteText`, `TaskText`, `NoteEdits`, `NoteSlices`, `NoteChunks`,
`IndexContents`, `Retrieval`, `GraphAnswers`, `NoteQuality`, `Conformance`,
`Versions`, `Templates`, `Reports`, `Grounding`, `NoteTables`, `VaultPolicy`,
`Startup`, `ToolSurface`, `CoreHelpers`, `FileTransactions`, `FileWatcher`. The
comment at the head of each says what its texts, notes and files are made of.

Proofs: `GitCommitProofs`, `IndexSyncProofs`, `ServerVaultsProofs`,
`DirectVaultProofs`, `DerivedViewsProofs`, `PluginFeedProofs`,
`VaultToolsProofs`.

Finite instances: `MCGitCommit`, `MCIndexSync`, `MCDirectVault`,
`MCServerVaults`, `MCVaultTools`, `MCAlgorithms`; `DerivedViews` and
`PluginFeed` need no module of their own, their `.cfg` files give the constants
directly.

Operators whose comment begins with "Mutant:" are deliberately wrong variants
of the definition they precede; they are used to see that each property can
fail, never by the specifications.

### GitCommit

Writers are calls of `commit_changeset`, each in a process (`ProcOf`). `log`,
`work` and `index` are the branch, the worktree and the git index; `mutex` and
`flock` the two locks of `with_commit_lock`; `hooks` what the commit hook
pushed. A call goes from `Submit` over `Reject`, `LockMutex`, `LockFile`,
`ReadTip`, `Refuse` (the worktree check), `AbortStale`, `AbortNoSource`, `NoOp`,
`BuildTree`, `CasWin`/`CasLose`/`CasGiveUp`, `Reveal` per path, `SyncIndex`,
`Hook`, to `Unlock`; `RevealFails` and `Crash` may strike where the code calls
the file system or at all. The person edits, stages, commits and resets at any
moment; `raced` remembers whether that was in the middle of a call.

Contents stand for blobs, equal when their object ids are. Commit ids are
positions: the branch is never rewound. gitignore filtering and commit messages
are left out: they decide nothing the properties see.

### IndexSync

`disk` holds a revision per note; a revision is a number never used again and
stands for both content and `(size, mtime)`. `graph` and `cache` hold the
revision they were made from, the cache also the fingerprint it recorded.
Every step of `sync_index` between two awaits is an action (`Stat`, `Read`,
`UpdateGraph`, `InsertCache`, `DropGraph`, `EvictCache`) used by the three
kinds of task alike. `Claim` ... `TellLocal` are a write
(`apply_through_substrate`), `AskFlush` ... `ReturnFlush` a flush
(`flush_reindex`), `PollHead` the ref listener, `Scan`, `Diff`, `TellSwept` the
sweep. The schedule of the sweep (its interval) is left out: a sweep may start
whenever the previous one ended. The walk is one step; notes the walk would see
at different times are seen at one. Branches that move back are left out, the
code says a restart is needed then.

### DirectVault

`files` is the vault, `snaps` the snapshot file of each content (`none`,
`torn`, `whole`), `log` the entries a reader of the audit log gets and `cut`
whether the log file ends in half a line. A write locks, checks its
preconditions one by one, and then per change looks (`Look`), lands (`Land`,
`Unlink`), snapshots (`Save`, `Fill`) and records (`Record`). A rollback
(`Undo` ... `NoteRollback`) takes no lock. `Token` is the normalised hash that
preconditions compare, so two contents may share one. A write's own temporary
file has a unique name and is left out; a rollback's is shared (`temp`) and is
kept.

### ServerVaults

Every client runs one tool call at a time: register or create a vault, use one
(which builds and publishes its manager), remove, switch, begin, commit or
abandon a fan-out, shut down. `pc` is the lock section the call runs next and
`loc` what it has read so far, so that each gap between two locks of the code
is a gap here. `vaults` and `active` are the registry,
`managers` and `fanouts` the server's maps, `saved` the persisted cache with a
save's three steps (truncate, write, metadata). Of a fan-out with id `i` the
branch, the worktree's metadata and its directory are separate (`wip[i]`), since
each of them can be deleted and fail to be deleted by itself. `main` is the list
of what each step of the branch brought. `raced` remembers which of the known
races struck (below); `settled` how a fan-out ended, `late` what was committed
while it did, `unsaved` what tools changed that do not save.

### DerivedViews

A note is a version number in the vault, in the manager's cache and in each
engine; a request's sections (look up, build, publish, scan, store, unmark,
swap, clear) are actions, and a request may be dropped at any await. The
properties look at each note alone, and nothing couples two notes but the
sets of changed notes that requests carry, so the run has one note.

### PluginFeed

One plugin mirrors one note from the bus, with the worker's steps, the
plugin's guarded write through the host, an ordinary tool, the freshness gate,
people, the change of the active vault, and the shutdown. The ring has
`Capacity` places; a worker that fell behind is told so and reads again.

### VaultTools and LinkGraph

A call reads notes and the graph, builds a plan with its guards, has it gated
and applied in one step (whole on git, a prefix on the direct backend when a
change fails), and the graph follows in a later step. `lost` collects what a
guarded call would have overwritten unseen. A note is a set of texts, tags and
links; a link says whether it was written as the note's path or name. The graph
is kept as the code keeps it, nodes in slots that a removal renumbers.

## Runs

Every passing run ends within five minutes on two workers.

| Run | Bounds | Properties |
|---|---|---|
| `git_faults` | 3 calls in 2 processes (creates, moves, malformed plans), 1 crash or failing call | `HooksFollowCommits`, `QuietVaultIsSettled`, `InterruptedRevealIsFlagged`, `RepliesAreTrue`, `EveryCallReturns` |
| `git_races` | 2 calls in 2 processes (guarded moves, batches), a person with 2 edits and git commits at any moment, retry bound 1 | `TypeOK`, `CommitsAreTheirPlans`, `OnlyCommittedWorkOverwritten`, `Refines` |
| `sync_direct` | 2 overlapping writes, 1 outside edit, 1 note, the sweep | `TypeOK`, `SweepComparesRightly`, `CacheCatchesUp` |
| `sync_git` | 1 move that may fail, 1 outside commit or edit, 2 notes, 2 flushers, the ref listener | `FlushSeesCommits` |
| `direct_writes` | 2 writes or edits, batches, 1 failing call, 1 crash, contents that share a token | `TypeOK`, `AuditAccountsForTheVault`, `GuardedLanding`, `EditsLoseNothing` |
| `direct_undo` | 2 writes, 2 rollbacks in turn, moves across devices, 1 outside edit, 1 failing call | `SnapshotsAreWhole`, `RollbackRestores` |
| `server_vaults` | 2 clients, 3 calls, 2 base vaults, 1 repository, 2 fan-outs, 2 commits, 1 fault or crash | `TypeOK`, `AcknowledgedWorkSurvives`, `UnsettledWorkIsListed`, `MapsAgree`, `FanoutsCanBeEnded`, `RestartRemembers`, `MainOnlyGrows` |
| `server_refused` | the same without faults; ends in a violation | `RefusedWorkSurvives` |
| `server_views` | 2 clients, 3 requests, 2 writes, 1 outside edit, 1 note, 1 dropped request, failing rebuild or crash | `AnswersAreFresh`, `StalenessSurvives`, `FlagsAreSound` |
| `plugin_feed` | ring of one event, 2 vaults, 2 writes, 1 trouble (drop, restart, foreign edit) | `FeedIsSound`, `QuietMirrorIsCurrent`, `PluginReplacesWhatItSaw`, `ShutdownEnds` |
| `vault_tools` | 2 calls of 19 kinds and 4 batches, 4 paths, 4 starting vaults, 1 failing change, both backends | `GuardedCallsLoseNothing`, `GraphIsTrue`, `ReportsAreTrue`, `LinksAreLookedAfter` |
| `algorithms` | notes of 3 to 4 pieces, small graphs, trees, logs and configurations | `TextIsKept`, `AnswersAreRight`, `HelpersKeepTheirWord` |

Each property's comment in its module says what it means for the code; the
three of `algorithms` are conjunctions of the named properties of the algorithm
modules, one or more for each kind of input.

The bounds are small because the interesting cases need few actors: a lost
update needs two writers, a lost compare-and-swap one more commit, giving up
one more again, a stale index one write that is overtaken, a swallowed audit
entry one crash and one write after it, a lag one event more than the ring
holds. Retries are bounded at 1 instead of 8: what a retry does does not depend
on how many came before it. Of the races that `ServerVaults` names, two calls
ending one fan-out and beginning another at once ("ends") need five calls and
so lie beyond the run; the theorems cover them.

`server_refused` shows where the code does not do what its messages say: after
a merge that is refused ("use MergeCommit instead", "resolve manually") the
cleanup deletes the branch that was to be merged (`PROJECT.json`, `findings`).

### Conditions in the properties

Some properties carry the condition under which they are the code's promise:
`QuietVaultIsSettled` says nothing once the person or a fault has struck,
`OnlyCommittedWorkOverwritten` nothing once the person acted while a call held
the lock, `AuditAccountsForTheVault` asks for a replay only while no entry or
snapshot failed to be written, and bounds how often that can be. Where two
requests can meet so that the code's promise fails, the model names the race in
`raced` when it strikes, and the property excludes that race by name:

* `ServerVaults`: "switch" (the active vault changes between two reads of it in
  one call), "removal" (a vault is removed under a call that has looked it up),
  "begins" (two begins pass the check at once), "ends" (two calls end one
  fan-out), "saves" (two saves at once).
* `DerivedViews`: "build" (a change is told, or an engine dropped, while one is being built),
  "cold" (told while no embedding engine is open), "during" (told during a
  rebuild, whose end clears the flag), "untold" (the request that had written
  was dropped before it told), "stuck" (the request of a rebuild was dropped).
* `PluginFeed`: "untold" (a call was dropped between writing and announcing),
  "elsewhere" (a note was read under another vault's name), "unseen" (a note came
  and went between two sweeps), "readback" (a note changed between the plugin's
  write and its reading back).

The runs reach both sides of each condition, "ends" excepted.

Stated in the modules with a comment that they do not hold, and checked by no
run: `UncommittedFilesSurvive` (an edit saved between the worktree check and
the reveal is overwritten), `GraphCatchesUp` (of two overlapping writes the
older may reach the graph last, and no sweep repairs it),
`OnlyOthersAnnounced` (the ref listener reports the server's own commits),
`BacklinksAreComplete` (`remove_file` drops the links that led to a note that
later comes back), `ListsOnlyKeys` (temp files of an interrupted `put` are
listed as keys).

## Fairness

`GitCommit`: every step of a call that has begun is weakly fair (blocking
threads run). Neither lock promises fairness: a call gets one because its
rivals have finitely many calls to make (`MaxOps`) and always release what they
hold. Crashes, faults, new calls and the person are not fair.
`IndexSync`: the steps of writes and flushes are weakly fair (tokio runs
ready tasks), the listener polls, and the sweep is weakly fair because every
read tool passes the gate: `CacheCatchesUp` says something about vaults that
are still read. New writes and edits are never fair.
`PluginFeed`: the worker, calls under way, publishing and a shutdown that has
begun are weakly fair, again because tokio runs ready tasks; calls, people and
troubles are not.
The other modules have safety properties only.

## Proofs

TLAPS checks the following theorems for every value of the constants. Each
proof module extends its system module and cites only the assumptions named
there: `ConstantsAssumption` (`GitCommit`) and `AbsentAssumption`
(`VaultTree`), `SyncAssumption` (`IndexSync`), `RegistryAssumption` and
`ServerAssumption`, `DirectAssumption`, `ViewsAssumption`, `FeedAssumption`,
`ToolsAssumption`. They say of which sort each constant is and that distinct
things are distinct; `ServerAssumption` adds that fan-outs have distinct names
(the code draws them at random), and `ToolsAssumption` that there are finitely
many paths and that the metadata tools, which take no hash, pass none outside
of a batch (`metadata_tools.rs:162`, `:237`). What a theorem needs beyond that
stands in its own statement. TLC checked the inductive invariants of
`ServerVaults`, `DirectVault`, `DerivedViews` and `PluginFeed` on small
instances before they were proved.

`GitCommitProofs`

| Theorem | States |
|---|---|
| `TypeCorrect` | `TypeOK` |
| `CommitsJustified` | `CommitsAreTheirPlans` |
| `HooksInOrder` | `HooksFollowCommits` |
| `RepliesTrue` | `RepliesAreTrue` |
| `OnlyCommittedOverwritten` | `OnlyCommittedWorkOverwritten` |
| `RevealFlagged` | `InterruptedRevealIsFlagged` |
| `QuietSettled` | `QuietVaultIsSettled` |
| `Implements` | `Refines`: the pipeline implements `VaultHistory` |

`CommitsAreTheirPlans` is not inductive: what the compare-and-swap publishes was
built two stations before. `HistoryInv` therefore also says that what a call has
built (`BuiltIsJustified`) is its plan's effect on the tip it read, and that this
tip met the preconditions. `LockInv` says who holds the mutex and the lock file
at each station, hence that one call at a time is past the lock; `HooksInv` how
far the queue of a process has got against a commit not announced yet; `ReplyInv`
what a call knows of the branch when it is about to answer. `RevealInv` and
`FlagInv` say which files of a commit the worktree has at each point of a reveal
and that the index stays behind until it has them all. `Implements` maps a call
to the status it has in `VaultHistory` (`StatusOf`); the proof goes action by
action and shows each to be one step of `VaultHistory` or a stutter, `CasWin` by
`HistoryInv`, answers by `ReplyInv` and `CallInv` (a call has an answer, given at
a tip of its own time, before it returns).

`IndexSyncProofs`

| Theorem | States |
|---|---|
| `TypeCorrect` | `TypeOK` |
| `SweepCompares` | `SweepComparesRightly` |
| `FlushSees` | `FlushSeesCommits` |

`ClaimsAreHeld` says that a note's claim count is the number of writes holding
it, so that it never goes below zero; `FlushInv` that popped entries are in the
hands of the holder of the flush lock alone and that they and the drained ones
cover what was asked for; `HonestInv` that a fingerprint belongs to the bytes
that were parsed, through the window between stat and read.

`ServerVaultsProofs`

| Theorem | States |
|---|---|
| `TypeCorrect` | `TypeOK` |
| `BranchOnlyGrows` | `MainOnlyGrows` |
| `WorkSurvives` | `AcknowledgedWorkSurvives` |
| `WorkIsListed` | `UnsettledWorkIsListed` |
| `EndsAreFound` | `FanoutsCanBeEnded` |
| `MapsAlwaysAgree` | `MapsAgree` |
| `RestartsRemember` | `RestartRemembers` |

The invariants say what a call in the middle may rely on of what it read in
earlier lock sections: `ForkInv` that a fast-forward was decided while nothing
had been added since the fork, `WorkInv` what a merge under way is going to bring
and when a cleanup is safe, `NamesInv` and `RecordInv` whose name is whose,
`EndInv` what holds of the names a begin or an end has in hand, `OneInv` that one
call at a time opens or ends a fan-out, `ManagerInv` that a manager about to be
published serves its name, `SaveInv` that what is not saved is about to be. Where
a promise breaks in a race, the invariant has the property's own condition on
`raced`. A first attempt to prove
`MapsAgree` failed for a good reason: its part about the active vault also
breaks when the active vault is switched between two reads of one call, which
needs more clients than the run has. The property now excludes that race by
name, as its other parts do.

`DirectVaultProofs`

| Theorem | States | Under |
|---|---|---|
| `TypeCorrect` | `TypeOK` | - |
| `GapsBounded` | `AuditGapsAreBounded` | - |
| `AuditAccounts` | `AuditAccountsForTheVault` | nothing mounted; until somebody edits beside the process or rolls back |
| `GuardsHold` | `GuardedLanding` | no rollbacks, no edits beside the process, plans that touch no path twice |
| `EditsKeep` | `EditsLoseNothing` | no rollbacks, no edits beside the process |
| `SnapshotsWhole` | `SnapshotsAreWhole` | the snapshot store does not fail; until a crash |
| `RollbacksRestore` | `RollbackRestores` | the snapshot store does not fail, one rollback at a time, no crash |

The premises are the limits listed below, and the runs have them too; each is a
configuration of the constants (`Undoers`, `MaxEdits`, `Mounted`, `Failing`,
`MaxCrashes`), anything else being free. `GapInv` counts: what landed exceeds
what is logged by the entry under way, by half a line, and by two for each crash
or failing append. `GuardInv` says which preconditions hold at each station of a
write: those checked so far, then those of the paths its remaining changes
touch, which its own changes leave alone because they are apart. `ReplayInv`
says that the log, with the entry of the change under way, tells the vault when
the count is whole, and that an entry says beforehand what its change will do.
`SnapInv` says that the snapshots an entry names exist before it is written and
that a torn one is being filled; `RollInv` that what a write is filling is named
by no entry, so what a rollback stages is whole.

`DerivedViewsProofs`

| Theorem | States |
|---|---|
| `ViewsInvariant` | the inductive invariant |
| `FlagsStaySound` | `FlagsAreSound` |
| `RebuildsAreAlone` | no two processes are inside of a rebuild |
| `SearchesStayFresh` | `AnswersAreFresh` |
| `RestartsKnow` | `StalenessSurvives` |

`AnswersAreFresh` speaks of the one step that answers; the invariant follows a
change from the manager to each engine. `Control` says at each section whose
request it is, who holds the sweep's lock and the rebuild switch, and which
engine a request has in hand; `KnownInv` what the manager knows and which
changes are settled, that is, told to everybody; `SimilarInv`, `SearchInv` and
`DenseInv` that an engine covers what is settled, or is dropped, or is marked
stale, or is about to be by the request that has the change in hand;
`StoredInv` the same of the index file and its mark, across crashes. The attempt
to prove `AnswersAreFresh` found a gap in the model: when an update fails on a
contended index writer the engine is dropped (`tools.rs:806`), and whoever had
begun to build one before it was cached may now cache another that lacks the
change. `Apply` did not note that race; three clients, two notes and five
requests show the stale answer. It now counts as "build", as when the change is told.

`PluginFeedProofs`

| Theorem | States |
|---|---|
| `FeedInvariant` | the inductive invariant |
| `FeedStaysSound` | `FeedIsSound` |
| `PluginStaysHonest` | `PluginReplacesWhatItSaw` |
| `MirrorStaysCurrent` | `QuietMirrorIsCurrent` |

`QuietMirrorIsCurrent` speaks of states where all is quiet; `MirrorInv` says of
every state that between the note and a mirror that lags behind it something is
still to come: an event in the ring, a lag that `recv` will tell, an
announcement by a call that has written, a sweep, or a look of the worker's own.
`LockInv` says that the number and the send of an event lie under one lock, so
that the ring is the end of one sequence; `TruthInv` that a write's entry in the
history never changes, so that whatever is announced later of it is true, also
by a sweep, which can only find notes that are not the plugin's; `SeenInv` that
the plugin's tokens are of notes it has seen until a receipt was for another's;
`StartInv` that a stored position of an earlier run is older than the bus, so
that a restarted worker looks for itself.

`VaultToolsProofs`

| Theorem | States |
|---|---|
| `ToolsInvariant` | the inductive invariant |
| `CallsLoseNothing` | `GuardedCallsLoseNothing` |
| `ReportsStayTrue` | `ReportsAreTrue` |

What a call may replace is decided when its guards are checked, on a tree that
others have changed since the call read it. The invariant therefore follows the
plan: every path a change touches is `Covered`, that is, a guard asks that nothing
is there, or a guard names a content whose text was read, or the caller gave
leave to write over anything. That this survives the next operation of a batch,
which may record another reading of a path, needs that no path is touched twice
(`PlanGrows`), which is the code's check of a folded plan. `RewriteLinkersKeeps`
is the move with its links: each linking note is covered by the blob it was read
as. `NothingLost` turns covered paths and guards that hold into nothing lost,
for the prefix of a plan that lands as well. `InSpans` says that the operations'
spans follow one another and leave no change out, so that the operation
`FailedOp` chooses exists and the files of a report are those of the landed
changes (`SpansLand`). The model was changed to be reasoned about, not in what
it does: what a prefix of a plan leaves is now said with the meaning of plans
(`TreeAfter`), where it was a fold over single changes.

What stays with TLC, and why:

* `EveryCallReturns`, `CacheCatchesUp`, `ShutdownEnds`: liveness under fairness
  needs ENABLED, which the installed provers do not handle.
* The algorithm modules and `LinkGraph`: what a recursive definition computes
  for every input needs induction over data, and the library's induction
  theorems cannot be instantiated here; modules with RECURSIVE operators cannot
  be proved about at all. Their properties are checked over bounded inputs.
* `GraphIsTrue` and `LinksAreLookedAfter` of `VaultTools`: they are about what
  `LinkGraph` makes of the notes one after the other, which is induction over
  data again.

## Known limits of the code the models keep

These are behaviours of the code that a reader of the properties should know;
the models do what the code does.

* Guards. `append`, `prepend`, tag and front-matter updates and log entries read
  a note and write it without a guard; a move without link updates overwrites
  its destination (`file_tools.rs:538`); `UpdateLinks`, `EditNote`,
  `UpdateFrontmatter` and `ManageTags` in a batch are unguarded without an
  expected hash. `GuardedCallsLoseNothing` is about the calls that guard.
* Graph. `remove_file` drops the edges that led to the note; links by alias,
  suffix or other case are not rewritten on a move; first-found stems win.
* Rollback takes no write lock: beside writes `GuardedLanding` fails
  (`direct_writes` has no rollbacks), and two rollbacks of one note stage their
  content in the same file (`direct_undo` runs one at a time). A failing
  snapshot store leaves a torn snapshot, as a crash does (`direct_undo` has
  neither). A move across devices that fails half-way costs the note that was
  at the destination.
* After a crash in a git reveal nothing resumes it: `resync_to_head` has no
  caller outside tests, and later writes are refused until a person repairs the
  worktree.
* Saves of the vault cache truncate in place: a crash in the middle forgets all
  vaults (`core/cache.rs:205`); a cached vault keeps its cached backend.
* Front matter: a key `path` hides the path column of the SQL tables; a value
  that is a lone quote is not read; positions of elements count the text with
  front matter (`NoteText`).
* Text that elements nest in unusual ways is merged or lost (`odd` in
  `NoteBlocks` and `NoteScan` names the cases the properties leave out).
* `FileTransactions`: locks are collected but not taken, a move's target is not
  copied aside, and copies of two transactions share names;
  `FilesAllOrNothing` says when a transaction is whole all the same.

## Not modelled

Formatting and wording of replies, resources, completion, the viewer,
extraction of documents, transports, argument parsing and logging; the scores
of the full-text and similarity engines and the embedding vectors (opaque
numbers); SQL itself; the schedule of the sweep; HEAD moving back under a
running server; gitignore. `IndexSync` keeps of the graph only the revision it
reflects, `LinkGraph` has its structure. In `VaultTools` a plan is applied and
indexed in one step each, since `GitCommit`, `DirectVault` and `IndexSync` have
the steps. `ServerVaults` leaves out registering a scratch worktree by hand and
fan-outs of a worktree that a restart found registered.

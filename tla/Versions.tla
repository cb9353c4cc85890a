------------------------------- MODULE Versions -------------------------------
(***************************************************************************)
(* Earlier versions of notes: on git the reads, diffs and restore plans of *)
(* turbovault-git (repo.rs, restore.rs, fanout.rs); on files the audit     *)
(* log's queries, the preview of a rollback beside its execution           *)
(* (turbovault-audit) and the handlers over them (providers/audit.rs,      *)
(* providers/analysis.rs); the diff of two texts (diff_tools.rs); what a   *)
(* commit is called and which change a batch announces (tools.rs).         *)
(*                                                                         *)
(* repo is [commits, head]: commits a sequence of [parents, tree], parents *)
(* earlier indices, head Absent on an unborn branch.  world is             *)
(* [files, log, snapshots]: the log is a sequence of entries and of lines  *)
(* that do not parse; a snapshot's id is the text it holds, as is a hash.  *)
(***************************************************************************)
EXTENDS Integers, FiniteSets, Sequences, SequencesExt

CONSTANTS Paths, Absent, Refused, InlineLimit

Torn == [torn |-> TRUE]

-----------------------------------------------------------------------------
(* Commits.                                                                *)

EmptyTree == [p \in Paths |-> Absent]
TreeAt(repo, c) == IF c = Absent THEN EmptyTree ELSE repo.commits[c].tree
ReadAt(repo, c, path) == TreeAt(repo, c)[path]

PathsChangedBetween(repo, a, b) == {p \in Paths : ReadAt(repo, a, p) # ReadAt(repo, b, p)}

PathChange(was, is) == CASE is = Absent -> "deleted" [] was = Absent -> "added" [] OTHER -> "modified"

DiffPathChanges(repo, a, b) ==
  [p \in PathsChangedBetween(repo, a, b) |-> PathChange(ReadAt(repo, a, p), ReadAt(repo, b, p))]

\* Whether each path touched is there afterwards.
DiffPathStatuses(repo, a, b) ==
  LET changes == DiffPathChanges(repo, a, b) IN [p \in DOMAIN changes |-> changes[p] # "deleted"]

FirstParent(repo, c) ==
  IF repo.commits[c].parents = <<>> THEN Absent ELSE Head(repo.commits[c].parents)

\* From the root to every commit, by first parents.
Chains(repo) ==
  LET chain[c \in DOMAIN repo.commits] ==
        LET parent == FirstParent(repo, c) IN IF parent = Absent THEN <<c>> ELSE Append(chain[parent], c)
  IN  chain

\* The commits after `stop` up to the tip, oldest first; Refused where `stop`
\* is not on the chain.
FirstParentRange(repo, stop, tip) ==
  LET chain == Chains(repo)[tip] IN
    CASE stop = Absent -> chain
      [] stop \in Range(chain) -> SelectSeq(chain, LAMBDA c : c > stop)
      [] OTHER -> Refused

\* Every change comes with the blob it is to replace.
RestoreChange(path, current, target) ==
  [path |-> path, content |-> target, expect |-> current,
   op |-> CASE current = Absent -> "create" [] target = Absent -> "delete" [] OTHER -> "update"]

BuildRestore(repo, target, paths) ==
  IF repo.head = Absent THEN Refused
  ELSE LET away == SelectSeq(paths, LAMBDA p : ReadAt(repo, repo.head, p) # ReadAt(repo, target, p))
       IN  [k \in DOMAIN away |-> RestoreChange(away[k], ReadAt(repo, repo.head, away[k]), ReadAt(repo, target, away[k]))]

\* One commit on the tip, if each path still holds what was expected and none
\* is changed twice.
CommitPlan(repo, plan) ==
  IF \/ \E k \in DOMAIN plan : ReadAt(repo, repo.head, plan[k].path) # plan[k].expect
     \/ \E j, k \in DOMAIN plan : j # k /\ plan[j].path = plan[k].path
  THEN Refused
  ELSE LET tree == [p \in Paths |-> IF \E k \in DOMAIN plan : plan[k].path = p
                                    THEN plan[CHOOSE k \in DOMAIN plan : plan[k].path = p].content
                                    ELSE ReadAt(repo, repo.head, p)]
       IN  [commits |-> Append(repo.commits, [parents |-> <<repo.head>>, tree |-> tree]), head |-> Len(repo.commits) + 1]

-----------------------------------------------------------------------------
(* The audit log.                                                          *)

Entries(log) == SelectSeq(log, LAMBDA line : line # Torn)

\* A filter is [path, op, since, until, limit], Absent where it asks nothing;
\* a path asked for is the set of those that contain it.
Passes(entry, filter) ==
  /\ filter.path = Absent \/ entry.path \in filter.path
  /\ filter.op = Absent \/ entry.op = filter.op
  /\ filter.since = Absent \/ entry.time >= filter.since
  /\ filter.until = Absent \/ entry.time <= filter.until

Query(log, filter) ==
  LET found == SelectSeq(Reverse(Entries(log)), LAMBDA entry : Passes(entry, filter))
  IN  SubSeq(found, 1, IF filter.limit < Len(found) THEN filter.limit ELSE Len(found))

GetEntry(log, id) ==
  LET found == SelectSeq(Entries(log), LAMBDA entry : entry.id = id)
  IN  IF found = <<>> THEN Absent ELSE Head(found)

Operations == {"create", "update", "delete", "move", "rollback"}
Stats(world) ==
  LET entries == Entries(world.log)
  IN  [total |-> Len(entries),
       byType |-> [op \in {entries[k].op : k \in DOMAIN entries} |-> Len(SelectSeq(entries, LAMBDA e : e.op = op))],
       stored |-> world.snapshots,
       oldest |-> IF entries = <<>> THEN Absent ELSE Head(entries).time,
       newest |-> IF entries = <<>> THEN Absent ELSE Last(entries).time]

\* The audit tools of a vault: none on git, and none where the log's
\* directories could not be made.
RefuseAuditOnGit(backend) == backend = "git"
AuditTools(backend, logged) == ~RefuseAuditOnGit(backend) /\ logged

\* 50 entries where no limit is given.
AuditLog(backend, logged, log, path, op, limit) ==
  IF ~AuditTools(backend, logged) \/ op \notin Operations \cup {Absent} THEN Refused
  ELSE Query(log, [path |-> path, op |-> op, since |-> Absent, until |-> Absent, limit |-> IF limit = Absent THEN 50 ELSE limit])
AuditStats(backend, logged, world) == IF AuditTools(backend, logged) THEN Stats(world) ELSE Refused

-----------------------------------------------------------------------------
(* Rollbacks.                                                              *)

Preview(world, id) ==
  LET entry == GetEntry(world.log, id) IN
    IF entry = Absent THEN Refused
    ELSE LET exists == world.files[entry.path] # Absent
             restores == entry.op \in {"update", "delete"} /\ entry.before # Absent
         IN  [op |-> entry.op, path |-> entry.path, exists |-> exists,
              currentHash |-> world.files[entry.path], targetHash |-> entry.before,
              wouldCreate |-> restores /\ ~exists,
              wouldDelete |-> entry.op = "create" /\ exists,
              wouldModify |-> restores /\ exists,
              shown |-> IF restores /\ exists /\ entry.before \in world.snapshots
                        THEN <<world.files[entry.path], entry.before>> ELSE Absent,
              warnings |-> {w \in {"gone", "recreates", "overwrites", "nothing kept", "unsupported"} :
                              CASE w = "gone" -> entry.op = "create" /\ ~exists
                                [] w = "recreates" -> entry.op = "update" /\ restores /\ ~exists
                                [] w = "overwrites" -> entry.op = "delete" /\ exists
                                [] w = "nothing kept" -> entry.op \in {"update", "delete"} /\ ~restores
                                [] w = "unsupported" -> entry.op \in {"move", "rollback"}}]

\* The present text is kept first, whatever comes after; a rollback's own entry
\* names no text.
Execute(world, id, newId, now) ==
  LET entry == GetEntry(world.log, id)
      current == world.files[entry.path]
      kept == IF current = Absent THEN world.snapshots ELSE world.snapshots \cup {current}
      note == [id |-> newId, op |-> "rollback", path |-> entry.path, before |-> Absent, after |-> Absent, time |-> now]
      done(text) == [reply |-> "ok", world |-> [files |-> [world.files EXCEPT ![entry.path] = text], log |-> Append(world.log, note), snapshots |-> kept]]
      failed(snapshots) == [reply |-> Refused, world |-> [world EXCEPT !.snapshots = snapshots]]
  IN  CASE entry = Absent -> [reply |-> Refused, world |-> world]
        [] entry # Absent /\ entry.op \in {"move", "rollback"} -> failed(world.snapshots)
        [] entry # Absent /\ entry.op = "create" -> done(Absent)
        [] OTHER -> IF entry.before = Absent \/ entry.before \notin kept THEN failed(kept) ELSE done(entry.before)

RollbackPreview(backend, logged, world, id) == IF AuditTools(backend, logged) THEN Preview(world, id) ELSE Refused

\* rollback_note: whatever it did is announced as a modification, and the
\* manager then reads the file anew.
RollbackNote(backend, logged, world, cache, id, newId, now) ==
  LET ran == Execute(world, id, newId, now)
      path == GetEntry(world.log, id).path
      refused(left) == [reply |-> Refused, world |-> left, cache |-> cache, announced |-> <<>>]
  IN  IF ~AuditTools(backend, logged) THEN refused(world)
      ELSE IF ran.reply = Refused THEN refused(ran.world)
      ELSE [reply |-> "ok", world |-> ran.world, announced |-> <<[kind |-> "modified", path |-> path]>>,
            cache |-> [cache EXCEPT ![path] = ran.world.files[path]]]

\* The texts diff_note_version compares: the one before the operation, or the
\* one after it where there was none before.
VersionShown(backend, logged, world, path, id) ==
  LET entry == GetEntry(world.log, id)
      version == IF entry.before # Absent THEN entry.before ELSE entry.after
  IN  IF ~AuditTools(backend, logged) \/ entry = Absent THEN Refused
      ELSE IF version \notin world.snapshots \/ world.files[path] = Absent THEN Refused
      ELSE <<version, world.files[path]>>

-----------------------------------------------------------------------------
(* The diff of two texts, from the script of line changes the diff library *)
(* finds: a sequence of [tag, line].                                       *)

Tagged(script, tags) == SelectSeq(script, LAMBDA change : change.tag \in tags)
LinesOf(changes) == [k \in DOMAIN changes |-> changes[k].line]

\* A deleted line and the inserted one right after it are one changed line.
Pairs(script) ==
  {k \in 1 .. Len(script) - 1 : script[k].tag = "delete" /\ script[k + 1].tag = "insert"}

InlineChange(script, k) ==
  [number |-> Len(Tagged(SubSeq(script, 1, k), {"equal", "delete"})), old |-> script[k].line, new |-> script[k + 1].line]

DiffContent(script) ==
  LET pairs == SetToSortSeq(Pairs(script), <)
      changed == Len(pairs)
      less(k) == IF k > changed THEN k - changed ELSE 0
  IN  [added |-> less(Len(Tagged(script, {"insert"}))),
       removed |-> less(Len(Tagged(script, {"delete"}))),
       changed |-> changed,
       unchanged |-> Len(Tagged(script, {"equal"})),
       inline |-> [k \in 1 .. (IF changed < InlineLimit THEN changed ELSE InlineLimit) |-> InlineChange(script, pairs[k])]]

-----------------------------------------------------------------------------
(* Calls: commit messages, a batch's message and its announcements.        *)

\* A message is a sequence of words, <<>> where it is blank, which is none; who
\* needs one refuses without.
RequiresCommitMessage(backend, required) == backend = "git" /\ required
RequireCommitMessage(backend, required, message) ==
  CASE message \notin {Absent, <<>>} -> message
    [] message \in {Absent, <<>>} /\ RequiresCommitMessage(backend, required) -> Refused
    [] OTHER -> Absent

ResolveCommitMessage(backend, required, message, fallback) ==
  LET given == RequireCommitMessage(backend, required, message) IN IF given = Absent THEN fallback ELSE given

BatchWords == <<"create", "update", "delete", "move", "link update", "edit", "frontmatter update", "tag update", "template create">>
BatchKinds == <<"CreateNote", "WriteNote", "DeleteNote", "MoveNote", "UpdateLinks", "EditNote", "UpdateFrontmatter", "ManageTags", "CreateFromTemplate">>

\* A batch's own subject: how many of each kind, in a fixed order.
DeriveBatchMessage(batch) ==
  LET tally(word) == Len(SelectSeq(batch, LAMBDA o : \E k \in DOMAIN BatchKinds : BatchKinds[k] = o.kind /\ BatchWords[k] = word))
  IN  [k \in 1 .. Len(SelectSeq(BatchWords, LAMBDA w : tally(w) > 0)) |->
         LET word == SelectSeq(BatchWords, LAMBDA w : tally(w) > 0)[k]
         IN  [count |-> tally(word), word |-> word, plural |-> tally(word) # 1]]

BatchOperationChange(o) ==
  CASE o.kind \in {"CreateNote", "CreateFromTemplate"} -> [kind |-> "created", paths |-> <<o.path>>]
    [] o.kind = "DeleteNote" -> [kind |-> "deleted", paths |-> <<o.path>>]
    [] o.kind = "MoveNote" -> [kind |-> "renamed", paths |-> <<o.path, o.to>>]
    [] OTHER -> [kind |-> "modified", paths |-> <<o.path>>]

-----------------------------------------------------------------------------
(* Properties.                                                             *)

\* A restore committed on the head it was built from leaves the paths asked for
\* as they were in the target and every other path alone, and has nothing to do
\* exactly when they are so already.  Where another commit came first, it is
\* refused if that one changed a path it is about to change, and otherwise
\* keeps what that commit did.
RestoresReturn(repo, target, paths, other) ==
  LET plan == BuildRestore(repo, target, paths)
      asked == Range(paths)
      done == CommitPlan(repo, plan)
      late == [repo EXCEPT !.commits = Append(@, [parents |-> <<repo.head>>, tree |-> other]), !.head = Len(repo.commits) + 1]
      raced == CommitPlan(late, plan)
      returned(tree, before) == \A p \in Paths : tree[p] = IF p \in asked THEN ReadAt(repo, target, p) ELSE before[p]
      touched == {plan[k].path : k \in DOMAIN plan}
  IN  repo.head # Absent /\ Cardinality(asked) = Len(paths) =>
        /\ done # Refused /\ returned(TreeAt(done, done.head), TreeAt(repo, repo.head))
        /\ plan = <<>> <=> asked \cap PathsChangedBetween(repo, repo.head, target) = {}
        /\ raced = Refused <=> \E p \in touched : other[p] # ReadAt(repo, repo.head, p)
        /\ raced # Refused => \A p \in Paths :
             ReadAt(raced, raced.head, p) = IF p \in touched THEN ReadAt(repo, target, p) ELSE other[p]

\* Restoring what a commit changed to its parent's version undoes the commit.
UndoIsWhole(repo, c) ==
  LET parent == FirstParent(repo, c)
      at == [repo EXCEPT !.head = c]
      plan == BuildRestore(at, parent, SetToSeq(PathsChangedBetween(repo, parent, c)))
      done == CommitPlan(at, plan)
  IN  parent # Absent => TreeAt(done, done.head) = TreeAt(repo, parent)

\* A range starts right after its stop, ends at the tip and misses no commit
\* between; none is given only where the stop is not on the tip's first-parent
\* chain.  Read in order, its commits' diffs tell of every path that differs
\* between stop and tip whether it is there at the tip, so an index that
\* replays them catches up with a pull.
RangesAddUp(repo, stop, tip) ==
  LET range == FirstParentRange(repo, stop, tip)
      statuses == [k \in DOMAIN range |-> DiffPathStatuses(repo, FirstParent(repo, range[k]), range[k])]
      telling(p) == {k \in DOMAIN range : p \in DOMAIN statuses[k]}
      latest(p) == CHOOSE k \in telling(p) : \A j \in telling(p) : j <= k
      reached[n \in 0 .. Len(repo.commits)] ==
        IF n = 0 THEN {tip} ELSE reached[n - 1] \cup {FirstParent(repo, c) : c \in reached[n - 1] \ {Absent}}
  IN  IF range = Refused THEN stop \notin reached[Len(repo.commits)]
      ELSE /\ \A k \in DOMAIN range : FirstParent(repo, range[k]) = IF k = 1 THEN stop ELSE range[k - 1]
           /\ IF range = <<>> THEN stop = tip ELSE Last(range) = tip
           /\ \A p \in PathsChangedBetween(repo, stop, tip) :
                telling(p) # {} /\ statuses[latest(p)][p] = (ReadAt(repo, tip, p) # Absent)
           /\ \A p \in Paths : telling(p) # {} => statuses[latest(p)][p] = (ReadAt(repo, tip, p) # Absent)

\* An answer of the log holds only what was asked for, newest first and within
\* the limit; what it leaves out for the limit is older than all it holds; each
\* entry is found again under its id; the counts are those of the whole log.
\* Lines that do not parse cost nothing but themselves.
LogTellsHistory(world, filter) ==
  LET answer == Query(world.log, filter)
      entries == Range(Entries(world.log))
      passing == {e \in entries : Passes(e, filter)}
      stats == Stats(world)
      sum[S \in SUBSET DOMAIN stats.byType] == IF S = {} THEN 0 ELSE LET op == CHOOSE x \in S : TRUE IN stats.byType[op] + sum[S \ {op}]
  IN  /\ Range(answer) \subseteq passing /\ Len(answer) <= filter.limit
      /\ \A j, k \in DOMAIN answer : j < k => answer[j].time > answer[k].time
      /\ Len(answer) < filter.limit => Range(answer) = passing
      /\ \A e \in passing \ Range(answer) : \A k \in DOMAIN answer : e.time < answer[k].time
      /\ \A k \in DOMAIN answer : GetEntry(world.log, answer[k].id) = answer[k]
      /\ stats.total = Cardinality(entries) /\ sum[DOMAIN stats.byType] = stats.total
      /\ entries # {} => \A e \in entries : stats.oldest <= e.time /\ e.time <= stats.newest

\* A preview announces what the rollback then does to the note: creates it,
\* removes it, rewrites it to the text it names, or nothing.  The rollback may
\* fail where the preview promised a change only if the kept text is lost, and
\* the preview then shows no diff.  Whatever it does, the text it replaces is
\* kept, no other note changes, and a rollback cannot itself be rolled back.
PreviewIsKept(world, id, newId, now) ==
  LET preview == Preview(world, id)
      ran == Execute(world, id, newId, now)
      path == GetEntry(world.log, id).path
      was == world.files[path]
      is == ran.world.files[path]
      promised == preview.wouldCreate \/ preview.wouldDelete \/ preview.wouldModify
  IN  IF GetEntry(world.log, id) = Absent THEN preview = Refused /\ ran = [reply |-> Refused, world |-> world]
      ELSE /\ \A p \in Paths \ {path} : ran.world.files[p] = world.files[p]
           /\ was = Absent \/ was = is \/ was \in ran.world.snapshots
           /\ ran.reply = "ok" =>
                /\ preview.wouldCreate <=> was = Absent /\ is # Absent
                /\ preview.wouldDelete <=> was # Absent /\ is = Absent
                /\ preview.wouldModify <=> was # Absent /\ is # Absent
                /\ is \in {preview.targetHash, Absent}
                /\ preview.shown # Absent => preview.shown = <<was, is>>
                /\ GetEntry(ran.world.log, newId).op = "rollback"
                /\ Execute(ran.world, newId, newId + 1, now + 1).reply = Refused
           /\ ran.reply = Refused =>
                /\ ran.world.files = world.files /\ ran.world.log = world.log
                /\ promised => preview.targetHash \notin world.snapshots /\ preview.shown = Absent
                /\ ~promised => preview.warnings # {}

\* A vault without an audit trail refuses every call about versions and loses
\* nothing by it.  Elsewhere, after a rollback the manager serves what it left
\* and whoever is told of changes was told of its path; and where a rollback
\* would rewrite a note, the diff against that version shows the text it brings
\* back.
RollbacksAreSeen(backend, logged, world, cache, id, newId, now) ==
  LET ran == RollbackNote(backend, logged, world, cache, id, newId, now)
      preview == RollbackPreview(backend, logged, world, id)
      path == GetEntry(world.log, id).path
  IN  /\ ~AuditTools(backend, logged) =>
           /\ ran = [reply |-> Refused, world |-> world, cache |-> cache, announced |-> <<>>]
           /\ {preview, AuditStats(backend, logged, world), VersionShown(backend, logged, world, "a", id)} = {Refused}
      /\ ran.reply = Refused => ran.world.files = world.files /\ ran.announced = <<>> /\ ran.cache = cache
      /\ ran.reply = "ok" =>
           /\ ran.cache[path] = ran.world.files[path]
           /\ \A p \in Paths : ran.world.files[p] # world.files[p] => ran.announced = <<[kind |-> "modified", path |-> p]>>
           /\ preview.shown # Absent => VersionShown(backend, logged, world, path, id) = Reverse(preview.shown)

\* The counts of a diff account for every line of both texts; each change shown
\* stands at the line of the old text it names and holds a line of the new one,
\* in the order of both; the limit cuts what is shown and not what is counted.
DiffAddsUp(left, right, script) ==
  LET diff == DiffContent(script)
      shown == diff.inline
  IN  LinesOf(Tagged(script, {"equal", "delete"})) = left /\ LinesOf(Tagged(script, {"equal", "insert"})) = right =>
        /\ diff.unchanged + diff.removed + diff.changed = Len(left)
        /\ diff.unchanged + diff.added + diff.changed = Len(right)
        /\ \A k \in DOMAIN shown :
             /\ left[shown[k].number] = shown[k].old /\ shown[k].new \in Range(right)
             /\ k > 1 => shown[k - 1].number < shown[k].number
        /\ Len(shown) <= InlineLimit /\ (Len(shown) < diff.changed => Len(shown) = InlineLimit)
        /\ left = right /\ diff.unchanged = Len(left) => diff.changed = 0

\* A vault that needs messages never gets a derived one; a given one always
\* stands; a batch's own subject counts each of its operations once; and what a
\* batch announces names every path its operations write.
CallsAreNamed(backend, required, message, batch) ==
  LET derived == DeriveBatchMessage(batch)
      subject == ResolveCommitMessage(backend, required, message, derived)
      total[k \in 0 .. Len(derived)] == IF k = 0 THEN 0 ELSE total[k - 1] + derived[k].count
  IN  /\ backend = "git" /\ required => subject # derived
      /\ message \notin {Absent, <<>>} => subject = message
      /\ subject = Refused => backend = "git" /\ required
      /\ total[Len(derived)] = Len(batch)
      /\ \A k \in DOMAIN derived : derived[k].count > 0 /\ (derived[k].plural <=> derived[k].count > 1)
      /\ \A k \in DOMAIN batch :
           {batch[k].path} \cup (IF batch[k].kind = "MoveNote" THEN {batch[k].to} ELSE {}) = Range(BatchOperationChange(batch[k]).paths)
=============================================================================

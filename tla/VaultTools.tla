------------------------------ MODULE VaultTools ------------------------------
(***************************************************************************)
(* The tools that change notes (turbovault-tools: file_tools, batch_tools, *)
(* metadata_tools, templates, okf_tools, and their providers): each reads  *)
(* notes and the link graph, builds a change plan from what it read, has   *)
(* the manager apply it, and replies.  Others act between any two of these *)
(* steps; the guards in the plan have to notice.                           *)
(*                                                                         *)
(* The manager's work is kept short: a plan is gated and applied in one    *)
(* step (GitCommit and DirectVault have the steps), whole on the git       *)
(* backend, a prefix of it if a change fails on the direct one; the link   *)
(* graph follows path by path, each read first and put into the graph      *)
(* later (IndexSync has the cache beside it).                              *)
(***************************************************************************)
EXTENDS VaultTree, LinkGraph

CONSTANTS
  Clients,
  Calls,      \* the calls they make: [batch, ops]
  Starts,     \* the vaults they may find
  MaxCalls,
  MaxFaults

\* A note's text is that of the calls that wrote to it (see below).
IsNote(n) ==
  /\ n = [text |-> n.text, tags |-> n.tags, links |-> n.links, names |-> n.names]
  /\ n.text \subseteq 0 .. MaxCalls

\* The metadata tools take no hash; a batch may pass one for each operation.
ASSUME ToolsAssumption ==
  /\ IsFiniteSet(Paths)
  /\ {MaxCalls, MaxFaults} \subseteq Nat
  /\ \A tree \in Starts :
       /\ tree = [p \in Paths |-> tree[p]]
       /\ \A p \in Paths : tree[p] = Absent \/ IsNote(tree[p])
  /\ \A what \in Calls :
       /\ what.batch \in BOOLEAN
       /\ what.ops \in Seq({what.ops[i] : i \in DOMAIN what.ops})
       /\ \A i \in DOMAIN what.ops :
            /\ {what.ops[i].path, what.ops[i].to} \subseteq Paths
            /\ what.ops[i].guarded \in BOOLEAN
            /\ what.ops[i].op \in {"describe", "tag", "relink"} /\ ~what.batch => ~what.ops[i].guarded

VARIABLES
  git,        \* the backend: git or direct
  notes,      \* what each path holds
  graph,      \* the link graph
  pc, call,   \* each client's call
  sync,       \* each client's sync_index: the paths to go, and what was read of the first
  blurred,    \* notes last written between another call's look and its update, or not indexed for an error
  lost,       \* text that a guarded change replaced without having read it
  dropped,    \* notes with edges that went when the other end was removed
  calls, faults

vars == <<git, notes, graph, pc, call, sync, blurred, lost, dropped, calls, faults>>

Existing == {p \in Paths : notes[p] # Absent}

-----------------------------------------------------------------------------
(* Notes.  A note's text and its frontmatter are the sets of calls that    *)
(* contributed to them, 0 the start; links are targets, crossed out or not.*)

Links(content) == {l.to : l \in content.links}

Fresh(id, o) == [text |-> {id}, tags |-> {}, links |-> o.links, names |-> {}]

\* write_file_with_mode: text is added behind the note's, or before it and
\* behind its frontmatter; to an absent note it is all there is.
Extended(id, o, now) ==
  IF now = Absent THEN Fresh(id, o)
  ELSE [now EXCEPT !.text = @ \cup {id}, !.links = @ \cup o.links]

\* compute_update_frontmatter: merged into the frontmatter there is, or in its place.
Described(id, o, now) ==
  IF o.how = "merge" THEN [now EXCEPT !.tags = @ \cup {id}]
  ELSE [now EXCEPT !.tags = {id}, !.names = {}]

\* compute_manage_tags: a tag is added, or all that are there are removed.
Tagged(id, o, now) == [now EXCEPT !.tags = IF o.how = "add" THEN @ \cup {id} ELSE {}]

\* UpdateLinks replaces text, wherever it stands in a target.
Relinked(o, now) ==
  [now EXCEPT !.links = {[l EXCEPT !.to = [i \in DOMAIN @ |-> IF @[i] = o.old THEN o.new ELSE @[i]]] : l \in @}]

\* Mutant: only targets that are whole paths are rewritten.
Rewritten_PathOnly(now, from, to) ==
  [now EXCEPT !.links = {IF l.to = from THEN [l EXCEPT !.to = to] ELSE l : l \in @}]

\* rewrite_wikilinks: a target that is the whole path or the bare name is
\* replaced in kind; others that resolve to the note, by the end of its path or
\* by an alias, are left.
Rewritten(now, from, to) ==
  [now EXCEPT !.links = {CASE l.to = from -> [l EXCEPT !.to = to]
                           [] l.to = <<Stem(from)>> -> [l EXCEPT !.to = <<Stem(to)>>]
                           [] OTHER -> l : l \in @}]

\* wrap_wikilinks_as_stale: the same targets, crossed out once.
Struck(now, path) ==
  [now EXCEPT !.links = {IF l.to \in {path, <<Stem(path)>>} THEN [l EXCEPT !.stale = TRUE] ELSE l : l \in @}]

-----------------------------------------------------------------------------
(* Calls.                                                                  *)

Nothing == [batch |-> FALSE, ops |-> <<>>]

NoCall ==
  [call |-> Nothing, id |-> 0, seen |-> [p \in Paths |-> Absent], todo |-> <<>>,
   linkers |-> {}, source |-> Absent, sure |-> FALSE,
   plan |-> [changes |-> <<>>, pre |-> {}], ends |-> <<>>, read |-> [p \in Paths |-> {}],
   landed |-> 0, reply |-> "none"]

Idle(c) == pc[c] = "idle"
Op(c) == Head(call[c].todo)

\* got is empty until sync_index has looked at the first path to go.
Synced == [todo |-> <<>>, got |-> {}]

Indexing == {c \in Clients : sync[c].todo # <<>>}

GraphOf(tree) ==
  LET all == Seqs!SetToSeq({p \in Paths : tree[p] # Absent})
      nodes == Seqs!FoldLeft(LAMBDA g, p : AddFile(g, p, tree[p].names), EmptyGraph, all)
  IN  Seqs!FoldLeft(LAMBDA g, p : UpdateLinks(g, p, Links(tree[p])), nodes, all)

\* initialize: all notes first, then their links.
Init ==
  /\ git \in BOOLEAN
  /\ notes \in Starts
  /\ graph = GraphOf(notes)
  /\ pc = [c \in Clients |-> "idle"]
  /\ call = [c \in Clients |-> NoCall]
  /\ sync = [c \in Clients |-> Synced] /\ blurred = {}
  /\ lost = {} /\ dropped = {}
  /\ calls = 0 /\ faults = 0

Go(c, at, value) == pc' = [pc EXCEPT ![c] = at] /\ call' = [call EXCEPT ![c] = value]

Refuse(c) == Go(c, "reply", [call[c] EXCEPT !.reply = "refused"])

\* The caller has read the notes whose hashes it passes.
Ask(c, what) ==
  /\ Idle(c) /\ calls < MaxCalls
  /\ \A i \in DOMAIN what.ops : what.ops[i].guarded => notes[what.ops[i].path] # Absent
  /\ calls' = calls + 1
  /\ Go(c, "plan", [NoCall EXCEPT !.call = what, !.id = calls', !.seen = notes, !.todo = what.ops])
  /\ UNCHANGED <<git, notes, graph, sync, blurred, lost, dropped, faults>>

-----------------------------------------------------------------------------
(* Plans.                                                                  *)

\* The caller's hash, if it passes one.
Token(c, o) == IF o.guarded THEN {ExpectBlob(o.path, call[c].seen[o.path])} ELSE {}

\* Precondition::for_replace and for_in_place.
InPlace(c, o) == IF o.guarded THEN Token(c, o) ELSE {Expect(o.path, "exists")}

\* What may be replaced: with a hash, what the caller has read; without one, the
\* tools write over whatever they find.
Seen(c, o) == IF o.guarded THEN call[c].seen[o.path].text ELSE 0 .. MaxCalls

\* An operation's changes and guards are added to the plan; in a batch no path
\* may be written by two of them (plan_with_op_spans).
Fold(c, changes, pre, seen) ==
  LET l == call[c]
      plan == [changes |-> l.plan.changes \o changes, pre |-> l.plan.pre \cup pre]
  IN  IF Duplicated(plan) THEN Refuse(c)
      ELSE Go(c, "plan",
               [l EXCEPT !.plan = plan, !.todo = Tail(@), !.ends = Append(@, Len(plan.changes)),
                         !.read = [p \in Paths |-> IF p \in DOMAIN seen THEN seen[p] ELSE @[p]]])

At1(path, text) == [p \in {path} |-> text]

\* delete_note goes without the links when it is forced, which it is by default
\* on the direct backend.
Forced(c, o) ==
  IF call[c].call.batch THEN o.force = "yes" ELSE o.force = "yes" \/ (o.force = "none" /\ ~git)

Linked(c, o) == \/ o.op = "delete" /\ ~Forced(c, o)
                \/ o.op = "move" /\ o.how = "links"

Ready(c, op) == pc[c] = "plan" /\ call[c].todo # <<>> /\ Op(c).op = op

Planned(c) == UNCHANGED <<git, notes, graph, sync, blurred, lost, dropped, calls, faults>>

\* write_note and CreateNote: a note that must not be there yet.
Create(c) ==
  LET o == Op(c) IN
  /\ Ready(c, "create")
  /\ Fold(c, <<Upsert(o.path, Fresh(call[c].id, o))>>, {Expect(o.path, "absent")}, At1(o.path, {}))
  /\ Planned(c)

\* write_note with a hash or by force, and WriteNote.
Overwrite(c) ==
  LET o == Op(c) IN
  /\ Ready(c, "write")
  /\ Fold(c, <<Upsert(o.path, Fresh(call[c].id, o))>>, Token(c, o), At1(o.path, Seen(c, o)))
  /\ Planned(c)

\* write_note in mode append or prepend: what is read is not what is guarded.
Extend(c) ==
  LET o == Op(c) IN
  /\ Ready(c, "extend")
  /\ Fold(c, <<Upsert(o.path, Extended(call[c].id, o, notes[o.path]))>>, Token(c, o), At1(o.path, Seen(c, o)))
  /\ Planned(c)

\* edit_note reads, compares the hash, and guards what it read; in a batch the
\* caller's hash is the only guard (fold_edit_note).
Edit(c) ==
  LET o == Op(c)
      now == notes[o.path]
      stale == ~call[c].call.batch /\ o.guarded /\ now # call[c].seen[o.path]
  IN
  /\ Ready(c, "edit")
  /\ IF now = Absent \/ stale THEN Refuse(c)
     ELSE Fold(c, <<Upsert(o.path, [now EXCEPT !.text = @ \cup {call[c].id}])>>,
               IF call[c].call.batch THEN Token(c, o) ELSE {ExpectBlob(o.path, now)},
               At1(o.path, IF call[c].call.batch THEN Seen(c, o) ELSE now.text))
  /\ Planned(c)

\* update_frontmatter, manage_tags and UpdateLinks read the note and write it
\* back; the tools ask only that it still exists.
Amend(c) ==
  LET o == Op(c)
      now == notes[o.path]
      New == CASE o.op = "describe" -> Described(call[c].id, o, now)
               [] o.op = "tag" -> Tagged(call[c].id, o, now)
               [] o.op = "relink" -> Relinked(o, now)
  IN
  /\ \E op \in {"describe", "tag", "relink"} : Ready(c, op)
  /\ IF now = Absent THEN Refuse(c)
     ELSE Fold(c, <<Upsert(o.path, New)>>,
               IF call[c].call.batch THEN Token(c, o) ELSE {Expect(o.path, "exists")},
               At1(o.path, Seen(c, o)))
  /\ Planned(c)

Bare(c, o) ==
  Fold(c, <<Remove(o.path)>>, IF call[c].call.batch THEN Token(c, o) ELSE InPlace(c, o), At1(o.path, Seen(c, o)))

\* delete_note by force, and DeleteNote.
Delete(c) ==
  /\ Ready(c, "delete") /\ Forced(c, Op(c))
  /\ Bare(c, Op(c))
  /\ Planned(c)

\* No call is indexing and none has left a note wrong.
GraphIsSettled == Indexing = {} /\ blurred = {}

\* delete_note looks at the links first: none, and the note goes; else the call is
\* refused, unless they are to be crossed out (inbound_backlinks, fold_delete_note).
Consider(c) ==
  LET o == Op(c)
      l == [call[c] EXCEPT !.sure = GraphIsSettled]
  IN
  /\ Ready(c, "delete") /\ ~Forced(c, o)
  /\ CASE Backlinks(graph, o.path) = {} ->
            /\ pc' = [pc EXCEPT ![c] = "bare"]
            /\ call' = [call EXCEPT ![c] = l]
       [] Backlinks(graph, o.path) # {} /\ o.on = "stale" -> Go(c, "find", call[c])
       [] OTHER -> Refuse(c)
  /\ Planned(c)

DeleteUnlinked(c) ==
  /\ pc[c] = "bare"
  /\ Bare(c, Op(c))
  /\ Planned(c)

\* move_note without the links renames, over whatever is at the other end; in a
\* batch the note is read and the destination must be free (fold_move_note).
Move(c) ==
  LET o == Op(c)
      now == notes[o.path]
  IN
  /\ Ready(c, "move") /\ o.how = "bare"
  /\ IF ~call[c].call.batch
     THEN Fold(c, <<Rename(o.path, o.to)>>, InPlace(c, o),
               [p \in {o.path, o.to} |-> IF p = o.to THEN 0 .. MaxCalls ELSE Seen(c, o)])
     ELSE IF now = Absent THEN Refuse(c)
     ELSE Fold(c, <<Remove(o.path), Upsert(o.to, now)>>, Token(c, o) \cup {Expect(o.to, "absent")},
               At1(o.path, Seen(c, o)))
  /\ Planned(c)

StartMove(c) ==
  /\ Ready(c, "move") /\ Op(c).how = "links"
  /\ Go(c, "find", call[c])
  /\ Planned(c)

\* fold_move_with_links and fold_delete_with_stale_links: the note, then the notes
\* that link to it, as the graph has them.
FindLinkers(c) ==
  LET o == Op(c) IN
  /\ pc[c] = "find"
  /\ IF o.op = "move" /\ notes[o.path] = Absent THEN Refuse(c)
     ELSE Go(c, "linkers", [call[c] EXCEPT !.linkers = Backlinks(graph, o.path), !.source = notes[o.path],
                                           !.sure = GraphIsSettled])
  /\ Planned(c)

\* Mutant: the sources of the links are written back unguarded.
Linked1_Blind(q) == Expect(q, "blind")

\* Each source is written only over what was read of it.
Linked1(q) == ExpectBlob(q, notes[q])

\* Their links are rewritten, in the plan that moves or deletes the note.
RewriteLinkers(c) ==
  LET o == Op(c)
      New(q) == IF o.op = "move" THEN Rewritten(notes[q], o.path, o.to) ELSE Struck(notes[q], o.path)
      hit == {q \in Paths : q \in call[c].linkers /\ New(q) # notes[q]}
      updates == [i \in DOMAIN Seqs!SetToSeq(hit) |-> LET q == Seqs!SetToSeq(hit)[i] IN Upsert(q, New(q))]
  IN
  /\ pc[c] = "linkers"
  /\ IF \E q \in call[c].linkers : notes[q] = Absent THEN Refuse(c)
     ELSE Fold(c,
               (IF o.op = "move" THEN <<Remove(o.path), Upsert(o.to, call[c].source)>> ELSE <<Remove(o.path)>>) \o updates,
               Token(c, o) \cup {Linked1(q) : q \in hit} \cup (IF o.op = "move" THEN {Expect(o.to, "absent")} ELSE {}),
               [p \in hit \cup {o.path} |-> IF p = o.path THEN Seen(c, o) ELSE notes[p].text])
  /\ Planned(c)

-----------------------------------------------------------------------------
(* The manager.                                                            *)

Landing(changes, n) == UNION {TouchedBy(changes[i]) : i \in 1 .. n}

\* The first n of the changes: no path is touched by two of them.
Applied(tree, changes, n) == TreeAfter([changes |-> SubSeq(changes, 1, n)], tree)

\* A file that is not there cannot be removed or renamed.
Possible(tree, ch) == ch.op = "upsert" \/ tree[IF ch.op = "rename" THEN ch.from ELSE ch.path] # Absent

\* How many changes land: git's all, whatever happens; of the others those
\* before the first that fails, by itself or by a fault.
Reach(tree, changes) ==
  {n \in 0 .. Len(changes) :
     /\ \A i \in 1 .. n : Possible(Applied(tree, changes, i - 1), changes[i])
     /\ n = Len(changes) \/ ~Possible(Applied(tree, changes, n), changes[n + 1]) \/ faults < MaxFaults}

Gone(before, after, paths) ==
  LET Texts(tree) == UNION {tree[p].text : p \in {q \in paths : tree[q] # Absent}}
  IN  Texts(before) \ Texts(after)

\* What went though no path it could have been read from was read so.
LostBy(l, before, after, paths) == Gone(before, after, paths) \ UNION {l.read[p] : p \in paths}

\* Other calls' knowledge of the links is overtaken.
Overtaken(c) == [d \in Clients |-> IF d = c THEN call[d] ELSE [call[d] EXCEPT !.sure = FALSE]]

\* The paths of what landed, in order (changes_to_outcome).
Outcome(changes) ==
  Seqs!FlattenSeq([i \in DOMAIN changes |->
    LET ch == changes[i] IN
    CASE ch.op = "upsert" -> <<[path |-> ch.path, present |-> TRUE]>>
      [] ch.op = "remove" -> <<[path |-> ch.path, present |-> FALSE]>>
      [] ch.op = "rename" -> <<[path |-> ch.from, present |-> FALSE], [path |-> ch.to, present |-> TRUE]>>])

\* The notes that other calls have looked at but not yet brought into the graph.
Behind(c) == {Head(sync[d].todo).path : d \in {e \in Clients \ {c} : sync[e].got # {}}}

\* apply_changes: every guard, then every change.
Apply(c) ==
  LET l == call[c] IN
  /\ pc[c] = "plan" /\ l.todo = <<>>
  /\ IF ~PreconditionsHold(l.plan, notes)
        \/ (git /\ ~SourcesExist(l.plan, notes))
     THEN /\ Refuse(c)
          /\ UNCHANGED <<notes, sync, blurred, lost, faults>>
     ELSE \E n \in IF git THEN {Len(l.plan.changes)} ELSE Reach(notes, l.plan.changes) :
          LET paths == Landing(l.plan.changes, n)
              whole == n = Len(l.plan.changes)
          IN
          /\ notes' = Applied(notes, l.plan.changes, n)
          /\ sync' = [sync EXCEPT ![c] = [todo |-> Outcome(SubSeq(l.plan.changes, 1, n)), got |-> {}]]
          /\ blurred' = (blurred \ paths) \cup (paths \cap Behind(c))
          /\ lost' = lost \cup LostBy(l, notes, notes', paths)
          /\ pc' = [pc EXCEPT ![c] = "index"]
          /\ call' = [Overtaken(c) EXCEPT ![c] = [l EXCEPT !.landed = n,
                                                        !.reply = IF whole THEN "done" ELSE "failed"]]
          /\ faults' = IF whole \/ ~Possible(notes', l.plan.changes[n + 1]) THEN faults ELSE faults + 1
  /\ UNCHANGED <<git, graph, dropped, calls>>

\* sync_index goes on to the next path.
Skip(c) == sync' = [sync EXCEPT ![c] = [todo |-> Tail(sync[c].todo), got |-> {}]]

\* Mutant: a note that was removed goes without another look.
SeenAs_Told(x) == {IF x.present THEN notes[x.path] ELSE Absent}

\* It reads a note that is said to be there; of one said to be gone it makes sure
\* that it still is.  What has changed in the meantime is left to who changed it.
SeenAs(x) == IF (notes[x.path] # Absent) = x.present THEN {notes[x.path]} ELSE {}

Look(c) ==
  LET seen == SeenAs(Head(sync[c].todo)) IN
  /\ sync[c].todo # <<>> /\ sync[c].got = {}
  /\ IF seen = {} THEN Skip(c) ELSE sync' = [sync EXCEPT ![c].got = seen]
  /\ UNCHANGED <<git, notes, graph, pc, call, blurred, lost, dropped, calls, faults>>

\* An error: a note that cannot be read or parsed is passed over with a warning,
\* and one that may or may not be there is taken to be gone.
LookFails(c) ==
  LET x == Head(sync[c].todo) IN
  /\ sync[c].todo # <<>> /\ sync[c].got = {}
  /\ faults < MaxFaults /\ faults' = faults + 1
  /\ blurred' = blurred \cup {x.path}
  /\ IF x.present THEN Skip(c) ELSE sync' = [sync EXCEPT ![c].got = {Absent}]
  /\ UNCHANGED <<git, notes, graph, pc, call, lost, dropped, calls>>

\* What was read goes into the graph, whatever the disk holds by now: add_file and
\* update_links under one lock, or remove_file.
SyncIndex(c) ==
  LET path == Head(sync[c].todo).path IN
  /\ sync[c].todo # <<>>
  /\ \E got \in sync[c].got :
     IF got = Absent
     THEN /\ graph' = RemoveFile(graph, path)
          /\ dropped' = (dropped \cup Backlinks(graph, path)) \ {path}
     ELSE /\ graph' = UpdateLinks(AddFile(graph, path, got.names), path, Links(got))
          /\ dropped' = dropped \ {path}
  /\ Skip(c)
  /\ UNCHANGED <<git, notes, pc, call, blurred, lost, calls, faults>>

Reply(c) ==
  /\ pc[c] \in {"index", "reply"} /\ sync[c].todo = <<>>
  /\ Go(c, "idle", NoCall)
  /\ UNCHANGED <<git, notes, graph, sync, blurred, lost, dropped, calls, faults>>

-----------------------------------------------------------------------------
(* The report of a batch (batch_execute): its operations are spans of the  *)
(* plan's changes.                                                         *)

First(l, i) == IF i = 1 THEN 0 ELSE l.ends[i - 1]

\* Mutant: an operation that just landed is taken for the one that failed.
FailedOp_OffByOne(l) == CHOOSE i \in DOMAIN l.ends :
  l.ends[i] >= l.landed /\ \A j \in 1 .. i - 1 : l.ends[j] < l.landed

\* The first operation that reaches beyond the change that failed.
FailedOp(l) == CHOOSE i \in DOMAIN l.ends :
  l.ends[i] > l.landed /\ \A j \in 1 .. i - 1 : l.ends[j] <= l.landed

Span(l, i, end) == UNION {TouchedBy(l.plan.changes[k]) : k \in First(l, i) + 1 .. end}

\* What each record names: of the failing operation, what it did before.
Report(l) ==
  CASE l.reply = "refused" -> [executed |-> 0, files |-> <<>>]
    [] l.reply = "done"    -> [executed |-> Len(l.ends), files |-> [i \in DOMAIN l.ends |-> Span(l, i, l.ends[i])]]
    [] l.reply = "failed"  -> LET f == FailedOp(l) IN
         [executed |-> f - 1,
          files |-> [i \in 1 .. f |-> Span(l, i, IF i = f THEN l.landed ELSE l.ends[i])]]

-----------------------------------------------------------------------------

Step(c) ==
  \/ Create(c) \/ Overwrite(c) \/ Extend(c) \/ Edit(c) \/ Amend(c)
  \/ Delete(c) \/ Consider(c) \/ DeleteUnlinked(c) \/ Move(c) \/ StartMove(c)
  \/ FindLinkers(c) \/ RewriteLinkers(c)
  \/ Apply(c) \/ Look(c) \/ LookFails(c) \/ SyncIndex(c) \/ Reply(c)

Next == \E c \in Clients : Step(c) \/ \E what \in Calls : Ask(c, what)

Spec == Init /\ [][Next]_vars

-----------------------------------------------------------------------------
(* Properties.                                                             *)

\* Text that a call found in a note is replaced only by a call that was given
\* leave to: one that passes no hash, or one whose hash is of a note that held
\* it.  The notes whose links are rewritten along the way are no exception, and
\* neither is a note that comes to be where one is created or moved to.
GuardedCallsLoseNothing == lost = {}

\* A link of a note on disk is known: it is an edge to the note it stands for, or
\* on the list of links that stand for none.
LinksAreKnown(p) ==
  \A t \in Links(notes[p]) :
    LET to == Resolve(graph, t) IN
    IF to = Nowhere THEN t \in (IF p \in DOMAIN graph.unresolved THEN graph.unresolved[p] ELSE {})
    ELSE to = SlotOf(graph, p) \/ \E e \in graph.edges : e.from = SlotOf(graph, p) /\ e.link = t

\* When no call is indexing, the graph has the notes there are and every link is
\* known: get_backlinks and get_broken_links leave none out.  Not so for a note
\* that was last written after another call had looked at it to index it and
\* before it did, which may put the older text into the graph last, or whose
\* indexing failed; nor for the links to a note that was removed or moved, until
\* their own note is indexed again: remove_file drops them.  The graph's maps
\* agree at all times.
GraphIsTrue ==
  /\ IndicesAgree(graph)
  /\ Indexing = {} =>
       /\ DOMAIN graph.at \ blurred = Existing \ blurred
       /\ \A p \in Existing \ (dropped \cup blurred) : LinksAreKnown(p)

\* Also where the edges were dropped.  Does not hold.
BacklinksAreComplete ==
  Indexing = {} =>
    \A p, q \in Existing : (\E t \in Links(notes[p]) : Resolve(graph, t) = SlotOf(graph, q)) /\ p # q =>
       p \in Backlinks(graph, q)

Changed == {p \in Paths : notes'[p] # notes[p]}

Only(c, op) == Len(call[c].call.ops) = 1 /\ call[c].call.ops[1].op = op

\* A delete that was not forced leaves no link that led to the note, if the links
\* did not change since it looked.
DeletesBreakNoLink(c) ==
  LET o == call[c].call.ops[1] IN
  Only(c, "delete") /\ ~Forced(c, o) /\ o.on = "none" /\ call[c].sure /\ dropped = {} =>
    \A q \in Existing \ {o.path} : \A t \in Links(notes[q]) :
       HasNode(graph, o.path) => Resolve(graph, t) # SlotOf(graph, o.path)

UniqueNames(tree) ==
  \A p, q \in {r \in Paths : tree[r] # Absent} : Stem(p) = Stem(q) => p = q

\* A move with its links leaves none behind that was written as the note's path or
\* name: it leads to where the note is now.  Names that several notes share are
\* not told apart.
MovesTakeLinksAlong(c) ==
  LET o == call[c].call.ops[1]
      old == GraphOf(notes)
      new == GraphOf(notes')
  IN
  /\ Only(c, "move") /\ o.how = "links" /\ call[c].sure /\ dropped = {}
  /\ call[c].landed' = Len(call[c].plan.changes)
  /\ UniqueNames(notes) /\ UniqueNames(notes')
  => \A q \in Existing \ {o.path} : \A l \in notes[q].links :
       /\ l.to \in {o.path, <<Stem(o.path)>>}
       /\ Resolve(old, l.to) = SlotOf(old, o.path)
       => \E m \in notes'[q].links : Resolve(new, m.to) = SlotOf(new, o.to)

LinksAreLookedAfter ==
  [][\A c \in Clients : pc[c] = "plan" /\ pc'[c] = "index" => DeletesBreakNoLink(c) /\ MovesTakeLinksAlong(c)]_vars

\* The report of a call says what it did, also if it stopped half-way: the files
\* it names are those it wrote, every operation it counts is done, and none
\* behind the failing one has begun.
ReportsAreTrue ==
  \A c \in Clients : pc[c] = "index" =>
    LET l == call[c]
        r == Report(l)
    IN  /\ UNION Seqs!Range(r.files) = Landing(l.plan.changes, l.landed)
        /\ \A i \in 1 .. r.executed : l.ends[i] <= l.landed
        /\ l.landed \in 0 .. Len(l.plan.changes) /\ Len(l.ends) = Len(l.call.ops)
        /\ l.reply = "failed" => First(l, r.executed + 1) <= l.landed /\ l.landed < l.ends[r.executed + 1]

=============================================================================

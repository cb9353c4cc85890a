------------------------------ MODULE IndexSync ------------------------------
(***************************************************************************)
(* How one VaultManager keeps what it derives from the vault - the note    *)
(* cache and the link graph - in step with a disk that others write too.   *)
(*                                                                         *)
(* Three kinds of task bring a path up to date, all through sync_index:    *)
(* a write, for the paths it changed; a flush of the reindex queue, for    *)
(* the paths of queued commits (the background drainer and every read      *)
(* path flush, one at a time); and the freshness sweep, for the paths      *)
(* whose fingerprint on disk is not the one in the cache.  The tasks run   *)
(* concurrently and share no lock per path.                                *)
(*                                                                         *)
(* A revision of a note is a number that is never used again; it stands    *)
(* for the note's content and for its (size, mtime) fingerprint.  0 is no  *)
(* file, no entry, or an unknown fingerprint.                              *)
(***************************************************************************)
EXTENDS Naturals, Sequences, FiniteSets

CONSTANTS
  Notes,      \* note paths
  Writers,    \* concurrent writes
  Flushers,   \* tasks that flush the queue: the drainer, read paths
  Sweeper,    \* the task that holds the reconcile lock
  Nobody,     \* the holder of a free lock
  Plans,      \* what a write changes: sequences of items
  Git,        \* TRUE: git backend, FALSE: direct backend
  Reconcile,  \* the setting reconcile_external_changes
  MaxOps,     \* bound: writes
  MaxEdits,   \* bound: changes made outside the process
  MaxFaults   \* bound: steps that fail

Tasks == Writers \cup Flushers \cup {Sweeper}

\* One entry of a changed set: the path and whether it is there now.
Item == [path : Notes, present : BOOLEAN]

ASSUME SyncAssumption ==
  /\ IsFiniteSet(Notes)
  /\ Sweeper \notin Writers \cup Flushers
  /\ Writers \cap Flushers = {}
  /\ Nobody \notin Tasks
  /\ Plans \subseteq Seq(Item)
  /\ {Git, Reconcile} \subseteq BOOLEAN
  /\ {MaxOps, MaxEdits, MaxFaults} \subseteq Nat

VARIABLES
  disk,       \* disk[n]: revision on disk
  clock,      \* the last revision used
  graph,      \* graph[n]: revision whose links the graph holds
  cache,      \* cache[n]: revision parsed, and fingerprint observed
  claims,     \* claims[n]: write plans in flight that touch n
  write,      \* the task in the substrate's critical section
  flush,      \* the task holding the queue's flush lock
  log,        \* commits: the items each changed
  head,       \* commits the HEAD-ref listener has seen
  queue,      \* commits awaiting reindex, with their origin
  pushed, drained,  \* history variables: entries ever queued, ever applied,
  dropped,    \* and those that an error or a call given up threw away
  scan,       \* what the sweep's walk found
  task,       \* state of each task
  announced,  \* paths reported to the change feed as somebody else's
  touched,    \* history variable: paths somebody else changed
  ops, edits, faults

derived == <<graph, cache>>
commits == <<log, head, queue, pushed, drained, dropped>>
others  == <<announced, touched>>
bounds  == <<ops, edits, faults>>
vars    == <<disk, clock, derived, claims, write, flush, commits, scan, task, others, bounds>>

\* at: control state; todo: items left; all: the items of this write or sweep;
\* popped, left: the commits this flush took from the queue, and those of them it
\* has not begun; before, seen: what a read found; asked: entries ever queued
\* when a flush was asked for.
Idle == [at |-> "idle", todo |-> <<>>, all |-> <<>>, popped |-> <<>>, left |-> <<>>,
         before |-> 0, seen |-> 0, asked |-> 0]

NoEntry == [file |-> 0, observed |-> 0]

\* initialize: every note parsed and linked before the manager is shared.
Init ==
  /\ disk \in [Notes -> {0, 1}]
  /\ clock = 1
  /\ graph = disk
  /\ cache = [n \in Notes |-> [file |-> disk[n], observed |-> disk[n]]]
  /\ claims = [n \in Notes |-> 0]
  /\ write = Nobody
  /\ flush = Nobody
  /\ log = <<>> /\ head = 0 /\ queue = <<>> /\ pushed = 0 /\ drained = 0 /\ dropped = 0
  /\ scan = disk
  /\ task = [t \in Tasks |-> Idle]
  /\ announced = {} /\ touched = {}
  /\ ops = 0 /\ edits = 0 /\ faults = 0

-----------------------------------------------------------------------------
(* Moving a task on.                                                       *)

At(t, at) == task[t].at = at
Goto(t, at) == task' = [task EXCEPT ![t].at = at]
Finish(t) == task' = [task EXCEPT ![t] = Idle]

MayFail == faults < MaxFaults /\ faults' = faults + 1

Touched(items) == {items[i].path : i \in DOMAIN items}

-----------------------------------------------------------------------------
(* A write: claim its paths, apply the plan through the substrate, bring    *)
(* the changed paths up to date, drop the claim, tell the listener.        *)

\* Mutant: claiming sets a mark that every release counts down.
Claim_Mark(w) ==
  /\ At(w, "idle")
  /\ ops < MaxOps
  /\ ops' = ops + 1
  /\ \E items \in Plans :
       /\ task' = [task EXCEPT ![w] = [Idle EXCEPT !.at = "begin", !.todo = items, !.all = items]]
       /\ claims' = [n \in Notes |-> IF n \in Touched(items) THEN 1 ELSE claims[n]]
  /\ UNCHANGED <<disk, clock, derived, write, flush, commits, scan, others, edits, faults>>

Claim(w) ==
  /\ At(w, "idle")
  /\ ops < MaxOps
  /\ ops' = ops + 1
  /\ \E items \in Plans :
       /\ task' = [task EXCEPT ![w] = [Idle EXCEPT !.at = "begin", !.todo = items, !.all = items]]
       /\ claims' = [n \in Notes |-> IF n \in Touched(items) THEN claims[n] + 1 ELSE claims[n]]
  /\ UNCHANGED <<disk, clock, derived, write, flush, commits, scan, others, edits, faults>>

\* The write mutex of the direct substrate, the commit lock of the git one.
EnterSubstrate(w) ==
  /\ At(w, "begin")
  /\ write = Nobody
  /\ write' = w
  /\ Goto(w, IF Git THEN "commit" ELSE "apply")
  /\ UNCHANGED <<disk, clock, derived, claims, flush, commits, scan, others, bounds>>

\* Git: HEAD moves before the files do.
AdvanceHead(w) ==
  /\ At(w, "commit")
  /\ log' = Append(log, task[w].todo)
  /\ Goto(w, "apply")
  /\ UNCHANGED <<disk, clock, derived, claims, write, flush, head, queue, pushed, drained, dropped,
                 scan, others, bounds>>

ApplyChange(w) ==
  /\ At(w, "apply")
  /\ task[w].todo # <<>>
  /\ LET item == Head(task[w].todo) IN
       disk' = [disk EXCEPT ![item.path] = IF item.present THEN clock + 1 ELSE 0]
  /\ clock' = clock + 1
  /\ task' = [task EXCEPT ![w].todo = Tail(@)]
  /\ UNCHANGED <<derived, claims, write, flush, commits, scan, others, bounds>>

Enqueue(entries) ==
  /\ queue' = queue \o entries
  /\ pushed' = pushed + Len(entries)

\* Everything landed.  Git: the commit hook runs inside the commit lock.
LeaveSubstrate(w) ==
  /\ At(w, "apply")
  /\ task[w].todo = <<>>
  /\ write' = Nobody
  /\ task' = [task EXCEPT ![w].at = "sync", ![w].todo = task[w].all]
  /\ IF Git THEN Enqueue(<<[items |-> task[w].all, external |-> FALSE]>>)
            ELSE UNCHANGED <<queue, pushed>>
  /\ UNCHANGED <<disk, clock, derived, claims, flush, log, head, drained, dropped, scan, others, bounds>>

\* A change fails.  Direct: what landed is kept, reported and brought up to
\* date.  Git: an error, and nothing more.
ApplyFails(w) ==
  /\ At(w, "apply")
  /\ task[w].todo # <<>>
  /\ MayFail
  /\ write' = Nobody
  /\ LET landed == SubSeq(task[w].all, 1, Len(task[w].all) - Len(task[w].todo)) IN
       task' = IF Git
         THEN [task EXCEPT ![w].at = "failed"]
         ELSE [task EXCEPT ![w].at = "sync", ![w].todo = landed]
  /\ UNCHANGED <<disk, clock, derived, claims, flush, commits, scan, others, ops, edits>>

\* The claim ends before the listener is told.
Unclaim(w) ==
  /\ \/ At(w, "sync") /\ task[w].todo = <<>> /\ Goto(w, "tell")
     \/ At(w, "failed") /\ Finish(w)
  /\ claims' = [n \in Notes |-> IF n \in Touched(task[w].all) THEN claims[n] - 1 ELSE claims[n]]
  /\ UNCHANGED <<disk, clock, derived, write, flush, commits, scan, others, bounds>>

\* A local write is announced where it was made, not by the listener.
TellLocal(w) ==
  /\ At(w, "tell")
  /\ Finish(w)
  /\ UNCHANGED <<disk, clock, derived, claims, write, flush, commits, scan, others, bounds>>

-----------------------------------------------------------------------------
(* sync_index, one item at a time.                                         *)

Now(t) == Head(task[t].todo).path

\* Present: the fingerprint before the read ...
Stat(t) ==
  /\ At(t, "sync") /\ task[t].todo # <<>> /\ Head(task[t].todo).present
  /\ task' = [task EXCEPT ![t].at = "read", ![t].before = disk[Now(t)]]
  /\ UNCHANGED <<disk, clock, derived, claims, write, flush, commits, scan, others, bounds>>

Next1(t) == [task[t] EXCEPT !.at = "sync", !.todo = Tail(@), !.before = 0, !.seen = 0]

\* ... the bytes; a note that is gone again, or cannot be read or parsed, is left
\* as it was ...
Read(t) ==
  /\ At(t, "read")
  /\ task' = [task EXCEPT ![t] = IF disk[Now(t)] = 0 THEN Next1(t)
                                 ELSE [@ EXCEPT !.at = "again", !.seen = disk[Now(t)]]]
  /\ UNCHANGED <<disk, clock, derived, claims, write, flush, commits, scan, others, bounds>>

ReadFails(t) ==
  /\ At(t, "read")
  /\ MayFail
  /\ task' = [task EXCEPT ![t] = Next1(t)]
  /\ UNCHANGED <<disk, clock, derived, claims, write, flush, commits, scan, others, ops, edits>>

\* Mutant: the fingerprint is taken after the read only.
Observed_After(t) == disk[Now(t)]

\* The fingerprint, when it did not move between the two looks.
Observed(t) == IF disk[Now(t)] = task[t].before THEN task[t].before ELSE 0

\* ... the fingerprint after it ...
StatAgain(t) ==
  /\ At(t, "again")
  /\ task' = [task EXCEPT ![t].at = "graph", ![t].before = Observed(t)]
  /\ UNCHANGED <<disk, clock, derived, claims, write, flush, commits, scan, others, bounds>>

\* ... and the links, once the graph's lock is had.
UpdateGraph(t) ==
  /\ At(t, "graph")
  /\ graph' = [graph EXCEPT ![Now(t)] = task[t].seen]
  /\ Goto(t, "cache")
  /\ UNCHANGED <<disk, clock, cache, claims, write, flush, commits, scan, others, bounds>>

InsertCache(t) ==
  /\ At(t, "cache")
  /\ cache' = [cache EXCEPT ![Now(t)] = [file |-> task[t].seen, observed |-> task[t].before]]
  /\ task' = [task EXCEPT ![t] = Next1(t)]
  /\ UNCHANGED <<disk, clock, graph, claims, write, flush, commits, scan, others, bounds>>

\* Absent: a note that is there again is left alone, if that can be told.
CheckGone(t) ==
  /\ At(t, "sync") /\ task[t].todo # <<>> /\ ~Head(task[t].todo).present
  /\ \/ /\ task' = [task EXCEPT ![t] = IF disk[Now(t)] # 0 THEN Next1(t) ELSE [@ EXCEPT !.at = "drop"]]
        /\ UNCHANGED faults
     \/ MayFail /\ Goto(t, "drop")
  /\ UNCHANGED <<disk, clock, derived, claims, write, flush, commits, scan, others, ops, edits>>

DropGraph(t) ==
  /\ At(t, "drop")
  /\ graph' = [graph EXCEPT ![Now(t)] = 0]
  /\ Goto(t, "evict")
  /\ UNCHANGED <<disk, clock, cache, claims, write, flush, commits, scan, others, bounds>>

EvictCache(t) ==
  /\ At(t, "evict")
  /\ cache' = [cache EXCEPT ![Now(t)] = NoEntry]
  /\ task' = [task EXCEPT ![t] = Next1(t)]
  /\ UNCHANGED <<disk, clock, graph, claims, write, flush, commits, scan, others, bounds>>

Sync(t) == Stat(t) \/ Read(t) \/ StatAgain(t) \/ UpdateGraph(t) \/ InsertCache(t)
             \/ CheckGone(t) \/ DropGraph(t) \/ EvictCache(t)

-----------------------------------------------------------------------------
(* The reindex queue (git).                                                *)

\* flush_reindex waits its turn.
AskFlush(f) ==
  /\ Git
  /\ At(f, "idle")
  /\ task' = [task EXCEPT ![f].at = "wait", ![f].asked = pushed]
  /\ UNCHANGED <<disk, clock, derived, claims, write, flush, commits, scan, others, bounds>>

\* Mutant: looks at the queue before it takes the lock.
EnterFlush_LookFirst(f) ==
  /\ At(f, "wait")
  /\ IF queue = <<>> THEN Goto(f, "done") /\ UNCHANGED flush
     ELSE flush = Nobody /\ flush' = f /\ Goto(f, "open")
  /\ UNCHANGED <<disk, clock, derived, claims, write, commits, scan, others, bounds>>

EnterFlush(f) ==
  /\ At(f, "wait")
  /\ flush = Nobody
  /\ flush' = f
  /\ Goto(f, "open")
  /\ UNCHANGED <<disk, clock, derived, claims, write, commits, scan, others, bounds>>

\* An empty queue is left at once; if the repository does not open, so is a full one.
OpenRepo(f) ==
  /\ At(f, "open")
  /\ \/ Goto(f, IF queue = <<>> THEN "tell" ELSE "pop") /\ UNCHANGED <<flush, faults>>
     \/ /\ queue # <<>> /\ MayFail
        /\ flush' = Nobody
        /\ task' = [task EXCEPT ![f] = [Idle EXCEPT !.at = "blind"]]
  /\ UNCHANGED <<disk, clock, derived, claims, write, commits, scan, others, ops, edits>>

\* Every queued commit is popped, and its diff taken, before any is applied; one
\* whose parent or diff cannot be had is skipped for good.
Pop(f) ==
  /\ At(f, "pop") /\ queue # <<>>
  /\ queue' = Tail(queue)
  /\ LET kept == [task[f] EXCEPT !.popped = Append(@, Head(queue)), !.left = Append(@, Head(queue))] IN
     \/ task' = [task EXCEPT ![f] = kept] /\ UNCHANGED <<dropped, faults>>
     \/ MayFail /\ dropped' = dropped + 1 /\ UNCHANGED task
  /\ UNCHANGED <<disk, clock, derived, claims, write, flush, log, head, pushed, drained, scan, others, ops, edits>>

PoppedAll(f) ==
  /\ At(f, "pop") /\ queue = <<>>
  /\ Goto(f, "sync")
  /\ UNCHANGED <<disk, clock, derived, claims, write, flush, commits, scan, others, bounds>>

\* The task that pops panics: what it had popped is gone, and the flush returns as if
\* there had been nothing.
PopPanics(f) ==
  /\ At(f, "pop")
  /\ MayFail
  /\ dropped' = dropped + Len(task[f].popped)
  /\ flush' = Nobody
  /\ task' = [task EXCEPT ![f] = [Idle EXCEPT !.at = "blind"]]
  /\ UNCHANGED <<disk, clock, derived, claims, write, log, head, queue, pushed, drained, scan, others, ops, edits>>

\* The commits are applied one after the other, the oldest first.
NextCommit(f) ==
  /\ At(f, "sync") /\ task[f].todo = <<>> /\ task[f].left # <<>>
  /\ task' = [task EXCEPT ![f].todo = Head(task[f].left).items, ![f].left = Tail(@)]
  /\ UNCHANGED <<disk, clock, derived, claims, write, flush, commits, scan, others, bounds>>

\* The listener is told, still under the flush lock.
TellFlushed(f) ==
  /\ \/ At(f, "sync") /\ task[f].todo = <<>> /\ task[f].left = <<>>
     \/ At(f, "tell")
  /\ flush' = Nobody
  /\ drained' = drained + Len(task[f].popped)
  /\ announced' = announced \cup UNION {Touched(task[f].popped[i].items) :
                    i \in {k \in DOMAIN task[f].popped : task[f].popped[k].external}}
  /\ task' = [task EXCEPT ![f] = [Idle EXCEPT !.at = "done", !.asked = task[f].asked]]
  /\ UNCHANGED <<disk, clock, derived, claims, write, log, head, queue, pushed, dropped, scan,
                 touched, bounds>>

\* A call that flushes is given up: its lock is free, and what it had popped is gone;
\* while it pops, the task that does so goes on with as much as is queued.
GiveUpFlush(f) ==
  /\ flush = f
  /\ MayFail
  /\ flush' = Nobody
  /\ \E k \in IF At(f, "pop") THEN 0 .. Len(queue) ELSE {0} :
       /\ queue' = SubSeq(queue, k + 1, Len(queue))
       /\ dropped' = dropped + Len(task[f].popped) + k
  /\ Finish(f)
  /\ UNCHANGED <<disk, clock, derived, claims, write, log, head, pushed, drained, scan, others, ops, edits>>

ReturnFlush(f) ==
  /\ At(f, "done") \/ At(f, "blind")
  /\ Finish(f)
  /\ UNCHANGED <<disk, clock, derived, claims, write, flush, commits, scan, others, bounds>>

\* The HEAD-ref listener queues what HEAD moved over since it last looked.
PollHead ==
  /\ Git
  /\ head < Len(log)
  /\ head' = Len(log)
  /\ Enqueue([i \in 1 .. Len(log) - head |-> [items |-> log[head + i], external |-> TRUE]])
  /\ UNCHANGED <<disk, clock, derived, claims, write, flush, log, drained, dropped, scan, task, others, bounds>>

-----------------------------------------------------------------------------
(* The freshness sweep.                                                    *)

\* The walk is taken in one step.
Scan ==
  /\ Reconcile
  /\ At(Sweeper, "idle")
  /\ scan' = disk
  /\ Goto(Sweeper, "diff")
  /\ UNCHANGED <<disk, clock, derived, claims, write, flush, commits, others, bounds>>

\* A walk that fails changes nothing.
ScanFails ==
  /\ At(Sweeper, "diff")
  /\ MayFail
  /\ scan' = [n \in Notes |-> 0]
  /\ Finish(Sweeper)
  /\ UNCHANGED <<disk, clock, derived, claims, write, flush, commits, others, ops, edits>>

\* Mutant: re-checks the notes it holds and discovers no others.
Moved_CachedOnly(n) == cache[n].file # 0 /\ (scan[n] = 0 \/ scan[n] # cache[n].observed)

\* Not the revision the cache was parsed from: edited, gone, or never seen.
Moved(n) ==
  \/ cache[n].file # 0 /\ (scan[n] = 0 \/ scan[n] # cache[n].observed)
  \/ cache[n].file = 0 /\ scan[n] # 0

\* Claimed paths are left to the write that claimed them.
Diff ==
  /\ At(Sweeper, "diff")
  /\ LET moved == {n \in Notes : Moved(n) /\ claims[n] = 0} IN
       \E order \in [1 .. Cardinality(moved) -> moved] :
         LET items == [i \in DOMAIN order |-> [path |-> order[i], present |-> scan[order[i]] # 0]]
         IN  /\ {order[i] : i \in DOMAIN order} = moved
             /\ task' = [task EXCEPT ![Sweeper].at = "sync", ![Sweeper].todo = items,
                                     ![Sweeper].all = items]
  /\ UNCHANGED <<disk, clock, derived, claims, write, flush, commits, scan, others, bounds>>

TellSwept ==
  /\ At(Sweeper, "sync") /\ task[Sweeper].todo = <<>>
  /\ announced' = announced \cup Touched(task[Sweeper].all)
  /\ scan' = [n \in Notes |-> 0]
  /\ Finish(Sweeper)
  /\ UNCHANGED <<disk, clock, derived, claims, write, flush, commits, touched, bounds>>

-----------------------------------------------------------------------------
(* Everybody else.                                                         *)

\* An editor, a sync client: saves or deletes a note.
EditOutside(n) ==
  /\ edits < MaxEdits
  /\ edits' = edits + 1
  /\ \E r \in {0, clock + 1} : disk[n] # r /\ disk' = [disk EXCEPT ![n] = r]
  /\ clock' = clock + 1
  /\ touched' = touched \cup {n}
  /\ UNCHANGED <<derived, claims, write, flush, commits, scan, task, announced, ops, faults>>

\* A pull, or another server process: one commit and its files.  Commits made
\* in the middle of a write are the subject of GitCommit.
CommitOutside(n) ==
  /\ Git
  /\ write = Nobody
  /\ edits < MaxEdits
  /\ edits' = edits + 1
  /\ \E r \in {0, clock + 1} :
       /\ disk[n] # r
       /\ disk' = [disk EXCEPT ![n] = r]
       /\ log' = Append(log, <<[path |-> n, present |-> r # 0]>>)
  /\ clock' = clock + 1
  /\ touched' = touched \cup {n}
  /\ UNCHANGED <<derived, claims, write, flush, head, queue, pushed, drained, dropped, scan, task,
                 announced, ops, faults>>

-----------------------------------------------------------------------------

Advance(w) == EnterSubstrate(w) \/ AdvanceHead(w) \/ ApplyChange(w) \/ LeaveSubstrate(w)
                \/ Sync(w) \/ Unclaim(w) \/ TellLocal(w)

FlushStep(f) == AskFlush(f) \/ EnterFlush(f) \/ OpenRepo(f) \/ Pop(f) \/ PoppedAll(f) \/ NextCommit(f)
                  \/ Sync(f) \/ TellFlushed(f) \/ ReturnFlush(f)

Sweep == Scan \/ Diff \/ Sync(Sweeper) \/ TellSwept

Next ==
  \/ \E w \in Writers : Claim(w) \/ Advance(w) \/ ApplyFails(w)
  \/ \E f \in Flushers : FlushStep(f) \/ PopPanics(f) \/ GiveUpFlush(f)
  \/ \E t \in Tasks : ReadFails(t)
  \/ PollHead \/ ScanFails
  \/ Sweep
  \/ \E n \in Notes : EditOutside(n) \/ CommitOutside(n)

Spec == Init /\ [][Next]_vars

\* Tasks run; the drainer and the ref listener poll; read paths keep calling
\* the freshness gate.
FairSpec ==
  /\ Spec
  /\ \A w \in Writers : WF_vars(Advance(w))
  /\ \A f \in Flushers : WF_vars(FlushStep(f))
  /\ WF_vars(PollHead)
  /\ WF_vars(Sweep)

-----------------------------------------------------------------------------
(* Properties.                                                             *)

Entry == [items : Seq(Item), external : BOOLEAN]

Stations == {"idle", "begin", "commit", "apply", "failed", "sync", "read", "again", "graph", "cache",
             "drop", "evict", "tell", "diff", "wait", "open", "pop", "done", "blind"}

TaskRecord == [at : Stations, todo : Seq(Item), all : Seq(Item), popped : Seq(Entry),
               left : Seq(Entry), before : Nat, seen : Nat, asked : Nat]

TasksOK ==
  /\ task \in [Tasks -> TaskRecord]
  /\ \A t \in Tasks : {task[t].before, task[t].seen} \subseteq 0 .. clock /\ task[t].asked <= pushed

\* The shape of the state.
TypeOK ==
  /\ clock \in Nat
  /\ disk \in [Notes -> 0 .. clock]
  /\ graph \in [Notes -> 0 .. clock]
  /\ cache \in [Notes -> [file : 0 .. clock, observed : 0 .. clock]]
  /\ claims \in [Notes -> Nat]
  /\ write \in Writers \cup {Nobody}
  /\ flush \in Flushers \cup {Nobody}
  /\ log \in Seq(Seq(Item))
  /\ head \in 0 .. Len(log)
  /\ queue \in Seq(Entry)
  /\ pushed \in Nat /\ {drained, dropped} \subseteq 0 .. pushed
  /\ scan \in [Notes -> 0 .. clock]
  /\ TasksOK
  /\ announced \subseteq Notes /\ touched \subseteq Notes

\* The cache never claims to have seen a revision it did not parse, wherever an
\* edit lands around the read: a note recorded as already seen would stay
\* stale for good (read_note_with_fingerprint).
FingerprintIsHonest ==
  \A n \in Notes : cache[n].observed \in {0, cache[n].file}

\* Every path of a write is claimed from before its first change to after its
\* last index update, also when writes that overlap end in between.
WritesAreClaimed ==
  \A w \in Writers : task[w].at \notin {"idle", "tell"} =>
     \A n \in Touched(task[w].all) : claims[n] > 0

\* The two together keep the sweep right: what it compares with is true, and it
\* looks away from a path for as long as a write is at work on it.
SweepComparesRightly == FingerprintIsHonest /\ WritesAreClaimed

\* A read path that flushed the queue reads derived state with every commit that
\* was queued when it asked, whoever popped it (the flush lock): each was applied, as
\* far as its notes could be read, or thrown away by a failure of that commit's own
\* flush.  Not so if the flush could not open the repository, or panicked while it
\* popped: it returns all the same, with commits left in the queue.
FlushSeesCommits ==
  \A f \in Flushers : At(f, "done") => drained + dropped >= task[f].asked

\* Once writes and edits end, the note cache ends up as the disk is.
CacheCatchesUp == <>[](\A n \in Notes : cache[n].file = disk[n])

\* The link graph need not: it fails when two writes of a note overlap.  It is
\* what ensure_fresh is for ("bring every derived
\* view this manager owns into agreement with what is on disk").
GraphCatchesUp == <>[](graph = disk)

\* What the change feed reports as somebody else's change was one.  Does not hold:
\* the ref listener reports the server's own commits too.
OnlyOthersAnnounced == announced \subseteq touched
=============================================================================

----------------------------- MODULE DirectVault -----------------------------
(***************************************************************************)
(* The direct (non-git) backend: DirectSubstrate with its audit log and    *)
(* snapshot store, edit_file on top of it, and the rollback engine beside  *)
(* it.                                                                     *)
(*                                                                         *)
(* A write holds the substrate's write lock from its first precondition to *)
(* its last audit entry.  Its changes are applied in order; each one is    *)
(* audited after it landed, and the first that fails ends the write with   *)
(* the earlier ones kept.  A rollback works on the same files, snapshots   *)
(* and log without that lock.  Snapshots and log lines are written in      *)
(* place: a crash, or a failing call, leaves them cut short.               *)
(***************************************************************************)
EXTENDS VaultTree, FiniteSets

CONSTANTS
  Text,        \* the contents that are UTF-8
  Torn,        \* the text a file holds that was cut short
  Token,       \* Token[c]: the normalised hash preconditions compare
  Writers,     \* concurrent writes and edits
  Undoers,     \* concurrent rollbacks
  Nobody,      \* the holder of a free lock
  Plans,       \* the plans callers submit
  Mounted,     \* the paths on another device than the rest
  Failing,     \* the calls that may fail: "land", "save", "record", "undo"
  MaxOps,      \* bound: writes and edits
  MaxUndos,    \* bound: rollbacks
  MaxEdits,    \* bound: changes made outside the process
  MaxFaults,   \* bound: failing calls
  MaxCrashes   \* bound: crashes

Tasks == Writers \cup Undoers

ASSUME DirectAssumption ==
  /\ Torn \in Text /\ Text \subseteq Contents
  /\ DOMAIN Token = Contents
  /\ Writers \cap Undoers = {}
  /\ Nobody \notin Tasks
  /\ Plans \subseteq ChangePlan
  /\ Mounted \subseteq Paths
  /\ Failing \subseteq {"land", "save", "record", "undo"}
  /\ {MaxOps, MaxUndos, MaxEdits, MaxFaults, MaxCrashes} \subseteq Nat

VARIABLES
  files,     \* the vault
  temp,      \* temp[p]: what rollbacks staged beside p
  snaps,     \* snaps[c]: the snapshot file of c: "none", "torn", "whole"
  log,       \* the audit entries a reader of the log gets
  cut,       \* the log file ends in half a line
  lock,      \* the writer holding the write lock
  task,      \* state of each task
  first,     \* history variable: the vault at the start
  landed,    \* history variable: changes that landed
  ops, undos, edits, faults, crashes

store  == <<snaps, log, cut>>
bounds == <<ops, undos, edits, faults, crashes>>
vars   == <<files, temp, store, lock, task, first, landed, bounds>>

\* An audit entry: before and after name snapshots, Absent none.
Entry(op, p, t) == [op |-> op, path |-> p, to |-> t, before |-> Absent, after |-> Absent]

\* at: control state; pre, left: preconditions, those left to check; todo:
\* changes left; entry: the entry being made; saves: snapshots it still needs;
\* base: what an edit was computed from; undoes: the entry a rollback undoes.
Idle == [at |-> "idle", pre |-> {}, left |-> {}, todo |-> <<>>, entry |-> Absent, saves |-> <<>>,
         base |-> Absent, undoes |-> 0]

Init ==
  /\ files \in [Paths -> Blob \ {Torn}]
  /\ temp = EmptyTree
  /\ snaps = [c \in Text |-> "none"]
  /\ log = <<>> /\ cut = FALSE
  /\ lock = Nobody
  /\ task = [t \in Tasks |-> Idle]
  /\ first = files
  /\ landed = 0
  /\ ops = 0 /\ undos = 0 /\ edits = 0 /\ faults = 0 /\ crashes = 0

At(t, at) == task[t].at = at
Goto(t, at) == task' = [task EXCEPT ![t].at = at]

-----------------------------------------------------------------------------
(* Calls.                                                                  *)

Submit(w) ==
  /\ At(w, "idle") /\ ops < MaxOps
  /\ ops' = ops + 1
  /\ \E plan \in Plans :
       task' = [task EXCEPT ![w] = [Idle EXCEPT !.at = "enter", !.pre = plan.pre,
                                         !.left = plan.pre, !.todo = plan.changes]]
  /\ UNCHANGED <<files, temp, store, lock, first, landed, undos, edits, faults, crashes>>

\* Mutant: the edit is written back unguarded.
EditFile_Blind(w) ==
  /\ At(w, "idle") /\ ops < MaxOps
  /\ ops' = ops + 1
  /\ \E p \in Paths, c \in Text \ {Torn} :
       /\ files[p] \in Text
       /\ task' = [task EXCEPT ![w] = [Idle EXCEPT !.at = "enter",
                                         !.todo = <<Upsert(p, c)>>, !.base = files[p]]]
  /\ UNCHANGED <<files, temp, store, lock, first, landed, undos, edits, faults, crashes>>

\* edit_file: reads, computes, and asks for a write guarded by what it read.
EditFile(w) ==
  /\ At(w, "idle") /\ ops < MaxOps
  /\ ops' = ops + 1
  /\ \E p \in Paths, c \in Text \ {Torn} :
       /\ files[p] \in Text
       /\ task' = [task EXCEPT ![w] = [Idle EXCEPT !.at = "enter",
                                         !.pre = {ExpectBlob(p, files[p])},
                                         !.left = {ExpectBlob(p, files[p])},
                                         !.todo = <<Upsert(p, c)>>, !.base = files[p]]]
  /\ UNCHANGED <<files, temp, store, lock, first, landed, undos, edits, faults, crashes>>

\* Mutant: does not wait for the lock.
Lock_NoWait(w) ==
  /\ At(w, "enter")
  /\ lock' = w
  /\ Goto(w, "check")
  /\ UNCHANGED <<files, temp, store, first, landed, bounds>>

Lock(w) ==
  /\ At(w, "enter")
  /\ lock = Nobody
  /\ lock' = w
  /\ Goto(w, "check")
  /\ UNCHANGED <<files, temp, store, first, landed, bounds>>

\* Equal tokens are enough for a blob precondition.
Meets(content, pc) ==
  IF pc.kind = "blob" THEN content # Absent /\ Token[content] = Token[pc.blob]
                      ELSE Satisfied([p \in {pc.path} |-> content], pc)

\* One precondition read and checked; a stale one ends the write.
Check(w) ==
  /\ At(w, "check")
  /\ IF task[w].left = {} THEN Goto(w, "look") /\ UNCHANGED lock
     ELSE \E pc \in task[w].left :
            IF Meets(files[pc.path], pc)
              THEN task' = [task EXCEPT ![w].left = @ \ {pc}] /\ UNCHANGED lock
              ELSE task' = [task EXCEPT ![w] = Idle] /\ lock' = Nobody
  /\ UNCHANGED <<files, temp, store, first, landed, bounds>>

-----------------------------------------------------------------------------
(* One change of a plan: look at what is there, land, snapshot, record.    *)

Now(w) == Head(task[w].todo)

\* Mutant: snapshots what is not text, or not there, too.
Snapshots_All(before, after) == <<before, after>>

\* The snapshots an entry needs.
Snapshots(before, after) ==
  LET Kept(b) == IF b \in Text THEN <<b>> ELSE <<>>
  IN Kept(before) \o Kept(after)

\* The note a change takes its bytes from, and what it makes of them.
Source(c) == IF c.op = "rename" THEN c.from ELSE c.path
Produced(c, before) ==
  CASE c.op = "rename" -> before
    [] c.op = "remove" -> Absent
    [] c.op = "upsert" -> c.content

\* What is not text has no snapshot to name.
EntryOf(c, before) ==
  LET op == CASE c.op = "rename" -> "move"
              [] c.op = "remove" -> "delete"
              [] c.op = "upsert" -> IF before = Absent THEN "create" ELSE "update"
      Kept(b) == IF b \in Text THEN b ELSE Absent
  IN [Entry(op, Source(c), IF c.op = "rename" THEN c.to ELSE c.path) EXCEPT
        !.before = Kept(before), !.after = Kept(Produced(c, before))]

\* The bytes before the change; a move needs them.
Look(w) ==
  /\ At(w, "look") /\ task[w].todo # <<>>
  /\ LET c == Now(w)
         before == files[Source(c)]
     IN task' = [task EXCEPT ![w] =
                   [@ EXCEPT !.at = IF c.op = "rename" /\ before = Absent THEN "failed" ELSE "land",
                             !.entry = EntryOf(c, before),
                             !.saves = Snapshots(before, Produced(c, before))]]
  /\ UNCHANGED <<files, temp, store, lock, first, landed, bounds>>

Crosses(c) == c.op = "rename" /\ (c.from \in Mounted) # (c.to \in Mounted)

\* Mutant: the lock covers the file operation only.
Land_Unlocks(w) ==
  /\ At(w, "land")
  /\ LET c == Now(w) IN
       IF c.op # "upsert" /\ files[task[w].entry.path] = Absent
         THEN Goto(w, "failed") /\ UNCHANGED <<files, landed>>
         ELSE /\ files' = [p \in Paths |->
                   IF Crosses(c) THEN IF p = c.to THEN files[c.from] ELSE files[p]
                   ELSE IF p \in TouchedBy(c) THEN Effect(c, files, p) ELSE files[p]]
              /\ Goto(w, IF Crosses(c) THEN "unlink" ELSE "save")
              /\ landed' = IF Crosses(c) THEN landed ELSE landed + 1
  /\ lock' = Nobody
  /\ UNCHANGED <<temp, store, first, bounds>>

\* Rename into place, or unlink.  What is not there cannot be moved or removed.
Land(w) ==
  /\ At(w, "land")
  /\ LET c == Now(w) IN
       IF c.op # "upsert" /\ files[task[w].entry.path] = Absent
         THEN Goto(w, "failed") /\ UNCHANGED <<files, landed>>
         ELSE /\ files' = [p \in Paths |->
                   IF Crosses(c) THEN IF p = c.to THEN files[c.from] ELSE files[p]
                   ELSE IF p \in TouchedBy(c) THEN Effect(c, files, p) ELSE files[p]]
              /\ Goto(w, IF Crosses(c) THEN "unlink" ELSE "save")
              /\ landed' = IF Crosses(c) THEN landed ELSE landed + 1
  /\ UNCHANGED <<temp, store, lock, first, bounds>>

\* A move across devices is a copy and a removal; when the source cannot be
\* removed the copy is.
Unlink(w) ==
  /\ At(w, "unlink")
  /\ \/ /\ files[Now(w).from] # Absent
        /\ files' = [files EXCEPT ![Now(w).from] = Absent]
        /\ landed' = landed + 1
        /\ Goto(w, "save")
        /\ UNCHANGED faults
     \/ /\ files[Now(w).from] = Absent \/ ("land" \in Failing /\ faults < MaxFaults)
        /\ faults' = IF files[Now(w).from] = Absent THEN faults ELSE faults + 1
        /\ files' = [files EXCEPT ![Now(w).to] = Absent]
        /\ Goto(w, "failed")
        /\ UNCHANGED landed
  /\ UNCHANGED <<temp, store, lock, first, ops, undos, edits, crashes>>

\* What an interrupted copy may leave.
HalfCopied(w) == {files} \cup
  (IF Crosses(Now(w)) THEN {[files EXCEPT ![Now(w).to] = Torn]} ELSE {})

\* Any file system call of the change fails instead.
LandFails(w) ==
  /\ At(w, "land") /\ "land" \in Failing
  /\ faults < MaxFaults
  /\ faults' = faults + 1
  /\ files' \in HalfCopied(w)
  /\ Goto(w, "failed")
  /\ UNCHANGED <<temp, store, lock, first, landed, ops, undos, edits, crashes>>

\* The change that failed ends the write; the earlier ones are reported.
Fail(w) ==
  /\ At(w, "failed")
  /\ lock' = Nobody
  /\ task' = [task EXCEPT ![w] = Idle]
  /\ UNCHANGED <<files, temp, store, first, landed, bounds>>

Return(w) ==
  /\ At(w, "look") /\ task[w].todo = <<>>
  /\ lock' = Nobody
  /\ task' = [task EXCEPT ![w] = Idle]
  /\ UNCHANGED <<files, temp, store, first, landed, bounds>>

-----------------------------------------------------------------------------
(* The snapshot store: one file per content, written in place and only     *)
(* when there is none yet.                                                 *)

AfterSaves(t) == IF t \in Writers THEN "record" ELSE "act"

Save(t) ==
  /\ At(t, "save")
  /\ IF task[t].saves = <<>> THEN Goto(t, AfterSaves(t)) /\ UNCHANGED snaps
     ELSE LET c == Head(task[t].saves) IN
            IF snaps[c] # "none"
              THEN task' = [task EXCEPT ![t].saves = Tail(@)] /\ UNCHANGED snaps
              ELSE snaps' = [snaps EXCEPT ![c] = "torn"] /\ Goto(t, "fill")
  /\ UNCHANGED <<files, temp, log, cut, lock, first, landed, bounds>>

\* Mutant: the rest of the content is never written out.
Fill_NoFlush(t) ==
  /\ At(t, "fill")
  /\ task' = [task EXCEPT ![t].at = "save", ![t].saves = Tail(@)]
  /\ UNCHANGED <<files, temp, store, lock, first, landed, bounds>>

Fill(t) ==
  /\ At(t, "fill")
  /\ snaps' = [snaps EXCEPT ![Head(task[t].saves)] = "whole"]
  /\ task' = [task EXCEPT ![t].at = "save", ![t].saves = Tail(@)]
  /\ UNCHANGED <<files, temp, log, cut, lock, first, landed, bounds>>

\* The entry without the snapshot that could not be made.
Unsaved(w) ==
  LET entry == task[w].entry
      isBefore == Len(task[w].saves) = 2 \/ entry.after = Absent
  IN IF isBefore THEN [entry EXCEPT !.before = Absent] ELSE [entry EXCEPT !.after = Absent]

\* The store fails, half-way perhaps.  A write goes on, its entry without
\* that snapshot; a rollback gives up.
SaveFails(t) ==
  /\ "save" \in Failing /\ faults < MaxFaults
  /\ faults' = faults + 1
  /\ task[t].saves # <<>>
  /\ At(t, "fill") \/ (At(t, "save") /\ snaps[Head(task[t].saves)] = "none")
  /\ task' = [task EXCEPT ![t] =
       IF t \in Undoers THEN Idle
       ELSE [task[t] EXCEPT !.at = "save", !.saves = Tail(task[t].saves), !.entry = Unsaved(t)]]
  /\ UNCHANGED <<files, temp, store, lock, first, landed, ops, undos, edits, crashes>>

-----------------------------------------------------------------------------
(* The audit log: appended in place, under a lock of its own.              *)

\* An entry appended to half a line makes one malformed line of both.
Append1(entry) ==
  /\ log' = IF cut THEN log ELSE Append(log, entry)
  /\ cut' = FALSE

Recorded(t) == IF t \in Undoers THEN Idle
               ELSE [task[t] EXCEPT !.at = "look", !.todo = Tail(@), !.entry = Absent]

Record(w) ==
  /\ At(w, "record")
  /\ Append1(task[w].entry)
  /\ task' = [task EXCEPT ![w] = Recorded(w)]
  /\ UNCHANGED <<files, temp, snaps, lock, first, landed, bounds>>

\* Logged and ignored; half a line may be there.
RecordFails(t) ==
  /\ At(t, "record") \/ At(t, "note")
  /\ "record" \in Failing /\ faults < MaxFaults
  /\ faults' = faults + 1
  /\ cut' \in {cut, TRUE}
  /\ task' = [task EXCEPT ![t] = Recorded(t)]
  /\ UNCHANGED <<files, temp, snaps, log, lock, first, landed, ops, undos, edits, crashes>>

-----------------------------------------------------------------------------
(* Rollback of one entry.                                                  *)

Undone(r) == log[task[r].undoes]
Note(r) == Undone(r).path

\* Moves and rollbacks are refused.
Undo(r) ==
  /\ At(r, "idle") /\ undos < MaxUndos
  /\ undos' = undos + 1
  /\ \E i \in DOMAIN log :
       /\ log[i].op \in {"create", "update", "delete"}
       /\ task' = [task EXCEPT ![r] = [Idle EXCEPT !.at = "read", !.undoes = i]]
  /\ UNCHANGED <<files, temp, store, lock, first, landed, ops, edits, faults, crashes>>

\* Snapshots what is there; what is not text cannot be.
ReadCurrent(r) ==
  /\ At(r, "read")
  /\ LET now == files[Note(r)] IN
       task' = [task EXCEPT ![r] =
         CASE now = Absent  -> [@ EXCEPT !.at = "act"]
           [] now \in Text  -> [@ EXCEPT !.at = "save", !.saves = <<now>>]
           [] OTHER         -> Idle]
  /\ UNCHANGED <<files, temp, store, lock, first, landed, bounds>>

UndoCreate(r) ==
  /\ At(r, "act") /\ Undone(r).op = "create"
  /\ files' = [files EXCEPT ![Note(r)] = Absent]
  /\ Goto(r, "note")
  /\ UNCHANGED <<temp, store, lock, first, landed, bounds>>

\* Mutant: restores what the operation wrote.
Restored_After(r) == Undone(r).after

\* The snapshot to restore.
Restored(r) == Undone(r).before

\* Stages the snapshot in a file whose name the note's path alone decides.
Stage(r) ==
  /\ At(r, "act") /\ Undone(r).op # "create"
  /\ LET c == Restored(r) IN
       IF c = Absent \/ snaps[c] = "none"
         THEN task' = [task EXCEPT ![r] = Idle] /\ UNCHANGED temp
         ELSE /\ temp' = [temp EXCEPT ![Note(r)] = IF snaps[c] = "whole" THEN c ELSE Torn]
              /\ Goto(r, "swap")
  /\ UNCHANGED <<files, store, lock, first, landed, bounds>>

Swap(r) ==
  /\ At(r, "swap")
  /\ IF temp[Note(r)] = Absent
       THEN task' = [task EXCEPT ![r] = Idle] /\ UNCHANGED <<files, temp>>
       ELSE /\ files' = [files EXCEPT ![Note(r)] = temp[Note(r)]]
            /\ temp' = [temp EXCEPT ![Note(r)] = Absent]
            /\ Goto(r, "note")
  /\ UNCHANGED <<store, lock, first, landed, bounds>>

\* A file system call of the rollback fails.
UndoFails(r) ==
  /\ At(r, "act") \/ At(r, "swap")
  /\ "undo" \in Failing /\ faults < MaxFaults
  /\ faults' = faults + 1
  /\ temp' \in {temp, [temp EXCEPT ![Note(r)] = Torn]}
  /\ task' = [task EXCEPT ![r] = Idle]
  /\ UNCHANGED <<files, store, lock, first, landed, ops, undos, edits, crashes>>

NoteRollback(r) ==
  /\ At(r, "note")
  /\ Append1(Entry("rollback", Note(r), Note(r)))
  /\ task' = [task EXCEPT ![r] = Idle]
  /\ UNCHANGED <<files, temp, snaps, lock, first, landed, bounds>>

-----------------------------------------------------------------------------
(* Everything else.                                                        *)

\* The process dies and is started again.
Crash ==
  /\ crashes < MaxCrashes
  /\ crashes' = crashes + 1
  /\ cut' \in IF \E t \in Tasks : task[t].at \in {"record", "note"} THEN {cut, TRUE} ELSE {cut}
  /\ files' \in {files} \cup UNION {HalfCopied(w) : w \in {u \in Writers : At(u, "land")}}
  /\ lock' = Nobody
  /\ task' = [t \in Tasks |-> Idle]
  /\ UNCHANGED <<temp, snaps, log, first, landed, ops, undos, edits, faults>>

EditOutside ==
  /\ edits < MaxEdits
  /\ edits' = edits + 1
  /\ \E p \in Paths, c \in Blob \ {Torn} : files[p] # c /\ files' = [files EXCEPT ![p] = c]
  /\ UNCHANGED <<temp, store, lock, task, first, landed, ops, undos, faults, crashes>>

Advance(w) ==
  \/ Lock(w) \/ Check(w) \/ Look(w) \/ Land(w) \/ Unlink(w) \/ Fail(w) \/ Return(w)
  \/ Save(w) \/ Fill(w) \/ Record(w)

UndoStep(r) == ReadCurrent(r) \/ Save(r) \/ Fill(r) \/ UndoCreate(r) \/ Stage(r) \/ Swap(r)
                 \/ NoteRollback(r)

Next ==
  \/ \E w \in Writers : Submit(w) \/ EditFile(w) \/ Advance(w) \/ LandFails(w)
  \/ \E r \in Undoers : Undo(r) \/ UndoStep(r) \/ UndoFails(r)
  \/ \E t \in Tasks : SaveFails(t) \/ RecordFails(t)
  \/ Crash
  \/ EditOutside

Spec == Init /\ [][Next]_vars

-----------------------------------------------------------------------------
(* Properties.                                                             *)

Stations == {"idle", "enter", "check", "look", "land", "unlink", "failed", "save", "fill",
             "record", "read", "act", "swap", "note"}

Entries == [op : {"create", "update", "delete", "move", "rollback"}, path : Paths, to : Paths,
            before : Text \cup {Absent}, after : Text \cup {Absent}]

\* The shape of the state.
TypeOK ==
  /\ files \in Tree /\ temp \in Tree
  /\ snaps \in [Text -> {"none", "torn", "whole"}]
  /\ log \in Seq(Entries) /\ cut \in BOOLEAN
  /\ lock \in Writers \cup {Nobody}
  /\ task \in [Tasks -> [at : Stations, pre : SUBSET Precondition,
                         left : SUBSET Precondition, todo : Seq(Change),
                         entry : Entries \cup {Absent}, saves : Seq(Text), base : Blob,
                         undoes : 0 .. Len(log)]]
  /\ first \in Tree /\ landed \in Nat

\* The step in which the change under way lands.
Lands(w) == At(w, "land") /\ task'[w].at \in {"save", "unlink"}

\* What a change of a write replaces still meets the write's preconditions, not
\* only when they were checked: the write lock "serializes the
\* check-preconditions -> apply window in-process" (DirectSubstrate).
GuardedLanding ==
  [][\A w \in Writers : Lands(w) =>
       \A pc \in task[w].pre : pc.path \in TouchedBy(Now(w)) => Meets(files[pc.path], pc)]_vars

\* An edit only ever replaces the content it was computed from, whatever other
\* writes landed in between (edit_file).
EditsLoseNothing ==
  [][\A w \in Writers : Lands(w) /\ task[w].base # Absent =>
       /\ files[Now(w).path] # Absent
       /\ Token[files[Now(w).path]] = Token[task[w].base]]_vars

\* Entry e is about path p, and what p holds once its change has landed.
About(e, p)  == e.op # "rollback" /\ p \in {e.path, e.to}
Leaves(e, p) == IF e.op = "delete" \/ p # e.to THEN Absent ELSE e.after

\* The log replayed over the vault at the start: the last entry about a path
\* tells what it holds.
Replayed ==
  \A p \in Paths :
    \/ /\ files[p] = first[p]
       /\ \A i \in DOMAIN log : ~About(log[i], p)
    \/ \E i \in DOMAIN log :
         /\ About(log[i], p)
         /\ files[p] = Leaves(log[i], p)
         /\ \A j \in i + 1 .. Len(log) : ~About(log[j], p)

\* The entries of writes.
Written == {i \in DOMAIN log : log[i].op # "rollback"}

\* The log misses no change that landed and no snapshot of what it wrote.
LogIsWhole ==
  /\ landed = Cardinality(Written)
  /\ \A i \in Written : log[i].after = Absent => log[i].op = "delete"

\* Between writes the audit log tells what happened to every note, in order:
\* when nothing failed to be recorded, replaying it over the vault at the start
\* gives the vault, after writes that stopped half-way too.
AuditReplays == lock = Nobody /\ LogIsWhole => Replayed

\* A change that landed is missing from the log only for a crash or a failing
\* append, which cost two entries at most: the one under way, and the next,
\* appended to half a line.
AuditGapsAreBounded ==
  lock = Nobody =>
    landed <= Cardinality(Written) + 2 * (crashes + faults)

\* The audit log accounts for the vault: it replays to it, and what it may miss
\* is bounded.
AuditAccountsForTheVault == AuditReplays /\ AuditGapsAreBounded

Filling == {Head(task[t].saves) : t \in {u \in Tasks : At(u, "fill")}}

\* A snapshot that an entry names holds the whole content, or some task is just
\* writing it.
SnapshotsAreWhole ==
  \A i \in DOMAIN log : \A c \in {log[i].before, log[i].after} \ ({Absent} \cup Filling) :
     snaps[c] = "whole"

\* A rollback puts back exactly what the note held before the operation.
RollbackRestores ==
  [][\A r \in Undoers : At(r, "swap") /\ task'[r].at = "note" =>
       files'[Note(r)] = Undone(r).before]_vars
=============================================================================

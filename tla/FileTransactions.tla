--------------------------- MODULE FileTransactions ---------------------------
(***************************************************************************)
(* Transactions on files (turbovault-vault, atomic.rs): every operation's  *)
(* file is copied aside, then the operations are done, and when one fails  *)
(* the copies are put back.  The locks that are collected are not taken,   *)
(* transactions share the names of their copies, and a file is written     *)
(* under the name of whatever file has its name with the extension tmp.    *)
(***************************************************************************)
EXTENDS Naturals, FiniteSets, Sequences, SequencesExt

CONSTANTS
  Absent,
  Partial,       \* what a copy leaves that fails half-way
  Files,
  TempOf,        \* file -> the file it is written to before it is renamed
  Transactions,  \* sequences of operations: [op, path, to]
  Runs,          \* the transactions that are run; each writes its own name
  MaxFailures    \* calls of the file system that fail

VARIABLES
  files,     \* path -> content
  copies,    \* number of an operation -> its copy in the backup directory
  tx,        \* run -> [at, ops, next, existed, before, alone], and the files and the
             \* copies that could not be restored and removed
  failures
fileVars == <<files, copies, tx, failures>>

NotBegun == [at |-> "new", ops |-> <<>>, next |-> 1, existed |-> <<>>, before |-> <<>>, alone |-> TRUE,
            unrestored |-> {}, left |-> {}]
Longest == 2
Slots == 1 .. Longest

FilesInit ==
  /\ files \in {f \in [Files -> Files \cup {Absent}] : \A path \in Files : f[path] \in {Absent, path}}
  /\ copies = [i \in Slots |-> Absent]
  /\ tx = [r \in Runs |-> NotBegun] /\ failures = 0

Over == {"done", "rolledBack", "refused"}
Running(r) == tx[r].at \notin Over \cup {"new"}
Op(r) == tx[r].ops[tx[r].next]
MayFail == failures < MaxFailures /\ failures' = failures + 1

\* The stage goes on to the next operation, or the next stage begins at the first.
Onward(r, stage, then) ==
  IF tx[r].next < Len(tx[r].ops) THEN [tx EXCEPT ![r].next = @ + 1, ![r].at = stage]
  ELSE [tx EXCEPT ![r].next = 1, ![r].at = then]

Begin(r, ops) ==
  /\ tx[r].at = "new"
  /\ tx' = [t \in Runs |->
              IF t = r THEN [NotBegun EXCEPT !.at = "copying", !.ops = ops, !.before = files,
                                             !.alone = ~\E q \in Runs : Running(q)]
              ELSE IF Running(t) THEN [tx[t] EXCEPT !.alone = FALSE] ELSE tx[t]]
  /\ UNCHANGED <<files, copies, failures>>

\* A move has only the file it moves copied.
BackupFile(r) ==
  /\ tx[r].at = "copying"
  /\ LET content == files[Op(r).path]
         noted == Onward(r, "copying", "doing")
     IN  \/ /\ copies' = IF content = Absent THEN copies ELSE [copies EXCEPT ![tx[r].next] = content]
            /\ tx' = [noted EXCEPT ![r].existed = Append(@, content # Absent)]
            /\ UNCHANGED failures
         \/ /\ content # Absent /\ MayFail
            /\ tx' = [tx EXCEPT ![r].at = "refused"]
            /\ copies' \in {copies, [copies EXCEPT ![tx[r].next] = Partial]}
  /\ UNCHANGED files

WriteTemp(r) ==
  /\ tx[r].at = "doing" /\ Op(r).op = "write"
  /\ files' = [files EXCEPT ![TempOf[Op(r).path]] = r]
  /\ tx' = [tx EXCEPT ![r].at = "renaming"]
  /\ UNCHANGED <<copies, failures>>

RenameTemp(r) ==
  /\ tx[r].at = "renaming"
  /\ LET temp == TempOf[Op(r).path] IN
     /\ files[temp] # Absent
     /\ files' = [files EXCEPT ![temp] = Absent, ![Op(r).path] = files[temp]]
  /\ tx' = Onward(r, "doing", "cleaning")
  /\ UNCHANGED <<copies, failures>>

DeleteFile(r) ==
  /\ tx[r].at = "doing" /\ Op(r).op = "delete"
  /\ files' = [files EXCEPT ![Op(r).path] = Absent]
  /\ tx' = Onward(r, "doing", "cleaning")
  /\ UNCHANGED <<copies, failures>>

\* A move takes the place of what was there.
MoveFile(r) ==
  /\ tx[r].at = "doing" /\ Op(r).op = "move" /\ files[Op(r).path] # Absent
  /\ files' = [files EXCEPT ![Op(r).path] = Absent, ![Op(r).to] = files[Op(r).path]]
  /\ tx' = Onward(r, "doing", "cleaning")
  /\ UNCHANGED <<copies, failures>>

\* An operation fails by itself, a write with its temporary file cut short, or
\* because what it needs is gone.
Fail(r) ==
  /\ tx[r].at \in {"doing", "renaming"}
  /\ LET temp == TempOf[Op(r).path]
         writes == tx[r].at = "doing" /\ Op(r).op = "write"
     IN  \/ MayFail /\ files' \in {files} \cup (IF writes THEN {[files EXCEPT ![temp] = Partial]} ELSE {})
         \/ /\ \/ tx[r].at = "doing" /\ Op(r).op = "move" /\ files[Op(r).path] = Absent
               \/ tx[r].at = "doing" /\ Op(r).op = "delete" /\ files[Op(r).path] = Absent /\ ~tx[r].alone
               \/ tx[r].at = "renaming" /\ files[temp] = Absent
            /\ UNCHANGED <<files, failures>>
  /\ tx' = [tx EXCEPT ![r].at = "undoing", ![r].next = Len(tx[r].ops)]
  /\ UNCHANGED copies

\* From the last operation to the first.
Undone(r) == IF tx[r].next > 1 THEN [tx EXCEPT ![r].next = @ - 1] ELSE [tx EXCEPT ![r].at = "clearing"]

\* Mutant: only files that were there before are put back.
Undo_KeepsNew(r) ==
  /\ tx[r].at = "undoing"
  /\ LET content == IF tx[r].existed[tx[r].next] THEN copies[tx[r].next] ELSE Absent IN
     files' = IF content = Absent THEN files ELSE [files EXCEPT ![Op(r).path] = content]
  /\ tx' = Undone(r)
  /\ UNCHANGED <<copies, failures>>

\* A copy that is gone is passed over, and so is a file that cannot be restored or
\* removed: the transaction counts as rolled back all the same.
Undo(r) ==
  /\ tx[r].at = "undoing"
  /\ LET existed == tx[r].existed[tx[r].next]
         copy == copies[tx[r].next]
         Restored(content) == [files EXCEPT ![Op(r).path] = content]
     IN  \/ /\ files' = IF existed /\ copy = Absent THEN files ELSE Restored(IF existed THEN copy ELSE Absent)
            /\ tx' = Undone(r)
            /\ UNCHANGED failures
         \/ /\ MayFail
            /\ files' \in {files} \cup (IF existed THEN {Restored(Partial)} ELSE {})
            /\ tx' = [Undone(r) EXCEPT ![r].unrestored = @ \cup {Op(r).path}]
  /\ UNCHANGED copies

\* Nor does a copy that cannot be removed matter.
CleanUp(r) ==
  /\ tx[r].at \in {"cleaning", "clearing"}
  /\ LET cleaned == Onward(r, tx[r].at, IF tx[r].at = "cleaning" THEN "done" ELSE "rolledBack") IN
     \/ /\ copies' = [copies EXCEPT ![tx[r].next] = Absent]
        /\ tx' = cleaned
        /\ UNCHANGED failures
     \/ /\ MayFail
        /\ tx' = [cleaned EXCEPT ![r].left = @ \cup {tx[r].next}]
        /\ UNCHANGED copies
  /\ UNCHANGED files

FilesNext ==
  \E r \in Runs :
    \/ \E ops \in Transactions : Begin(r, ops)
    \/ BackupFile(r) \/ WriteTemp(r) \/ RenameTemp(r) \/ DeleteFile(r) \/ MoveFile(r)
    \/ Fail(r) \/ Undo(r) \/ CleanUp(r)

-----------------------------------------------------------------------------

\* A transaction that nothing ran beside is done whole, or leaves every file as it
\* was, with these exceptions: the target of a move that was done before another
\* operation failed; a file that could not be put back, of which the caller is told
\* nothing; and a file that has the temporary name of one that was written, which
\* is lost either way.  (Transactions that run at the same time take each other's
\* copies; nothing keeps them apart.)
FilesAllOrNothing ==
  \A r \in Runs :
    LET t == tx[r]
        temps == {TempOf[o.path] : o \in {x \in Range(t.ops) : x.op = "write"}}
        targets == {o.to : o \in {x \in Range(t.ops) : x.op = "move"}}
        After(f, o) == CASE o.op = "write" -> [f EXCEPT ![o.path] = r]
                         [] o.op = "delete" -> [f EXCEPT ![o.path] = Absent]
                         [] o.op = "move" -> [f EXCEPT ![o.path] = Absent, ![o.to] = f[o.path]]
        whole == FoldLeft(After, t.before, t.ops)
        ended == t.alone /\ \A q \in Runs : q = r \/ tx[q].at = "new"
    IN  /\ ended /\ t.at = "done" => \A path \in Files : files[path] = IF path \in temps THEN Absent ELSE whole[path]
        /\ ended /\ t.at \in {"rolledBack", "refused"} =>
             \A path \in Files \ (targets \cup t.unrestored \cup temps) : files[path] = t.before[path]
        /\ ended /\ t.at \in Over \ {"refused"} => \A i \in Slots \ t.left : copies[i] = Absent
=============================================================================

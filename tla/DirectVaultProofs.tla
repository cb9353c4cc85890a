-------------------------- MODULE DirectVaultProofs --------------------------
(***************************************************************************)
(* Proofs about DirectVault, for any number of writers, any paths,         *)
(* contents, tokens, plans and bounds.                                     *)
(***************************************************************************)
EXTENDS DirectVault, FiniteSetTheorems, TLAPS

USE DirectAssumption, AbsentAssumption

-----------------------------------------------------------------------------
(* Facts about trees, plans and preconditions.                             *)

\* What a change leaves at a path is a content or nothing.
LEMMA EffectType ==
  ASSUME NEW c \in Change, NEW t \in Tree, NEW p \in Paths
  PROVE  Effect(c, t, p) \in Blob
<1>1. CASE c \in [op : {"upsert"}, path : Paths, content : Contents]
  BY <1>1 DEF Effect, Blob
<1>2. CASE c \in [op : {"remove"}, path : Paths]
  BY <1>2 DEF Effect, Blob
<1>3. CASE c \in [op : {"rename"}, from : Paths, to : Paths]
  <2>1. c.op = "rename" /\ c.from \in Paths
    BY <1>3
  <2>2. t[c.from] \in Blob
    BY <2>1 DEF Tree
  <2> QED BY <2>1, <2>2 DEF Effect, Blob
<1> QED BY <1>1, <1>2, <1>3 DEF Change

LEMMA ChangeShape ==
  ASSUME NEW c \in Change
  PROVE  /\ c.op \in {"upsert", "remove", "rename"}
         /\ c.op = "rename" => c.from \in Paths /\ c.to \in Paths
         /\ c.op # "rename" => c.path \in Paths
         /\ c.op = "upsert" => c.content \in Contents
<1>1. CASE c \in [op : {"upsert"}, path : Paths, content : Contents]
  BY <1>1
<1>2. CASE c \in [op : {"remove"}, path : Paths]
  BY <1>2
<1>3. CASE c \in [op : {"rename"}, from : Paths, to : Paths]
  BY <1>3
<1> QED BY <1>1, <1>2, <1>3 DEF Change

LEMMA UpsertType ==
  ASSUME NEW p \in Paths, NEW c \in Contents
  PROVE  Upsert(p, c) \in Change /\ <<Upsert(p, c)>> \in Seq(Change)
<1>1. Upsert(p, c) \in [op : {"upsert"}, path : Paths, content : Contents]
  BY DEF Upsert
<1>2. Upsert(p, c) \in Change
  BY <1>1 DEF Change
<1> QED BY <1>2

LEMMA ExpectBlobType ==
  ASSUME NEW p \in Paths, NEW c \in Contents
  PROVE  ExpectBlob(p, c) \in Precondition
  BY DEF ExpectBlob, Precondition

LEMMA PlanType ==
  ASSUME NEW plan \in Plans
  PROVE  plan.pre \in SUBSET Precondition /\ plan.changes \in Seq(Change)
<1>1. plan \in ChangePlan
  OBVIOUS
<1> QED BY <1>1 DEF ChangePlan

\* The first element of a sequence and the others.
LEMMA HeadTail ==
  ASSUME NEW S, NEW s \in Seq(S), s # <<>>
  PROVE  Head(s) \in S /\ Tail(s) \in Seq(S)
  OBVIOUS

\* The snapshots of an entry are of text.
LEMMA SnapshotsType ==
  ASSUME NEW before \in Blob, NEW after \in Blob
  PROVE  /\ Snapshots(before, after) \in Seq(Text)
         /\ before \in Text => before \in {Snapshots(before, after)[i] : i \in DOMAIN Snapshots(before, after)}
         /\ after \in Text => after \in {Snapshots(before, after)[i] : i \in DOMAIN Snapshots(before, after)}
<1>1. CASE before \in Text /\ after \in Text
  <2>1. Snapshots(before, after) = <<before>> \o <<after>>
    BY <1>1 DEF Snapshots
  <2>2. <<before>> \in Seq(Text) /\ <<after>> \in Seq(Text)
    BY <1>1
  <2>3. <<before>> \o <<after>> \in Seq(Text) /\ DOMAIN (<<before>> \o <<after>>) = 1 .. 2
    BY <2>2
  <2>4. (<<before>> \o <<after>>)[1] = before /\ (<<before>> \o <<after>>)[2] = after
    BY <2>2
  <2> QED BY <2>1, <2>3, <2>4, 1 \in 1 .. 2, 2 \in 1 .. 2
<1>2. CASE before \in Text /\ after \notin Text
  <2>1. Snapshots(before, after) = <<before>>
    BY <1>2 DEF Snapshots
  <2> QED BY <2>1, <1>2
<1>3. CASE before \notin Text /\ after \in Text
  <2>1. Snapshots(before, after) = <<after>>
    BY <1>3 DEF Snapshots
  <2> QED BY <2>1, <1>3
<1>4. CASE before \notin Text /\ after \notin Text
  <2>1. Snapshots(before, after) = <<>>
    BY <1>4 DEF Snapshots
  <2> QED BY <2>1, <1>4
<1> QED BY <1>1, <1>2, <1>3, <1>4

-----------------------------------------------------------------------------
(* Type correctness, with what each task has in hand.                      *)

InWrite  == {"check", "look", "land", "unlink", "failed", "save", "fill", "record"}
InChange == {"land", "unlink", "save", "fill", "record"}
InUndo   == {"read", "save", "fill", "act", "swap", "note"}
Undoable == {"create", "update", "delete"}

\* What a write has in hand at each of its stations; from its first precondition to
\* its last entry it holds the lock.
WriterCtl(w) ==
  /\ task[w].at \in {"idle", "enter"} \cup InWrite
  /\ task[w].at \in InWrite => lock = w
  /\ task[w].at \in InChange => /\ task[w].todo # <<>>
                               /\ task[w].entry \in Entries /\ task[w].entry.op # "rollback"
  /\ task[w].at = "unlink" => Crosses(Now(w))
  /\ task[w].at = "fill" => task[w].saves # <<>>

\* What a rollback has in hand: an entry it may undo.
UndoerCtl(r) ==
  /\ task[r].at \in {"idle"} \cup InUndo
  /\ task[r].at \in InUndo => task[r].undoes \in DOMAIN log /\ Undone(r).op \in Undoable
  /\ task[r].at = "fill" => task[r].saves # <<>>

Control == (\A w \in Writers : WriterCtl(w)) /\ (\A r \in Undoers : UndoerCtl(r))

Counts == undos \in Nat /\ edits \in Nat /\ faults \in Nat /\ crashes \in Nat

TypeInv == TypeOK /\ Control /\ Counts

TaskType(n) == [at : Stations, pre : SUBSET Precondition, left : SUBSET Precondition,
                todo : Seq(Change), entry : Entries \cup {Absent}, saves : Seq(Text),
                base : Blob, undoes : 0 .. n]

\* What a step of task t is.
WriterActs(w) == Submit(w) \/ EditFile(w) \/ Advance(w) \/ LandFails(w)
UndoerActs(r) == Undo(r) \/ UndoStep(r) \/ UndoFails(r)
Acts(t) == \/ t \in Writers /\ WriterActs(t)
           \/ t \in Undoers /\ UndoerActs(t)
           \/ SaveFails(t)
           \/ RecordFails(t)

LEMMA NextActs == Next <=> (\E t \in Tasks : Acts(t)) \/ Crash \/ EditOutside
  BY DEF Next, Acts, WriterActs, UndoerActs, Tasks

\* Only task t changes.
Only(t) == task' = [task EXCEPT ![t] = task'[t]]

LEMMA TaskFields ==
  ASSUME TypeInv, NEW t \in Tasks
  PROVE  /\ task[t] \in TaskType(Len(log)) /\ task \in [Tasks -> TaskType(Len(log))]
         /\ task[t].at \in Stations /\ task[t].pre \in SUBSET Precondition
         /\ task[t].left \in SUBSET Precondition /\ task[t].todo \in Seq(Change)
         /\ task[t].entry \in Entries \cup {Absent} /\ task[t].saves \in Seq(Text)
         /\ task[t].base \in Blob /\ task[t].undoes \in 0 .. Len(log) /\ Len(log) \in Nat
<1>1. task \in [Tasks -> TaskType(Len(log))] /\ log \in Seq(Entries)
  BY DEF TypeInv, TypeOK, TaskType
<1>2. task[t] \in TaskType(Len(log))
  BY <1>1
<1> QED BY <1>1, <1>2 DEF TaskType

LEMMA IdleType == ASSUME NEW n \in Nat PROVE Idle \in TaskType(n)
  BY DEF Idle, TaskType, Stations, Blob

LEMMA WriterOnly ==
  ASSUME TypeInv, NEW w \in Writers, WriterActs(w)
  PROVE  Only(w)
<1>1. w \in Tasks
  BY DEF Tasks
<1> USE TaskFields, <1>1 DEF Only, Goto
<1>2. CASE Submit(w)
  BY <1>2 DEF Submit
<1>3. CASE EditFile(w)
  BY <1>3 DEF EditFile
<1>4. CASE Lock(w) \/ Check(w)
  BY <1>4 DEF Lock, Check
<1>5. CASE Look(w)
  BY <1>5 DEF Look
<1>6. CASE Land(w) \/ LandFails(w)
  BY <1>6 DEF Land, LandFails
<1>7. CASE Unlink(w)
  BY <1>7 DEF Unlink
<1>8. CASE Fail(w) \/ Return(w)
  BY <1>8 DEF Fail, Return
<1>9. CASE Save(w) \/ Fill(w)
  BY <1>9 DEF Save, Fill
<1>10. CASE Record(w)
  BY <1>10 DEF Record
<1> QED BY <1>2, <1>3, <1>4, <1>5, <1>6, <1>7, <1>8, <1>9, <1>10 DEF WriterActs, Advance

LEMMA OnlyOne ==
  ASSUME TypeInv, NEW t \in Tasks, Acts(t)
  PROVE  Only(t)
<1> USE TaskFields DEF Only, Goto
<1>1. CASE t \in Writers /\ WriterActs(t)
  BY <1>1, WriterOnly
<1>2. CASE Undo(t)
  BY <1>2 DEF Undo
<1>3. CASE ReadCurrent(t)
  BY <1>3 DEF ReadCurrent
<1>4. CASE Save(t) \/ Fill(t)
  BY <1>4 DEF Save, Fill
<1>5. CASE UndoCreate(t) \/ Stage(t) \/ Swap(t) \/ NoteRollback(t) \/ UndoFails(t)
  BY <1>5 DEF UndoCreate, Stage, Swap, NoteRollback, UndoFails
<1>6. CASE SaveFails(t)
  BY <1>6 DEF SaveFails
<1>7. CASE RecordFails(t)
  BY <1>7 DEF RecordFails
<1> QED BY <1>1, <1>2, <1>3, <1>4, <1>5, <1>6, <1>7 DEF Acts, UndoerActs, UndoStep

\* The log keeps its entries and gets one more at most.
LogStep == log' = log \/ \E e \in Entries : log' = Append(log, e)

LEMMA LogMore ==
  ASSUME TypeInv, LogStep
  PROVE  /\ log' \in Seq(Entries) /\ Len(log') \in Nat /\ Len(log) <= Len(log')
         /\ \A i \in DOMAIN log : i \in DOMAIN log' /\ log'[i] = log[i]
         /\ TaskType(Len(log)) \subseteq TaskType(Len(log'))
<1>1. log \in Seq(Entries)
  BY DEF TypeInv, TypeOK
<1>2. /\ log' \in Seq(Entries) /\ Len(log') \in Nat /\ Len(log) <= Len(log')
      /\ \A i \in DOMAIN log : i \in DOMAIN log' /\ log'[i] = log[i]
  <2>1. CASE log' = log
    BY <1>1, <2>1
  <2>2. ASSUME NEW e \in Entries, log' = Append(log, e)
        PROVE  /\ log' \in Seq(Entries) /\ Len(log') = Len(log) + 1
               /\ \A i \in DOMAIN log : i \in DOMAIN log' /\ log'[i] = log[i]
    <3>1. log' \in Seq(Entries) /\ Len(log') = Len(log) + 1 /\ Len(log) \in Nat
      BY <1>1, <2>2
    <3>2. DOMAIN log = 1 .. Len(log) /\ DOMAIN log' = 1 .. Len(log')
      BY <1>1, <3>1
    <3>3. \A i \in 1 .. Len(log) : log'[i] = log[i]
      BY <1>1, <2>2
    <3> QED BY <3>1, <3>2, <3>3
  <2>3. Len(log) \in Nat
    BY <1>1
  <2> QED BY <2>1, <2>2, <2>3 DEF LogStep
<1>3. 0 .. Len(log) \subseteq 0 .. Len(log')
  BY <1>1, <1>2
<1>4. TaskType(Len(log)) \subseteq TaskType(Len(log'))
  BY <1>3 DEF TaskType
<1> QED BY <1>2, <1>4

\* What a rollback is about.
LEMMA NoteType ==
  ASSUME TypeInv, NEW r \in Undoers, task[r].at \in InUndo
  PROVE  /\ Undone(r) \in Entries /\ Undone(r).op \in Undoable /\ Note(r) \in Paths
         /\ Undone(r).before \in Text \cup {Absent}
<1>1. task[r].undoes \in DOMAIN log /\ Undone(r).op \in Undoable
  BY DEF TypeInv, Control, UndoerCtl
<1>2. log \in Seq(Entries)
  BY DEF TypeInv, TypeOK
<1>3. Undone(r) \in Entries
  BY <1>1, <1>2 DEF Undone
<1> QED BY <1>1, <1>3 DEF Note, Entries

\* What a write is about to change.
LEMMA NowType ==
  ASSUME TypeInv, NEW w \in Writers, task[w].todo # <<>>
  PROVE  Now(w) \in Change /\ Tail(task[w].todo) \in Seq(Change)
<1>1. task[w].todo \in Seq(Change)
  BY TaskFields DEF Tasks
<1> QED BY <1>1, HeadTail DEF Now

LEMMA RollbackEntry ==
  ASSUME NEW p \in Paths
  PROVE  Entry("rollback", p, p) \in Entries
  BY DEF Entry, Entries

LEMMA ActLog ==
  ASSUME TypeInv, NEW t \in Tasks, Acts(t)
  PROVE  LogStep
<1>1. CASE t \in Writers /\ WriterActs(t) /\ ~Record(t)
  <2>0. CASE Submit(t) \/ EditFile(t)
    BY <2>0, Zenon DEF Submit, EditFile, store, LogStep
  <2>1. CASE Lock(t) \/ Check(t)
    BY <2>1 DEF Lock, Check, store, LogStep
  <2>2. CASE Look(t) \/ Land(t) \/ Unlink(t) \/ LandFails(t)
    BY <2>2 DEF Look, Land, Unlink, LandFails, store, LogStep
  <2>3. CASE Fail(t) \/ Return(t) \/ Save(t) \/ Fill(t)
    BY <2>3 DEF Fail, Return, Save, Fill, store, LogStep
  <2> QED BY <1>1, <2>0, <2>1, <2>2, <2>3 DEF WriterActs, Advance
<1>2. CASE t \in Writers /\ Record(t)
  <2>1. task[t].entry \in Entries
    BY <1>2 DEF TypeInv, Control, WriterCtl, Record, At, InChange
  <2> QED BY <1>2, <2>1 DEF Record, Append1, LogStep
<1>3. CASE t \in Undoers /\ UndoerActs(t) /\ ~NoteRollback(t)
  <2>0. CASE Undo(t) \/ ReadCurrent(t)
    BY <2>0, Zenon DEF Undo, ReadCurrent, store, LogStep
  <2>1. CASE Save(t) \/ Fill(t)
    BY <2>1 DEF Save, Fill, store, LogStep
  <2>2. CASE UndoCreate(t) \/ Stage(t) \/ Swap(t) \/ UndoFails(t)
    BY <2>2 DEF UndoCreate, Stage, Swap, UndoFails, store, LogStep
  <2> QED BY <1>3, <2>0, <2>1, <2>2 DEF UndoerActs, UndoStep
<1>4. CASE t \in Undoers /\ NoteRollback(t)
  <2>1. Note(t) \in Paths
    BY <1>4, NoteType DEF NoteRollback, At, InUndo
  <2> QED BY <1>4, <2>1, RollbackEntry DEF NoteRollback, Append1, LogStep
<1>5. CASE SaveFails(t) \/ RecordFails(t)
  BY <1>5 DEF SaveFails, RecordFails, store, LogStep
<1> QED BY <1>1, <1>2, <1>3, <1>4, <1>5 DEF Acts

LEMMA NextLog ==
  ASSUME TypeInv, [Next]_vars
  PROVE  LogStep
<1>1. CASE Crash \/ EditOutside \/ UNCHANGED vars
  BY <1>1 DEF Crash, EditOutside, vars, store, LogStep
<1> QED BY <1>1, ActLog, NextActs

\* The lock is taken when free and left by its holder.
LEMMA ActLock ==
  ASSUME TypeInv, NEW t \in Tasks, Acts(t)
  PROVE  \/ lock' = lock
         \/ t \in Writers /\ lock = Nobody /\ lock' = t
         \/ t \in Writers /\ lock = t /\ lock' = Nobody
<1>1. CASE t \in Writers /\ WriterActs(t)
  <2>1. task[t].at \in InWrite => lock = t
    BY <1>1 DEF TypeInv, Control, WriterCtl
  <2>2. CASE Check(t) \/ Fail(t) \/ Return(t)
    BY <1>1, <2>1, <2>2 DEF Check, Fail, Return, At, InWrite
  <2>3. CASE Lock(t)
    BY <1>1, <2>3 DEF Lock
  <2>4. CASE Look(t) \/ Land(t)
    BY <2>4 DEF Look, Land
  <2>6. CASE Submit(t) \/ EditFile(t)
    BY <2>6, Zenon DEF Submit, EditFile
  <2>5. CASE Unlink(t) \/ LandFails(t) \/ Save(t) \/ Fill(t) \/ Record(t)
    BY <2>5 DEF Unlink, LandFails, Save, Fill, Record
  <2> QED BY <1>1, <2>2, <2>3, <2>4, <2>5, <2>6 DEF WriterActs, Advance
<1>2. CASE t \in Undoers /\ UndoerActs(t)
  <2>0. CASE Undo(t) \/ ReadCurrent(t)
    BY <2>0, Zenon DEF Undo, ReadCurrent
  <2>1. CASE Save(t) \/ Fill(t)
    BY <2>1 DEF Save, Fill
  <2>2. CASE UndoCreate(t) \/ Stage(t) \/ Swap(t) \/ UndoFails(t) \/ NoteRollback(t)
    BY <2>2 DEF UndoCreate, Stage, Swap, UndoFails, NoteRollback
  <2> QED BY <1>2, <2>0, <2>1, <2>2 DEF UndoerActs, UndoStep
<1>3. CASE SaveFails(t) \/ RecordFails(t)
  BY <1>3 DEF SaveFails, RecordFails
<1> QED BY <1>1, <1>2, <1>3 DEF Acts

\* What the changes of a write leave in the vault.
LEMMA LandTree ==
  ASSUME TypeInv, NEW w \in Writers, task[w].todo # <<>>,
         NEW f, f = [p \in Paths |->
              IF Crosses(Now(w)) THEN IF p = Now(w).to THEN files[Now(w).from] ELSE files[p]
              ELSE IF p \in TouchedBy(Now(w)) THEN Effect(Now(w), files, p) ELSE files[p]]
  PROVE  f \in Tree
<1>1. Now(w) \in Change /\ files \in Tree
  BY NowType DEF TypeInv, TypeOK
<1>2. ASSUME NEW p \in Paths PROVE files[p] \in Blob /\ Effect(Now(w), files, p) \in Blob
  BY <1>1, EffectType DEF Tree
<1>3. Crosses(Now(w)) => files[Now(w).from] \in Blob
  BY <1>1, ChangeShape DEF Crosses, Tree
<1> QED BY <1>2, <1>3 DEF Tree

LEMMA HalfCopiedTree ==
  ASSUME TypeInv, NEW w \in Writers, task[w].todo # <<>>
  PROVE  HalfCopied(w) \subseteq Tree
  BY NowType DEF HalfCopied, Tree, Blob, TypeInv, TypeOK

RestType ==
  /\ files \in Tree /\ temp \in Tree
  /\ snaps \in [Text -> {"none", "torn", "whole"}]
  /\ cut \in BOOLEAN /\ lock \in Writers \cup {Nobody} /\ first \in Tree /\ landed \in Nat
  /\ Counts

LEMMA RestIsTyped == TypeInv => RestType
  BY DEF TypeInv, TypeOK, RestType

LEMMA WriterRest ==
  ASSUME TypeInv, NEW w \in Writers, WriterActs(w)
  PROVE  RestType'
<1>0. /\ task[w].at \in InChange => task[w].todo # <<>>
      /\ task[w].at = "unlink" => Crosses(Now(w))
      /\ task[w].at = "fill" => task[w].saves # <<>>
      /\ task[w].todo # <<>> => Now(w) \in Change
      /\ task[w].saves \in Seq(Text) /\ RestType
  BY NowType, TaskFields, RestIsTyped DEF TypeInv, Control, WriterCtl, Tasks
<1> USE <1>0 DEF RestType, Counts, At, InChange, store, bounds
<1>1. CASE Submit(w) \/ EditFile(w)
  <2>1. UNCHANGED <<files, temp, store, lock, first, landed, undos, edits, faults, crashes>>
    BY <1>1, Zenon DEF Submit, EditFile
  <2> QED BY <2>1
<1>8. CASE Lock(w) \/ Check(w) \/ Look(w)
  BY <1>8 DEF Lock, Check, Look
<1>9. CASE Fail(w) \/ Return(w)
  BY <1>9 DEF Fail, Return
<1>2. CASE Land(w)
  <2>1. files' \in Tree
    BY <1>2, LandTree DEF Land
  <2> QED BY <1>2, <2>1 DEF Land
<1>3. CASE Unlink(w)
  <2>1. Now(w).from \in Paths /\ Now(w).to \in Paths
    BY <1>3, ChangeShape DEF Unlink, Crosses
  <2>2. files' \in Tree
    BY <1>3, <2>1 DEF Unlink, Tree, Blob
  <2> QED BY <1>3, <2>2 DEF Unlink
<1>4. CASE LandFails(w)
  <2>1. files' \in Tree
    BY <1>4, HalfCopiedTree DEF LandFails
  <2> QED BY <1>4, <2>1 DEF LandFails
<1>5. CASE Save(w)
  BY <1>5 DEF Save
<1>6. CASE Fill(w)
  BY <1>6 DEF Fill
<1>7. CASE Record(w)
  BY <1>7 DEF Record, Append1
<1> QED BY <1>1, <1>2, <1>3, <1>4, <1>5, <1>6, <1>7, <1>8, <1>9 DEF WriterActs, Advance

LEMMA UndoerRest ==
  ASSUME TypeInv, NEW r \in Undoers, UndoerActs(r)
  PROVE  RestType'
<1>0. /\ task[r].at = "fill" => task[r].saves # <<>>
      /\ task[r].at \in InUndo => Note(r) \in Paths /\ Undone(r).before \in Text \cup {Absent}
      /\ task[r].saves \in Seq(Text) /\ RestType
  BY NoteType, TaskFields, RestIsTyped DEF TypeInv, Control, UndoerCtl, Tasks
<1> USE <1>0 DEF RestType, Counts, At, InUndo, store, bounds
<1>1. CASE Undo(r)
  BY <1>1 DEF Undo
<1>8. CASE ReadCurrent(r)
  BY <1>8 DEF ReadCurrent
<1>2. CASE UndoCreate(r) \/ Swap(r)
  BY <1>2 DEF UndoCreate, Swap, Tree, Blob
<1>3. CASE Stage(r)
  <2>1. temp' \in Tree
    BY <1>3 DEF Stage, Restored, Tree, Blob
  <2> QED BY <1>3, <2>1 DEF Stage
<1>4. CASE UndoFails(r)
  BY <1>4 DEF UndoFails, Tree, Blob
<1>5. CASE Save(r)
  BY <1>5 DEF Save
<1>6. CASE Fill(r)
  BY <1>6 DEF Fill
<1>7. CASE NoteRollback(r)
  BY <1>7 DEF NoteRollback, Append1
<1> QED BY <1>1, <1>2, <1>3, <1>4, <1>5, <1>6, <1>7, <1>8 DEF UndoerActs, UndoStep

LEMMA ActRest ==
  ASSUME TypeInv, NEW t \in Tasks, Acts(t)
  PROVE  RestType'
<1>1. CASE SaveFails(t)
  BY <1>1, RestIsTyped DEF SaveFails, RestType, Counts, store
<1>2. CASE RecordFails(t)
  <2>1. /\ faults' = faults + 1 /\ cut' \in {cut, TRUE}
        /\ UNCHANGED <<files, temp, snaps, lock, first, landed, undos, edits, crashes>>
    BY <1>2, Zenon DEF RecordFails
  <2>2. cut' \in BOOLEAN
    BY <2>1, RestIsTyped, Zenon DEF RestType
  <2>3. faults' \in Nat
    BY <2>1, RestIsTyped DEF RestType, Counts
  <2> QED BY <2>1, <2>2, <2>3, RestIsTyped DEF RestType, Counts
<1> QED BY <1>1, <1>2, WriterRest, UndoerRest DEF Acts

\* What the task of a step has in hand after it.
LEMMA EntryOfType ==
  ASSUME NEW c \in Change, NEW before \in Blob, c.op = "rename" => before # Absent
  PROVE  EntryOf(c, before) \in Entries
<1>1. c.op \in {"upsert", "remove", "rename"} /\ Source(c) \in Paths
  BY ChangeShape DEF Source
<1>2. (IF c.op = "rename" THEN c.to ELSE c.path) \in Paths
  BY ChangeShape
<1> QED BY <1>1, <1>2 DEF EntryOf, Entry, Entries

LEMMA ProducedType ==
  ASSUME NEW c \in Change, NEW before \in Blob
  PROVE  Produced(c, before) \in Blob
  BY ChangeShape DEF Produced, Blob

LEMMA SourceType ==
  ASSUME NEW c \in Change, files \in Tree
  PROVE  Source(c) \in Paths /\ files[Source(c)] \in Blob
  BY ChangeShape DEF Source, Tree

LEMMA StartTyped ==
  ASSUME TypeInv, NEW w \in Writers, Submit(w) \/ EditFile(w)
  PROVE  task'[w] \in TaskType(Len(log)) /\ task'[w].at = "enter"
<1>1. Len(log) \in Nat /\ task \in [Tasks -> TaskType(Len(log))] /\ w \in Tasks
  BY TaskFields DEF Tasks
<1>2. CASE Submit(w)
  <2>1. PICK plan \in Plans :
          task' = [task EXCEPT ![w] = [Idle EXCEPT !.at = "enter", !.pre = plan.pre,
                                         !.left = plan.pre, !.todo = plan.changes]]
    BY <1>2, Zenon DEF Submit
  <2>2. task'[w] = [Idle EXCEPT !.at = "enter", !.pre = plan.pre, !.left = plan.pre, !.todo = plan.changes]
    BY <1>1, <2>1
  <2>3. plan.pre \in SUBSET Precondition /\ plan.changes \in Seq(Change)
    BY PlanType
  <2>4. Idle \in TaskType(Len(log)) /\ "enter" \in Stations
    BY <1>1, IdleType DEF Stations
  <2>5. [Idle EXCEPT !.at = "enter", !.pre = plan.pre, !.left = plan.pre, !.todo = plan.changes]
          \in TaskType(Len(log))
    BY <2>3, <2>4 DEF TaskType
  <2>6. task'[w].at = "enter"
    BY <2>2 DEF Idle
  <2> QED BY <2>2, <2>5, <2>6
<1>3. CASE EditFile(w)
  <2>1. PICK p \in Paths, c \in Text \ {Torn} :
          /\ files[p] \in Text
          /\ task' = [task EXCEPT ![w] = [Idle EXCEPT !.at = "enter",
                                         !.pre = {ExpectBlob(p, files[p])},
                                         !.left = {ExpectBlob(p, files[p])},
                                         !.todo = <<Upsert(p, c)>>, !.base = files[p]]]
    BY <1>3, Zenon DEF EditFile
  <2>2. ExpectBlob(p, files[p]) \in Precondition /\ <<Upsert(p, c)>> \in Seq(Change)
    BY <2>1, ExpectBlobType, UpsertType
  <2>3. task'[w] = [Idle EXCEPT !.at = "enter", !.pre = {ExpectBlob(p, files[p])},
                             !.left = {ExpectBlob(p, files[p])}, !.todo = <<Upsert(p, c)>>,
                             !.base = files[p]]
    BY <1>1, <2>1
  <2>4. files[p] \in Blob
    BY <2>1 DEF Blob
  <2>5. Idle \in TaskType(Len(log)) /\ "enter" \in Stations
    BY <1>1, IdleType DEF Stations
  <2>6. [Idle EXCEPT !.at = "enter", !.pre = {ExpectBlob(p, files[p])},
                     !.left = {ExpectBlob(p, files[p])}, !.todo = <<Upsert(p, c)>>,
                     !.base = files[p]] \in TaskType(Len(log))
    BY <2>2, <2>4, <2>5 DEF TaskType
  <2>7. task'[w].at = "enter"
    BY <2>3 DEF Idle
  <2> QED BY <2>3, <2>6, <2>7
<1> QED BY <1>2, <1>3

LEMMA LookTyped ==
  ASSUME TypeInv, NEW w \in Writers, Look(w)
  PROVE  task'[w] \in TaskType(Len(log)) /\ WriterCtl(w)'
<1> DEFINE c == Now(w)
           before == files[Source(c)]
<1>1. task[w] \in TaskType(Len(log)) /\ task \in [Tasks -> TaskType(Len(log))] /\ w \in Tasks
  BY TaskFields DEF Tasks
<1>2. task[w].at = "look" /\ task[w].todo # <<>> /\ lock = w /\ lock' = lock
  BY DEF Look, At, TypeInv, Control, WriterCtl, InWrite
<1>3. c \in Change /\ before \in Blob
  BY <1>2, NowType, SourceType DEF TypeInv, TypeOK
<1>4. Snapshots(before, Produced(c, before)) \in Seq(Text)
  BY <1>3, ProducedType, SnapshotsType
<1>5. EntryOf(c, before) \in Entries \/ (c.op = "rename" /\ before = Absent)
  BY <1>3, EntryOfType
<1>6. EntryOf(c, before) \in Entries
  BY <1>3, <1>5, ChangeShape DEF EntryOf, Entry, Entries, Source
<1>10. EntryOf(c, before).op # "rollback"
  BY <1>3, ChangeShape DEF EntryOf, Entry
<1>7. task'[w] = [task[w] EXCEPT !.at = IF c.op = "rename" /\ before = Absent THEN "failed" ELSE "land",
                                 !.entry = EntryOf(c, before),
                                 !.saves = Snapshots(before, Produced(c, before))]
  BY <1>1 DEF Look
<1> HIDE DEF c, before
<1>8. task'[w] \in TaskType(Len(log))
  BY <1>1, <1>4, <1>6, <1>7 DEF TaskType, Stations
<1>9. /\ task'[w].at \in {"failed", "land"} /\ task'[w].todo = task[w].todo
      /\ task'[w].entry = EntryOf(c, before)
  BY <1>1, <1>7 DEF TaskType
<1> QED BY <1>2, <1>6, <1>8, <1>9, <1>10 DEF WriterCtl, InWrite, InChange

\* Steps of a write that move it from station to station.
LEMMA MoveTyped ==
  ASSUME TypeInv, NEW w \in Writers,
         \/ Lock(w) \/ Check(w) \/ Land(w) \/ Unlink(w) \/ LandFails(w) \/ Fail(w) \/ Return(w)
  PROVE  task'[w] \in TaskType(Len(log)) /\ WriterCtl(w)'
<1>0. /\ task[w] \in TaskType(Len(log)) /\ task \in [Tasks -> TaskType(Len(log))] /\ w \in Tasks
      /\ Idle \in TaskType(Len(log)) /\ WriterCtl(w)
  BY TaskFields, IdleType DEF Tasks, TypeInv, Control
<1>1. CASE (Check(w) /\ task[w].left # {}) \/ Fail(w) \/ Return(w)
  <2>1. CASE task'[w] = Idle
    BY <1>0, <2>1 DEF WriterCtl, Idle, InWrite, InChange
  <2>2. CASE task'[w] # Idle
    <3>1. PICK l \in SUBSET task[w].left :
            task'[w] = [task[w] EXCEPT !.left = l] /\ lock' = lock /\ task[w].at = "check"
      <4>1. CASE Fail(w) \/ Return(w)
        BY <1>0, <2>2, <4>1 DEF Fail, Return
      <4>2. CASE Check(w) /\ task[w].left # {}
        <5>1. PICK pc \in task[w].left :
                IF Meets(files[pc.path], pc)
                  THEN task' = [task EXCEPT ![w].left = @ \ {pc}] /\ UNCHANGED lock
                  ELSE task' = [task EXCEPT ![w] = Idle] /\ lock' = Nobody
          BY <4>2 DEF Check
        <5>2. task' = [task EXCEPT ![w].left = @ \ {pc}] /\ lock' = lock
          BY <1>0, <2>2, <5>1
        <5>3. task'[w] = [task[w] EXCEPT !.left = task[w].left \ {pc}] /\ task[w].at = "check"
          BY <1>0, <4>2, <5>2 DEF Check, At
        <5>4. task[w].left \ {pc} \in SUBSET task[w].left
          OBVIOUS
        <5> QED BY <5>2, <5>3, <5>4
      <4> QED BY <1>1, <4>1, <4>2
    <3> QED BY <1>0, <3>1 DEF TaskType, WriterCtl, InWrite, InChange
  <2> QED BY <2>1, <2>2
<1>2. CASE Lock(w) \/ (Check(w) /\ task[w].left = {}) \/ Land(w) \/ Unlink(w) \/ LandFails(w)
  <2>1. PICK x \in {"check", "look", "failed", "unlink", "save"} :
          /\ task'[w] = [task[w] EXCEPT !.at = x] /\ lock' = w
          /\ x = "unlink" => Crosses(Now(w))
          /\ x \in {"unlink", "save"} => task[w].at \in {"land", "unlink"}
    <3> USE <1>0 DEF WriterCtl, InWrite, At, Goto
    <3>1. CASE Lock(w)
      BY <3>1 DEF Lock
    <3>2. CASE Check(w) /\ task[w].left = {}
      BY <3>2 DEF Check
    <3>3. CASE Land(w)
      BY <3>3 DEF Land
    <3>4. CASE Unlink(w)
      BY <3>4 DEF Unlink
    <3>5. CASE LandFails(w)
      BY <3>5 DEF LandFails
    <3> QED BY <1>2, <3>1, <3>2, <3>3, <3>4, <3>5
  <2>2. /\ task'[w] \in TaskType(Len(log)) /\ task'[w].at = x /\ task'[w].todo = task[w].todo
        /\ task'[w].entry = task[w].entry
    BY <1>0, <2>1 DEF TaskType, Stations
  <2> QED BY <1>0, <2>1, <2>2 DEF WriterCtl, InWrite, InChange, Now
<1> QED BY <1>1, <1>2

\* Snapshots and entries.
LEMMA SaveTyped ==
  ASSUME TypeInv, NEW t \in Tasks, Save(t) \/ Fill(t) \/ SaveFails(t)
  PROVE  task'[t] \in TaskType(Len(log))
<1>0. /\ task[t] \in TaskType(Len(log)) /\ task \in [Tasks -> TaskType(Len(log))]
      /\ Idle \in TaskType(Len(log)) /\ task[t].saves \in Seq(Text)
      /\ task[t].saves # <<>> => Tail(task[t].saves) \in Seq(Text)
      /\ task[t].entry \in Entries \cup {Absent}
  BY TaskFields, IdleType, HeadTail
<1>1. CASE Save(t)
  <2>1. CASE task[t].saves = <<>> \/ snaps[Head(task[t].saves)] = "none"
    <3>1. PICK x \in {"record", "act", "fill"} : task'[t] = [task[t] EXCEPT !.at = x]
      BY <1>0, <1>1, <2>1 DEF Save, Goto, AfterSaves
    <3> QED BY <1>0, <3>1 DEF TaskType, Stations
  <2>2. CASE task[t].saves # <<>> /\ snaps[Head(task[t].saves)] # "none"
    <3>1. task'[t] = [task[t] EXCEPT !.saves = Tail(task[t].saves)]
      BY <1>0, <1>1, <2>2 DEF Save
    <3> QED BY <1>0, <2>2, <3>1 DEF TaskType
  <2> QED BY <2>1, <2>2
<1>2. CASE Fill(t)
  <2>1. task[t].saves # <<>>
    BY <1>2 DEF TypeInv, Control, WriterCtl, UndoerCtl, Fill, At, Tasks
  <2> QED BY <1>0, <1>2, <2>1 DEF Fill, TaskType, Stations
<1>3. CASE SaveFails(t)
  <2>1. CASE t \in Undoers
    BY <1>0, <1>3, <2>1 DEF SaveFails
  <2>2. CASE t \notin Undoers
    <3>1. t \in Writers /\ task[t].entry \in Entries /\ task[t].saves # <<>>
      BY <1>3, <2>2 DEF SaveFails, Tasks, TypeInv, Control, WriterCtl, InChange, At
    <3>2. Tail(task[t].saves) \in Seq(Text) /\ Unsaved(t) \in Entries
      BY <1>0, <3>1 DEF Unsaved, Entries
    <3>3. task'[t] = [task[t] EXCEPT !.at = "save", !.saves = Tail(task[t].saves), !.entry = Unsaved(t)]
      <4> DEFINE kept == [task[t] EXCEPT !.at = "save", !.saves = Tail(task[t].saves), !.entry = Unsaved(t)]
      <4>1. task' = [task EXCEPT ![t] = IF t \in Undoers THEN Idle ELSE kept]
        BY <1>3 DEF SaveFails
      <4> HIDE DEF kept
      <4>2. task'[t] = kept
        BY <1>0, <2>2, <4>1
      <4> QED BY <4>2 DEF kept
    <3>4. [task[t] EXCEPT !.at = "save", !.saves = Tail(task[t].saves), !.entry = Unsaved(t)]
            \in TaskType(Len(log))
      BY <1>0, <3>2 DEF TaskType, Stations
    <3> QED BY <3>3, <3>4
  <2> QED BY <2>1, <2>2
<1> QED BY <1>1, <1>2, <1>3

LEMMA RecordedTyped ==
  ASSUME TypeInv, NEW t \in Tasks, task[t].at \in {"record", "note"}
  PROVE  Recorded(t) \in TaskType(Len(log))
<1>1. task[t] \in TaskType(Len(log)) /\ Idle \in TaskType(Len(log)) /\ task[t].todo \in Seq(Change)
  BY TaskFields, IdleType
<1>2. CASE t \in Undoers
  BY <1>1, <1>2 DEF Recorded
<1>3. CASE t \notin Undoers
  <2>1. task[t].todo # <<>>
    BY <1>3 DEF Tasks, TypeInv, Control, WriterCtl, InWrite, InChange
  <2>2. Tail(task[t].todo) \in Seq(Change)
    BY <1>1, <2>1, HeadTail
  <2> QED BY <1>1, <1>3, <2>2 DEF Recorded, TaskType, Stations
<1> QED BY <1>2, <1>3

LEMMA IdleCtl ==
  ASSUME NEW t \in Tasks, task'[t] = Idle
  PROVE  (t \in Writers => WriterCtl(t)') /\ (t \in Undoers => UndoerCtl(t)')
  BY DEF WriterCtl, UndoerCtl, Idle, InWrite, InChange, InUndo

\* What a save leaves in hand.
LEMMA SaveCtl ==
  ASSUME TypeInv, NEW t \in Tasks, Save(t) \/ Fill(t) \/ SaveFails(t)
  PROVE  /\ t \in Writers => WriterCtl(t)'
         /\ t \in Undoers => UndoerCtl(t)'
<1>0. /\ task[t] \in TaskType(Len(log)) /\ task \in [Tasks -> TaskType(Len(log))] /\ t \in Tasks
      /\ t \in Writers => WriterCtl(t) /\ t \notin Undoers
      /\ t \in Undoers => UndoerCtl(t) /\ t \notin Writers
      /\ task[t].at \in {"save", "fill"} /\ log' = log /\ lock' = lock
  BY TaskFields DEF Tasks, TypeInv, Control, Save, Fill, SaveFails, At, store
<1>1. ASSUME task'[t].at \in {"save", "fill", "record", "act"}, task'[t].todo = task[t].todo,
             task'[t].undoes = task[t].undoes,
             t \in Writers => /\ task'[t].entry \in Entries /\ task'[t].entry.op # "rollback"
                              /\ task'[t].at # "act",
             t \in Undoers => task'[t].at # "record",
             task'[t].at = "fill" => task'[t].saves # <<>>
      PROVE  /\ t \in Writers => WriterCtl(t)'
             /\ t \in Undoers => UndoerCtl(t)'
  BY <1>0, <1>1 DEF WriterCtl, UndoerCtl, InWrite, InChange, InUndo, Undone
<1>2. t \in Writers => task[t].entry \in Entries /\ task[t].entry.op # "rollback"
  BY <1>0 DEF WriterCtl, InChange
<1>3. CASE Save(t)
  <2>1. CASE task[t].saves = <<>>
    <3>1. task'[t] = [task[t] EXCEPT !.at = AfterSaves(t)]
      BY <1>0, <1>3, <2>1 DEF Save, Goto
    <3> QED BY <1>0, <1>1, <1>2, <3>1 DEF TaskType, AfterSaves, Tasks
  <2>2. CASE task[t].saves # <<>> /\ snaps[Head(task[t].saves)] # "none"
    <3>1. task'[t] = [task[t] EXCEPT !.saves = Tail(task[t].saves)] /\ task[t].at = "save"
      BY <1>0, <1>3, <2>2 DEF Save, At
    <3> QED BY <1>0, <1>1, <1>2, <3>1 DEF TaskType
  <2>3. CASE task[t].saves # <<>> /\ snaps[Head(task[t].saves)] = "none"
    <3>1. task'[t] = [task[t] EXCEPT !.at = "fill"]
      BY <1>0, <1>3, <2>3 DEF Save, Goto
    <3> QED BY <1>0, <1>1, <1>2, <2>3, <3>1 DEF TaskType
  <2> QED BY <2>1, <2>2, <2>3
<1>4. CASE Fill(t)
  <2>1. task'[t] = [task[t] EXCEPT !.at = "save", !.saves = Tail(task[t].saves)]
    BY <1>0, <1>4 DEF Fill
  <2> QED BY <1>0, <1>1, <1>2, <2>1 DEF TaskType
<1>5. CASE SaveFails(t)
  <2>1. CASE t \in Undoers
    BY <1>0, <1>5, <2>1, IdleCtl DEF SaveFails
  <2>2. CASE t \notin Undoers
    <3>1. task'[t] = [task[t] EXCEPT !.at = "save", !.saves = Tail(task[t].saves), !.entry = Unsaved(t)]
      BY <1>0, <1>5, <2>2 DEF SaveFails
    <3>2. Unsaved(t) \in Entries /\ Unsaved(t).op # "rollback"
      BY <1>0, <1>2, <2>2 DEF Unsaved, Entries, Tasks
    <3> QED BY <1>0, <1>1, <2>2, <3>1, <3>2 DEF TaskType
  <2> QED BY <2>1, <2>2
<1> QED BY <1>3, <1>4, <1>5

LEMMA RecordedCtl ==
  ASSUME TypeInv, NEW t \in Tasks, task[t].at \in {"record", "note"}, task'[t] = Recorded(t),
         lock' = lock
  PROVE  (t \in Writers => WriterCtl(t)') /\ (t \in Undoers => UndoerCtl(t)')
<1>1. CASE t \in Undoers
  BY <1>1, IdleCtl DEF Recorded
<1>2. CASE t \notin Undoers
  <2>1. /\ task[t] \in TaskType(Len(log)) /\ t \in Writers /\ WriterCtl(t)
    BY <1>2, TaskFields DEF Tasks, TypeInv, Control
  <2>2. task'[t].at = "look"
    BY <1>2, <2>1 DEF Recorded, TaskType
  <2> QED BY <1>2, <2>1, <2>2 DEF WriterCtl, InWrite, InChange
<1> QED BY <1>1, <1>2

\* Steps of a rollback.
LEMMA UndoTyped ==
  ASSUME TypeInv, NEW r \in Undoers,
         \/ Undo(r) \/ ReadCurrent(r) \/ UndoCreate(r) \/ Stage(r) \/ Swap(r) \/ UndoFails(r)
         \/ NoteRollback(r)
  PROVE  task'[r] \in TaskType(Len(log)) /\ UndoerCtl(r)'
<1>0. /\ task[r] \in TaskType(Len(log)) /\ task \in [Tasks -> TaskType(Len(log))] /\ r \in Tasks
      /\ Idle \in TaskType(Len(log)) /\ UndoerCtl(r) /\ log \in Seq(Entries)
  BY TaskFields, IdleType DEF Tasks, TypeInv, Control, TypeOK
<1>1. ASSUME task'[r] = Idle PROVE task'[r] \in TaskType(Len(log)) /\ UndoerCtl(r)'
  BY <1>0, <1>1, IdleCtl
<1>2. ASSUME NEW x \in InUndo, task'[r] = [task[r] EXCEPT !.at = x], log' = log, x # "fill",
             task[r].at \in InUndo
      PROVE  task'[r] \in TaskType(Len(log)) /\ UndoerCtl(r)'
  <2>1. task'[r] \in TaskType(Len(log)) /\ task'[r].at = x /\ task'[r].undoes = task[r].undoes
    BY <1>0, <1>2 DEF TaskType, InUndo, Stations
  <2> QED BY <1>0, <1>2, <2>1 DEF UndoerCtl, Undone
<1>3. CASE Undo(r)
  <2>1. PICK i \in DOMAIN log : /\ log[i].op \in {"create", "update", "delete"}
                                /\ task' = [task EXCEPT ![r] = [Idle EXCEPT !.at = "read", !.undoes = i]]
    BY <1>3, Zenon DEF Undo
  <2>2. i \in 0 .. Len(log) /\ "read" \in Stations
    BY <1>0 DEF Stations
  <2>3. task'[r] = [Idle EXCEPT !.at = "read", !.undoes = i]
    BY <1>0, <2>1
  <2>4. task'[r] \in TaskType(Len(log))
    BY <1>0, <2>2, <2>3 DEF TaskType
  <2>5. task'[r].at = "read" /\ task'[r].undoes = i
    BY <2>3 DEF Idle
  <2>6. log' = log
    BY <1>3, Zenon DEF Undo, store
  <2> QED BY <2>1, <2>4, <2>5, <2>6 DEF UndoerCtl, InUndo, Undone, Undoable
<1>4. CASE ReadCurrent(r)
  <2> DEFINE now == files[Note(r)]
  <2>1. task[r].at = "read" /\ log' = log /\ now \in Blob
    BY <1>0, <1>4, NoteType DEF ReadCurrent, At, store, InUndo, TypeInv, TypeOK, Tree
  <2>2. CASE now = Absent
    <3>1. task'[r] = [task[r] EXCEPT !.at = "act"]
      BY <1>0, <1>4, <2>2 DEF ReadCurrent
    <3> QED BY <1>2, <2>1, <3>1 DEF InUndo
  <2>3. CASE now \in Text
    <3>1. now # Absent
      BY <2>3
    <3>2. task'[r] = [task[r] EXCEPT !.at = "save", !.saves = <<now>>]
      BY <1>0, <1>4, <2>3, <3>1 DEF ReadCurrent
    <3>3. <<now>> \in Seq(Text)
      BY <2>3
    <3> HIDE DEF now
    <3>4. task'[r] \in TaskType(Len(log)) /\ task'[r].at = "save" /\ task'[r].undoes = task[r].undoes
      BY <1>0, <3>2, <3>3 DEF TaskType, Stations
    <3> QED BY <1>0, <2>1, <3>4 DEF UndoerCtl, Undone, InUndo
  <2>4. CASE now \notin Text \cup {Absent}
    <3>1. task'[r] = Idle
      BY <1>0, <1>4, <2>4 DEF ReadCurrent
    <3> QED BY <1>1, <3>1
  <2> QED BY <2>2, <2>3, <2>4
<1>5. CASE UndoCreate(r)
  <2>1. task'[r] = [task[r] EXCEPT !.at = "note"] /\ log' = log /\ task[r].at = "act"
    BY <1>0, <1>5 DEF UndoCreate, Goto, At, store
  <2> QED BY <1>2, <2>1 DEF InUndo
<1>6. CASE Stage(r)
  <2>1. /\ task'[r] = Idle \/ task'[r] = [task[r] EXCEPT !.at = "swap"]
        /\ log' = log /\ task[r].at = "act"
    BY <1>0, <1>6 DEF Stage, Goto, At, store
  <2> QED BY <1>1, <1>2, <2>1 DEF InUndo
<1>7. CASE Swap(r)
  <2>1. /\ task'[r] = Idle \/ task'[r] = [task[r] EXCEPT !.at = "note"]
        /\ log' = log /\ task[r].at = "swap"
    BY <1>0, <1>7 DEF Swap, Goto, At, store
  <2> QED BY <1>1, <1>2, <2>1 DEF InUndo
<1>8. CASE UndoFails(r) \/ NoteRollback(r)
  BY <1>0, <1>1, <1>8 DEF UndoFails, NoteRollback
<1> QED BY <1>3, <1>4, <1>5, <1>6, <1>7, <1>8

\* The task of a step is of its type after it.
LEMMA ActTyped ==
  ASSUME TypeInv, NEW t \in Tasks, Acts(t)
  PROVE  /\ task'[t] \in TaskType(Len(log))
         /\ t \in Writers => WriterCtl(t)'
         /\ t \in Undoers => UndoerCtl(t)'
<1>0. task \in [Tasks -> TaskType(Len(log))]
  BY TaskFields
<1>1. CASE Save(t) \/ Fill(t) \/ SaveFails(t)
  BY <1>1, SaveTyped, SaveCtl
<1>2. CASE RecordFails(t) \/ (t \in Writers /\ Record(t))
  <2>1. task'[t] = Recorded(t) /\ lock' = lock /\ task[t].at \in {"record", "note"}
    BY <1>0, <1>2 DEF RecordFails, Record, At
  <2> QED BY <2>1, RecordedTyped, RecordedCtl
<1>3. CASE t \in Writers /\ (Submit(t) \/ EditFile(t))
  <2>1. task'[t] \in TaskType(Len(log)) /\ task'[t].at = "enter" /\ t \notin Undoers
    BY <1>3, StartTyped
  <2> QED BY <2>1 DEF WriterCtl, InWrite, InChange
<1>4. CASE t \in Writers /\ Look(t)
  BY <1>4, LookTyped
<1>5. CASE t \in Writers /\ (\/ Lock(t) \/ Check(t) \/ Land(t) \/ Unlink(t) \/ LandFails(t)
                              \/ Fail(t) \/ Return(t))
  BY <1>5, MoveTyped
<1>6. CASE t \in Undoers /\ (\/ Undo(t) \/ ReadCurrent(t) \/ UndoCreate(t) \/ Stage(t) \/ Swap(t)
                              \/ UndoFails(t) \/ NoteRollback(t))
  BY <1>6, UndoTyped
<1> QED BY <1>1, <1>2, <1>3, <1>4, <1>5, <1>6 DEF Acts, WriterActs, UndoerActs, Advance, UndoStep

LEMMA TypeFromParts ==
  ASSUME TypeInv, LogStep, RestType', task' \in [Tasks -> TaskType(Len(log'))]
  PROVE  TypeOK' /\ Counts'
  BY LogMore DEF RestType, TypeOK, TaskType

LEMMA ActTypes ==
  ASSUME TypeInv, NEW t \in Tasks, Acts(t)
  PROVE  TypeInv'
<1>1. LogStep /\ RestType' /\ Only(t) /\ task'[t] \in TaskType(Len(log))
  BY ActLog, ActRest, OnlyOne, ActTyped
<1>2. task \in [Tasks -> TaskType(Len(log))]
  BY TaskFields
<1>3. task' \in [Tasks -> TaskType(Len(log'))]
  BY <1>1, <1>2, LogMore DEF Only
<1>4. ASSUME NEW u \in Tasks, u # t PROVE task'[u] = task[u]
  BY <1>1, <1>2, <1>4 DEF Only
<1>5. ASSUME NEW w \in Writers PROVE WriterCtl(w)'
  <2>1. CASE w = t
    BY <2>1, ActTyped
  <2>2. CASE w # t
    <3>1. task'[w] = task[w] /\ WriterCtl(w)
      BY <1>4, <2>2 DEF Tasks, TypeInv, Control
    <3>2. task[w].at \in InWrite => lock' = lock
      BY <3>1, <2>2, ActLock DEF WriterCtl, Tasks
    <3> QED BY <3>1, <3>2 DEF WriterCtl, Now
  <2> QED BY <2>1, <2>2
<1>6. ASSUME NEW r \in Undoers PROVE UndoerCtl(r)'
  <2>1. CASE r = t
    BY <2>1, ActTyped
  <2>2. CASE r # t
    <3>1. task'[r] = task[r] /\ UndoerCtl(r)
      BY <1>4, <2>2 DEF Tasks, TypeInv, Control
    <3> QED BY <1>1, <3>1, LogMore DEF UndoerCtl, Undone
  <2> QED BY <2>1, <2>2
<1> QED BY <1>1, <1>3, <1>5, <1>6, TypeFromParts DEF TypeInv, Control

LEMMA CrashTypes == ASSUME TypeInv, Crash PROVE TypeInv'
<1>0. RestType
  BY RestIsTyped
<1>1. files' \in Tree
  <2>1. CASE files' = files
    BY <1>0, <2>1 DEF RestType
  <2>2. ASSUME NEW w \in Writers, At(w, "land"), files' \in HalfCopied(w) PROVE files' \in Tree
    <3>1. task[w].todo # <<>>
      BY <2>2 DEF TypeInv, Control, WriterCtl, InChange, At
    <3> QED BY <2>2, <3>1, HalfCopiedTree
  <2> QED BY <2>1, <2>2 DEF Crash
<1>2. cut' \in BOOLEAN
  BY <1>0, Zenon DEF Crash, RestType
<1>3. /\ log' = log /\ lock' = Nobody /\ task' = [t \in Tasks |-> Idle] /\ crashes' = crashes + 1
      /\ UNCHANGED <<temp, snaps, first, landed, undos, edits, faults>>
  BY DEF Crash
<1>4. RestType'
  BY <1>0, <1>1, <1>2, <1>3 DEF RestType, Counts
<1>5. task' \in [Tasks -> TaskType(Len(log'))]
  BY <1>3, TaskFields, IdleType, LogMore DEF TypeInv, TypeOK
<1>6. Control'
  BY <1>3, IdleCtl DEF Control, Tasks
<1> QED BY <1>3, <1>4, <1>5, <1>6, TypeFromParts DEF TypeInv, LogStep

LEMMA TypeStep == TypeInv /\ [Next]_vars => TypeInv'
<1> SUFFICES ASSUME TypeInv, [Next]_vars PROVE TypeInv'
  OBVIOUS
<1>1. CASE EditOutside
  <2>1. files' \in Tree
    BY <1>1 DEF EditOutside, TypeInv, TypeOK, Tree
  <2>2. RestType'
    BY <1>1, <2>1, RestIsTyped DEF EditOutside, RestType, Counts, store
  <2>3. log' = log /\ task' = task /\ lock' = lock
    BY <1>1 DEF EditOutside, store
  <2>4. task' \in [Tasks -> TaskType(Len(log'))]
    BY <2>3 DEF TypeInv, TypeOK, TaskType
  <2>5. Control'
    BY <2>3 DEF TypeInv, Control, WriterCtl, UndoerCtl, Undone, Now
  <2> QED BY <2>2, <2>3, <2>4, <2>5, TypeFromParts DEF TypeInv, LogStep
<1>2. CASE UNCHANGED vars
  BY <1>2 DEF vars, store, bounds, TypeInv, TypeOK, Counts, Control, WriterCtl, UndoerCtl, Undone, Now
<1> QED BY <1>1, <1>2, ActTypes, CrashTypes, NextActs

LEMMA TypeInit == Init => TypeInv
<1> SUFFICES ASSUME Init PROVE TypeInv
  OBVIOUS
<1>1. files \in Tree /\ temp \in Tree /\ first \in Tree
  BY DEF Init, Tree, Blob, EmptyTree
<1>2. task \in [Tasks -> TaskType(Len(log))] /\ log \in Seq(Entries)
  BY IdleType DEF Init
<1>3. Control
  BY DEF Init, Idle, Control, WriterCtl, UndoerCtl, InWrite, InChange, InUndo, Tasks
<1> QED BY <1>1, <1>2, <1>3 DEF Init, TypeInv, TypeOK, Counts, TaskType

\* Every reachable state of the direct backend has its type.
THEOREM TypeCorrect == Spec => []TypeOK
<1>1. TypeInv => TypeOK
  BY DEF TypeInv
<1> QED BY TypeInit, TypeStep, <1>1, PTL DEF Spec

-----------------------------------------------------------------------------
(* What the log may miss.                                                  *)

\* A change of w has landed and its entry is not written yet.
Pending(w) == task[w].at \in {"save", "fill", "record"}
SomePending == \E w \in Writers : Pending(w)

GapInv ==
  landed + (IF cut THEN 1 ELSE 0)
    <= Cardinality(Written) + 2 * (crashes + faults) + (IF SomePending THEN 1 ELSE 0)

LEMMA WrittenCard == TypeInv => IsFiniteSet(Written) /\ Cardinality(Written) \in Nat
<1> SUFFICES ASSUME TypeInv PROVE IsFiniteSet(Written) /\ Cardinality(Written) \in Nat
  OBVIOUS
<1>1. Len(log) \in Nat /\ DOMAIN log = 1 .. Len(log)
  BY DEF TypeInv, TypeOK
<1>2. IsFiniteSet(1 .. Len(log))
  BY <1>1, FS_Interval
<1>3. Written \subseteq 1 .. Len(log)
  BY <1>1 DEF Written
<1>4. IsFiniteSet(Written)
  BY <1>2, <1>3, FS_Subset
<1> QED BY <1>4, FS_CardinalityType

\* A new entry of a write counts, a rollback's does not.
LEMMA WrittenGrows ==
  ASSUME TypeInv, NEW e \in Entries, log' = Append(log, e)
  PROVE  /\ e.op = "rollback" => Written' = Written
         /\ e.op # "rollback" => /\ Written' = Written \cup {Len(log) + 1}
                                 /\ Cardinality(Written') = Cardinality(Written) + 1
<1>1. /\ log \in Seq(Entries) /\ Len(log) \in Nat
      /\ DOMAIN log = 1 .. Len(log) /\ Len(log') = Len(log) + 1 /\ DOMAIN log' = 1 .. Len(log) + 1
  BY DEF TypeInv, TypeOK
<1>2. log'[Len(log) + 1] = e /\ \A i \in 1 .. Len(log) : log'[i] = log[i]
  BY <1>1
<1>3. ASSUME NEW i PROVE i \in 1 .. Len(log) + 1 <=> i \in 1 .. Len(log) \/ i = Len(log) + 1
  BY <1>1
<1>4. e.op = "rollback" => Written' = Written
  BY <1>1, <1>2, <1>3 DEF Written
<1>5. e.op # "rollback" => Written' = Written \cup {Len(log) + 1}
  BY <1>1, <1>2, <1>3 DEF Written
<1>6. Len(log) + 1 \notin Written
  BY <1>1 DEF Written
<1> QED BY <1>4, <1>5, <1>6, WrittenCard, FS_AddElement

LEMMA WrittenSame ==
  ASSUME log' = log
  PROVE  Written' = Written
  BY DEF Written

\* One writer at a time is between its first precondition and its last entry.
LEMMA OneInside ==
  ASSUME TypeInv, NEW v \in Writers, NEW w \in Writers,
         task[v].at \in InWrite, task[w].at \in InWrite
  PROVE  v = w
  BY DEF TypeInv, Control, WriterCtl

LEMMA OthersStay ==
  ASSUME TypeInv, NEW t \in Tasks, Acts(t), NEW u \in Tasks, u # t
  PROVE  task'[u] = task[u]
  BY OnlyOne, TaskFields DEF Only

LEMMA PendingInside ==
  ASSUME TypeInv, NEW w \in Writers, Acts(w), task[w].at \in InWrite
  PROVE  (SomePending <=> Pending(w)) /\ (SomePending' <=> Pending(w)')
<1>1. ASSUME NEW v \in Writers, v # w PROVE ~Pending(v) /\ ~Pending(v)'
  <2>1. task'[v] = task[v] /\ task[v].at \notin InWrite
    BY <1>1, OthersStay, OneInside DEF Tasks
  <2> QED BY <2>1 DEF Pending, InWrite
<1> QED BY <1>1 DEF SomePending

LEMMA PendingOutside ==
  ASSUME TypeInv, NEW t \in Tasks, Acts(t),
         t \in Writers => task[t].at \notin InWrite /\ task'[t].at \notin {"save", "fill", "record"}
  PROVE  SomePending' <=> SomePending
<1>1. ASSUME NEW v \in Writers PROVE Pending(v)' <=> Pending(v)
  <2>1. CASE v = t
    BY <2>1 DEF Pending, InWrite
  <2>2. CASE v # t
    BY <2>2, OthersStay DEF Pending, Tasks
  <2> QED BY <2>1, <2>2
<1> QED BY <1>1 DEF SomePending

\* A step that leaves landed changes, entries and pending ones as they are.
LEMMA GapSame ==
  ASSUME TypeInv, GapInv, landed' = landed, cut' = cut \/ (cut' = FALSE /\ cut \in BOOLEAN),
         Written' = Written, faults' \in {faults, faults + 1}, crashes' = crashes,
         SomePending' <=> SomePending
  PROVE  GapInv'
<1>1. /\ landed \in Nat /\ cut \in BOOLEAN /\ faults \in Nat /\ crashes \in Nat
      /\ Cardinality(Written) \in Nat
  BY WrittenCard DEF TypeInv, TypeOK, Counts
<1> HIDE DEF Written, SomePending
<1>2. (IF cut' THEN 1 ELSE 0) <= (IF cut THEN 1 ELSE 0)
  BY <1>1
<1> QED BY <1>1, <1>2 DEF GapInv

\* A change of w lands.
LEMMA GapLands ==
  ASSUME TypeInv, GapInv, landed' = landed + 1, cut' = cut, Written' = Written, faults' = faults,
         crashes' = crashes, ~SomePending, SomePending'
  PROVE  GapInv'
<1>1. /\ landed \in Nat /\ cut \in BOOLEAN /\ faults \in Nat /\ crashes \in Nat
      /\ Cardinality(Written) \in Nat
  BY WrittenCard DEF TypeInv, TypeOK, Counts
<1> QED BY <1>1 DEF GapInv

\* The entry of a change that landed is written, or swallowed by half a line.
LEMMA GapRecords ==
  ASSUME TypeInv, GapInv, landed' = landed, faults' = faults, crashes' = crashes,
         SomePending, ~SomePending', cut' = FALSE,
         IF cut THEN Written' = Written ELSE Cardinality(Written') = Cardinality(Written) + 1
  PROVE  GapInv'
<1>1. /\ landed \in Nat /\ cut \in BOOLEAN /\ faults \in Nat /\ crashes \in Nat
      /\ Cardinality(Written) \in Nat
  BY WrittenCard DEF TypeInv, TypeOK, Counts
<1> QED BY <1>1 DEF GapInv

\* A failing append or a crash costs two entries at most.
LEMMA GapWidens ==
  ASSUME TypeInv, GapInv, landed' = landed, Written' = Written, cut' \in BOOLEAN,
         \/ faults' = faults + 1 /\ crashes' = crashes
         \/ faults' = faults /\ crashes' = crashes + 1
  PROVE  GapInv'
<1>1. /\ landed \in Nat /\ cut \in BOOLEAN /\ faults \in Nat /\ crashes \in Nat
      /\ Cardinality(Written) \in Nat
  BY WrittenCard DEF TypeInv, TypeOK, Counts
<1> QED BY <1>1 DEF GapInv

\* The stations of a write, and what lands on the way.
LEMMA Stops ==
  ASSUME TypeInv, NEW w \in Writers
  PROVE  /\ Submit(w) \/ EditFile(w) => task[w].at = "idle" /\ task'[w].at = "enter"
         /\ Lock(w) => task[w].at = "enter" /\ task'[w].at = "check"
         /\ Check(w) => task[w].at = "check" /\ task'[w].at \in {"check", "look", "idle"}
         /\ Look(w) => task[w].at = "look" /\ task'[w].at \in {"land", "failed"}
         /\ Land(w) => /\ task[w].at = "land"
                       /\ \/ task'[w].at \in {"failed", "unlink"} /\ landed' = landed
                          \/ task'[w].at = "save" /\ landed' = landed + 1
         /\ Unlink(w) => /\ task[w].at = "unlink"
                         /\ \/ task'[w].at = "failed" /\ landed' = landed
                            \/ task'[w].at = "save" /\ landed' = landed + 1 /\ faults' = faults
         /\ LandFails(w) => task[w].at = "land" /\ task'[w].at = "failed"
         /\ Fail(w) => task[w].at = "failed" /\ task'[w].at = "idle"
         /\ Return(w) => task[w].at = "look" /\ task'[w].at = "idle"
         /\ Save(w) => task[w].at = "save" /\ task'[w].at \in {"save", "fill", "record"}
         /\ Fill(w) => task[w].at = "fill" /\ task'[w].at = "save"
         /\ SaveFails(w) => task[w].at \in {"save", "fill"} /\ task'[w].at = "save"
         /\ Record(w) => task[w].at = "record" /\ task'[w].at = "look"
         /\ RecordFails(w) => task[w].at = "record" /\ task'[w].at = "look"
<1>0. task \in [Tasks -> TaskType(Len(log))] /\ w \in Tasks /\ task[w] \in TaskType(Len(log))
      /\ w \notin Undoers /\ Idle.at = "idle" /\ task[w].at # "note"
  BY TaskFields DEF Tasks, Idle, TypeInv, Control, WriterCtl, InWrite
<1> USE <1>0 DEF At, Goto
<1>1. Submit(w) \/ EditFile(w) => task[w].at = "idle" /\ task'[w].at = "enter"
  <2>1. Submit(w) \/ EditFile(w) => task'[w].at = "enter"
    BY StartTyped
  <2>2. Submit(w) \/ EditFile(w) => task[w].at = "idle"
    BY Zenon DEF Submit, EditFile
  <2> QED BY <2>1, <2>2
<1>2. Lock(w) => task[w].at = "enter" /\ task'[w].at = "check"
  BY DEF Lock, TaskType
<1>3. Check(w) => task[w].at = "check" /\ task'[w].at \in {"check", "look", "idle"}
  BY DEF Check, TaskType
<1>4. Look(w) => task[w].at = "look" /\ task'[w].at \in {"land", "failed"}
  BY DEF Look, TaskType
<1>5. Land(w) => /\ task[w].at = "land"
                 /\ \/ task'[w].at \in {"failed", "unlink"} /\ landed' = landed
                    \/ task'[w].at = "save" /\ landed' = landed + 1
  BY DEF Land, TaskType
<1>6. Unlink(w) => /\ task[w].at = "unlink"
                   /\ \/ task'[w].at = "failed" /\ landed' = landed
                      \/ task'[w].at = "save" /\ landed' = landed + 1 /\ faults' = faults
  BY DEF Unlink, TaskType
<1>7. LandFails(w) => task[w].at = "land" /\ task'[w].at = "failed"
  BY DEF LandFails, TaskType
<1>8. /\ Fail(w) => task[w].at = "failed" /\ task'[w].at = "idle"
      /\ Return(w) => task[w].at = "look" /\ task'[w].at = "idle"
  BY DEF Fail, Return
<1>9. Save(w) => task[w].at = "save" /\ task'[w].at \in {"save", "fill", "record"}
  BY DEF Save, AfterSaves, TaskType
<1>10. Fill(w) => task[w].at = "fill" /\ task'[w].at = "save"
  BY DEF Fill, TaskType
<1>11. SaveFails(w) => task[w].at \in {"save", "fill"} /\ task'[w].at = "save"
  BY DEF SaveFails, TaskType
<1>12. Record(w) => task[w].at = "record" /\ task'[w].at = "look"
  BY DEF Record, Recorded, TaskType
<1>13. RecordFails(w) => task[w].at = "record" /\ task'[w].at = "look"
  BY DEF RecordFails, Recorded, TaskType
<1> QED BY <1>1, <1>2, <1>3, <1>4, <1>5, <1>6, <1>7, <1>8, <1>9, <1>10, <1>11, <1>12, <1>13

LEMMA RecordWrites ==
  ASSUME TypeInv, NEW w \in Writers, Record(w)
  PROVE  IF cut THEN Written' = Written ELSE Cardinality(Written') = Cardinality(Written) + 1
<1>1. task[w].entry \in Entries /\ task[w].entry.op # "rollback"
  BY DEF Record, At, TypeInv, Control, WriterCtl, InChange
<1>2. CASE cut
  BY <1>2, WrittenSame DEF Record, Append1
<1>3. CASE ~cut
  BY <1>1, <1>3, WrittenGrows DEF Record, Append1
<1> QED BY <1>2, <1>3

LEMMA NoteWrites ==
  ASSUME TypeInv, NEW r \in Undoers, NoteRollback(r)
  PROVE  Written' = Written
<1>1. Note(r) \in Paths
  BY NoteType DEF NoteRollback, At, InUndo
<1>2. Entry("rollback", Note(r), Note(r)) \in Entries
  BY <1>1, RollbackEntry
<1>3. Entry("rollback", Note(r), Note(r)).op = "rollback"
  BY DEF Entry
<1>4. CASE cut
  BY <1>4, WrittenSame DEF NoteRollback, Append1
<1>5. CASE ~cut
  BY <1>2, <1>3, <1>5, WrittenGrows DEF NoteRollback, Append1
<1> QED BY <1>4, <1>5

LEMMA GapWriter ==
  ASSUME TypeInv, GapInv, NEW w \in Writers, Acts(w)
  PROVE  GapInv'
<1>0. w \in Tasks /\ w \notin Undoers
  BY DEF Tasks
<1>1. CASE Submit(w) \/ EditFile(w) \/ Lock(w)
  <2>1. landed' = landed /\ cut' = cut /\ log' = log /\ faults' = faults /\ crashes' = crashes
    <3>1. CASE Submit(w) \/ EditFile(w)
      BY <3>1, Zenon DEF Submit, EditFile, store
    <3>2. CASE Lock(w)
      BY <3>2 DEF Lock, store, bounds
    <3> QED BY <1>1, <3>1, <3>2
  <2>2. SomePending' <=> SomePending
    BY <1>0, <1>1, Stops, PendingOutside DEF InWrite
  <2> QED BY <2>1, <2>2, WrittenSame, GapSame
<1>2. CASE Check(w) \/ Look(w) \/ Fail(w) \/ Return(w)
  <2>1. landed' = landed /\ cut' = cut /\ log' = log /\ faults' = faults /\ crashes' = crashes
    <3>1. CASE Check(w) \/ Look(w)
      BY <3>1 DEF Check, Look, store, bounds
    <3>2. CASE Fail(w) \/ Return(w)
      BY <3>2 DEF Fail, Return, store, bounds
    <3> QED BY <1>2, <3>1, <3>2
  <2>2. task[w].at \in {"check", "look", "failed"} /\ task'[w].at \in {"check", "look", "land", "failed", "idle"}
    BY <1>2, Stops
  <2>3. ~SomePending /\ ~SomePending'
    BY <1>0, <2>2, PendingInside DEF InWrite, Pending
  <2> QED BY <2>1, <2>3, WrittenSame, GapSame
<1>3. CASE Land(w) \/ Unlink(w)
  <2>1. cut' = cut /\ log' = log /\ crashes' = crashes /\ faults' \in {faults, faults + 1}
    BY <1>3 DEF Land, Unlink, store, bounds
  <2>2. /\ task[w].at \in {"land", "unlink"}
        /\ \/ task'[w].at \in {"failed", "unlink"} /\ landed' = landed
           \/ task'[w].at = "save" /\ landed' = landed + 1 /\ faults' = faults
    <3>1. CASE Land(w)
      BY <3>1, Stops DEF Land, bounds
    <3>2. CASE Unlink(w)
      BY <3>2, Stops
    <3> QED BY <1>3, <3>1, <3>2
  <2>3. ~SomePending /\ (SomePending' <=> task'[w].at = "save")
    BY <1>0, <2>2, PendingInside DEF InWrite, Pending
  <2> QED BY <2>1, <2>2, <2>3, WrittenSame, GapSame, GapLands
<1>4. CASE LandFails(w)
  <2>1. landed' = landed /\ cut' = cut /\ log' = log /\ faults' = faults + 1 /\ crashes' = crashes
    BY <1>4 DEF LandFails, store
  <2>2. ~SomePending /\ ~SomePending'
    BY <1>0, <1>4, Stops, PendingInside DEF InWrite, Pending
  <2> QED BY <2>1, <2>2, WrittenSame, GapSame
<1>5. CASE Save(w) \/ Fill(w) \/ SaveFails(w)
  <2>1. /\ landed' = landed /\ cut' = cut /\ log' = log /\ crashes' = crashes
        /\ faults' \in {faults, faults + 1}
    BY <1>5 DEF Save, Fill, SaveFails, store, bounds
  <2>2. SomePending /\ SomePending'
    BY <1>0, <1>5, Stops, PendingInside DEF InWrite, Pending
  <2> QED BY <2>1, <2>2, WrittenSame, GapSame
<1>6. CASE Record(w)
  <2>1. landed' = landed /\ cut' = FALSE /\ faults' = faults /\ crashes' = crashes
    BY <1>6 DEF Record, Append1, bounds
  <2>2. SomePending /\ ~SomePending'
    BY <1>0, <1>6, Stops, PendingInside DEF InWrite, Pending
  <2> QED BY <1>6, <2>1, <2>2, RecordWrites, GapRecords
<1>7. CASE RecordFails(w)
  <2>1. landed' = landed /\ log' = log /\ faults' = faults + 1 /\ crashes' = crashes
    BY <1>7 DEF RecordFails
  <2>2. cut' \in BOOLEAN
    BY <1>0, ActRest DEF RestType
  <2> QED BY <2>1, <2>2, WrittenSame, GapWidens
<1> QED BY <1>0, <1>1, <1>2, <1>3, <1>4, <1>5, <1>6, <1>7 DEF Acts, WriterActs, Advance

LEMMA GapUndoer ==
  ASSUME TypeInv, GapInv, NEW r \in Undoers, Acts(r)
  PROVE  GapInv'
<1>0. r \in Tasks /\ r \notin Writers /\ (SomePending' <=> SomePending)
  BY PendingOutside DEF Tasks
<1>1. CASE UndoerActs(r) /\ ~NoteRollback(r)
  <2>1. /\ landed' = landed /\ cut' = cut /\ log' = log /\ crashes' = crashes
        /\ faults' \in {faults, faults + 1}
    <3>1. CASE Undo(r) \/ ReadCurrent(r)
      BY <3>1, Zenon DEF Undo, ReadCurrent, store, bounds
    <3>2. CASE Save(r) \/ Fill(r)
      BY <3>2 DEF Save, Fill, bounds
    <3>3. CASE UndoCreate(r) \/ Stage(r) \/ Swap(r) \/ UndoFails(r)
      BY <3>3 DEF UndoCreate, Stage, Swap, UndoFails, store, bounds
    <3> QED BY <1>1, <3>1, <3>2, <3>3 DEF UndoerActs, UndoStep
  <2> QED BY <1>0, <2>1, WrittenSame, GapSame
<1>2. CASE NoteRollback(r)
  <2>1. landed' = landed /\ cut' = FALSE /\ faults' = faults /\ crashes' = crashes /\ cut \in BOOLEAN
    BY <1>2 DEF NoteRollback, Append1, bounds, TypeInv, TypeOK
  <2> QED BY <1>0, <1>2, <2>1, NoteWrites, GapSame
<1>3. CASE SaveFails(r)
  <2>1. /\ landed' = landed /\ cut' = cut /\ log' = log /\ crashes' = crashes
        /\ faults' = faults + 1
    BY <1>3 DEF SaveFails, store
  <2> QED BY <1>0, <2>1, WrittenSame, GapSame
<1>4. CASE RecordFails(r)
  <2>1. landed' = landed /\ log' = log /\ faults' = faults + 1 /\ crashes' = crashes
    BY <1>4 DEF RecordFails
  <2>2. cut' \in BOOLEAN
    BY <1>0, ActRest DEF RestType
  <2> QED BY <2>1, <2>2, WrittenSame, GapWidens
<1> QED BY <1>0, <1>1, <1>2, <1>3, <1>4 DEF Acts

LEMMA GapStep == TypeInv /\ GapInv /\ [Next]_vars => GapInv'
<1> SUFFICES ASSUME TypeInv, GapInv, [Next]_vars PROVE GapInv'
  OBVIOUS
<1>1. CASE Crash
  <2>1. landed' = landed /\ log' = log /\ faults' = faults /\ crashes' = crashes + 1
    BY <1>1 DEF Crash
  <2>2. cut' \in BOOLEAN
    BY <1>1, CrashTypes DEF TypeInv, TypeOK
  <2> QED BY <2>1, <2>2, WrittenSame, GapWidens
<1>2. CASE EditOutside \/ UNCHANGED vars
  <2>1. /\ landed' = landed /\ cut' = cut /\ log' = log /\ faults' = faults /\ crashes' = crashes
        /\ task' = task
    BY <1>2 DEF EditOutside, vars, store, bounds
  <2>2. SomePending' <=> SomePending
    BY <2>1 DEF SomePending, Pending
  <2> QED BY <2>1, <2>2, WrittenSame, GapSame
<1> QED BY <1>1, <1>2, GapWriter, GapUndoer, NextActs DEF Tasks

LEMMA GapInit == Init => GapInv
<1> SUFFICES ASSUME Init PROVE GapInv
  OBVIOUS
<1>1. Written = {} /\ cut = FALSE /\ landed = 0 /\ faults = 0 /\ crashes = 0
  BY DEF Init, Written
<1>2. Cardinality(Written) = 0
  BY <1>1, FS_EmptySet
<1> QED BY <1>1, <1>2 DEF GapInv

\* Between writes nothing is pending.
LEMMA FreeMeansNothingPending ==
  ASSUME TypeInv, lock = Nobody
  PROVE  ~SomePending
  BY DEF TypeInv, Control, WriterCtl, InWrite, SomePending, Pending, Tasks

\* A change that landed is missing from the log only for a crash or a failing
\* append, and each costs two entries at most: whoever else writes, edits, rolls
\* back or fails at anything else.
THEOREM GapsBounded == Spec => []AuditGapsAreBounded
<1>1. TypeInv /\ GapInv => AuditGapsAreBounded
  BY FreeMeansNothingPending, WrittenCard
     DEF GapInv, AuditGapsAreBounded, TypeInv, TypeOK, Counts
<1> QED BY TypeInit, TypeStep, GapInit, GapStep, <1>1, PTL DEF Spec

-----------------------------------------------------------------------------
(* Guards: what was checked under the lock holds when a change lands,      *)
(* because whoever else changes a file needs the lock too.                 *)

\* Nobody edits beside the process and nobody rolls back.
Alone == edits = 0 /\ undos = 0

AloneInv == undos = 0 => \A r \in Undoers : task[r].at = "idle"

Touches(s) == UNION {TouchedBy(s[i]) : i \in DOMAIN s}
Apart(s) == \A i, j \in DOMAIN s : i # j => TouchedBy(s[i]) \cap TouchedBy(s[j]) = {}

\* Precondition pc holds of the vault.
Holds(pc) == Meets(files[pc.path], pc)

\* Plans that touch a path once; those of edit_file always do.
Simple(w) == (\A plan \in Plans : ~Duplicated(plan)) \/ task[w].base # Absent

\* What holds of a write's preconditions at each of its stations.
GuardedTask(w) ==
  /\ Apart(task[w].todo)
  /\ task[w].at = "enter" => task[w].left = task[w].pre
  /\ task[w].at = "check" => \A pc \in task[w].pre \ task[w].left : Holds(pc)
  /\ task[w].at \in {"look", "land"} =>
       \A pc \in task[w].pre : pc.path \in Touches(task[w].todo) => Holds(pc)
  /\ task[w].at \in {"unlink", "save", "fill", "record"} =>
       \A pc \in task[w].pre : pc.path \in Touches(Tail(task[w].todo)) => Holds(pc)

GuardInv == Alone => \A w \in Writers : Simple(w) => GuardedTask(w)

\* What an edit asks for: one change, guarded by what it was computed from.
EditInv ==
  \A w \in Writers : task[w].base # Absent =>
    \/ task[w].todo = <<>>
    \/ \E p \in Paths, c \in Contents :
         task[w].todo = <<Upsert(p, c)>> /\ ExpectBlob(p, task[w].base) \in task[w].pre

LEMMA NextPosition ==
  ASSUME NEW n \in Nat, NEW i \in 1 .. n - 1
  PROVE  i + 1 \in 1 .. n /\ i + 1 # 1 /\ \A j \in 1 .. n - 1 : i # j => i + 1 # j + 1
  OBVIOUS

LEMMA TailTouches ==
  ASSUME NEW s \in Seq(Change), s # <<>>
  PROVE  /\ Touches(Tail(s)) \subseteq Touches(s)
         /\ TouchedBy(Head(s)) \subseteq Touches(s)
         /\ Apart(s) => /\ Apart(Tail(s))
                        /\ Touches(Tail(s)) \cap TouchedBy(Head(s)) = {}
<1>1. /\ Len(s) \in Nat /\ Len(s) > 0 /\ DOMAIN s = 1 .. Len(s) /\ Head(s) = s[1]
      /\ DOMAIN Tail(s) = 1 .. Len(s) - 1
      /\ \A i \in 1 .. Len(s) - 1 : Tail(s)[i] = s[i + 1]
  OBVIOUS
<1>2. ASSUME NEW i \in 1 .. Len(s) - 1 PROVE i + 1 \in DOMAIN s /\ i + 1 # 1
  BY <1>1, NextPosition
<1>3. ASSUME NEW i \in 1 .. Len(s) - 1, NEW j \in 1 .. Len(s) - 1, i # j PROVE i + 1 # j + 1
  BY <1>1, <1>3, NextPosition
<1>4. 1 \in DOMAIN s
  BY <1>1
<1>5. Touches(Tail(s)) \subseteq Touches(s)
  BY <1>1, <1>2 DEF Touches
<1>6. TouchedBy(Head(s)) \subseteq Touches(s)
  BY <1>1, <1>4 DEF Touches
<1>7. ASSUME Apart(s) PROVE Apart(Tail(s))
  <2> SUFFICES ASSUME NEW i \in DOMAIN Tail(s), NEW j \in DOMAIN Tail(s), i # j
               PROVE  TouchedBy(Tail(s)[i]) \cap TouchedBy(Tail(s)[j]) = {}
    BY DEF Apart
  <2>1. TouchedBy(s[i + 1]) \cap TouchedBy(s[j + 1]) = {}
    <3>1. i \in 1 .. Len(s) - 1 /\ j \in 1 .. Len(s) - 1
      BY <1>1
    <3>2. i + 1 \in DOMAIN s /\ j + 1 \in DOMAIN s /\ i + 1 # j + 1
      BY <1>2, <1>3, <3>1
    <3> QED BY <3>2, <1>7 DEF Apart
  <2> QED BY <1>1, <2>1
<1>8. ASSUME Apart(s) PROVE Touches(Tail(s)) \cap TouchedBy(Head(s)) = {}
  <2>1. ASSUME NEW i \in 1 .. Len(s) - 1 PROVE TouchedBy(s[i + 1]) \cap TouchedBy(s[1]) = {}
    BY <1>1, <1>2, <1>4, <1>8 DEF Apart
  <2> QED BY <1>1, <2>1 DEF Touches
<1> QED BY <1>5, <1>6, <1>7, <1>8

\* Who counts as doing what.
LEMMA WriterCounts ==
  ASSUME TypeInv, NEW w \in Writers, Acts(w)
  PROVE  edits' = edits /\ undos' = undos
<1>1. CASE Submit(w) \/ EditFile(w)
  BY <1>1, Zenon DEF Submit, EditFile
<1>2. CASE Lock(w) \/ Check(w) \/ Look(w) \/ Land(w)
  BY <1>2 DEF Lock, Check, Look, Land, bounds
<1>3. CASE Unlink(w) \/ LandFails(w) \/ Fail(w) \/ Return(w)
  BY <1>3 DEF Unlink, LandFails, Fail, Return, bounds
<1>4. CASE Save(w) \/ Fill(w) \/ Record(w) \/ SaveFails(w) \/ RecordFails(w)
  BY <1>4 DEF Save, Fill, Record, SaveFails, RecordFails, bounds
<1>5. w \notin Undoers
  BY DEF Tasks
<1> QED BY <1>1, <1>2, <1>3, <1>4, <1>5 DEF Acts, WriterActs, Advance

LEMMA UndoerCounts ==
  ASSUME TypeInv, NEW r \in Undoers, Acts(r)
  PROVE  undos' = undos + 1 \/ (undos' = undos /\ task[r].at # "idle")
<1>1. CASE Undo(r)
  BY <1>1, Zenon DEF Undo
<1>2. CASE ReadCurrent(r) \/ Save(r) \/ Fill(r) \/ UndoCreate(r) \/ Stage(r)
  BY <1>2 DEF ReadCurrent, Save, Fill, UndoCreate, Stage, bounds, At
<1>3. CASE Swap(r) \/ NoteRollback(r) \/ UndoFails(r) \/ SaveFails(r) \/ RecordFails(r)
  BY <1>3 DEF Swap, NoteRollback, UndoFails, SaveFails, RecordFails, bounds, At
<1>4. r \notin Writers
  BY DEF Tasks
<1> QED BY <1>1, <1>2, <1>3, <1>4 DEF Acts, UndoerActs, UndoStep

\* A step that leaves nobody rolling back left nobody so before, and nobody edited.
LEMMA AloneSteps ==
  ASSUME TypeInv, AloneInv, [Next]_vars, undos' = 0
  PROVE  /\ undos = 0
         /\ \/ Crash
            \/ \E w \in Writers : Acts(w)
            \/ task' = task /\ (edits' = 0 => edits = 0 /\ UNCHANGED vars)
<1>0. edits \in Nat /\ undos \in Nat
  BY DEF TypeInv, Counts
<1>1. ASSUME NEW r \in Undoers, Acts(r) PROVE FALSE
  BY <1>0, <1>1, UndoerCounts DEF AloneInv
<1>2. ASSUME EditOutside PROVE edits' # 0 /\ task' = task /\ undos' = undos
  BY <1>0, <1>2 DEF EditOutside
<1>3. ASSUME Crash PROVE undos' = undos
  BY <1>3 DEF Crash
<1>4. ASSUME UNCHANGED vars PROVE edits' = edits /\ undos' = undos /\ task' = task
  BY <1>4 DEF vars, bounds
<1> QED BY <1>1, <1>2, <1>3, <1>4, WriterCounts, NextActs DEF Tasks

LEMMA AloneStep == TypeInv /\ AloneInv /\ [Next]_vars => AloneInv'
<1> SUFFICES ASSUME TypeInv, AloneInv, [Next]_vars, undos' = 0, NEW r \in Undoers
             PROVE  task'[r].at = "idle"
  BY DEF AloneInv
<1>0. task[r].at = "idle" /\ r \in Tasks /\ r \notin Writers
  BY AloneSteps DEF AloneInv, Tasks
<1>1. CASE Crash
  BY <1>0, <1>1 DEF Crash, Idle
<1>2. ASSUME NEW w \in Writers, Acts(w) PROVE task'[r] = task[r]
  BY <1>0, <1>2, OthersStay DEF Tasks
<1> QED BY <1>0, <1>1, <1>2, AloneSteps

\* Only a write inside its apply window changes a file.
LEMMA FilesStay ==
  ASSUME TypeInv, NEW w \in Writers, Acts(w), ~Land(w), ~Unlink(w), ~LandFails(w)
  PROVE  files' = files
<1>1. CASE Submit(w) \/ EditFile(w)
  BY <1>1, Zenon DEF Submit, EditFile
<1>2. CASE Lock(w) \/ Check(w) \/ Look(w) \/ Fail(w) \/ Return(w)
  BY <1>2 DEF Lock, Check, Look, Fail, Return
<1>3. CASE Save(w) \/ Fill(w) \/ Record(w) \/ SaveFails(w) \/ RecordFails(w)
  BY <1>3 DEF Save, Fill, Record, SaveFails, RecordFails
<1>4. w \notin Undoers
  BY DEF Tasks
<1> QED BY <1>1, <1>2, <1>3, <1>4 DEF Acts, WriterActs, Advance

\* What a step of a write does to its own task.
SameAsk(w) == task'[w].pre = task[w].pre /\ task'[w].base = task[w].base

LEMMA AskStays ==
  ASSUME TypeInv, NEW w \in Writers, Acts(w), ~Submit(w), ~EditFile(w)
  PROVE  \/ task'[w] = Idle
         \/ /\ SameAsk(w)
            /\ IF Record(w) \/ RecordFails(w)
                 THEN task'[w].todo = Tail(task[w].todo)
                 ELSE task'[w].todo = task[w].todo
<1>0. task \in [Tasks -> TaskType(Len(log))] /\ w \in Tasks /\ task[w] \in TaskType(Len(log))
      /\ w \notin Undoers
  BY TaskFields DEF Tasks
<1>1. CASE Lock(w) \/ Look(w) \/ Land(w) \/ Unlink(w)
  <2>1. SameAsk(w) /\ task'[w].todo = task[w].todo
    <3>1. CASE Lock(w)
      BY <1>0, <3>1 DEF Lock, Goto, TaskType, SameAsk
    <3>2. CASE Look(w)
      BY <1>0, <3>2 DEF Look, TaskType, SameAsk
    <3>3. CASE Land(w)
      BY <1>0, <3>3 DEF Land, Goto, TaskType, SameAsk
    <3>4. CASE Unlink(w)
      BY <1>0, <3>4 DEF Unlink, Goto, TaskType, SameAsk
    <3> QED BY <1>1, <3>1, <3>2, <3>3, <3>4
  <2>2. ~Record(w) /\ ~RecordFails(w)
    BY <1>1, Stops
  <2> QED BY <2>1, <2>2
<1>2. CASE Check(w)
  <2>1. task'[w] = Idle \/ (SameAsk(w) /\ task'[w].todo = task[w].todo)
    BY <1>0, <1>2 DEF Check, Goto, TaskType, SameAsk
  <2> QED BY <1>2, <2>1, Stops
<1>3. CASE Fail(w) \/ Return(w)
  BY <1>0, <1>3 DEF Fail, Return
<1>4. CASE LandFails(w) \/ Save(w) \/ Fill(w) \/ SaveFails(w)
  <2>1. SameAsk(w) /\ task'[w].todo = task[w].todo
    <3>1. CASE LandFails(w)
      BY <1>0, <3>1 DEF LandFails, Goto, TaskType, SameAsk
    <3>2. CASE Save(w)
      BY <1>0, <3>2 DEF Save, Goto, TaskType, SameAsk
    <3>3. CASE Fill(w)
      BY <1>0, <3>3 DEF Fill, TaskType, SameAsk
    <3>4. CASE SaveFails(w)
      BY <1>0, <3>4 DEF SaveFails, TaskType, SameAsk
    <3> QED BY <1>4, <3>1, <3>2, <3>3, <3>4
  <2>2. ~Record(w) /\ ~RecordFails(w)
    BY <1>4, Stops
  <2> QED BY <2>1, <2>2
<1>5. CASE Record(w) \/ RecordFails(w)
  <2>1. task'[w] = Recorded(w)
    BY <1>0, <1>5 DEF Record, RecordFails
  <2> QED BY <1>0, <1>5, <2>1 DEF Recorded, TaskType, SameAsk
<1> QED BY <1>0, <1>1, <1>2, <1>3, <1>4, <1>5 DEF Acts, WriterActs, Advance

\* Preconditions stay met at the paths a step leaves alone.
LEMMA HoldsStays ==
  ASSUME NEW pc, files'[pc.path] = files[pc.path]
  PROVE  Holds(pc)' <=> Holds(pc)
  BY DEF Holds, Meets, Satisfied

\* A change leaves the paths it does not touch alone.
LEMMA LandElsewhere ==
  ASSUME TypeInv, NEW w \in Writers, Land(w) \/ Unlink(w), NEW p \in Paths,
         p \notin TouchedBy(Now(w))
  PROVE  files'[p] = files[p]
<1>0. task[w].at \in InChange /\ task[w].todo # <<>> /\ WriterCtl(w) /\ files \in Tree
  BY DEF TypeInv, TypeOK, Control, WriterCtl, Land, Unlink, At, InChange
<1>1. Now(w) \in Change
  BY <1>0, NowType
<1>2. CASE Land(w)
  BY <1>2 DEF Land, Crosses, TouchedBy
<1>3. CASE Unlink(w)
  <2>1. Now(w).op = "rename"
    BY <1>0, <1>3 DEF WriterCtl, Crosses, Unlink, At
  <2>2. p # Now(w).from /\ p # Now(w).to
    BY <2>1 DEF TouchedBy
  <2> QED BY <1>0, <1>3, <2>2 DEF Unlink, Tree
<1> QED BY <1>2, <1>3

\* The entry of a call: what it asks for.
LEMMA StartAsks ==
  ASSUME TypeInv, NEW w \in Writers, Submit(w) \/ EditFile(w)
  PROVE  /\ task'[w].left = task'[w].pre /\ task'[w].at = "enter"
         /\ \/ /\ task'[w].base = Absent
               /\ \E plan \in Plans : task'[w].todo = plan.changes
            \/ \E p \in Paths, c \in Contents :
                 task'[w].todo = <<Upsert(p, c)>> /\ ExpectBlob(p, task'[w].base) \in task'[w].pre
<1>0. task \in [Tasks -> TaskType(Len(log))] /\ w \in Tasks
  BY TaskFields DEF Tasks
<1>1. task'[w].at = "enter"
  BY StartTyped
<1>2. CASE Submit(w)
  <2>1. PICK plan \in Plans :
          task' = [task EXCEPT ![w] = [Idle EXCEPT !.at = "enter", !.pre = plan.pre,
                                         !.left = plan.pre, !.todo = plan.changes]]
    BY <1>2, Zenon DEF Submit
  <2>2. task'[w] = [Idle EXCEPT !.at = "enter", !.pre = plan.pre, !.left = plan.pre, !.todo = plan.changes]
    BY <1>0, <2>1
  <2>3. /\ task'[w].left = plan.pre /\ task'[w].pre = plan.pre /\ task'[w].base = Absent
        /\ task'[w].todo = plan.changes
    BY <2>2 DEF Idle
  <2> QED BY <1>1, <2>3
<1>3. CASE EditFile(w)
  <2>1. PICK p \in Paths, c \in Text \ {Torn} :
          /\ files[p] \in Text
          /\ task' = [task EXCEPT ![w] = [Idle EXCEPT !.at = "enter",
                                         !.pre = {ExpectBlob(p, files[p])},
                                         !.left = {ExpectBlob(p, files[p])},
                                         !.todo = <<Upsert(p, c)>>, !.base = files[p]]]
    BY <1>3, Zenon DEF EditFile
  <2>2. task'[w] = [Idle EXCEPT !.at = "enter", !.pre = {ExpectBlob(p, files[p])},
                             !.left = {ExpectBlob(p, files[p])}, !.todo = <<Upsert(p, c)>>,
                             !.base = files[p]]
    BY <1>0, <2>1
  <2>3. /\ task'[w].left = {ExpectBlob(p, files[p])} /\ task'[w].pre = {ExpectBlob(p, files[p])}
        /\ task'[w].base = files[p] /\ task'[w].todo = <<Upsert(p, c)>>
    BY <2>2 DEF Idle
  <2>4. c \in Contents
    OBVIOUS
  <2> QED BY <1>1, <2>3, <2>4
<1> QED BY <1>2, <1>3

LEMMA EditStep == TypeInv /\ EditInv /\ [Next]_vars => EditInv'
<1> SUFFICES ASSUME TypeInv, EditInv, [Next]_vars, NEW w \in Writers, task'[w].base # Absent
             PROVE  \/ task'[w].todo = <<>>
                    \/ \E p \in Paths, c \in Contents :
                         /\ task'[w].todo = <<Upsert(p, c)>>
                         /\ ExpectBlob(p, task'[w].base) \in task'[w].pre
  BY DEF EditInv
<1>0. w \in Tasks
  BY DEF Tasks
<1>1. CASE task'[w] = task[w]
  BY <1>1 DEF EditInv
<1>2. CASE Acts(w)
  <2>1. CASE Submit(w) \/ EditFile(w)
    BY <2>1, StartAsks
  <2>2. CASE ~(Submit(w) \/ EditFile(w))
    <3>1. task'[w] # Idle
      BY DEF Idle
    <3>2. /\ SameAsk(w)
          /\ task'[w].todo = task[w].todo
               \/ (task'[w].todo = Tail(task[w].todo) /\ task[w].at = "record")
      BY <1>2, <2>2, <3>1, AskStays, Stops
    <3>3. task[w].at = "record" => task[w].todo # <<>>
      BY DEF TypeInv, Control, WriterCtl, InChange
    <3>4. ASSUME NEW p, NEW c PROVE Tail(<<Upsert(p, c)>>) = <<>>
      OBVIOUS
    <3>5. task[w].base # Absent
      BY <3>2 DEF SameAsk
    <3>6. CASE task[w].todo = <<>>
      BY <3>2, <3>3, <3>6
    <3>7. ASSUME NEW p \in Paths, NEW c \in Contents, task[w].todo = <<Upsert(p, c)>>,
                 ExpectBlob(p, task[w].base) \in task[w].pre
          PROVE  \/ task'[w].todo = <<>>
                 \/ /\ task'[w].todo = <<Upsert(p, c)>>
                    /\ ExpectBlob(p, task'[w].base) \in task'[w].pre
      BY <3>2, <3>4, <3>7 DEF SameAsk
    <3> QED BY <3>5, <3>6, <3>7 DEF EditInv
  <2> QED BY <2>1, <2>2
<1>3. CASE Crash
  BY <1>0, <1>3 DEF Crash, Idle
<1>4. ASSUME NEW t \in Tasks, Acts(t), t # w PROVE task'[w] = task[w]
  BY <1>0, <1>4, OthersStay
<1>5. ASSUME EditOutside \/ UNCHANGED vars PROVE task'[w] = task[w]
  BY <1>5 DEF EditOutside, vars
<1> QED BY <1>1, <1>2, <1>3, <1>4, <1>5, NextActs

LEMMA PlanApart ==
  ASSUME NEW plan, ~Duplicated(plan)
  PROVE  Apart(plan.changes)
  BY DEF Duplicated, Apart

LEMMA GuardStarts ==
  ASSUME TypeInv, NEW w \in Writers, Submit(w) \/ EditFile(w), Simple(w)'
  PROVE  GuardedTask(w)'
<1>1. task'[w].left = task'[w].pre /\ task'[w].at = "enter"
  BY StartAsks
<1>2. Apart(task'[w].todo)
  <2>1. CASE task'[w].base = Absent /\ \E plan \in Plans : task'[w].todo = plan.changes
    BY <2>1, PlanApart DEF Simple
  <2>2. ASSUME NEW p, NEW c, task'[w].todo = <<Upsert(p, c)>> PROVE Apart(task'[w].todo)
    BY <2>2 DEF Apart
  <2> QED BY <2>1, <2>2, StartAsks
<1> QED BY <1>1, <1>2 DEF GuardedTask

LEMMA GuardIdle ==
  ASSUME NEW w, task'[w] = Idle
  PROVE  GuardedTask(w)'
  BY DEF GuardedTask, Idle, Apart

\* A write's own steps.
LEMMA GuardOwn ==
  ASSUME TypeInv, NEW w \in Writers, Acts(w), GuardedTask(w), ~Submit(w), ~EditFile(w)
  PROVE  GuardedTask(w)'
<1>0. /\ task \in [Tasks -> TaskType(Len(log))] /\ w \in Tasks /\ task[w] \in TaskType(Len(log))
      /\ w \notin Undoers /\ task[w].todo \in Seq(Change) /\ task[w].pre \in SUBSET Precondition
      /\ task[w].at \in InChange => task[w].todo # <<>>
  BY TaskFields DEF Tasks, TypeInv, Control, WriterCtl
<1>1. CASE task'[w] = Idle
  BY <1>1, GuardIdle
<1> SUFFICES ASSUME task'[w] # Idle PROVE GuardedTask(w)'
  BY <1>1
<1>2. task'[w].pre = task[w].pre /\ (~Record(w) /\ ~RecordFails(w) => task'[w].todo = task[w].todo)
  BY AskStays DEF SameAsk
<1>3. ASSUME NEW pc \in Precondition PROVE pc.path \in Paths
  BY <1>3 DEF Precondition
<1>4. CASE Lock(w)
  <2>1. task'[w].left = task[w].left /\ task'[w].at = "check" /\ task[w].at = "enter"
    BY <1>0, <1>4, Stops DEF Lock, Goto, TaskType
  <2>2. task'[w].todo = task[w].todo
    BY <1>2, <1>4, Stops
  <2> QED BY <1>2, <2>1, <2>2 DEF GuardedTask
<1>5. CASE Check(w)
  <2>1. task[w].at = "check" /\ files' = files /\ task'[w].todo = task[w].todo
    BY <1>2, <1>5, Stops DEF Check
  <2>2. \A pc : Holds(pc)' <=> Holds(pc)
    BY <2>1 DEF Holds
  <2>3. CASE task[w].left = {}
    <3>1. task'[w].at = "look"
      BY <1>0, <1>5, <2>3 DEF Check, Goto, TaskType
    <3> QED BY <1>2, <2>1, <2>2, <2>3, <3>1 DEF GuardedTask
  <2>4. CASE task[w].left # {}
    <3>1. PICK pc \in task[w].left :
            IF Meets(files[pc.path], pc)
              THEN task' = [task EXCEPT ![w].left = @ \ {pc}] /\ UNCHANGED lock
              ELSE task' = [task EXCEPT ![w] = Idle] /\ lock' = Nobody
      BY <1>5, <2>4 DEF Check
    <3>2. Meets(files[pc.path], pc) /\ task' = [task EXCEPT ![w].left = @ \ {pc}]
      BY <1>0, <3>1
    <3>3. task'[w].left = task[w].left \ {pc} /\ task'[w].at = "check"
      BY <1>0, <2>1, <3>2 DEF TaskType
    <3>4. Holds(pc)
      BY <3>2 DEF Holds
    <3> QED BY <1>2, <2>1, <2>2, <3>3, <3>4 DEF GuardedTask
  <2> QED BY <2>3, <2>4
<1>6. CASE Look(w)
  <2>0. task[w].at = "look" /\ task'[w].at \in {"land", "failed"}
    BY <1>6, Stops
  <2>1. task[w].at = "look" /\ task'[w].at \in {"land", "failed"} /\ files' = files
    BY <1>6, <2>0 DEF Look
  <2>2. task'[w].todo = task[w].todo
    BY <1>2, <1>6, Stops
  <2>3. \A pc : Holds(pc)' <=> Holds(pc)
    BY <2>1 DEF Holds
  <2> QED BY <1>2, <2>1, <2>2, <2>3 DEF GuardedTask
<1>7. CASE Land(w) \/ Unlink(w)
  <2>1. task[w].at \in {"land", "unlink"} /\ task'[w].at \in {"failed", "unlink", "save"}
    BY <1>7, Stops
  <2>2. task'[w].todo = task[w].todo /\ task[w].todo # <<>>
    BY <1>0, <1>2, <1>7, Stops DEF InChange
  <2>3. Touches(Tail(task[w].todo)) \subseteq Touches(task[w].todo)
        /\ Touches(Tail(task[w].todo)) \cap TouchedBy(Now(w)) = {}
    BY <1>0, <2>2, TailTouches DEF GuardedTask, Now
  <2>4. ASSUME NEW pc \in task[w].pre, pc.path \in Touches(Tail(task[w].todo))
        PROVE  Holds(pc)'
    <3>1. pc.path \in Paths
      BY <1>0, <1>3
    <3>2. files'[pc.path] = files[pc.path]
      BY <1>7, <2>3, <2>4, <3>1, LandElsewhere
    <3>3. Holds(pc)
      BY <2>1, <2>3, <2>4 DEF GuardedTask
    <3> QED BY <3>2, <3>3, HoldsStays
  <2> QED BY <1>2, <2>1, <2>2, <2>4 DEF GuardedTask
<1>8. CASE LandFails(w)
  <2>1. task'[w].at = "failed" /\ task'[w].todo = task[w].todo
    BY <1>2, <1>8, Stops
  <2> QED BY <2>1 DEF GuardedTask
<1>9. CASE Save(w) \/ Fill(w) \/ SaveFails(w)
  <2>1. task[w].at \in {"save", "fill"} /\ task'[w].at \in {"save", "fill", "record"}
    BY <1>9, Stops
  <2>2. files' = files /\ task'[w].todo = task[w].todo
    BY <1>2, <1>9, Stops, FilesStay
  <2>3. \A pc : Holds(pc)' <=> Holds(pc)
    BY <2>2 DEF Holds
  <2> QED BY <1>2, <2>1, <2>2, <2>3 DEF GuardedTask
<1>10. CASE Record(w) \/ RecordFails(w)
  <2>1. task[w].at = "record" /\ task'[w].at = "look"
    BY <1>10, Stops
  <2>2. files' = files
    BY <1>10, Stops, FilesStay
  <2>3. task'[w].todo = Tail(task[w].todo) /\ task[w].todo # <<>>
    BY <1>0, <1>10, <2>1, AskStays DEF InChange
  <2>4. Apart(Tail(task[w].todo))
    BY <1>0, <2>3, TailTouches DEF GuardedTask
  <2>5. \A pc : Holds(pc)' <=> Holds(pc)
    BY <2>2 DEF Holds
  <2> QED BY <1>2, <2>1, <2>3, <2>4, <2>5 DEF GuardedTask
<1>11. CASE Fail(w) \/ Return(w)
  BY <1>0, <1>11 DEF Fail, Return
<1> QED BY <1>0, <1>4, <1>5, <1>6, <1>7, <1>8, <1>9, <1>10, <1>11 DEF Acts, WriterActs, Advance

\* Another write's steps: it cannot be at the files while this one holds the lock.
LEMMA GuardOther ==
  ASSUME TypeInv, NEW w \in Writers, NEW v \in Writers, v # w, Acts(v), GuardedTask(w)
  PROVE  GuardedTask(w)'
<1>1. task'[w] = task[w]
  BY OthersStay DEF Tasks
<1>2. CASE files' = files
  <2>1. \A pc : Holds(pc)' <=> Holds(pc)
    BY <1>2 DEF Holds
  <2> QED BY <1>1, <2>1 DEF GuardedTask
<1>3. CASE files' # files
  <2>1. task[v].at \in InWrite
    BY <1>3, FilesStay, Stops DEF InWrite
  <2>2. task[w].at \notin InWrite
    BY <2>1, OneInside
  <2> QED BY <1>1, <2>2 DEF GuardedTask, InWrite
<1> QED BY <1>2, <1>3

LEMMA GuardStep ==
  TypeInv /\ AloneInv /\ GuardInv /\ [Next]_vars => GuardInv'
<1> SUFFICES ASSUME TypeInv, AloneInv, GuardInv, [Next]_vars, Alone', NEW w \in Writers, Simple(w)'
             PROVE  GuardedTask(w)'
  BY DEF GuardInv
<1>0. Alone /\ w \in Tasks
  <2>1. \A v \in Writers : Acts(v) => edits' = edits
    BY WriterCounts
  <2>2. Crash => edits' = edits
    BY DEF Crash
  <2> QED BY <2>1, <2>2, AloneSteps DEF Alone, Tasks
<1>1. CASE Crash
  BY <1>0, <1>1, GuardIdle DEF Crash
<1>2. CASE UNCHANGED vars
  <2>1. GuardedTask(w)
    BY <1>0, <1>2 DEF GuardInv, Simple, vars
  <2> QED BY <1>2, <2>1 DEF GuardedTask, Holds, vars
<1>3. CASE Acts(w)
  <2>1. CASE Submit(w) \/ EditFile(w)
    BY <2>1, GuardStarts
  <2>2. CASE ~(Submit(w) \/ EditFile(w))
    <3>1. CASE task'[w] = Idle
      BY <3>1, GuardIdle
    <3>2. CASE task'[w] # Idle
      <4>1. Simple(w)
        BY <1>3, <2>2, <3>2, AskStays DEF Simple, SameAsk
      <4> QED BY <1>0, <1>3, <2>2, <4>1, GuardOwn DEF GuardInv
    <3> QED BY <3>1, <3>2
  <2> QED BY <2>1, <2>2
<1>4. ASSUME NEW v \in Writers, v # w, Acts(v) PROVE GuardedTask(w)'
  <2>1. Simple(w)
    BY <1>0, <1>4, OthersStay DEF Simple, Tasks
  <2> QED BY <1>0, <1>4, <2>1, GuardOther DEF GuardInv
<1> QED BY <1>1, <1>2, <1>3, <1>4, AloneSteps DEF Alone

LEMMA GuardInit == Init => TypeInv /\ AloneInv /\ EditInv /\ GuardInv
<1> SUFFICES ASSUME Init PROVE TypeInv /\ AloneInv /\ EditInv /\ GuardInv
  OBVIOUS
<1>1. \A t \in Tasks : task[t] = Idle
  BY DEF Init
<1>2. AloneInv /\ EditInv
  BY <1>1 DEF AloneInv, EditInv, Idle, Tasks
<1>3. ASSUME NEW w \in Writers PROVE GuardedTask(w)
  BY <1>1 DEF GuardedTask, Idle, Apart, Tasks
<1> QED BY <1>2, <1>3, TypeInit DEF GuardInv

\* The premises of the next two theorems: nobody is there to roll back or to edit.
LEMMA NobodyElse ==
  ASSUME Undoers = {}, MaxEdits = 0
  PROVE  Spec => []Alone
<1>1. Init => Alone
  BY DEF Init, Alone
<1>2. TypeInv /\ Alone /\ [Next]_vars => Alone'
  <2> SUFFICES ASSUME TypeInv, Alone, [Next]_vars PROVE Alone'
    OBVIOUS
  <2>1. ~EditOutside
    BY DEF EditOutside, Alone
  <2>2. CASE Crash \/ UNCHANGED vars
    BY <2>2 DEF Crash, vars, bounds, Alone
  <2> QED BY <2>1, <2>2, WriterCounts, NextActs DEF Tasks, Alone
<1> QED BY TypeInit, TypeStep, <1>1, <1>2, PTL DEF Spec

\* What a change replaces meets the preconditions of its write when it lands.
LEMMA LandingIsGuarded ==
  ASSUME TypeInv, Alone, GuardInv, NEW w \in Writers, Simple(w), At(w, "land"),
         NEW pc \in task[w].pre, pc.path \in TouchedBy(Now(w))
  PROVE  Meets(files[pc.path], pc)
<1>1. task[w].todo \in Seq(Change) /\ task[w].todo # <<>>
  BY TaskFields DEF At, Tasks, TypeInv, Control, WriterCtl, InChange
<1>2. pc.path \in Touches(task[w].todo)
  BY <1>1, TailTouches DEF Now
<1> QED BY <1>2 DEF GuardInv, GuardedTask, At, Holds

\* With plans that touch no path twice, and nobody rolling back or editing beside
\* the process, every change lands on a file that still meets the preconditions
\* that were checked before the first change of its write.
THEOREM GuardsHold ==
  ASSUME Undoers = {}, MaxEdits = 0, \A plan \in Plans : ~Duplicated(plan)
  PROVE  Spec => GuardedLanding
<1>1. TypeInv /\ Alone /\ GuardInv /\ [Next]_vars =>
        [\A w \in Writers : Lands(w) =>
           \A pc \in task[w].pre : pc.path \in TouchedBy(Now(w)) => Meets(files[pc.path], pc)]_vars
  BY LandingIsGuarded DEF Lands, Simple
<1> QED BY <1>1, NobodyElse, GuardInit, TypeStep, AloneStep, GuardStep, PTL
        DEF Spec, GuardedLanding

\* With nobody rolling back or editing beside the process, an edit only replaces
\* the content it was computed from, up to equal normal forms, whatever plans the
\* other writers submit.
THEOREM EditsKeep ==
  ASSUME Undoers = {}, MaxEdits = 0
  PROVE  Spec => EditsLoseNothing
<1>1. ASSUME TypeInv, Alone, GuardInv, EditInv, NEW w \in Writers, At(w, "land"),
             task[w].base # Absent
      PROVE  /\ files[Now(w).path] # Absent
             /\ Token[files[Now(w).path]] = Token[task[w].base]
  <2>1. task[w].todo # <<>>
    BY <1>1 DEF At, TypeInv, Control, WriterCtl, InChange
  <2>2. PICK p \in Paths, c \in Contents :
          task[w].todo = <<Upsert(p, c)>> /\ ExpectBlob(p, task[w].base) \in task[w].pre
    BY <1>1, <2>1 DEF EditInv
  <2>3. Now(w) = Upsert(p, c) /\ Now(w).path = p /\ TouchedBy(Now(w)) = {p}
    BY <2>2 DEF Now, Upsert, TouchedBy
  <2>4. ExpectBlob(p, task[w].base).path = p
    BY DEF ExpectBlob
  <2>5. Meets(files[p], ExpectBlob(p, task[w].base))
    BY <1>1, <2>2, <2>3, <2>4, LandingIsGuarded DEF Simple
  <2> QED BY <2>3, <2>5 DEF Meets, ExpectBlob
<1>2. TypeInv /\ Alone /\ GuardInv /\ EditInv /\ [Next]_vars =>
        [\A w \in Writers : Lands(w) /\ task[w].base # Absent =>
           /\ files[Now(w).path] # Absent
           /\ Token[files[Now(w).path]] = Token[task[w].base]]_vars
  BY <1>1 DEF Lands
<1> QED BY <1>2, NobodyElse, GuardInit, TypeStep, AloneStep, EditStep, GuardStep, PTL
        DEF Spec, EditsLoseNothing
-----------------------------------------------------------------------------
(* Snapshots: an entry is written when the snapshots it names exist, and   *)
(* one that exists is whole or being filled.                               *)

Named(e) == {e.before, e.after} \ {Absent}
Elements(s) == {s[i] : i \in DOMAIN s}

\* The snapshots w's entry names exist or are on its list.
NamesSaved(w) ==
  task[w].at \in InChange => \A c \in Named(task[w].entry) :
    snaps[c] # "none" \/ (task[w].at # "record" /\ c \in Elements(task[w].saves))

TornAreFilled == \A c \in Text : snaps[c] = "torn" => c \in Filling
LogIsSaved == \A i \in DOMAIN log : \A c \in Named(log[i]) : snaps[c] # "none"

SnapInv ==
  crashes = 0 => TornAreFilled /\ LogIsSaved /\ \A w \in Writers : NamesSaved(w)

\* What a write is saving is named by no entry, and what a rollback staged is what
\* its entry had replaced.
FreshFill(w) == At(w, "fill") => \A i \in DOMAIN log : Head(task[w].saves) \notin Named(log[i])
Staged(r) == At(r, "swap") => temp[Note(r)] = Undone(r).before

RollInv ==
  crashes = 0 => (\A w \in Writers : FreshFill(w)) /\ (\A r \in Undoers : Staged(r))

\* Who writes the log.
LEMMA LogKeeps ==
  ASSUME NEW t \in Tasks, Acts(t), ~Record(t), ~NoteRollback(t)
  PROVE  log' = log
<1>1. CASE Submit(t) \/ EditFile(t) \/ Undo(t) \/ ReadCurrent(t)
  BY <1>1, Zenon DEF Submit, EditFile, Undo, ReadCurrent, store
<1>2. CASE Lock(t) \/ Check(t) \/ Look(t) \/ Land(t)
  BY <1>2 DEF Lock, Check, Look, Land, store
<1>3. CASE Unlink(t) \/ LandFails(t) \/ Fail(t) \/ Return(t)
  BY <1>3 DEF Unlink, LandFails, Fail, Return, store
<1>4. CASE Save(t) \/ Fill(t) \/ SaveFails(t) \/ RecordFails(t)
  BY <1>4 DEF Save, Fill, SaveFails, RecordFails, store
<1>5. CASE UndoCreate(t) \/ Stage(t) \/ Swap(t) \/ UndoFails(t)
  BY <1>5 DEF UndoCreate, Stage, Swap, UndoFails, store
<1> QED BY <1>1, <1>2, <1>3, <1>4, <1>5
        DEF Acts, WriterActs, UndoerActs, Advance, UndoStep

LEMMA TailElements ==
  ASSUME NEW s \in Seq(Text), s # <<>>
  PROVE  Elements(s) \subseteq {Head(s)} \cup Elements(Tail(s))
<1> SUFFICES ASSUME NEW i \in DOMAIN s PROVE s[i] = Head(s) \/ \E j \in DOMAIN Tail(s) : Tail(s)[j] = s[i]
  BY DEF Elements
<1>1. /\ Len(s) \in Nat /\ i \in 1 .. Len(s) /\ Head(s) = s[1] /\ DOMAIN Tail(s) = 1 .. Len(s) - 1
      /\ \A j \in 1 .. Len(s) - 1 : Tail(s)[j] = s[j + 1]
  OBVIOUS
<1>2. i # 1 => i - 1 \in 1 .. Len(s) - 1 /\ (i - 1) + 1 = i
  BY <1>1
<1> QED BY <1>1, <1>2

\* Entries name text.
LEMMA NamedText ==
  ASSUME NEW e \in Entries
  PROVE  Named(e) \subseteq Text
  BY DEF Named, Entries

\* What the steps of a task do to the snapshots.
StartsFill(t) == /\ task[t].saves # <<>> /\ snaps[Head(task[t].saves)] = "none"
                 /\ snaps' = [snaps EXCEPT ![Head(task[t].saves)] = "torn"]
                 /\ task'[t] = [task[t] EXCEPT !.at = "fill"]

LEMMA SnapSteps ==
  ASSUME TypeInv, "save" \notin Failing, NEW t \in Tasks, Acts(t)
  PROVE  \/ snaps' = snaps /\ task[t].at # "fill"
         \/ Save(t) /\ StartsFill(t)
         \/ Fill(t)
<1>0. task \in [Tasks -> TaskType(Len(log))] /\ task[t] \in TaskType(Len(log))
  BY TaskFields
<1> USE DEF At
<1>1. CASE Submit(t) \/ EditFile(t) \/ Undo(t) \/ ReadCurrent(t)
  BY <1>1, Zenon DEF Submit, EditFile, Undo, ReadCurrent, store
<1>2. CASE Lock(t) \/ Check(t) \/ Look(t) \/ Land(t)
  BY <1>2 DEF Lock, Check, Look, Land, store
<1>3. CASE Unlink(t) \/ LandFails(t) \/ Fail(t) \/ Return(t)
  BY <1>3 DEF Unlink, LandFails, Fail, Return, store
<1>4. CASE Save(t)
  <2>1. task[t].at = "save"
    BY <1>4 DEF Save
  <2>2. CASE task[t].saves = <<>> \/ snaps[Head(task[t].saves)] # "none"
    BY <1>4, <2>1, <2>2 DEF Save
  <2>3. CASE task[t].saves # <<>> /\ snaps[Head(task[t].saves)] = "none"
    BY <1>0, <1>4, <2>3 DEF Save, StartsFill, Goto
  <2> QED BY <2>2, <2>3
<1>5. CASE Record(t) \/ RecordFails(t) \/ NoteRollback(t)
  BY <1>5 DEF Record, RecordFails, NoteRollback
<1>6. CASE UndoCreate(t) \/ Stage(t) \/ Swap(t) \/ UndoFails(t)
  BY <1>6 DEF UndoCreate, Stage, Swap, UndoFails, store
<1>7. ~SaveFails(t)
  BY DEF SaveFails
<1> QED BY <1>1, <1>2, <1>3, <1>4, <1>5, <1>6, <1>7
        DEF Acts, WriterActs, UndoerActs, Advance, UndoStep

\* No snapshot goes away.
LEMMA SnapsStay ==
  ASSUME TypeInv, "save" \notin Failing, NEW t \in Tasks, Acts(t), NEW c \in Text, snaps[c] # "none"
  PROVE  snaps'[c] # "none"
<1>0. snaps \in [Text -> {"none", "torn", "whole"}]
  BY DEF TypeInv, TypeOK
<1>1. CASE snaps' = snaps
  BY <1>1
<1>2. CASE StartsFill(t)
  BY <1>0, <1>2 DEF StartsFill
<1>3. CASE Fill(t)
  BY <1>0, <1>3 DEF Fill
<1> QED BY <1>1, <1>2, <1>3, SnapSteps

LEMMA TornStep ==
  ASSUME TypeInv, "save" \notin Failing, NEW t \in Tasks, Acts(t), TornAreFilled
  PROVE  TornAreFilled'
<1>0. /\ snaps \in [Text -> {"none", "torn", "whole"}] /\ task[t] \in TaskType(Len(log))
      /\ task[t].saves \in Seq(Text)
  BY TaskFields DEF TypeInv, TypeOK
<1> SUFFICES ASSUME NEW c \in Text, snaps'[c] = "torn"
             PROVE  \E u \in Tasks : task'[u].at = "fill" /\ Head(task'[u].saves) = c
  BY DEF TornAreFilled, Filling, At
<1>1. ASSUME snaps[c] = "torn"
      PROVE  \E u \in Tasks : task[u].at = "fill" /\ Head(task[u].saves) = c
  BY <1>1 DEF TornAreFilled, Filling, At
<1>2. ASSUME NEW u \in Tasks, u # t PROVE task'[u] = task[u]
  BY <1>2, OthersStay
<1>3. CASE snaps' = snaps /\ task[t].at # "fill"
  BY <1>1, <1>2, <1>3
<1>4. CASE Save(t) /\ StartsFill(t)
  <2>1. task'[t].at = "fill" /\ task'[t].saves = task[t].saves /\ task[t].at = "save"
    BY <1>0, <1>4 DEF StartsFill, TaskType, Save, At
  <2>2. CASE c = Head(task[t].saves)
    BY <2>1, <2>2
  <2>3. CASE c # Head(task[t].saves)
    <3>1. snaps[c] = "torn"
      BY <1>0, <1>4, <2>3 DEF StartsFill
    <3> QED BY <1>1, <1>2, <2>1, <3>1
  <2> QED BY <2>2, <2>3
<1>5. CASE Fill(t)
  <2>1. task[t].saves # <<>>
    BY <1>5 DEF TypeInv, Control, WriterCtl, UndoerCtl, Fill, At, Tasks
  <2>2. Head(task[t].saves) \in Text
    BY <1>0, <2>1, HeadTail
  <2>3. c # Head(task[t].saves) /\ snaps[c] = "torn"
    BY <1>0, <1>5, <2>2 DEF Fill
  <2> QED BY <1>1, <1>2, <2>3
<1> QED BY <1>3, <1>4, <1>5, SnapSteps

\* A rollback's own entry names no snapshot; a write's names what exists.
LEMMA LogSavedStep ==
  ASSUME TypeInv, "save" \notin Failing, NEW t \in Tasks, Acts(t), LogIsSaved,
         t \in Writers => NamesSaved(t)
  PROVE  LogIsSaved'
<1>0. log \in Seq(Entries)
  BY DEF TypeInv, TypeOK
<1>1. ASSUME NEW i \in DOMAIN log, NEW c \in Named(log[i]) PROVE snaps'[c] # "none"
  <2>1. c \in Text
    BY <1>0, <1>1, NamedText
  <2> QED BY <1>1, <2>1, SnapsStay DEF LogIsSaved
<1>2. CASE log' = log
  BY <1>1, <1>2 DEF LogIsSaved
<1>3. ASSUME NEW e \in Entries, log' = Append(log, e), \A c \in Named(e) : snaps'[c] # "none"
      PROVE  LogIsSaved'
  <2>1. DOMAIN log' = 1 .. Len(log) + 1 /\ DOMAIN log = 1 .. Len(log) /\ Len(log) \in Nat
    BY <1>0, <1>3
  <2>2. log'[Len(log) + 1] = e /\ \A i \in 1 .. Len(log) : log'[i] = log[i]
    BY <1>0, <1>3
  <2>3. ASSUME NEW i \in 1 .. Len(log) + 1 PROVE i \in 1 .. Len(log) \/ i = Len(log) + 1
    BY <2>1
  <2>4. ASSUME NEW i \in DOMAIN log', NEW c \in Named(log'[i]) PROVE snaps'[c] # "none"
    <3>1. CASE i \in 1 .. Len(log)
      BY <1>1, <2>1, <2>2, <2>4, <3>1
    <3>2. CASE i = Len(log) + 1
      BY <1>3, <2>2, <2>4, <3>2
    <3> QED BY <2>1, <2>3, <2>4, <3>1, <3>2
  <2> QED BY <2>4 DEF LogIsSaved
<1>4. CASE t \in Writers /\ Record(t)
  <2>1. task[t].at = "record" /\ task[t].entry \in Entries /\ snaps' = snaps
    BY <1>4 DEF Record, At, TypeInv, Control, WriterCtl, InChange
  <2>2. \A c \in Named(task[t].entry) : snaps'[c] # "none"
    BY <1>4, <2>1 DEF NamesSaved, InChange
  <2> QED BY <1>2, <1>3, <1>4, <2>1, <2>2 DEF Record, Append1
<1>5. CASE t \in Undoers /\ NoteRollback(t)
  <2>1. Entry("rollback", Note(t), Note(t)) \in Entries
    BY <1>5, NoteType, RollbackEntry DEF NoteRollback, At, InUndo
  <2>2. Named(Entry("rollback", Note(t), Note(t))) = {}
    BY DEF Named, Entry
  <2> QED BY <1>2, <1>3, <1>5, <2>1, <2>2 DEF NoteRollback, Append1
<1>6. CASE ~Record(t) /\ ~NoteRollback(t)
  BY <1>2, <1>6, LogKeeps
<1>7. t \in Undoers => ~Record(t)
  BY DEF Record, At, TypeInv, Control, UndoerCtl, InUndo
<1>8. t \in Writers => ~NoteRollback(t)
  BY DEF NoteRollback, At, TypeInv, Control, WriterCtl, InWrite
<1> QED BY <1>4, <1>5, <1>6, <1>7, <1>8 DEF Tasks

\* What a write's steps do to its entry and to its list of snapshots.
LEMMA EntryStays ==
  ASSUME TypeInv, "save" \notin Failing, NEW w \in Writers, Acts(w), task'[w].at \in InChange
  PROVE  \/ Look(w)
         \/ /\ task[w].at \in InChange /\ task'[w].entry = task[w].entry
            /\ \/ task'[w].saves = task[w].saves /\ (task'[w].at = "record" => task[w].saves = <<>>)
               \/ /\ task[w].saves # <<>> /\ task'[w].at # "record"
                  /\ task'[w].saves = Tail(task[w].saves)
                  /\ snaps[Head(task[w].saves)] # "none" \/ Fill(w)
<1>0. task \in [Tasks -> TaskType(Len(log))] /\ w \in Tasks /\ task[w] \in TaskType(Len(log))
      /\ WriterCtl(w) /\ w \notin Undoers
  BY TaskFields DEF Tasks, TypeInv, Control
<1>1. CASE Submit(w) \/ EditFile(w) \/ Lock(w) \/ Check(w)
  BY <1>1, Stops DEF InChange
<1>2. CASE Land(w) \/ LandFails(w) \/ Unlink(w)
  <2>1. PICK x \in Stations : task'[w] = [task[w] EXCEPT !.at = x]
    <3>1. CASE Land(w)
      BY <1>0, <3>1 DEF Land, Goto, Stations
    <3>2. CASE LandFails(w)
      BY <1>0, <3>2 DEF LandFails, Goto, Stations
    <3>3. CASE Unlink(w)
      BY <1>0, <3>3 DEF Unlink, Goto, Stations
    <3> QED BY <1>2, <3>1, <3>2, <3>3
  <2>2. task'[w].entry = task[w].entry /\ task'[w].saves = task[w].saves
    BY <1>0, <2>1 DEF TaskType
  <2>3. task[w].at \in InChange /\ task'[w].at # "record"
    BY <1>2, Stops DEF InChange
  <2> QED BY <2>2, <2>3
<1>3. CASE Fail(w) \/ Return(w) \/ Record(w) \/ RecordFails(w)
  BY <1>3, Stops DEF InChange
<1>4. CASE Save(w)
  <2>0. task[w].at = "save"
    BY <1>4 DEF Save, At
  <2>1. CASE task[w].saves = <<>>
    <3>1. task'[w] = [task[w] EXCEPT !.at = "record"]
      BY <1>0, <1>4, <2>1 DEF Save, Goto, AfterSaves
    <3>2. task'[w].entry = task[w].entry /\ task'[w].saves = task[w].saves
      BY <1>0, <3>1 DEF TaskType
    <3> QED BY <2>0, <2>1, <3>2 DEF InChange
  <2>3. CASE task[w].saves # <<>> /\ snaps[Head(task[w].saves)] = "none"
    <3>1. task'[w] = [task[w] EXCEPT !.at = "fill"]
      BY <1>0, <1>4, <2>3 DEF Save, Goto
    <3>2. /\ task'[w].entry = task[w].entry /\ task'[w].saves = task[w].saves
          /\ task'[w].at = "fill"
      BY <1>0, <3>1 DEF TaskType
    <3> QED BY <2>0, <3>2 DEF InChange
  <2>2. CASE task[w].saves # <<>> /\ snaps[Head(task[w].saves)] # "none"
    <3>1. task'[w] = [task[w] EXCEPT !.saves = Tail(task[w].saves)]
      BY <1>0, <1>4, <2>2 DEF Save
    <3>2. /\ task'[w].entry = task[w].entry /\ task'[w].saves = Tail(task[w].saves)
          /\ task'[w].at = "save"
      BY <1>0, <2>0, <3>1 DEF TaskType
    <3> QED BY <2>0, <2>2, <3>2 DEF InChange
  <2> QED BY <2>1, <2>2, <2>3
<1>5. CASE Fill(w)
  <2>1. task[w].at = "fill" /\ task[w].saves # <<>>
    BY <1>0, <1>5 DEF Fill, At, WriterCtl
  <2>2. task'[w] = [task[w] EXCEPT !.at = "save", !.saves = Tail(task[w].saves)]
    BY <1>0, <1>5 DEF Fill
  <2>3. /\ task'[w].entry = task[w].entry /\ task'[w].saves = Tail(task[w].saves)
        /\ task'[w].at = "save"
    BY <1>0, <2>2 DEF TaskType
  <2> QED BY <1>5, <2>1, <2>3 DEF InChange
<1>6. ~SaveFails(w)
  BY DEF SaveFails
<1> QED BY <1>0, <1>1, <1>2, <1>3, <1>4, <1>5, <1>6 DEF Acts, WriterActs, Advance

\* What a write asks to be saved when it has looked.
LEMMA LookSaves ==
  ASSUME TypeInv, NEW w \in Writers, Look(w)
  PROVE  /\ \A c \in Named(task'[w].entry) : c \in Elements(task'[w].saves)
         /\ task'[w].at # "record"
<1> DEFINE c == Now(w)
           before == files[Source(c)]
<1>1. task[w] \in TaskType(Len(log)) /\ task \in [Tasks -> TaskType(Len(log))] /\ w \in Tasks
  BY TaskFields DEF Tasks
<1>2. task[w].todo # <<>>
  BY DEF Look
<1>3. c \in Change /\ before \in Blob
  BY <1>2, NowType, SourceType DEF TypeInv, TypeOK
<1>4. task'[w] = [task[w] EXCEPT !.at = IF c.op = "rename" /\ before = Absent THEN "failed" ELSE "land",
                                 !.entry = EntryOf(c, before),
                                 !.saves = Snapshots(before, Produced(c, before))]
  BY <1>1 DEF Look
<1>5. Produced(c, before) \in Blob
  BY <1>3, ProducedType
<1> HIDE DEF c, before
<1>6. /\ task'[w].entry = EntryOf(c, before)
      /\ task'[w].saves = Snapshots(before, Produced(c, before))
      /\ task'[w].at # "record"
  BY <1>1, <1>4 DEF TaskType
<1>7. /\ EntryOf(c, before).before = IF before \in Text THEN before ELSE Absent
      /\ EntryOf(c, before).after =
           IF Produced(c, before) \in Text THEN Produced(c, before) ELSE Absent
  BY DEF EntryOf, Entry
<1>8. /\ before \in Text => before \in Elements(Snapshots(before, Produced(c, before)))
      /\ Produced(c, before) \in Text =>
           Produced(c, before) \in Elements(Snapshots(before, Produced(c, before)))
  BY <1>3, <1>5, SnapshotsType DEF Elements
<1> QED BY <1>6, <1>7, <1>8 DEF Named

LEMMA NamesStep ==
  ASSUME TypeInv, TypeInv', "save" \notin Failing, NEW t \in Tasks, Acts(t), NEW w \in Writers,
         NamesSaved(w)
  PROVE  NamesSaved(w)'
<1> SUFFICES ASSUME task'[w].at \in InChange, NEW c \in Named(task'[w].entry)
             PROVE  snaps'[c] # "none"
                      \/ (task'[w].at # "record" /\ c \in Elements(task'[w].saves))
  BY DEF NamesSaved
<1>0. c \in Text
  BY NamedText DEF TypeInv, Control, WriterCtl
<1>1. CASE w # t
  <2>1. task'[w] = task[w]
    BY <1>1, OthersStay DEF Tasks
  <2> QED BY <1>0, <2>1, SnapsStay DEF NamesSaved
<1>2. CASE w = t
  <2>1. CASE Look(w)
    BY <2>1, LookSaves
  <2>2. CASE ~Look(w)
    <3>1. /\ task[w].at \in InChange /\ c \in Named(task[w].entry)
      BY <1>2, <2>2, EntryStays
    <3>2. CASE snaps[c] # "none"
      BY <1>0, <3>2, SnapsStay
    <3>3. CASE snaps[c] = "none"
      <4>1. c \in Elements(task[w].saves)
        BY <3>1, <3>3 DEF NamesSaved
      <4>2. task[w].saves # <<>>
        BY <4>1 DEF Elements
      <4>3. CASE task'[w].saves = task[w].saves /\ (task'[w].at = "record" => task[w].saves = <<>>)
        BY <4>1, <4>2, <4>3
      <4>4. CASE /\ task'[w].at # "record" /\ task'[w].saves = Tail(task[w].saves)
                 /\ snaps[Head(task[w].saves)] # "none" \/ Fill(w)
        <5>1. c = Head(task[w].saves) \/ c \in Elements(task'[w].saves)
          BY <4>1, <4>2, <4>4, TailElements, TaskFields DEF Tasks
        <5>2. CASE Fill(w) /\ c = Head(task[w].saves)
          BY <1>0, <5>2 DEF Fill, TypeInv, TypeOK
        <5> QED BY <3>3, <4>4, <5>1, <5>2
      <4> QED BY <1>2, <2>2, <4>3, <4>4, EntryStays
    <3> QED BY <3>2, <3>3
  <2> QED BY <2>1, <2>2
<1> QED BY <1>1, <1>2

\* Who counts crashes.
LEMMA ActCrashes ==
  ASSUME NEW t \in Tasks, Acts(t)
  PROVE  crashes' = crashes
<1>1. CASE Submit(t) \/ EditFile(t) \/ Undo(t) \/ ReadCurrent(t)
  BY <1>1, Zenon DEF Submit, EditFile, Undo, ReadCurrent, bounds
<1>2. CASE Lock(t) \/ Check(t) \/ Look(t) \/ Land(t)
  BY <1>2 DEF Lock, Check, Look, Land, bounds
<1>3. CASE Unlink(t) \/ LandFails(t) \/ Fail(t) \/ Return(t)
  BY <1>3 DEF Unlink, LandFails, Fail, Return, bounds
<1>4. CASE Save(t) \/ Fill(t) \/ SaveFails(t) \/ RecordFails(t) \/ Record(t)
  BY <1>4 DEF Save, Fill, SaveFails, RecordFails, Record, bounds
<1>5. CASE UndoCreate(t) \/ Stage(t) \/ Swap(t) \/ UndoFails(t) \/ NoteRollback(t)
  BY <1>5 DEF UndoCreate, Stage, Swap, UndoFails, NoteRollback, bounds
<1> QED BY <1>1, <1>2, <1>3, <1>4, <1>5
        DEF Acts, WriterActs, UndoerActs, Advance, UndoStep

\* As long as nothing crashed, a step is a task's, an edit's beside the process, or none.
LEMMA UncrashedSteps ==
  ASSUME TypeInv, [Next]_vars, crashes' = 0
  PROVE  /\ crashes = 0
         /\ \/ \E t \in Tasks : Acts(t)
            \/ UNCHANGED <<temp, snaps, log, task>>
<1>1. CASE Crash
  BY <1>1 DEF Crash, TypeInv, Counts
<1>2. CASE EditOutside \/ UNCHANGED vars
  BY <1>2 DEF EditOutside, vars, store, bounds
<1> QED BY <1>1, <1>2, ActCrashes, NextActs

LEMMA SnapStep ==
  ASSUME "save" \notin Failing
  PROVE  TypeInv /\ SnapInv /\ [Next]_vars => SnapInv'
<1> SUFFICES ASSUME TypeInv, SnapInv, [Next]_vars, crashes' = 0
             PROVE  TornAreFilled' /\ LogIsSaved' /\ \A w \in Writers : NamesSaved(w)'
  BY DEF SnapInv
<1>0. TornAreFilled /\ LogIsSaved /\ (\A w \in Writers : NamesSaved(w)) /\ TypeInv'
  BY UncrashedSteps, TypeStep DEF SnapInv
<1>1. CASE UNCHANGED <<temp, snaps, log, task>>
  BY <1>0, <1>1 DEF TornAreFilled, Filling, At, LogIsSaved, NamesSaved
<1>2. ASSUME NEW t \in Tasks, Acts(t)
      PROVE  TornAreFilled' /\ LogIsSaved' /\ \A w \in Writers : NamesSaved(w)'
  BY <1>0, <1>2, TornStep, LogSavedStep, NamesStep
<1> QED BY <1>1, <1>2, UncrashedSteps

LEMMA SnapInit == Init => SnapInv
<1> SUFFICES ASSUME Init PROVE SnapInv
  OBVIOUS
<1>1. \A t \in Tasks : task[t].at = "idle"
  BY DEF Init, Idle
<1>2. \A c \in Text : snaps[c] = "none"
  BY DEF Init
<1>3. log = <<>>
  BY DEF Init
<1> QED BY <1>1, <1>2, <1>3 DEF SnapInv, TornAreFilled, LogIsSaved, NamesSaved, InChange, Tasks

\* When the snapshot store does not fail, every snapshot an entry names is whole or
\* being filled until the process crashes, whoever writes, rolls back, edits beside
\* the process or fails at anything else.
THEOREM SnapshotsWhole ==
  ASSUME "save" \notin Failing
  PROVE  Spec => [](crashes = 0 => SnapshotsAreWhole)
<1>1. TypeInv /\ SnapInv => (crashes = 0 => SnapshotsAreWhole)
  <2> SUFFICES ASSUME TypeInv, SnapInv, crashes = 0, NEW i \in DOMAIN log,
                      NEW c \in Named(log[i]), c \notin Filling
               PROVE  snaps[c] = "whole"
    BY DEF SnapshotsAreWhole, Named
  <2>1. c \in Text
    BY NamedText DEF TypeInv, TypeOK
  <2>2. snaps[c] # "none" /\ snaps[c] # "torn"
    BY <2>1 DEF SnapInv, LogIsSaved, TornAreFilled
  <2> QED BY <2>1, <2>2 DEF TypeInv, TypeOK
<1> QED BY TypeInit, TypeStep, SnapInit, SnapStep, <1>1, PTL DEF Spec

-----------------------------------------------------------------------------
(* Rollbacks: what is staged is a whole snapshot.                          *)

\* An entry of the log stays, and a new one was a write's, which saved all it
\* names, or a rollback's, which names nothing.
LEMMA FreshStep ==
  ASSUME TypeInv, "save" \notin Failing, NEW t \in Tasks, Acts(t), NEW w \in Writers,
         LogIsSaved, FreshFill(w)
  PROVE  FreshFill(w)'
<1>0. /\ task \in [Tasks -> TaskType(Len(log))] /\ w \in Tasks /\ task[w] \in TaskType(Len(log))
      /\ log \in Seq(Entries)
  BY TaskFields DEF Tasks, TypeInv, TypeOK
<1> SUFFICES ASSUME task'[w].at = "fill", NEW i \in DOMAIN log'
             PROVE  Head(task'[w].saves) \notin Named(log'[i])
  BY DEF FreshFill, At
<1>1. CASE w = t
  <2>1. Save(w) /\ StartsFill(w)
    <3>1. ~(Submit(w) \/ EditFile(w) \/ Lock(w) \/ Check(w) \/ Look(w) \/ Land(w))
      BY Stops
    <3>2. ~(Unlink(w) \/ LandFails(w) \/ Fail(w) \/ Return(w) \/ Fill(w) \/ SaveFails(w))
      BY Stops
    <3>3. ~(Record(w) \/ RecordFails(w)) /\ w \notin Undoers
      BY Stops DEF Tasks
    <3>4. Save(w)
      BY <1>1, <3>1, <3>2, <3>3 DEF Acts, WriterActs, Advance
    <3>5. task[w].at = "save"
      BY <3>4, Stops
    <3>6. ASSUME task[w].saves = <<>> PROVE FALSE
      <4>1. task'[w] = [task[w] EXCEPT !.at = "record"]
        BY <1>0, <3>3, <3>4, <3>6 DEF Save, Goto, AfterSaves
      <4> QED BY <1>0, <4>1 DEF TaskType
    <3>8. ASSUME task[w].saves # <<>>, snaps[Head(task[w].saves)] # "none" PROVE FALSE
      <4>1. task'[w] = [task[w] EXCEPT !.saves = Tail(task[w].saves)]
        BY <1>0, <3>4, <3>8 DEF Save
      <4> QED BY <1>0, <3>5, <4>1 DEF TaskType
    <3>7. StartsFill(w)
      BY <1>0, <3>4, <3>6, <3>8 DEF Save, StartsFill, Goto
    <3> QED BY <3>4, <3>7
  <2>2. log' = log /\ task'[w].saves = task[w].saves
    BY <1>0, <2>1 DEF Save, StartsFill, TaskType
  <2>3. snaps[Head(task[w].saves)] = "none"
    BY <2>1 DEF StartsFill
  <2> QED BY <2>2, <2>3 DEF LogIsSaved
<1>2. CASE w # t
  <2>1. task'[w] = task[w] /\ task[w].at = "fill"
    BY <1>2, OthersStay DEF Tasks
  <2>2. ~Record(t)
    <3>1. ASSUME t \in Writers, Record(t) PROVE FALSE
      <4>1. task[t].at \in InWrite /\ task[w].at \in InWrite
        BY <2>1, <3>1 DEF Record, At, InWrite
      <4> QED BY <1>2, <3>1, <4>1, OneInside
    <3>2. t \in Undoers => ~Record(t)
      BY DEF Record, At, TypeInv, Control, UndoerCtl, InUndo
    <3> QED BY <3>1, <3>2 DEF Tasks
  <2>3. CASE log' = log
    BY <2>1, <2>3 DEF FreshFill, At
  <2>4. CASE NoteRollback(t) /\ ~cut
    <3>1. t \in Undoers
      BY <2>4 DEF NoteRollback, At, TypeInv, Control, WriterCtl, InWrite, Tasks
    <3> DEFINE e == Entry("rollback", Note(t), Note(t))
    <3>2. e \in Entries
      BY <2>4, <3>1, NoteType, RollbackEntry DEF NoteRollback, At, InUndo
    <3>3. Named(e) = {}
      BY DEF Named, Entry
    <3>4. log' = Append(log, e)
      BY <2>4 DEF NoteRollback, Append1
    <3> HIDE DEF e
    <3>5. DOMAIN log' = 1 .. Len(log) + 1 /\ DOMAIN log = 1 .. Len(log) /\ Len(log) \in Nat
      BY <1>0, <3>2, <3>4
    <3>6. log'[Len(log) + 1] = e /\ \A j \in 1 .. Len(log) : log'[j] = log[j]
      BY <1>0, <3>2, <3>4
    <3>7. i \in 1 .. Len(log) \/ i = Len(log) + 1
      BY <3>5
    <3>8. CASE i \in 1 .. Len(log)
      BY <2>1, <3>5, <3>6, <3>8 DEF FreshFill, At
    <3>9. CASE i = Len(log) + 1
      BY <3>3, <3>6, <3>9
    <3> QED BY <3>7, <3>8, <3>9
  <2>5. NoteRollback(t) /\ cut => log' = log
    BY DEF NoteRollback, Append1
  <2> QED BY <2>2, <2>3, <2>4, <2>5, LogKeeps
<1> QED BY <1>1, <1>2

\* Only rollbacks stage files.
LEMMA TempStays ==
  ASSUME TypeInv, NEW t \in Tasks, Acts(t), ~(t \in Undoers /\ (Stage(t) \/ Swap(t) \/ UndoFails(t)))
  PROVE  temp' = temp
<1>1. CASE Submit(t) \/ EditFile(t) \/ Undo(t) \/ ReadCurrent(t)
  BY <1>1, Zenon DEF Submit, EditFile, Undo, ReadCurrent
<1>2. CASE Lock(t) \/ Check(t) \/ Look(t) \/ Land(t)
  BY <1>2 DEF Lock, Check, Look, Land
<1>3. CASE Unlink(t) \/ LandFails(t) \/ Fail(t) \/ Return(t)
  BY <1>3 DEF Unlink, LandFails, Fail, Return
<1>4. CASE Save(t) \/ Fill(t) \/ SaveFails(t) \/ RecordFails(t) \/ Record(t)
  BY <1>4 DEF Save, Fill, SaveFails, RecordFails, Record
<1>5. CASE UndoCreate(t) \/ NoteRollback(t)
  BY <1>5 DEF UndoCreate, NoteRollback
<1> QED BY <1>1, <1>2, <1>3, <1>4, <1>5
        DEF Acts, WriterActs, UndoerActs, Advance, UndoStep

\* How a rollback gets to the swap, and leaves it.
LEMMA SwapStops ==
  ASSUME TypeInv, NEW r \in Undoers, Acts(r)
  PROVE  /\ task'[r].at = "swap" => Stage(r)
         /\ task'[r].at = "note" /\ task[r].at = "swap" => Swap(r)
         /\ Stage(r) => task'[r].undoes = task[r].undoes \/ task'[r] = Idle
<1>0. /\ task \in [Tasks -> TaskType(Len(log))] /\ r \in Tasks /\ task[r] \in TaskType(Len(log))
      /\ r \notin Writers /\ Idle.at = "idle"
  BY TaskFields DEF Tasks, Idle
<1> USE <1>0 DEF At, Goto
<1>1. CASE Undo(r)
  <2>1. PICK i \in DOMAIN log :
          task' = [task EXCEPT ![r] = [Idle EXCEPT !.at = "read", !.undoes = i]]
    BY <1>1, Zenon DEF Undo
  <2>2. task'[r].at = "read"
    BY <2>1 DEF Idle
  <2>3. task[r].at = "idle"
    BY <1>1, Zenon DEF Undo, At
  <2>4. ~Stage(r)
    BY <2>3 DEF Stage
  <2> QED BY <2>2, <2>4
<1>2. CASE ReadCurrent(r)
  <2>1. task[r].at = "read"
    BY <1>2 DEF ReadCurrent
  <2>2. task'[r].at \in {"act", "save", "idle"}
    <3> DEFINE now == files[Note(r)]
    <3>1. CASE now = Absent
      <4>1. task'[r] = [task[r] EXCEPT !.at = "act"]
        BY <1>2, <3>1 DEF ReadCurrent
      <4> QED BY <4>1 DEF TaskType
    <3>2. CASE now \in Text
      <4>1. task'[r] = [task[r] EXCEPT !.at = "save", !.saves = <<now>>]
        BY <1>2, <3>2 DEF ReadCurrent
      <4> HIDE DEF now
      <4> QED BY <4>1 DEF TaskType
    <3>3. CASE now \notin Text \cup {Absent}
      BY <1>2, <3>3 DEF ReadCurrent
    <3> QED BY <3>1, <3>2, <3>3
  <2> QED BY <2>1, <2>2 DEF Stage
<1>3. CASE Save(r) \/ Fill(r) \/ SaveFails(r)
  <2>1. task[r].at \in {"save", "fill"}
    BY <1>3 DEF Save, Fill, SaveFails
  <2>2. task'[r].at \in {"save", "fill", "act", "idle"}
    <3>1. CASE Save(r)
      BY <3>1 DEF Save, AfterSaves, TaskType
    <3>2. CASE Fill(r)
      BY <3>2 DEF Fill, TaskType
    <3>3. CASE SaveFails(r)
      BY <3>3 DEF SaveFails
    <3> QED BY <1>3, <3>1, <3>2, <3>3
  <2> QED BY <2>1, <2>2 DEF Stage
<1>4. CASE UndoCreate(r)
  BY <1>4 DEF UndoCreate, Stage, TaskType
<1>5. CASE Stage(r)
  <2>1. task[r].at = "act"
    BY <1>5 DEF Stage
  <2>2. task'[r].undoes = task[r].undoes \/ task'[r] = Idle
    BY <1>5 DEF Stage, TaskType
  <2> QED BY <1>5, <2>1, <2>2
<1>6. CASE Swap(r)
  BY <1>6 DEF Swap, Stage, TaskType
<1>7. CASE UndoFails(r) \/ NoteRollback(r)
  <2>1. task'[r] = Idle
    BY <1>7 DEF UndoFails, NoteRollback
  <2>2. Stage(r) => task[r].at = "act" /\ log' = log
    BY DEF Stage, store
  <2> QED BY <2>1
<1>8. CASE RecordFails(r)
  <2>1. task'[r] = Idle
    BY <1>8 DEF RecordFails, Recorded
  <2> QED BY <2>1
<1> QED BY <1>0, <1>1, <1>2, <1>3, <1>4, <1>5, <1>6, <1>7, <1>8 DEF Acts, UndoerActs, UndoStep

\* A whole snapshot is staged: one that is being filled is not in the log, or this
\* rollback would be filling it.
LEMMA StageWhole ==
  ASSUME TypeInv, SnapInv, RollInv, crashes = 0, \A r, s \in Undoers : r = s,
         NEW r \in Undoers, Stage(r), task'[r].at = "swap"
  PROVE  temp' = [temp EXCEPT ![Note(r)] = Undone(r).before]
<1>0. /\ task \in [Tasks -> TaskType(Len(log))] /\ r \in Tasks /\ task[r].at = "act"
      /\ Idle.at = "idle"
  BY TaskFields DEF Tasks, Idle, Stage, At
<1>1. /\ task[r].undoes \in DOMAIN log /\ Undone(r).before \in Text \cup {Absent}
  BY <1>0, NoteType DEF InUndo, TypeInv, Control, UndoerCtl
<1>2. /\ Undone(r).before # Absent /\ snaps[Undone(r).before] # "none"
      /\ temp' = [temp EXCEPT ![Note(r)] =
                    IF snaps[Undone(r).before] = "whole" THEN Undone(r).before ELSE Torn]
  BY <1>0 DEF Stage, Restored
<1>3. Undone(r).before \in Named(log[task[r].undoes])
  BY <1>2 DEF Named, Undone
<1>4. Undone(r).before \notin Filling
  <2> SUFFICES ASSUME NEW u \in Tasks, task[u].at = "fill", Head(task[u].saves) = Undone(r).before
               PROVE  FALSE
    BY DEF Filling, At
  <2>1. u \in Writers
    BY <1>0 DEF Tasks
  <2> QED BY <1>1, <1>3, <2>1 DEF RollInv, FreshFill, At
<1>5. snaps[Undone(r).before] # "torn"
  BY <1>1, <1>2, <1>4 DEF SnapInv, TornAreFilled
<1> QED BY <1>1, <1>2, <1>5 DEF TypeInv, TypeOK

LEMMA RollStep ==
  ASSUME "save" \notin Failing, \A r, s \in Undoers : r = s
  PROVE  TypeInv /\ SnapInv /\ RollInv /\ [Next]_vars => RollInv'
<1> SUFFICES ASSUME TypeInv, SnapInv, RollInv, [Next]_vars, crashes' = 0
             PROVE  (\A w \in Writers : FreshFill(w)') /\ (\A r \in Undoers : Staged(r)')
  BY DEF RollInv
<1>0. /\ crashes = 0 /\ LogIsSaved /\ (\A w \in Writers : FreshFill(w))
      /\ \A r \in Undoers : Staged(r)
  BY UncrashedSteps DEF SnapInv, RollInv
<1>1. CASE UNCHANGED <<temp, snaps, log, task>>
  BY <1>0, <1>1 DEF FreshFill, Staged, At, Note, Undone
<1>2. ASSUME NEW t \in Tasks, Acts(t), NEW r \in Undoers, task'[r].at = "swap"
      PROVE  temp'[Note(r)'] = Undone(r)'.before
  <2>0. r \in Tasks /\ temp \in Tree
    BY DEF Tasks, TypeInv, TypeOK
  <2>1. CASE t = r
    <3>1. Stage(r) /\ task[r].at = "act"
      BY <1>2, <2>1, SwapStops DEF Stage, At
    <3>2. temp' = [temp EXCEPT ![Note(r)] = Undone(r).before]
      BY <1>0, <1>2, <3>1, StageWhole
    <3>3. log' = log
      BY <3>1 DEF Stage, store
    <3>4. task'[r].undoes = task[r].undoes
      BY <1>2, <2>1, <3>1, SwapStops DEF Idle
    <3>5. Note(r) \in Paths
      BY <3>1, NoteType DEF InUndo
    <3> QED BY <2>0, <3>2, <3>3, <3>4, <3>5 DEF Note, Undone, Tree
  <2>2. CASE t # r
    <3>1. task'[r] = task[r] /\ t \notin Undoers
      BY <1>2, <2>0, <2>2, OthersStay
    <3>2. temp' = temp
      BY <1>2, <3>1, TempStays
    <3>3. task[r].undoes \in DOMAIN log
      BY <1>2, <3>1 DEF InUndo, TypeInv, Control, UndoerCtl
    <3>4. log'[task[r].undoes] = log[task[r].undoes]
      BY <1>2, <3>3, ActLog, LogMore
    <3> QED BY <1>0, <1>2, <3>1, <3>2, <3>4 DEF Staged, At, Note, Undone
  <2> QED BY <2>1, <2>2
<1>3. ASSUME NEW t \in Tasks, Acts(t), NEW w \in Writers PROVE FreshFill(w)'
  BY <1>0, <1>3, FreshStep
<1>4. ASSUME NEW t \in Tasks, Acts(t), NEW r \in Undoers PROVE Staged(r)'
  BY <1>2, <1>4 DEF Staged, At
<1> QED BY <1>1, <1>3, <1>4, UncrashedSteps

LEMMA RollInit == Init => RollInv
<1> SUFFICES ASSUME Init PROVE RollInv
  OBVIOUS
<1>1. \A t \in Tasks : task[t].at = "idle"
  BY DEF Init, Idle
<1> QED BY <1>1 DEF RollInv, FreshFill, Staged, At, Tasks

\* With one rollback at a time, a snapshot store that does not fail and no crash, a
\* rollback puts back exactly what its entry says the note held, whatever is
\* written, edited or fails meanwhile.
THEOREM RollbacksRestore ==
  ASSUME "save" \notin Failing, MaxCrashes = 0, \A r, s \in Undoers : r = s
  PROVE  Spec => RollbackRestores
<1>1. Init => crashes = 0
  BY DEF Init
<1>2. TypeInv /\ crashes = 0 /\ [Next]_vars => (crashes = 0)'
  BY ActCrashes, NextActs DEF Crash, EditOutside, vars, bounds
<1>3. ASSUME TypeInv, RollInv, crashes = 0, [Next]_vars, NEW r \in Undoers,
             At(r, "swap"), task'[r].at = "note"
      PROVE  files'[Note(r)] = Undone(r).before
  <2>1. r \in Tasks /\ task[r].at = "swap" /\ task'[r] # task[r]
    BY <1>3 DEF Tasks, At
  <2>2. ~Crash /\ ~EditOutside /\ ~UNCHANGED vars
    BY <2>1, <1>3 DEF Crash, EditOutside, vars, Idle
  <2>3. Acts(r)
    BY <1>3, <2>1, <2>2, NextActs, OthersStay
  <2>4. Swap(r)
    BY <1>3, <2>1, <2>3, SwapStops
  <2>5. Note(r) \in Paths /\ files \in Tree
    BY <1>3, <2>1, NoteType DEF InUndo, TypeInv, TypeOK
  <2>6. temp[Note(r)] = Undone(r).before
    BY <1>3 DEF RollInv, Staged
  <2>7. task[r] \in TaskType(Len(log)) /\ task \in [Tasks -> TaskType(Len(log))]
    BY <1>3, <2>1, TaskFields
  <2>8. files' = [files EXCEPT ![Note(r)] = temp[Note(r)]]
    BY <1>3, <2>1, <2>4, <2>7 DEF Swap, Idle
  <2> QED BY <2>5, <2>6, <2>8 DEF Tree
<1>4. TypeInv /\ RollInv /\ crashes = 0 /\ [Next]_vars =>
        [\A r \in Undoers : At(r, "swap") /\ task'[r].at = "note" =>
           files'[Note(r)] = Undone(r).before]_vars
  BY <1>3
<1>5. TypeInv /\ SnapInv /\ [Next]_vars => SnapInv'
  BY SnapStep
<1>6. TypeInv /\ SnapInv /\ RollInv /\ [Next]_vars => RollInv'
  BY RollStep
<1> QED BY TypeInit, TypeStep, SnapInit, RollInit, <1>1, <1>2, <1>4, <1>5, <1>6, PTL
        DEF Spec, RollbackRestores

-----------------------------------------------------------------------------
(* The log replays to the vault: each change is logged as what it does, in *)
(* the order the changes landed, and the log counts what it misses.        *)

\* An entry that names what its change wrote.
Kept(e) == e.after = Absent => e.op = "delete"
LogKept == \A i \in Written : Kept(log[i])

\* The log says that path p holds v.
Tells(p, v) ==
  \/ /\ v = first[p]
     /\ \A i \in DOMAIN log : ~About(log[i], p)
  \/ \E i \in DOMAIN log :
       /\ About(log[i], p)
       /\ v = Leaves(log[i], p)
       /\ \A j \in i + 1 .. Len(log) : ~About(log[j], p)

\* Entry e of a change that has not landed says what the change will do.
Foretells(e, c) ==
  /\ \A p \in Paths : About(e, p) <=> p \in TouchedBy(c)
  /\ Kept(e) => \A p \in TouchedBy(c) : Leaves(e, p) = Effect(c, files, p)

\* Nothing is pending: the log misses nothing it does not count.
Settled == Cardinality(Written) <= landed /\ (LogIsWhole => Replayed)

\* The change of w has landed: the log and its entry together tell the vault.
AlmostTold(w) ==
  /\ Cardinality(Written) + 1 <= landed
  /\ landed = Cardinality(Written) + 1 /\ LogKept /\ Kept(task[w].entry) =>
       \A p \in Paths : IF About(task[w].entry, p) THEN files[p] = Leaves(task[w].entry, p)
                                                   ELSE Tells(p, files[p])

ReplayInv ==
  Alone =>
    /\ ~SomePending => Settled
    /\ \A w \in Writers : task[w].at = "land" => Foretells(task[w].entry, Now(w))
    /\ \A w \in Writers : Pending(w) => AlmostTold(w)

LEMMA ReplayedTells == Replayed <=> \A p \in Paths : Tells(p, files[p])
  BY DEF Replayed, Tells

LEMMA WholeKept == LogIsWhole <=> landed = Cardinality(Written) /\ LogKept
  BY DEF LogIsWhole, LogKept, Kept

\* The entry made of a change says what it will do.
LEMMA EntryForetells ==
  ASSUME files \in Tree, NEW c \in Change
  PROVE  Foretells(EntryOf(c, files[Source(c)]), c)
<1> DEFINE before == files[Source(c)]
           e == EntryOf(c, before)
<1>1. CASE c.op = "upsert"
  <2>1. /\ e.op \in {"create", "update"} /\ e.path = c.path /\ e.to = c.path
        /\ e.after = IF c.content \in Text THEN c.content ELSE Absent
    BY <1>1 DEF EntryOf, Entry, Source, Produced
  <2> HIDE DEF e
  <2>2. TouchedBy(c) = {c.path} /\ \A p \in TouchedBy(c) : Effect(c, files, p) = c.content
    BY <1>1 DEF TouchedBy, Effect
  <2> QED BY <2>1, <2>2 DEF Foretells, About, Leaves, Kept, e
<1>2. CASE c.op = "remove"
  <2>1. e.op = "delete" /\ e.path = c.path /\ e.to = c.path
    BY <1>2 DEF EntryOf, Entry, Source
  <2> HIDE DEF e
  <2>2. TouchedBy(c) = {c.path} /\ \A p \in TouchedBy(c) : Effect(c, files, p) = Absent
    BY <1>2 DEF TouchedBy, Effect
  <2> QED BY <2>1, <2>2 DEF Foretells, About, Leaves, e
<1>3. CASE c.op = "rename"
  <2>1. /\ e.op = "move" /\ e.path = c.from /\ e.to = c.to
        /\ e.after = IF files[c.from] \in Text THEN files[c.from] ELSE Absent
    BY <1>3 DEF EntryOf, Entry, Source, Produced
  <2> HIDE DEF e
  <2>2. /\ TouchedBy(c) = {c.from, c.to}
        /\ \A p \in TouchedBy(c) :
             Effect(c, files, p) = IF p = c.to THEN files[c.from] ELSE Absent
    BY <1>3 DEF TouchedBy, Effect
  <2>3. \A p \in Paths : About(e, p) <=> p \in TouchedBy(c)
    BY <2>1, <2>2 DEF About
  <2>4. Kept(e) => e.after = files[c.from]
    BY <2>1 DEF Kept
  <2>5. ASSUME Kept(e), NEW p \in TouchedBy(c) PROVE Leaves(e, p) = Effect(c, files, p)
    BY <2>1, <2>2, <2>4, <2>5 DEF Leaves
  <2> QED BY <2>3, <2>5 DEF Foretells, e
<1> QED BY <1>1, <1>2, <1>3, ChangeShape

\* What the log tells once it has one entry more.
LEMMA TellsAppend ==
  ASSUME TypeInv, NEW e \in Entries, log' = Append(log, e), first' = first,
         NEW p \in Paths, NEW v, IF About(e, p) THEN v = Leaves(e, p) ELSE Tells(p, v)
  PROVE  /\ v = first'[p] /\ (\A i \in DOMAIN log' : ~About(log'[i], p))
         \/ \E i \in DOMAIN log' :
              /\ About(log'[i], p)
              /\ v = Leaves(log'[i], p)
              /\ \A j \in i + 1 .. Len(log') : ~About(log'[j], p)
<1>1. /\ log \in Seq(Entries) /\ Len(log) \in Nat /\ Len(log') = Len(log) + 1
      /\ DOMAIN log = 1 .. Len(log) /\ DOMAIN log' = 1 .. Len(log) + 1
  BY DEF TypeInv, TypeOK
<1>2. log'[Len(log) + 1] = e /\ \A i \in 1 .. Len(log) : log'[i] = log[i]
  BY <1>1
<1>3. /\ Len(log) + 1 \in DOMAIN log'
      /\ \A j \in (Len(log) + 1) + 1 .. Len(log') : FALSE
      /\ \A i \in DOMAIN log : i \in DOMAIN log'
      /\ \A i \in DOMAIN log' : i \in 1 .. Len(log) \/ i = Len(log) + 1
  BY <1>1
<1>4. \A i \in DOMAIN log : \A j \in i + 1 .. Len(log') : j \in i + 1 .. Len(log) \/ j = Len(log) + 1
  BY <1>1
<1>5. \A i \in DOMAIN log : \A j \in i + 1 .. Len(log) : j \in 1 .. Len(log)
  BY <1>1
<1>6. CASE About(e, p)
  BY <1>2, <1>3, <1>6
<1>7. CASE ~About(e, p) /\ v = first[p] /\ \A i \in DOMAIN log : ~About(log[i], p)
  BY <1>1, <1>2, <1>3, <1>7
<1>8. ASSUME ~About(e, p), NEW i \in DOMAIN log, About(log[i], p), v = Leaves(log[i], p),
             \A j \in i + 1 .. Len(log) : ~About(log[j], p)
      PROVE  /\ i \in DOMAIN log' /\ About(log'[i], p) /\ v = Leaves(log'[i], p)
             /\ \A j \in i + 1 .. Len(log') : ~About(log'[j], p)
  <2>1. i \in DOMAIN log' /\ log'[i] = log[i]
    BY <1>1, <1>2, <1>3
  <2>2. ASSUME NEW j \in i + 1 .. Len(log') PROVE ~About(log'[j], p)
    BY <1>2, <1>4, <1>5, <1>8
  <2> QED BY <1>8, <2>1, <2>2
<1> QED BY <1>6, <1>7, <1>8 DEF Tells

LEMMA KeptAppend ==
  ASSUME TypeInv, NEW e \in Entries, e.op # "rollback", log' = Append(log, e), LogKept'
  PROVE  LogKept /\ Kept(e)
<1>1. /\ log \in Seq(Entries) /\ Len(log) \in Nat
      /\ DOMAIN log = 1 .. Len(log) /\ DOMAIN log' = 1 .. Len(log) + 1
  BY DEF TypeInv, TypeOK
<1>2. log'[Len(log) + 1] = e /\ \A i \in 1 .. Len(log) : log'[i] = log[i]
  BY <1>1
<1>3. Written' = Written \cup {Len(log) + 1}
  BY WrittenGrows
<1>4. \A i \in Written : i \in 1 .. Len(log)
  BY <1>1 DEF Written
<1> QED BY <1>2, <1>3, <1>4 DEF LogKept

\* Nobody forgets how the vault was at the start.
LEMMA FirstStays ==
  ASSUME [Next]_vars
  PROVE  first' = first
<1>0. ASSUME NEW t \in Tasks, Acts(t) PROVE first' = first
  <2>1. CASE Submit(t) \/ EditFile(t) \/ Undo(t) \/ ReadCurrent(t)
    BY <2>1, Zenon DEF Submit, EditFile, Undo, ReadCurrent
  <2>2. CASE Lock(t) \/ Check(t) \/ Look(t) \/ Land(t)
    BY <2>2 DEF Lock, Check, Look, Land
  <2>3. CASE Unlink(t) \/ LandFails(t) \/ Fail(t) \/ Return(t)
    BY <2>3 DEF Unlink, LandFails, Fail, Return
  <2>4. CASE Save(t) \/ Fill(t) \/ SaveFails(t) \/ RecordFails(t) \/ Record(t)
    BY <2>4 DEF Save, Fill, SaveFails, RecordFails, Record
  <2>5. CASE UndoCreate(t) \/ Stage(t) \/ Swap(t) \/ UndoFails(t) \/ NoteRollback(t)
    BY <2>5 DEF UndoCreate, Stage, Swap, UndoFails, NoteRollback
  <2> QED BY <1>0, <2>1, <2>2, <2>3, <2>4, <2>5
          DEF Acts, WriterActs, UndoerActs, Advance, UndoStep
<1>1. CASE Crash \/ EditOutside \/ UNCHANGED vars
  BY <1>1 DEF Crash, EditOutside, vars
<1> QED BY <1>0, <1>1, NextActs

\* Steps that leave the vault, the log and the count of changes alone.
Same == files' = files /\ log' = log /\ landed' = landed /\ first' = first

LEMMA SettledSame ==
  ASSUME Same
  PROVE  (Settled' <=> Settled) /\ \A p, v : Tells(p, v)' <=> Tells(p, v)
<1>1. Settled' <=> Settled
  BY DEF Same, Settled, LogIsWhole, Replayed, Written
<1>2. ASSUME NEW p, NEW v PROVE Tells(p, v)' <=> Tells(p, v)
  BY DEF Same, Tells
<1> QED BY <1>1, <1>2

LEMMA WriterSame ==
  ASSUME TypeInv, Mounted = {}, first' = first, NEW w \in Writers, Acts(w), ~Record(w),
         Land(w) => task'[w].at # "save"
  PROVE  Same
<1>0. w \notin Undoers /\ task \in [Tasks -> TaskType(Len(log))] /\ w \in Tasks
      /\ task[w] \in TaskType(Len(log))
  BY TaskFields DEF Tasks
<1>1. ~NoteRollback(w) /\ ~Unlink(w)
  BY DEF NoteRollback, Unlink, At, TypeInv, Control, WriterCtl, InWrite, Crosses
<1>2. log' = log
  BY <1>0, <1>1, LogKeeps
<1>3. CASE Land(w)
  <2>1. files' = files /\ landed' = landed
    BY <1>0, <1>3 DEF Land, Goto, TaskType, Crosses
  <2> QED BY <1>2, <2>1 DEF Same
<1>4. CASE LandFails(w)
  <2>1. files' = files /\ landed' = landed
    BY <1>4 DEF LandFails, HalfCopied, Crosses
  <2> QED BY <1>2, <2>1 DEF Same
<1>5. CASE ~Land(w) /\ ~LandFails(w)
  <2>1. files' = files
    BY <1>1, <1>5, FilesStay
  <2>2. landed' = landed
    <3>1. CASE Submit(w) \/ EditFile(w)
      BY <3>1, Zenon DEF Submit, EditFile
    <3>2. CASE Lock(w) \/ Check(w) \/ Look(w) \/ Fail(w)
      BY <3>2 DEF Lock, Check, Look, Fail
    <3>3. CASE Return(w) \/ Save(w) \/ Fill(w) \/ SaveFails(w) \/ RecordFails(w)
      BY <3>3 DEF Return, Save, Fill, SaveFails, RecordFails
    <3> QED BY <1>0, <1>1, <1>5, <3>1, <3>2, <3>3 DEF Acts, WriterActs, Advance
  <2> QED BY <1>2, <2>1, <2>2 DEF Same
<1> QED BY <1>3, <1>4, <1>5

LEMMA LookForetells ==
  ASSUME TypeInv, NEW w \in Writers, Look(w)
  PROVE  Foretells(task[w].entry, Now(w))'
<1> DEFINE c == Now(w)
           before == files[Source(c)]
<1>1. task[w] \in TaskType(Len(log)) /\ task \in [Tasks -> TaskType(Len(log))] /\ w \in Tasks
  BY TaskFields DEF Tasks
<1>2. task[w].todo # <<>> /\ files' = files /\ files \in Tree
  BY DEF Look, TypeInv, TypeOK
<1>3. c \in Change
  BY <1>2, NowType
<1>4. task'[w] = [task[w] EXCEPT !.at = IF c.op = "rename" /\ before = Absent THEN "failed" ELSE "land",
                                 !.entry = EntryOf(c, before),
                                 !.saves = Snapshots(before, Produced(c, before))]
  BY <1>1 DEF Look
<1> HIDE DEF c, before
<1>5. task'[w].entry = EntryOf(c, before) /\ task'[w].todo = task[w].todo
  BY <1>1, <1>4 DEF TaskType
<1>6. Foretells(EntryOf(c, before), c)
  BY <1>2, <1>3, EntryForetells DEF before
<1>7. Now(w)' = c
  BY <1>5 DEF Now, c
<1> QED BY <1>2, <1>5, <1>6, <1>7 DEF Foretells

\* A change lands: the log told what was there, the entry what was to come.
LEMMA LandTold ==
  ASSUME TypeInv, Alone, ReplayInv, Mounted = {}, first' = first,
         NEW w \in Writers, Land(w), task'[w].at = "save"
  PROVE  AlmostTold(w)'
<1>0. /\ task[w] \in TaskType(Len(log)) /\ task \in [Tasks -> TaskType(Len(log))] /\ w \in Tasks
      /\ task[w].at = "land" /\ landed \in Nat /\ Cardinality(Written) \in Nat
      /\ task[w].at # "save" /\ task[w].at # "fill" /\ task[w].at # "record"
  BY TaskFields, WrittenCard DEF Tasks, Land, At, TypeInv, TypeOK
<1>1. ~SomePending
  <2>1. ASSUME NEW v \in Writers, Pending(v) PROVE FALSE
    <3>1. v = w
      BY <1>0, <2>1, OneInside DEF Pending, InWrite
    <3> QED BY <1>0, <2>1, <3>1 DEF Pending
  <2> QED BY <2>1 DEF SomePending
<1>2. Settled /\ Foretells(task[w].entry, Now(w))
  BY <1>0, <1>1 DEF ReplayInv
<1>3. /\ files' = [p \in Paths |-> IF p \in TouchedBy(Now(w)) THEN Effect(Now(w), files, p) ELSE files[p]]
      /\ landed' = landed + 1 /\ log' = log
      /\ task'[w] = [task[w] EXCEPT !.at = "save"]
  <2>1. ~(Now(w).op # "upsert" /\ files[task[w].entry.path] = Absent)
    BY <1>0 DEF Land, Goto, TaskType
  <2> QED BY <1>0, <2>1 DEF Land, Goto, Crosses, store
<1>4. task'[w].entry = task[w].entry
  BY <1>0, <1>3 DEF TaskType
<1>5. Cardinality(Written)' = Cardinality(Written) /\ (LogKept' <=> LogKept)
  BY <1>3 DEF Written, LogKept
<1>6. Cardinality(Written) + 1 <= landed'
  BY <1>0, <1>2, <1>3 DEF Settled
<1>7. ASSUME landed' = Cardinality(Written) + 1, LogKept, Kept(task[w].entry), NEW p \in Paths
      PROVE  IF About(task[w].entry, p) THEN files'[p] = Leaves(task[w].entry, p)
                                        ELSE Tells(p, files[p]) /\ files'[p] = files[p]
  <2>1. landed = Cardinality(Written)
    BY <1>0, <1>3, <1>7
  <2>2. Tells(p, files[p])
    BY <1>2, <1>7, <2>1, WholeKept, ReplayedTells DEF Settled
  <2> QED BY <1>2, <1>3, <1>7, <2>2 DEF Foretells
<1>8. \A p, v : Tells(p, v)' <=> Tells(p, v)
  BY <1>3 DEF Tells
<1> QED BY <1>4, <1>5, <1>6, <1>7, <1>8 DEF AlmostTold

\* What a write in hand tells is not changed by making its snapshots.
LEMMA SaveTold ==
  ASSUME TypeInv, Same, NEW w \in Writers, Save(w) \/ Fill(w) \/ SaveFails(w), AlmostTold(w)
  PROVE  AlmostTold(w)'
<1>0. /\ task \in [Tasks -> TaskType(Len(log))] /\ w \in Tasks /\ task[w] \in TaskType(Len(log))
      /\ w \notin Undoers /\ task[w].entry \in Entries
  BY TaskFields DEF Tasks, TypeInv, Control, WriterCtl, InChange, Save, Fill, SaveFails, At
<1>1. task'[w].entry \in {task[w].entry, Unsaved(w)}
  <2>1. CASE Save(w)
    <3>1. CASE task[w].saves = <<>> \/ snaps[Head(task[w].saves)] = "none"
      <4>1. PICK x \in Stations : task'[w] = [task[w] EXCEPT !.at = x]
        BY <1>0, <2>1, <3>1 DEF Save, Goto, AfterSaves, Stations
      <4> QED BY <1>0, <4>1 DEF TaskType
    <3>2. CASE task[w].saves # <<>> /\ snaps[Head(task[w].saves)] # "none"
      <4>1. task'[w] = [task[w] EXCEPT !.saves = Tail(task[w].saves)]
        BY <1>0, <2>1, <3>2 DEF Save
      <4> QED BY <1>0, <4>1 DEF TaskType
    <3> QED BY <3>1, <3>2
  <2>2. CASE Fill(w)
    <3>1. task'[w] = [task[w] EXCEPT !.at = "save", !.saves = Tail(task[w].saves)]
      BY <1>0, <2>2 DEF Fill
    <3> QED BY <1>0, <3>1 DEF TaskType
  <2>3. CASE SaveFails(w)
    <3>1. task'[w] = [task[w] EXCEPT !.at = "save", !.saves = Tail(task[w].saves), !.entry = Unsaved(w)]
      BY <1>0, <2>3 DEF SaveFails
    <3> QED BY <1>0, <3>1 DEF TaskType
  <2> QED BY <2>1, <2>2, <2>3
<1>2. /\ Kept(task'[w].entry) => Kept(task[w].entry)
      /\ \A p : /\ About(task'[w].entry, p) <=> About(task[w].entry, p)
                /\ Kept(task'[w].entry) => Leaves(task'[w].entry, p) = Leaves(task[w].entry, p)
  <2>1. CASE task'[w].entry = task[w].entry
    BY <2>1
  <2>2. CASE task'[w].entry = Unsaved(w)
    <3>1. /\ Unsaved(w).op = task[w].entry.op /\ Unsaved(w).path = task[w].entry.path
          /\ Unsaved(w).to = task[w].entry.to
          /\ Unsaved(w).after = task[w].entry.after \/ Unsaved(w).after = Absent
      BY <1>0 DEF Unsaved, Entries
    <3> QED BY <2>2, <3>1 DEF Kept, About, Leaves
  <2> QED BY <1>1, <2>1, <2>2
<1>3. /\ \A p, v : Tells(p, v)' <=> Tells(p, v)
      /\ Cardinality(Written)' = Cardinality(Written) /\ (LogKept' <=> LogKept)
  BY SettledSame DEF Same, Written, LogKept
<1> QED BY <1>2, <1>3 DEF AlmostTold, Same

\* The entry is written, or lost and counted.
LEMMA RecordSettles ==
  ASSUME TypeInv, first' = first, NEW w \in Writers, Record(w) \/ RecordFails(w), AlmostTold(w)
  PROVE  Settled'
<1>0. /\ task[w].at = "record" /\ task[w].entry \in Entries /\ task[w].entry.op # "rollback"
      /\ landed \in Nat /\ Cardinality(Written) \in Nat /\ files' = files /\ landed' = landed
  BY Stops, WrittenCard DEF Record, RecordFails, TypeInv, TypeOK, Control, WriterCtl, InChange
<1>1. CASE log' = log
  <2>1. Cardinality(Written)' = Cardinality(Written)
    BY <1>1 DEF Written
  <2>2. landed' # Cardinality(Written)' /\ Cardinality(Written)' <= landed'
    BY <1>0, <2>1 DEF AlmostTold
  <2> QED BY <2>2 DEF Settled, LogIsWhole
<1>2. CASE log' = Append(log, task[w].entry)
  <2>1. Cardinality(Written') = Cardinality(Written) + 1
    BY <1>0, <1>2, WrittenGrows
  <2>2. Cardinality(Written') <= landed'
    BY <1>0, <2>1 DEF AlmostTold
  <2>3. ASSUME LogIsWhole', NEW p \in Paths
        PROVE  \/ files'[p] = first'[p] /\ (\A i \in DOMAIN log' : ~About(log'[i], p))
               \/ \E i \in DOMAIN log' :
                    /\ About(log'[i], p)
                    /\ files'[p] = Leaves(log'[i], p)
                    /\ \A j \in i + 1 .. Len(log') : ~About(log'[j], p)
    <3>1. landed' = Cardinality(Written') /\ LogKept'
      BY <2>3 DEF LogIsWhole, LogKept, Kept
    <3>2. LogKept /\ Kept(task[w].entry)
      BY <1>0, <1>2, <3>1, KeptAppend
    <3>3. IF About(task[w].entry, p) THEN files[p] = Leaves(task[w].entry, p) ELSE Tells(p, files[p])
      BY <1>0, <2>1, <3>1, <3>2 DEF AlmostTold
    <3>4. ASSUME NEW e \in Entries, e = task[w].entry, NEW v, v = files[p]
          PROVE  \/ v = first'[p] /\ (\A i \in DOMAIN log' : ~About(log'[i], p))
                 \/ \E i \in DOMAIN log' :
                      /\ About(log'[i], p)
                      /\ v = Leaves(log'[i], p)
                      /\ \A j \in i + 1 .. Len(log') : ~About(log'[j], p)
      <4>1. IF About(e, p) THEN v = Leaves(e, p) ELSE Tells(p, v)
        BY <3>3, <3>4
      <4>2. log' = Append(log, e)
        BY <1>2, <3>4
      <4> QED BY <4>1, <4>2, TellsAppend
    <3> QED BY <1>0, <3>4
  <2> QED BY <2>2, <2>3 DEF Settled, Replayed
<1>3. log' = log \/ log' = Append(log, task[w].entry)
  BY DEF Record, RecordFails, Append1
<1> QED BY <1>1, <1>2, <1>3

\* A write's own steps.
LEMMA ReplayOwn ==
  ASSUME TypeInv, Alone, ReplayInv, Mounted = {}, first' = first, NEW w \in Writers, Acts(w)
  PROVE  /\ ~SomePending' => Settled'
         /\ task'[w].at = "land" => Foretells(task[w].entry, Now(w))'
         /\ Pending(w)' => AlmostTold(w)'
<1>0. w \in Tasks /\ w \notin Undoers /\ (Pending(w) => SomePending /\ AlmostTold(w))
      /\ (~SomePending => Settled)
  BY DEF Tasks, ReplayInv, SomePending
<1>1. CASE Submit(w) \/ EditFile(w) \/ Lock(w)
  <2>1. task[w].at \notin InWrite /\ task'[w].at \in {"enter", "check"}
    BY <1>1, Stops DEF InWrite
  <2>2. Same
    BY <1>1, <2>1, Stops, WriterSame
  <2>3. SomePending' <=> SomePending
    BY <1>0, <2>1, PendingOutside
  <2> QED BY <1>0, <2>1, <2>2, <2>3, SettledSame DEF Pending
<1>2. CASE Check(w) \/ Look(w) \/ Fail(w) \/ Return(w) \/ LandFails(w)
  <2>1. /\ task[w].at \in {"check", "look", "land", "failed"}
        /\ task'[w].at \in {"check", "look", "land", "failed", "idle"}
        /\ ~Land(w) \/ task'[w].at # "save"
    BY <1>2, Stops
  <2>2. ~SomePending
    BY <1>0, <2>1, PendingInside DEF InWrite, Pending
  <2>3. Same
    BY <1>2, <2>1, Stops, WriterSame
  <2>4. task'[w].at = "land" => Look(w)
    BY <1>2, Stops
  <2> QED BY <1>0, <2>1, <2>2, <2>3, <2>4, SettledSame, LookForetells DEF Pending
<1>3. CASE Land(w)
  <2>1. task[w].at = "land" /\ task'[w].at \in {"failed", "unlink", "save"}
    BY <1>3, Stops
  <2>2. CASE task'[w].at = "save"
    <3>1. SomePending'
      BY <2>2 DEF SomePending, Pending
    <3> QED BY <1>3, <2>2, <3>1, LandTold
  <2>3. CASE task'[w].at # "save"
    <3>1. Same /\ ~SomePending
      BY <1>0, <1>3, <2>1, <2>3, Stops, WriterSame, PendingInside DEF InWrite, Pending
    <3> QED BY <1>0, <2>1, <2>3, <3>1, SettledSame DEF Pending
  <2> QED BY <2>2, <2>3
<1>4. CASE Save(w) \/ Fill(w) \/ SaveFails(w)
  <2>1. task[w].at \in {"save", "fill"} /\ task'[w].at \in {"save", "fill", "record"}
    BY <1>4, Stops
  <2>2. Same
    BY <1>4, <2>1, Stops, WriterSame
  <2>3. SomePending'
    BY <2>1 DEF SomePending, Pending
  <2>4. AlmostTold(w)'
    BY <1>0, <1>4, <2>1, <2>2, SaveTold DEF Pending
  <2> QED BY <2>1, <2>3, <2>4
<1>5. CASE Record(w) \/ RecordFails(w)
  <2>1. task[w].at = "record" /\ task'[w].at = "look"
    BY <1>5, Stops
  <2>2. Settled'
    BY <1>0, <1>5, <2>1, RecordSettles DEF Pending
  <2> QED BY <2>1, <2>2 DEF Pending
<1>6. ~Unlink(w)
  BY DEF Unlink, At, TypeInv, Control, WriterCtl, Crosses
<1> QED BY <1>0, <1>1, <1>2, <1>3, <1>4, <1>5, <1>6 DEF Acts, WriterActs, Advance

\* Another write's steps: while this one is at the files, they touch nothing it knows.
LEMMA ReplayOther ==
  ASSUME TypeInv, Alone, ReplayInv, Mounted = {}, first' = first,
         NEW w \in Writers, NEW v \in Writers, v # w, Acts(v)
  PROVE  /\ task'[w].at = "land" => Foretells(task[w].entry, Now(w))'
         /\ Pending(w)' => AlmostTold(w)'
<1>1. task'[w] = task[w]
  BY OthersStay DEF Tasks
<1>2. CASE task[w].at \notin InWrite
  BY <1>1, <1>2 DEF InWrite, Pending
<1>3. CASE task[w].at \in InWrite
  <2>1. task[v].at \notin InWrite
    BY <1>3, OneInside
  <2>2. Same
    BY <2>1, Stops, WriterSame DEF InWrite
  <2>3. task[w].at = "land" => Foretells(task[w].entry, Now(w))
    BY DEF ReplayInv
  <2>4. task'[w].at = "land" => Foretells(task[w].entry, Now(w))'
    BY <1>1, <2>2, <2>3 DEF Foretells, Now, Same, Effect
  <2>5. Pending(w) => AlmostTold(w)
    BY DEF ReplayInv
  <2>6. /\ \A p, x : Tells(p, x)' <=> Tells(p, x)
        /\ Cardinality(Written)' = Cardinality(Written) /\ (LogKept' <=> LogKept)
    BY <2>2, SettledSame DEF Same, Written, LogKept
  <2>7. Pending(w)' => AlmostTold(w)'
    BY <1>1, <2>2, <2>5, <2>6 DEF AlmostTold, Same, Pending
  <2> QED BY <2>4, <2>7
<1> QED BY <1>2, <1>3

LEMMA ReplayStep ==
  ASSUME Mounted = {}
  PROVE  TypeInv /\ AloneInv /\ ReplayInv /\ [Next]_vars => ReplayInv'
<1> SUFFICES ASSUME TypeInv, AloneInv, ReplayInv, [Next]_vars, Alone'
             PROVE  /\ ~SomePending' => Settled'
                    /\ \A w \in Writers : task'[w].at = "land" => Foretells(task[w].entry, Now(w))'
                    /\ \A w \in Writers : Pending(w)' => AlmostTold(w)'
  BY DEF ReplayInv
<1>0. Alone /\ first' = first
  <2>1. \A v \in Writers : Acts(v) => edits' = edits
    BY WriterCounts
  <2>2. Crash => edits' = edits
    BY DEF Crash
  <2> QED BY <2>1, <2>2, AloneSteps, FirstStays DEF Alone
<1>1. CASE Crash
  <2>1. \A w \in Writers : task'[w].at = "idle"
    BY <1>1 DEF Crash, Idle, Tasks
  <2>2. files' = files /\ log' = log /\ landed' = landed
    BY <1>1 DEF Crash, HalfCopied, Crosses
  <2>3. landed \in Nat /\ Cardinality(Written) \in Nat
    BY WrittenCard DEF TypeInv, TypeOK
  <2>4. Settled
    <3>1. CASE ~SomePending
      BY <1>0, <3>1 DEF ReplayInv
    <3>2. ASSUME NEW w \in Writers, Pending(w) PROVE Settled
      <4>1. Cardinality(Written) + 1 <= landed
        BY <1>0, <3>2 DEF ReplayInv, AlmostTold
      <4> QED BY <2>3, <4>1 DEF Settled, LogIsWhole
    <3> QED BY <3>1, <3>2 DEF SomePending
  <2> QED BY <1>0, <2>1, <2>2, <2>4, SettledSame DEF Same, Pending
<1>2. CASE UNCHANGED vars
  <2>1. Same /\ task' = task
    BY <1>2 DEF vars, store, Same
  <2>2. /\ Settled' <=> Settled
        /\ \A p, x : Tells(p, x)' <=> Tells(p, x)
        /\ Cardinality(Written)' = Cardinality(Written) /\ (LogKept' <=> LogKept)
    BY <2>1, SettledSame DEF Same, Written, LogKept
  <2>3. SomePending' <=> SomePending
    BY <2>1 DEF SomePending, Pending
  <2>4. ASSUME NEW w \in Writers
        PROVE  /\ task'[w].at = "land" => Foretells(task[w].entry, Now(w))'
               /\ Pending(w)' => AlmostTold(w)'
    <3>1. /\ task[w].at = "land" => Foretells(task[w].entry, Now(w))
          /\ Pending(w) => AlmostTold(w)
      BY <1>0 DEF ReplayInv
    <3>2. Foretells(task[w].entry, Now(w)) => Foretells(task[w].entry, Now(w))'
      BY <2>1 DEF Foretells, Now, Same, Effect
    <3>3. AlmostTold(w) => AlmostTold(w)'
      BY <2>1, <2>2 DEF AlmostTold, Same
    <3> QED BY <2>1, <3>1, <3>2, <3>3 DEF Pending
  <2> QED BY <1>0, <2>2, <2>3, <2>4 DEF ReplayInv
<1>3. ASSUME NEW v \in Writers, Acts(v)
      PROVE  /\ ~SomePending' => Settled'
             /\ \A w \in Writers : task'[w].at = "land" => Foretells(task[w].entry, Now(w))'
             /\ \A w \in Writers : Pending(w)' => AlmostTold(w)'
  <2>1. /\ ~SomePending' => Settled'
        /\ task'[v].at = "land" => Foretells(task[v].entry, Now(v))'
        /\ Pending(v)' => AlmostTold(v)'
    BY <1>0, <1>3, ReplayOwn
  <2>2. ASSUME NEW w \in Writers, w # v
        PROVE  /\ task'[w].at = "land" => Foretells(task[w].entry, Now(w))'
               /\ Pending(w)' => AlmostTold(w)'
    BY <1>0, <1>3, <2>2, ReplayOther
  <2> QED BY <2>1, <2>2
<1> QED BY <1>1, <1>2, <1>3, AloneSteps DEF Alone

LEMMA ReplayInit == Init => ReplayInv
<1> SUFFICES ASSUME Init PROVE ReplayInv
  OBVIOUS
<1>1. Written = {} /\ log = <<>> /\ landed = 0 /\ files = first
  BY DEF Init, Written
<1>2. Cardinality(Written) = 0
  BY <1>1, FS_EmptySet
<1>3. Settled
  BY <1>1, <1>2 DEF Settled, Replayed
<1>4. \A w \in Writers : task[w].at = "idle"
  BY DEF Init, Idle, Tasks
<1> QED BY <1>3, <1>4 DEF ReplayInv, Pending

\* When nothing is mounted, the audit log accounts for the vault until somebody edits
\* beside the process or rolls back: whatever fails or crashes, a log that misses
\* nothing it counts replays to the vault, and what it misses is bounded.
THEOREM AuditAccounts ==
  ASSUME Mounted = {}
  PROVE  Spec => [](edits = 0 /\ undos = 0 => AuditAccountsForTheVault)
<1>1. TypeInv /\ GapInv => AuditGapsAreBounded
  BY FreeMeansNothingPending, WrittenCard
     DEF GapInv, AuditGapsAreBounded, TypeInv, TypeOK, Counts
<1>2. TypeInv /\ GapInv /\ ReplayInv => (edits = 0 /\ undos = 0 => AuditAccountsForTheVault)
  BY <1>1, FreeMeansNothingPending DEF Alone, ReplayInv, Settled, AuditAccountsForTheVault, AuditReplays
<1>3. TypeInv /\ AloneInv /\ ReplayInv /\ [Next]_vars => ReplayInv'
  BY ReplayStep
<1> QED BY TypeInit, TypeStep, GapInit, GapStep, GuardInit, AloneStep, ReplayInit, <1>2, <1>3, PTL
        DEF Spec
=============================================================================

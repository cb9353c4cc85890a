------------------------------ MODULE GitCommit ------------------------------
(***************************************************************************)
(* One commit per applied plan: turbovault-git's commit_changeset with     *)
(* everything it goes through.                                             *)
(*                                                                         *)
(* Writers are calls running in the server processes that share one        *)
(* worktree.  A call takes its process's commit mutex, then the worktree's *)
(* file lock, reads the branch tip, checks the working tree and the        *)
(* preconditions, builds a tree, advances the ref by compare-and-swap, and *)
(* only then reveals the commit: the touched files one by one, then the    *)
(* whole index, then the reindex hook.  A process may crash between any    *)
(* two steps, and file system calls of the reveal may fail.                *)
(*                                                                         *)
(* A person shares the worktree and takes none of these locks: edits       *)
(* files, stages them, commits them with git, checks HEAD out.             *)
(*                                                                         *)
(* A commit's id is its position in the branch: commits are immutable and  *)
(* nothing modelled here rewinds the branch.                               *)
(***************************************************************************)
EXTENDS VaultTree, FiniteSets

CONSTANTS
  Procs,        \* server processes
  Writers,      \* concurrent calls
  ProcOf,       \* ProcOf[w]: the process w runs in
  Plans,        \* the plans callers submit
  External,     \* author of a commit made with git itself
  NoPlan,       \* what such a commit was asked to do
  Nobody,       \* the holder of a free lock
  MaxRetries,   \* rebuilds of a commit that keeps losing (code: 8)
  MaxOps,       \* bound: calls per writer
  MaxEdits,     \* bound: edits by the person
  MaxCommits,   \* bound: the person commits only while the log is shorter
  MaxFaults     \* bound: crashes and failed file system calls

ASSUME ConstantsAssumption ==
  /\ ProcOf \in [Writers -> Procs]
  /\ Plans \subseteq ChangePlan
  /\ NoPlan \notin ChangePlan
  /\ External \notin Writers
  /\ Nobody \notin Writers \cup Procs
  /\ {MaxRetries, MaxOps, MaxEdits, MaxCommits, MaxFaults} \subseteq Nat

VARIABLES
  log,      \* the branch: sequence of commits [tree, by, plan]
  work,     \* the working tree
  index,    \* the tree the git index holds
  mutex,    \* mutex[p]: the call holding process p's commit mutex
  flock,    \* the process holding .git/turbovault-write.lock
  hooks,    \* hooks[p]: what the commit hook pushed on p's reindex queue
  pc,       \* control state of each call
  plan,     \* its plan
  tip,      \* the branch tip it read (length of the log)
  built,    \* the tree it built
  tries,    \* compare-and-swaps it has lost
  todo,     \* touched paths it has not materialized yet
  reply,    \* its result, once decided
  since,    \* history variable: length of the log when the call was made
  raced,    \* history variable: the person acted while a call held the lock
  ops, edits, faults   \* what the bounds count

repo   == <<log, work, index>>
locks  == <<mutex, flock>>
local  == <<pc, plan, tip, built, tries, todo, reply>>
bounds == <<raced, ops, edits, faults>>
vars   == <<repo, locks, hooks, local, since, bounds>>

Commit(tree, by, p) == [tree |-> tree, by |-> by, plan |-> p]

TreeAt(i) == IF i = 0 THEN EmptyTree ELSE log[i].tree
HeadTree  == TreeAt(Len(log))

Steps == {"idle", "begin", "mutex", "read", "prepare", "cas",
          "reveal", "sync", "hook", "unlock"}
Replies == {"none", "committed", "noop", "conflict", "error"}

Init ==
  /\ log \in {<<>>} \cup {<<Commit(t, External, NoPlan)>> : t \in Tree}
  /\ work = HeadTree
  /\ index = HeadTree
  /\ mutex = [p \in Procs |-> Nobody]
  /\ flock = Nobody
  /\ hooks = [p \in Procs |-> <<>>]
  /\ pc    = [w \in Writers |-> "idle"]
  /\ plan  = [w \in Writers |-> NoPlan]
  /\ tip   = [w \in Writers |-> 0]
  /\ built = [w \in Writers |-> EmptyTree]
  /\ tries = [w \in Writers |-> 0]
  /\ todo  = [w \in Writers |-> {}]
  /\ reply = [w \in Writers |-> "none"]
  /\ since = [w \in Writers |-> 0]
  /\ ops   = [w \in Writers |-> 0]
  /\ raced = "no"
  /\ edits = 0
  /\ faults = 0

-----------------------------------------------------------------------------
(* Calls.                                                                  *)

Goto(w, from, to) == pc[w] = from /\ pc' = [pc EXCEPT ![w] = to]

\* Leave the commit closure with result r; the locks go next.
Leave(w, from, r) == Goto(w, from, "unlock") /\ reply' = [reply EXCEPT ![w] = r]

Submit(w) ==
  /\ Goto(w, "idle", "begin")
  /\ ops[w] < MaxOps
  /\ ops' = [ops EXCEPT ![w] = @ + 1]
  /\ \E p \in Plans : plan' = [plan EXCEPT ![w] = p]
  /\ since' = [since EXCEPT ![w] = Len(log)]
  /\ UNCHANGED <<repo, locks, hooks, tip, built, tries, todo, reply, raced, edits, faults>>

Malformed(p) == p.changes = <<>> \/ Duplicated(p)

\* An empty plan, or one that mutates a path twice, never reaches the lock.
Reject(w) ==
  /\ Leave(w, "begin", "error")
  /\ Malformed(plan[w])
  /\ UNCHANGED <<repo, locks, hooks, plan, tip, built, tries, todo, since, bounds>>

LockMutex(w) ==
  /\ Goto(w, "begin", "mutex")
  /\ ~Malformed(plan[w])
  /\ mutex[ProcOf[w]] = Nobody
  /\ mutex' = [mutex EXCEPT ![ProcOf[w]] = w]
  /\ UNCHANGED <<repo, flock, hooks, plan, tip, built, tries, todo, reply, since, bounds>>

LockFile(w) ==
  /\ Goto(w, "mutex", "read")
  /\ flock = Nobody
  /\ flock' = ProcOf[w]
  /\ UNCHANGED <<repo, mutex, hooks, plan, tip, built, tries, todo, reply, since, bounds>>

\* Mutant: counts commits from zero.
ReadTip_OffByOne(w) ==
  /\ Goto(w, "read", "prepare")
  /\ tip' = [tip EXCEPT ![w] = Len(log) - 1]
  /\ UNCHANGED <<repo, locks, hooks, plan, built, tries, todo, reply, since, bounds>>

ReadTip(w) ==
  /\ Goto(w, "read", "prepare")
  /\ tip' = [tip EXCEPT ![w] = Len(log)]
  /\ UNCHANGED <<repo, locks, hooks, plan, built, tries, todo, reply, since, bounds>>

\* Mutant: the files are not looked at.
WorktreeMatches_IndexOnly(w) == index = HeadTree

\* ensure_worktree_matches_commit: nothing is staged against HEAD, and every
\* touched file is what the tip holds.
WorktreeMatches(w) ==
  /\ index = HeadTree
  /\ \A p \in Touched(plan[w]) : work[p] = TreeAt(tip[w])[p]

\* The builder on one tip: worktree guard, preconditions, rename sources,
\* tree, identity check, in that order.
Refuse(w) ==
  /\ Leave(w, "prepare", "error")
  /\ ~WorktreeMatches(w)
  /\ UNCHANGED <<repo, locks, hooks, plan, tip, built, tries, todo, since, bounds>>

AbortStale(w) ==
  /\ Leave(w, "prepare", "conflict")
  /\ WorktreeMatches(w)
  /\ ~PreconditionsHold(plan[w], TreeAt(tip[w]))
  /\ UNCHANGED <<repo, locks, hooks, plan, tip, built, tries, todo, since, bounds>>

AbortNoSource(w) ==
  /\ Leave(w, "prepare", "error")
  /\ WorktreeMatches(w)
  /\ PreconditionsHold(plan[w], TreeAt(tip[w]))
  /\ ~SourcesExist(plan[w], TreeAt(tip[w]))
  /\ UNCHANGED <<repo, locks, hooks, plan, tip, built, tries, todo, since, bounds>>

\* Mutant: preconditions are not checked again on a rebuild.
Buildable_FirstTryOnly(w) ==
  /\ WorktreeMatches(w)
  /\ tries[w] = 0 => PreconditionsHold(plan[w], TreeAt(tip[w]))
  /\ SourcesExist(plan[w], TreeAt(tip[w]))

Buildable(w) ==
  /\ WorktreeMatches(w)
  /\ PreconditionsHold(plan[w], TreeAt(tip[w]))
  /\ SourcesExist(plan[w], TreeAt(tip[w]))

\* An unborn branch has no base tree to be identical to.
Identity(w) == tip[w] # 0 /\ TreeAfter(plan[w], TreeAt(tip[w])) = TreeAt(tip[w])

NoOp(w) ==
  /\ Leave(w, "prepare", "noop")
  /\ Buildable(w)
  /\ Identity(w)
  /\ UNCHANGED <<repo, locks, hooks, plan, tip, built, tries, todo, since, bounds>>

BuildTree(w) ==
  /\ Goto(w, "prepare", "cas")
  /\ Buildable(w)
  /\ ~Identity(w)
  /\ built' = [built EXCEPT ![w] = TreeAfter(plan[w], TreeAt(tip[w]))]
  /\ UNCHANGED <<repo, locks, hooks, plan, tip, tries, todo, reply, since, bounds>>

\* Mutant: sets the ref without comparing it.
CasWin_Blind(w) ==
  /\ Goto(w, "cas", "reveal")
  /\ log' = Append(log, Commit(built[w], w, plan[w]))
  /\ todo' = [todo EXCEPT ![w] = Touched(plan[w])]
  /\ built' = [built EXCEPT ![w] = EmptyTree]
  /\ UNCHANGED <<work, index, locks, hooks, plan, tip, tries, reply, since, bounds>>

\* Mutant: materializes the files a commit writes, not the ones it removes.
CasWin_KeepsRemoved(w) ==
  /\ Goto(w, "cas", "reveal")
  /\ Len(log) = tip[w]
  /\ log' = Append(log, Commit(built[w], w, plan[w]))
  /\ todo' = [todo EXCEPT ![w] = {p \in Touched(plan[w]) : built[w][p] # Absent}]
  /\ built' = [built EXCEPT ![w] = EmptyTree]
  /\ UNCHANGED <<work, index, locks, hooks, plan, tip, tries, reply, since, bounds>>

\* Mutant: syncs the index before the files.
CasWin_IndexFirst(w) ==
  /\ Goto(w, "cas", "reveal")
  /\ Len(log) = tip[w]
  /\ log' = Append(log, Commit(built[w], w, plan[w]))
  /\ todo' = [todo EXCEPT ![w] = Touched(plan[w])]
  /\ index' = built[w]
  /\ built' = [built EXCEPT ![w] = EmptyTree]
  /\ UNCHANGED <<work, locks, hooks, plan, tip, tries, reply, since, bounds>>

\* cas_ref: compared and set under git's own ref lock.
CasWin(w) ==
  /\ Goto(w, "cas", "reveal")
  /\ Len(log) = tip[w]
  /\ log' = Append(log, Commit(built[w], w, plan[w]))
  /\ todo' = [todo EXCEPT ![w] = Touched(plan[w])]
  /\ built' = [built EXCEPT ![w] = EmptyTree]
  /\ UNCHANGED <<work, index, locks, hooks, plan, tip, tries, reply, since, bounds>>

CasLose(w) ==
  /\ Goto(w, "cas", "read")
  /\ Len(log) # tip[w]
  /\ tries[w] < MaxRetries
  /\ tries' = [tries EXCEPT ![w] = @ + 1]
  /\ UNCHANGED <<repo, locks, hooks, plan, tip, built, todo, reply, since, bounds>>

CasGiveUp(w) ==
  /\ Leave(w, "cas", "error")
  /\ Len(log) # tip[w]
  /\ tries[w] >= MaxRetries
  /\ UNCHANGED <<repo, locks, hooks, plan, tip, built, tries, todo, since, bounds>>

-----------------------------------------------------------------------------
(* Materialize: the touched files in the plan's order (any order, here),   *)
(* then the index.  The call's own commit is number tip + 1.               *)

Own(w) == tip[w] + 1

Reveal(w) ==
  /\ pc[w] = "reveal"
  /\ \E p \in todo[w] :
        /\ work' = [work EXCEPT ![p] = TreeAt(Own(w))[p]]
        /\ todo' = [todo EXCEPT ![w] = @ \ {p}]
        /\ pc' = [pc EXCEPT ![w] = IF todo[w] = {p} THEN "sync" ELSE "reveal"]
  /\ UNCHANGED <<log, index, locks, hooks, plan, tip, built, tries, reply, since, bounds>>

SyncIndex(w) ==
  /\ Goto(w, "sync", "hook")
  /\ index' = TreeAt(Own(w))
  /\ UNCHANGED <<log, work, locks, hooks, plan, tip, built, tries, todo, reply, since, bounds>>

\* Mutant: reports a failed reveal as a conflict the caller may retry.
RevealFails_AsConflict(w) ==
  /\ pc[w] \in {"reveal", "sync"}
  /\ Leave(w, pc[w], "conflict")
  /\ faults < MaxFaults
  /\ faults' = faults + 1
  /\ todo' = [todo EXCEPT ![w] = {}]
  /\ UNCHANGED <<repo, locks, hooks, plan, tip, built, tries, since, raced, ops, edits>>

\* A failed write, rename, remove or index write ends the call with an error
\* although its commit is on the branch.
RevealFails(w) ==
  /\ pc[w] \in {"reveal", "sync"}
  /\ Leave(w, pc[w], "error")
  /\ faults < MaxFaults
  /\ faults' = faults + 1
  /\ todo' = [todo EXCEPT ![w] = {}]
  /\ UNCHANGED <<repo, locks, hooks, plan, tip, built, tries, since, raced, ops, edits>>

\* Mutant: reports the parent seen at function entry.
Hook_ParentAtEntry(w) ==
  /\ Leave(w, "hook", "committed")
  /\ hooks' = [hooks EXCEPT ![ProcOf[w]] =
                 Append(@, [parent |-> since[w], commit |-> Own(w)])]
  /\ UNCHANGED <<repo, locks, plan, tip, built, tries, todo, since, bounds>>

\* The hook runs inside the commit lock.
Hook(w) ==
  /\ Leave(w, "hook", "committed")
  /\ hooks' = [hooks EXCEPT ![ProcOf[w]] =
                 Append(@, [parent |-> tip[w], commit |-> Own(w)])]
  /\ UNCHANGED <<repo, locks, plan, tip, built, tries, todo, since, bounds>>

\* The stack frames of the calls in ws are gone.
Forget(ws) ==
  /\ plan'  = [w \in Writers |-> IF w \in ws THEN NoPlan ELSE plan[w]]
  /\ tip'   = [w \in Writers |-> IF w \in ws THEN 0 ELSE tip[w]]
  /\ built' = [w \in Writers |-> IF w \in ws THEN EmptyTree ELSE built[w]]
  /\ tries' = [w \in Writers |-> IF w \in ws THEN 0 ELSE tries[w]]
  /\ reply' = [w \in Writers |-> IF w \in ws THEN "none" ELSE reply[w]]
  /\ since' = [w \in Writers |-> IF w \in ws THEN 0 ELSE since[w]]

\* Both locks are released and the call returns its reply.
Unlock(w) ==
  /\ Goto(w, "unlock", "idle")
  /\ IF mutex[ProcOf[w]] = w
       THEN mutex' = [mutex EXCEPT ![ProcOf[w]] = Nobody] /\ flock' = Nobody
       ELSE UNCHANGED locks
  /\ Forget({w})
  /\ UNCHANGED <<repo, hooks, todo, bounds>>

-----------------------------------------------------------------------------
(* Crashes.                                                                *)

\* Mutant: the lock is a file that exists, not a lock on a file.
Crash_LeavesLock(p) ==
  LET gone == {w \in Writers : ProcOf[w] = p} IN
  /\ faults < MaxFaults
  /\ faults' = faults + 1
  /\ \E w \in gone : pc[w] # "idle"
  /\ pc'    = [w \in Writers |-> IF w \in gone THEN "idle" ELSE pc[w]]
  /\ Forget(gone)
  /\ todo'  = [w \in Writers |-> IF w \in gone THEN {} ELSE todo[w]]
  /\ mutex' = [mutex EXCEPT ![p] = Nobody]
  /\ hooks' = [hooks EXCEPT ![p] = <<>>]
  /\ UNCHANGED <<repo, flock, raced, ops, edits>>

\* Process p dies and starts again: its calls are gone, the operating
\* system drops the file lock, nothing on disk is repaired.
Crash(p) ==
  LET gone == {w \in Writers : ProcOf[w] = p} IN
  /\ faults < MaxFaults
  /\ faults' = faults + 1
  /\ \E w \in gone : pc[w] # "idle"
  /\ pc'    = [w \in Writers |-> IF w \in gone THEN "idle" ELSE pc[w]]
  /\ Forget(gone)
  /\ todo'  = [w \in Writers |-> IF w \in gone THEN {} ELSE todo[w]]
  /\ mutex' = [mutex EXCEPT ![p] = Nobody]
  /\ flock' = IF flock = p THEN Nobody ELSE flock
  /\ hooks' = [hooks EXCEPT ![p] = <<>>]
  /\ UNCHANGED <<repo, raced, ops, edits>>

-----------------------------------------------------------------------------
(* The person at the same worktree.                                        *)

PersonActs == raced' = IF flock = Nobody THEN raced ELSE "yes"

PersonEdits ==
  /\ PersonActs
  /\ edits < MaxEdits
  /\ edits' = edits + 1
  /\ \E p \in Paths, c \in Blob : work[p] # c /\ work' = [work EXCEPT ![p] = c]
  /\ UNCHANGED <<log, index, locks, hooks, local, since, ops, faults>>

PersonStages ==
  /\ PersonActs
  /\ edits > 0
  /\ \E p \in Paths : index[p] # work[p] /\ index' = [index EXCEPT ![p] = work[p]]
  /\ UNCHANGED <<log, work, locks, hooks, local, since, ops, edits, faults>>

\* git commit: the tree of the index, on the branch's current tip.
PersonCommits ==
  /\ PersonActs
  /\ index # HeadTree
  /\ edits > 0
  /\ Len(log) < MaxCommits
  /\ log' = Append(log, Commit(index, External, NoPlan))
  /\ UNCHANGED <<work, index, locks, hooks, local, since, ops, edits, faults>>

\* git reset --hard: untracked files stay.
PersonChecksOut ==
  /\ PersonActs
  /\ edits > 0
  /\ work' = [p \in Paths |-> IF index[p] = Absent /\ HeadTree[p] = Absent
                                THEN work[p] ELSE HeadTree[p]]
  /\ index' = HeadTree
  /\ <<work', index'>> # <<work, index>>
  /\ UNCHANGED <<log, locks, hooks, local, since, ops, edits, faults>>

-----------------------------------------------------------------------------

Advance(w) ==
  \/ Reject(w) \/ LockMutex(w) \/ LockFile(w) \/ ReadTip(w)
  \/ Refuse(w) \/ AbortStale(w) \/ AbortNoSource(w) \/ NoOp(w) \/ BuildTree(w)
  \/ CasWin(w) \/ CasLose(w) \/ CasGiveUp(w)
  \/ Reveal(w) \/ SyncIndex(w) \/ Hook(w) \/ Unlock(w)

Person == PersonEdits \/ PersonStages \/ PersonCommits \/ PersonChecksOut

Next ==
  \/ \E w \in Writers : Submit(w) \/ Advance(w) \/ RevealFails(w)
  \/ \E p \in Procs : Crash(p)
  \/ Person

Spec == Init /\ [][Next]_vars

\* A call that can take its next step takes it: nothing in the code waits
\* except for the two locks.  Neither lock is fair, so a call is only sure to
\* get one if the others stop asking for it; MaxOps makes them stop.
FairSpec == Spec /\ \A w \in Writers : WF_vars(Advance(w))

-----------------------------------------------------------------------------
(* Properties.                                                             *)

\* The shape of the state.
TypeOK ==
  /\ log \in Seq([tree : Tree, by : Writers \cup {External}, plan : Plans \cup {NoPlan}])
  /\ work \in Tree
  /\ index \in Tree
  /\ mutex \in [Procs -> Writers \cup {Nobody}]
  /\ flock \in Procs \cup {Nobody}
  /\ hooks \in [Procs -> Seq([parent : Nat, commit : Nat])]
  /\ pc \in [Writers -> Steps]
  /\ plan \in [Writers -> Plans \cup {NoPlan}]
  /\ tip \in [Writers -> Nat]
  /\ built \in [Writers -> Tree]
  /\ tries \in [Writers -> Nat]
  /\ todo \in [Writers -> SUBSET Paths]
  /\ reply \in [Writers -> Replies]
  /\ since \in [Writers -> Nat]
  /\ raced \in {"no", "yes"}
  /\ ops \in [Writers -> Nat]
  /\ edits \in Nat
  /\ faults \in Nat

\* Commit e, made by a call, is exactly its plan applied to the tree below it,
\* and the plan's preconditions held on that tree.
Justified(e, below) ==
  /\ ~Malformed(e.plan)
  /\ PreconditionsHold(e.plan, below)
  /\ SourcesExist(e.plan, below)
  /\ e.tree = TreeAfter(e.plan, below)

\* No lost update, all or nothing: whatever the processes, their retries and
\* git commits made under them do, every commit of a call is its plan's whole
\* effect on its parent, with the preconditions true of that very parent
\* (changeset.rs: preconditions are checked again on each rebuild).
CommitsAreTheirPlans ==
  \A i \in DOMAIN log : log[i].by # External => Justified(log[i], TreeAt(i - 1))

InReveal(w) == pc[w] \in {"reveal", "sync"}

\* With nobody else in the worktree and no fault, the files and the index are
\* HEAD whenever no call is revealing its commit: the substrate never leaves a
\* file of an earlier commit behind (materialize covers every touched path,
\* both ends of a rename).
QuietVaultIsClean ==
  edits = 0 /\ faults = 0 /\ (\A w \in Writers : ~InReveal(w)) => work = HeadTree /\ index = HeadTree

\* As long as nobody else edits the files, a working tree that is not HEAD
\* shows, after crashes and failed reveals as much as during a reveal: the index
\* differs from HEAD too, so the worktree guard refuses every later write
\* instead of committing on top of half-revealed files (materialize syncs the
\* index only after every file).
InterruptedRevealIsFlagged == edits = 0 /\ work # HeadTree => index # HeadTree

\* A reply is the truth about the branch: "committed" names the caller's own
\* commit, and a conflict or a no-op left no commit of this call behind
\* (commit_changeset: "nothing committed").
RepliesAreTrue ==
  \A w \in Writers : pc[w] = "unlock" =>
    /\ reply[w] = "committed" =>
         /\ Own(w) \in DOMAIN log
         /\ log[Own(w)].by = w
         /\ log[Own(w)].plan = plan[w]
    /\ reply[w] \in {"conflict", "noop"} =>
         \A i \in since[w] + 1 .. Len(log) : log[i].by # w

\* A process's reindex queue is fed in commit order, each commit once and with
\* the parent it was built on, also when its compare-and-swap had to be
\* retried (the hook fires inside the commit lock).
HooksFollowCommits ==
  \A p \in Procs :
    /\ \A i \in DOMAIN hooks[p] : hooks[p][i].commit = hooks[p][i].parent + 1
    /\ \A i, j \in DOMAIN hooks[p] : i < j => hooks[p][i].commit < hooks[p][j].commit

\* Without faults every commit of a call is announced to its own process's
\* reindex queue, or is about to be.
NoCommitGoesUnannounced ==
  \A i \in DOMAIN log : faults = 0 /\ log[i].by # External =>
    LET w == log[i].by IN
    \/ \E k \in DOMAIN hooks[ProcOf[w]] : hooks[ProcOf[w]][k].commit = i
    \/ pc[w] \in {"reveal", "sync", "hook"} /\ Own(w) = i

\* Between calls nothing is left over: no file of an earlier commit in the
\* worktree, and no commit the reindex queue was not told.
QuietVaultIsSettled == QuietVaultIsClean /\ NoCommitGoesUnannounced

\* Content c of path p can be got back from the branch.
InHistory(p, c) == \E i \in 0 .. Len(log) : TreeAt(i)[p] = c

CommittedFilesOnly == \A p \in Paths : work'[p] # work[p] => InHistory(p, work[p])

\* As long as the person leaves calls alone, a call only overwrites or deletes
\* bytes that some commit still holds: untracked files and unsaved edits made
\* between calls survive (ensure_worktree_matches_commit).
OnlyCommittedFilesOverwritten == [][raced = "no" /\ todo' # todo => CommittedFilesOnly]_vars

\* The same of the index: a call never drops something the person staged.
OnlyCommittedIndexOverwritten ==
  [][raced = "no" /\ pc' # pc => \A p \in Paths : index'[p] # index[p] => InHistory(p, index[p])]_vars

\* Files and index together: nothing a person has not committed is lost.
OnlyCommittedWorkOverwritten == OnlyCommittedFilesOverwritten /\ OnlyCommittedIndexOverwritten

\* Without that condition it does not hold, for an edit saved between the check
\* and the reveal: the guard "protects untracked files and
\* unsaved/manual edits from being overwritten during materialization".
UncommittedFilesSurvive == [][todo' # todo => CommittedFilesOnly]_vars

\* Every call returns: bounded retries, no lock kept, whatever crashes.
EveryCallReturns == \A w \in Writers : pc[w] = "begin" ~> pc[w] = "idle"

-----------------------------------------------------------------------------
(* What a caller of the abstract history can see of a call in GitCommit.   *)

StatusOf(w) ==
  CASE pc[w] = "idle"                        -> "idle"
    [] pc[w] \in {"reveal", "sync", "hook"}  -> "committed"
    [] pc[w] = "unlock"                      -> reply[w]
    [] OTHER                                 -> "pending"

Abstract == INSTANCE VaultHistory
              WITH history <- log,
                   status  <- [w \in Writers |-> StatusOf(w)],
                   asked   <- plan

\* GitCommit implements VaultHistory: locks, guards, retries, the reveal and
\* crashes are invisible in the history of trees and the replies to callers.
Refines == Abstract!Spec
=============================================================================

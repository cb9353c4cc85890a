--------------------------- MODULE GitCommitProofs ---------------------------
(***************************************************************************)
(* Proofs about GitCommit, for any number of processes and calls, any      *)
(* paths, contents and plans, any bounds, and a person who may act at any  *)
(* moment.                                                                 *)
(***************************************************************************)
EXTENDS GitCommit, TLAPS

USE ConstantsAssumption, AbsentAssumption

-----------------------------------------------------------------------------
(* Facts about trees and plans.                                            *)

\* Appending to a sequence.
LEMMA AppendType ==
  ASSUME NEW S, NEW s \in Seq(S), NEW e \in S
  PROVE  Append(s, e) \in Seq(S) /\ Len(Append(s, e)) = Len(s) + 1
  OBVIOUS

\* The positions of a sequence that grew by one.
LEMMA OneMore ==
  ASSUME NEW n \in Nat, NEW k \in 1 .. n + 1
  PROVE  k \in 1 .. n \/ k = n + 1
  OBVIOUS

\* The empty tree is a tree.
LEMMA EmptyTreeType == EmptyTree \in Tree
  BY DEF EmptyTree, Tree, Blob

\* What a change leaves at a path is a content or nothing.
LEMMA EffectType ==
  ASSUME NEW c \in Change, NEW t \in Tree, NEW p \in Paths
  PROVE  Effect(c, t, p) \in Blob
<1>1. CASE c \in [op : {"upsert"}, path : Paths, content : Contents]
  BY <1>1 DEF Effect, Blob
<1>2. CASE c \in [op : {"remove"}, path : Paths]
  BY <1>2 DEF Effect, Blob
<1>3. CASE c \in [op : {"rename"}, from : Paths, to : Paths]
  <2>1. c.op = "rename" /\ c.from \in Paths
    BY <1>3
  <2>2. t[c.from] \in Blob
    BY <2>1 DEF Tree
  <2> QED BY <2>1, <2>2 DEF Effect, Blob
<1> QED BY <1>1, <1>2, <1>3 DEF Change

\* Applying a plan to a tree gives a tree.
LEMMA TreeAfterType ==
  ASSUME NEW q \in ChangePlan, NEW t \in Tree
  PROVE  TreeAfter(q, t) \in Tree
<1> DEFINE At(p) == CHOOSE k \in DOMAIN q.changes : p \in TouchedBy(q.changes[k])
<1>1. ASSUME NEW p \in Paths, p \in Touched(q)
      PROVE  Effect(q.changes[At(p)], t, p) \in Blob
  <2>1. \E k \in DOMAIN q.changes : p \in TouchedBy(q.changes[k])
    BY <1>1 DEF Touched
  <2>2. At(p) \in DOMAIN q.changes
    BY <2>1
  <2>3. q.changes[At(p)] \in Change
    BY <2>2 DEF ChangePlan
  <2> QED BY <2>3, EffectType
<1>2. ASSUME NEW p \in Paths PROVE t[p] \in Blob
  BY DEF Tree
<1> QED BY <1>1, <1>2 DEF TreeAfter, Tree

\* The paths a plan touches are paths.
LEMMA TouchedType ==
  ASSUME NEW q \in ChangePlan
  PROVE  Touched(q) \subseteq Paths
<1>1. ASSUME NEW i \in DOMAIN q.changes PROVE TouchedBy(q.changes[i]) \subseteq Paths
  <2>1. q.changes[i] \in Change
    BY DEF ChangePlan
  <2> QED BY <2>1 DEF Change, TouchedBy
<1> QED BY <1>1 DEF Touched

-----------------------------------------------------------------------------
(* Type correctness.                                                       *)

\* A call in progress has one of the submitted plans.
BusyHasPlan == \A w \in Writers : pc[w] # "idle" => plan[w] \in Plans

\* A commit a call works on is on the branch.
TipKnown ==
  \A w \in Writers :
    /\ pc[w] \in {"prepare", "cas"} => tip[w] <= Len(log)
    /\ pc[w] \in {"reveal", "sync", "hook"} => tip[w] < Len(log)

Entries == [tree : Tree, by : Writers \cup {External}, plan : Plans \cup {NoPlan}]

LEMMA TreeAtType ==
  ASSUME log \in Seq(Entries), NEW i \in Nat, i <= Len(log)
  PROVE  TreeAt(i) \in Tree
<1>1. CASE i = 0
  BY <1>1, EmptyTreeType DEF TreeAt
<1>2. CASE i # 0
  <2>1. log[i] \in Entries
    BY <1>2
  <2> QED BY <1>2, <2>1 DEF TreeAt, Entries
<1> QED BY <1>1, <1>2

TypeInv == TypeOK /\ BusyHasPlan /\ TipKnown

LEMMA TypeInit == Init => TypeInv
<1> SUFFICES ASSUME Init PROVE TypeInv
  OBVIOUS
<1>1. log \in Seq(Entries)
  <2>1. CASE log = <<>>
    BY <2>1
  <2>2. CASE \E t \in Tree : log = <<Commit(t, External, NoPlan)>>
    <3>1. PICK t \in Tree : log = <<Commit(t, External, NoPlan)>>
      BY <2>2
    <3>2. Commit(t, External, NoPlan) \in Entries
      BY DEF Commit, Entries
    <3> QED BY <3>1, <3>2
  <2> QED BY <2>1, <2>2 DEF Init
<1>2. HeadTree \in Tree
  BY <1>1, TreeAtType DEF HeadTree
<1>3. TypeOK
  BY <1>1, <1>2, EmptyTreeType DEF Init, TypeOK, Entries, Steps, Replies
<1>4. BusyHasPlan /\ TipKnown
  BY DEF Init, BusyHasPlan, TipKnown
<1> QED BY <1>3, <1>4 DEF TypeInv

\* Steps of a call that change only its own control state.
LEMMA TypeQuietSteps ==
  ASSUME TypeInv, NEW w \in Writers,
         \/ Submit(w) \/ Reject(w) \/ LockMutex(w) \/ LockFile(w) \/ ReadTip(w)
         \/ Refuse(w) \/ AbortStale(w) \/ AbortNoSource(w) \/ NoOp(w)
         \/ CasLose(w) \/ CasGiveUp(w)
  PROVE  TypeInv'
<1> USE DEF TypeInv, TypeOK, BusyHasPlan, TipKnown, Goto, Leave, repo, locks, bounds,
            Steps, Replies
<1>1. CASE Submit(w)
  BY <1>1, SMTT(30) DEF Submit
<1>2. CASE Reject(w)
  BY <1>2 DEF Reject
<1>3. CASE LockMutex(w)
  BY <1>3 DEF LockMutex
<1>4. CASE LockFile(w)
  BY <1>4 DEF LockFile
<1>5. CASE ReadTip(w)
  BY <1>5, SMTT(30) DEF ReadTip
<1>6. CASE Refuse(w)
  BY <1>6 DEF Refuse
<1>7. CASE AbortStale(w)
  BY <1>7 DEF AbortStale
<1>8. CASE AbortNoSource(w)
  BY <1>8 DEF AbortNoSource
<1>9. CASE NoOp(w)
  BY <1>9 DEF NoOp
<1>10. CASE CasLose(w)
  BY <1>10, SMTT(30) DEF CasLose
<1>11. CASE CasGiveUp(w)
  BY <1>11 DEF CasGiveUp
<1> QED BY <1>1, <1>2, <1>3, <1>4, <1>5, <1>6, <1>7, <1>8, <1>9, <1>10, <1>11

\* Steps of a call that change the branch, the worktree or the hook queue.
LEMMA TypeEffectSteps ==
  ASSUME TypeInv, NEW w \in Writers,
         \/ BuildTree(w) \/ CasWin(w) \/ Reveal(w) \/ SyncIndex(w)
         \/ RevealFails(w) \/ Hook(w) \/ Unlock(w)
  PROVE  TypeInv'
<1> USE DEF TypeInv, TypeOK, BusyHasPlan, TipKnown, Goto, Leave, repo, locks, bounds,
            Steps, Replies
<1>a. log \in Seq(Entries)
  BY DEF Entries
<1>b. pc[w] # "idle" => plan[w] \in ChangePlan
  OBVIOUS
<1>1. CASE BuildTree(w)
  <2>1. TreeAt(tip[w]) \in Tree
    BY <1>1, <1>a, TreeAtType DEF BuildTree
  <2>2. TreeAfter(plan[w], TreeAt(tip[w])) \in Tree
    BY <1>1, <1>b, <2>1, TreeAfterType DEF BuildTree
  <2> QED BY <1>1, <2>2 DEF BuildTree
<1>2. CASE CasWin(w)
  <2>1. Commit(built[w], w, plan[w]) \in Entries
    BY <1>2 DEF CasWin, Commit, Entries
  <2>2. log' \in Seq(Entries) /\ Len(log') = Len(log) + 1
    BY <1>2, <1>a, <2>1, AppendType DEF CasWin
  <2>3. Touched(plan[w]) \subseteq Paths
    BY <1>2, <1>b, TouchedType DEF CasWin
  <2>4. TypeOK'
    BY <1>2, <2>2, <2>3, EmptyTreeType DEF CasWin, Entries
  <2>5. BusyHasPlan'
    BY <1>2 DEF CasWin
  <2>6. TipKnown'
    <3>1. Len(log) \in Nat /\ tip \in [Writers -> Nat]
      BY <1>a
    <3>2. /\ tip' = tip /\ tip[w] = Len(log) /\ pc[w] = "cas"
          /\ pc' = [pc EXCEPT ![w] = "reveal"]
      BY <1>2 DEF CasWin
    <3>3. ASSUME NEW v \in Writers
          PROVE  /\ pc'[v] \in {"prepare", "cas"} => tip'[v] <= Len(log')
                 /\ pc'[v] \in {"reveal", "sync", "hook"} => tip'[v] < Len(log')
      <4>1. tip[v] \in Nat
        BY <3>1
      <4>2. CASE v = w
        BY <2>2, <3>1, <3>2, <4>2
      <4>3. CASE v # w
        <5>1. pc'[v] = pc[v] /\ tip'[v] = tip[v]
          BY <3>2, <4>3
        <5>2. /\ pc[v] \in {"prepare", "cas"} => tip[v] <= Len(log)
              /\ pc[v] \in {"reveal", "sync", "hook"} => tip[v] < Len(log)
          OBVIOUS
        <5> HIDE DEF TypeInv, TypeOK, TipKnown, BusyHasPlan
        <5> QED BY <2>2, <3>1, <4>1, <5>1, <5>2
      <4> QED BY <4>2, <4>3
    <3> QED BY <3>3
  <2> QED BY <2>4, <2>5, <2>6
<1>3. CASE Reveal(w)
  <2>1. TreeAt(Own(w)) \in Tree
    BY <1>3, <1>a, TreeAtType DEF Reveal, Own
  <2>2. work' \in Tree
    <3>1. PICK p \in todo[w] : work' = [work EXCEPT ![p] = TreeAt(Own(w))[p]]
      BY <1>3 DEF Reveal
    <3>2. p \in Paths /\ work \in Tree
      OBVIOUS
    <3> HIDE DEF TypeInv, TypeOK, BusyHasPlan, TipKnown
    <3>3. TreeAt(Own(w))[p] \in Blob
      BY <2>1, <3>2 DEF Tree
    <3> QED BY <3>1, <3>2, <3>3 DEF Tree
  <2> QED BY <1>3, <2>2 DEF Reveal
<1>4. CASE SyncIndex(w)
  <2>1. TreeAt(Own(w)) \in Tree
    BY <1>4, <1>a, TreeAtType DEF SyncIndex, Own
  <2> QED BY <1>4, <2>1 DEF SyncIndex
<1>5. CASE RevealFails(w)
  BY <1>5, SMTT(30) DEF RevealFails
<1>6. CASE Hook(w)
  <2>1. hooks' \in [Procs -> Seq([parent : Nat, commit : Nat])]
    <3>1. [parent |-> tip[w], commit |-> Own(w)] \in [parent : Nat, commit : Nat]
      BY DEF Own
    <3> QED BY <1>6, <3>1 DEF Hook
  <2> QED BY <1>6, <2>1 DEF Hook
<1>7. CASE Unlock(w)
  BY <1>7, EmptyTreeType DEF Unlock, Forget
<1> QED BY <1>1, <1>2, <1>3, <1>4, <1>5, <1>6, <1>7

\* Crashes and the person.
LEMMA TypeEnvironmentSteps ==
  ASSUME TypeInv, (\E p \in Procs : Crash(p)) \/ Person \/ UNCHANGED vars
  PROVE  TypeInv'
<1> USE DEF TypeInv, TypeOK, BusyHasPlan, TipKnown, repo, locks, local, bounds
<1>a. log \in Seq(Entries)
  BY DEF Entries
<1>b. HeadTree \in Tree
  BY <1>a, TreeAtType DEF HeadTree
<1>1. ASSUME NEW p \in Procs, Crash(p) PROVE TypeInv'
  BY <1>1, EmptyTreeType, SMTT(30) DEF Crash, Forget, Steps, Replies
<1>2. CASE PersonEdits
  <2>1. work' \in Tree
    BY <1>2 DEF PersonEdits, Tree
  <2> QED BY <1>2, <2>1 DEF PersonEdits, PersonActs
<1>3. CASE PersonStages
  <2>1. index' \in Tree
    BY <1>3 DEF PersonStages, Tree
  <2> QED BY <1>3, <2>1 DEF PersonStages, PersonActs
<1>4. CASE PersonCommits
  <2>1. Commit(index, External, NoPlan) \in Entries
    BY DEF Commit, Entries
  <2>2. log' \in Seq(Entries) /\ Len(log') = Len(log) + 1
    BY <1>4, <1>a, <2>1 DEF PersonCommits
  <2>3. TypeOK'
    BY <1>4, <2>2 DEF PersonCommits, PersonActs, Entries
  <2>4. BusyHasPlan' /\ TipKnown'
    BY <1>4, <2>2 DEF PersonCommits
  <2> QED BY <2>3, <2>4
<1>5. CASE PersonChecksOut
  <2>1. work' \in Tree /\ index' \in Tree
    BY <1>5, <1>b DEF PersonChecksOut, Tree
  <2> QED BY <1>5, <2>1 DEF PersonChecksOut, PersonActs
<1>6. CASE UNCHANGED vars
  BY <1>6 DEF vars
<1> QED BY <1>1, <1>2, <1>3, <1>4, <1>5, <1>6 DEF Person

LEMMA TypeStep == TypeInv /\ [Next]_vars => TypeInv'
<1> SUFFICES ASSUME TypeInv, [Next]_vars PROVE TypeInv'
  OBVIOUS
<1>1. ASSUME NEW w \in Writers, Submit(w) \/ Advance(w) \/ RevealFails(w)
      PROVE  TypeInv'
  BY <1>1, TypeQuietSteps, TypeEffectSteps DEF Advance
<1> QED BY <1>1, TypeEnvironmentSteps DEF Next

\* Every reachable state has the shape the runs check on small instances.
THEOREM TypeCorrect == Spec => []TypeOK
<1>1. TypeInv => TypeOK
  BY DEF TypeInv
<1> QED BY TypeInit, TypeStep, <1>1, PTL DEF Spec

-----------------------------------------------------------------------------
(* Every commit is its plan.  The compare-and-swap is what makes it so: a   *)
(* tree is built and its preconditions are checked against the commit the  *)
(* ref must still name when it is set.  No lock is used in this argument.  *)

\* A plan past the entry checks is well formed.
WellFormed ==
  \A w \in Writers : pc[w] \notin {"idle", "begin", "unlock"} => ~Malformed(plan[w])

\* What a call is about to commit is justified by the tip it read.
BuiltIsJustified ==
  \A w \in Writers :
     pc[w] = "cas" => Justified(Commit(built[w], w, plan[w]), TreeAt(tip[w]))

HistoryInv == TypeInv /\ WellFormed /\ BuiltIsJustified /\ CommitsAreTheirPlans

\* Appending a commit leaves the trees below it alone.
LEMMA TreeAtAppend ==
  ASSUME TypeInv, NEW e \in Entries, log' = Append(log, e)
  PROVE  /\ Len(log') = Len(log) + 1
         /\ \A i \in 0 .. Len(log) : TreeAt(i)' = TreeAt(i)
         /\ HeadTree' = e.tree
         /\ \A i \in DOMAIN log : log'[i] = log[i]
         /\ log'[Len(log) + 1] = e
<1>0. log \in Seq(Entries)
  BY DEF TypeInv, TypeOK, Entries
<1>1. Len(log') = Len(log) + 1 /\ Len(log) \in Nat
  BY <1>0
<1>2. \A i \in DOMAIN log : log'[i] = log[i]
  BY <1>0
<1>3. log'[Len(log) + 1] = e
  BY <1>0
<1>4. ASSUME NEW i \in 0 .. Len(log) PROVE TreeAt(i)' = TreeAt(i)
  <2>1. CASE i = 0
    BY <2>1 DEF TreeAt
  <2>2. CASE i # 0
    <3>1. log'[i] = log[i]
      BY <1>0, <1>2, <2>2
    <3> QED BY <2>2, <3>1 DEF TreeAt
  <2> QED BY <2>1, <2>2
<1>5. HeadTree' = e.tree
  BY <1>1, <1>3 DEF HeadTree, TreeAt
<1> QED BY <1>1, <1>2, <1>3, <1>4, <1>5

\* The trees of the branch stay when the branch does.
LEMMA TreeAtSame ==
  ASSUME log' = log, NEW i
  PROVE  TreeAt(i)' = TreeAt(i)
<1>1. log'[i] = log[i]
  OBVIOUS
<1> QED BY <1>1, Zenon DEF TreeAt

\* A step that keeps the branch, and gives no call a tree to commit, keeps
\* the invariant.
LEMMA HistoryQuiet ==
  ASSUME HistoryInv, TypeInv', log' = log,
         WellFormed',
         \A w \in Writers : pc'[w] = "cas" =>
            pc[w] = "cas" /\ built'[w] = built[w] /\ plan'[w] = plan[w] /\ tip'[w] = tip[w]
  PROVE  HistoryInv'
<1>1. BuiltIsJustified'
  <2> SUFFICES ASSUME NEW w \in Writers, pc'[w] = "cas"
               PROVE  Justified(Commit(built[w], w, plan[w]), TreeAt(tip[w])')
    BY DEF BuiltIsJustified, Commit
  <2> QED BY TreeAtSame DEF HistoryInv, BuiltIsJustified
<1>2. CommitsAreTheirPlans'
  BY TreeAtSame DEF HistoryInv, CommitsAreTheirPlans
<1> QED BY <1>1, <1>2 DEF HistoryInv

\* A step that appends a commit keeps the invariant when the commit is
\* another's, or justified by the tree it lands on.
LEMMA HistoryGrows ==
  ASSUME HistoryInv, TypeInv', WellFormed', NEW e \in Entries, log' = Append(log, e),
         e.by # External => Justified(e, HeadTree),
         \A w \in Writers : pc'[w] = "cas" =>
            pc[w] = "cas" /\ built'[w] = built[w] /\ plan'[w] = plan[w] /\ tip'[w] = tip[w]
  PROVE  HistoryInv'
<1>0. Len(log) \in Nat /\ DOMAIN log = 1 .. Len(log) /\ DOMAIN log' = 1 .. Len(log) + 1
  BY TreeAtAppend DEF HistoryInv, TypeInv, TypeOK
<1>1. BuiltIsJustified'
  <2> SUFFICES ASSUME NEW w \in Writers, pc'[w] = "cas"
               PROVE  Justified(Commit(built[w], w, plan[w]), TreeAt(tip[w])')
    BY DEF BuiltIsJustified, Commit
  <2>1. tip[w] \in 0 .. Len(log) /\ tip'[w] = tip[w]
    BY <1>0 DEF HistoryInv, TypeInv, TypeOK, TipKnown
  <2>2. TreeAt(tip[w])' = TreeAt(tip[w])
    BY <2>1, TreeAtAppend DEF HistoryInv
  <2> QED BY <2>2 DEF HistoryInv, BuiltIsJustified
<1>2. CommitsAreTheirPlans'
  <2> SUFFICES ASSUME NEW i \in 1 .. Len(log) + 1, log'[i].by # External
               PROVE  Justified(log'[i], TreeAt(i - 1)')
    BY <1>0 DEF CommitsAreTheirPlans
  <2>1. TreeAt(i - 1)' = TreeAt(i - 1)
    BY <1>0, TreeAtAppend DEF HistoryInv
  <2>2. CASE i <= Len(log)
    BY <1>0, <2>1, <2>2, TreeAtAppend DEF HistoryInv, CommitsAreTheirPlans
  <2>3. CASE i = Len(log) + 1
    BY <1>0, <2>1, <2>3, TreeAtAppend DEF HistoryInv, HeadTree
  <2> QED BY <1>0, <2>2, <2>3
<1> QED BY <1>1, <1>2 DEF HistoryInv

LEMMA WellFormedStep == HistoryInv /\ TypeInv' /\ [Next]_vars => WellFormed'
<1> SUFFICES ASSUME HistoryInv, TypeInv', [Next]_vars PROVE WellFormed'
  OBVIOUS
<1> USE DEF HistoryInv, TypeInv, TypeOK, WellFormed, Goto, Leave
<1>1. ASSUME NEW w \in Writers, Submit(w) PROVE WellFormed'
  BY <1>1 DEF Submit
<1>2. ASSUME NEW w \in Writers, Advance(w) PROVE WellFormed'
  <2>1. CASE Reject(w) \/ LockMutex(w) \/ LockFile(w) \/ ReadTip(w)
    BY <2>1 DEF Reject, LockMutex, LockFile, ReadTip
  <2>2. CASE Refuse(w) \/ AbortStale(w) \/ AbortNoSource(w) \/ NoOp(w) \/ BuildTree(w)
    BY <2>2 DEF Refuse, AbortStale, AbortNoSource, NoOp, BuildTree
  <2>3. CASE CasWin(w) \/ CasLose(w) \/ CasGiveUp(w)
    BY <2>3 DEF CasWin, CasLose, CasGiveUp
  <2>4. CASE Reveal(w) \/ SyncIndex(w) \/ Hook(w)
    BY <2>4 DEF Reveal, SyncIndex, Hook
  <2>5. CASE Unlock(w)
    BY <2>5 DEF Unlock, Forget
  <2> QED BY <1>2, <2>1, <2>2, <2>3, <2>4, <2>5 DEF Advance
<1>3. ASSUME NEW w \in Writers, RevealFails(w) PROVE WellFormed'
  BY <1>3 DEF RevealFails
<1>4. ASSUME NEW p \in Procs, Crash(p) PROVE WellFormed'
  BY <1>4 DEF Crash, Forget
<1>5. CASE Person
  BY <1>5 DEF Person, PersonEdits, PersonStages, PersonCommits, PersonChecksOut, local
<1>6. CASE UNCHANGED vars
  BY <1>6 DEF vars, local
<1> QED BY <1>1, <1>2, <1>3, <1>4, <1>5, <1>6 DEF Next

LEMMA HistoryStep == HistoryInv /\ [Next]_vars => HistoryInv'
<1> SUFFICES ASSUME HistoryInv, [Next]_vars PROVE HistoryInv'
  OBVIOUS
<1>a. TypeInv' /\ WellFormed'
  BY TypeStep, WellFormedStep DEF HistoryInv
<1>t. TypeInv
  BY DEF HistoryInv
<1> USE DEF Goto, Leave, repo, local
<1>1. ASSUME NEW w \in Writers, BuildTree(w) PROVE HistoryInv'
  <2>1. /\ pc[w] = "prepare" /\ pc' = [pc EXCEPT ![w] = "cas"]
        /\ built' = [built EXCEPT ![w] = TreeAfter(plan[w], TreeAt(tip[w]))]
        /\ log' = log /\ plan' = plan /\ tip' = tip
        /\ PreconditionsHold(plan[w], TreeAt(tip[w]))
        /\ SourcesExist(plan[w], TreeAt(tip[w]))
    BY <1>1 DEF BuildTree, Buildable
  <2>2. Justified(Commit(built'[w], w, plan[w]), TreeAt(tip[w]))
    <3>1. ~Malformed(plan[w])
      BY <2>1 DEF HistoryInv, WellFormed
    <3>2. built'[w] = TreeAfter(plan[w], TreeAt(tip[w]))
      BY <2>1, <1>t DEF TypeInv, TypeOK
    <3> QED BY <2>1, <3>1, <3>2 DEF Justified, Commit
  <2>3. BuiltIsJustified'
    <3> SUFFICES ASSUME NEW v \in Writers, pc'[v] = "cas"
                 PROVE  Justified(Commit(built'[v], v, plan[v]), TreeAt(tip[v])')
      BY <2>1 DEF BuiltIsJustified, Commit
    <3>1. CASE v = w
      BY <2>1, <2>2, <3>1, TreeAtSame
    <3>2. CASE v # w
      BY <2>1, <3>2, <1>t, TreeAtSame DEF HistoryInv, BuiltIsJustified, TypeInv, TypeOK
    <3> QED BY <3>1, <3>2
  <2>4. CommitsAreTheirPlans'
    BY <2>1, TreeAtSame DEF HistoryInv, CommitsAreTheirPlans
  <2> QED BY <1>a, <2>3, <2>4 DEF HistoryInv
<1>2. ASSUME NEW w \in Writers, CasWin(w) PROVE HistoryInv'
  <2> DEFINE e == Commit(built[w], w, plan[w])
  <2>1. /\ pc[w] = "cas" /\ pc' = [pc EXCEPT ![w] = "reveal"] /\ Len(log) = tip[w]
        /\ log' = Append(log, e) /\ plan' = plan /\ tip' = tip
        /\ built' = [built EXCEPT ![w] = EmptyTree]
    BY <1>2 DEF CasWin
  <2>2. Justified(e, HeadTree)
    BY <2>1 DEF HistoryInv, BuiltIsJustified, HeadTree
  <2>3. \A v \in Writers : pc'[v] = "cas" =>
           pc[v] = "cas" /\ built'[v] = built[v] /\ plan'[v] = plan[v] /\ tip'[v] = tip[v]
    BY <2>1, <1>t DEF TypeInv, TypeOK
  <2>4. e \in Entries
    BY <2>1, <1>t DEF TypeInv, TypeOK, Entries, Commit
  <2> HIDE DEF e
  <2> QED BY <2>1, <2>2, <2>3, <2>4, <1>a, HistoryGrows
<1>3. ASSUME PersonCommits PROVE HistoryInv'
  <2> DEFINE e == Commit(index, External, NoPlan)
  <2>1. log' = Append(log, e) /\ e.by = External /\ UNCHANGED local
    BY <1>3 DEF PersonCommits, Commit
  <2>2. e \in Entries
    BY <1>t DEF TypeInv, TypeOK, Entries, Commit
  <2> HIDE DEF e
  <2> QED BY <2>1, <2>2, <1>a, HistoryGrows
<1>4. ASSUME NEW w \in Writers, Submit(w) \/ Advance(w) \/ RevealFails(w),
             ~BuildTree(w), ~CasWin(w)
      PROVE  HistoryInv'
  <2> DEFINE Quiet == /\ log' = log
                      /\ \A v \in Writers : pc'[v] = "cas" =>
                           /\ pc[v] = "cas" /\ built'[v] = built[v]
                           /\ plan'[v] = plan[v] /\ tip'[v] = tip[v]
  <2> USE DEF TypeInv, TypeOK
  <2>1. CASE Submit(w)
    <3>1. Quiet BY <1>t, <2>1 DEF Submit
    <3> QED BY <3>1, <1>a, HistoryQuiet
  <2>2. CASE Reject(w) \/ LockMutex(w) \/ LockFile(w) \/ ReadTip(w)
    <3>1. Quiet BY <1>t, <2>2 DEF Reject, LockMutex, LockFile, ReadTip
    <3> QED BY <3>1, <1>a, HistoryQuiet
  <2>3. CASE Refuse(w) \/ AbortStale(w) \/ AbortNoSource(w) \/ NoOp(w)
    <3>1. Quiet BY <1>t, <2>3 DEF Refuse, AbortStale, AbortNoSource, NoOp
    <3> QED BY <3>1, <1>a, HistoryQuiet
  <2>4. CASE CasLose(w) \/ CasGiveUp(w)
    <3>1. Quiet BY <1>t, <2>4 DEF CasLose, CasGiveUp
    <3> QED BY <3>1, <1>a, HistoryQuiet
  <2>5. CASE Reveal(w) \/ SyncIndex(w) \/ RevealFails(w) \/ Hook(w)
    <3>1. Quiet BY <1>t, <2>5 DEF Reveal, SyncIndex, RevealFails, Hook
    <3> QED BY <3>1, <1>a, HistoryQuiet
  <2>6. CASE Unlock(w)
    <3>1. Quiet BY <1>t, <2>6 DEF Unlock, Forget
    <3> QED BY <3>1, <1>a, HistoryQuiet
  <2> QED BY <1>4, <2>1, <2>2, <2>3, <2>4, <2>5, <2>6 DEF Advance
<1>5. ASSUME NEW p \in Procs, Crash(p) PROVE HistoryInv'
  <2>1. /\ log' = log
        /\ \A v \in Writers : pc'[v] = "cas" =>
             /\ pc[v] = "cas" /\ built'[v] = built[v]
             /\ plan'[v] = plan[v] /\ tip'[v] = tip[v]
    BY <1>5 DEF Crash, Forget
  <2> QED BY <2>1, <1>a, HistoryQuiet
<1>6. ASSUME PersonEdits \/ PersonStages \/ PersonChecksOut \/ UNCHANGED vars
      PROVE  HistoryInv'
  <2>1. log' = log /\ UNCHANGED local
    BY <1>6 DEF PersonEdits, PersonStages, PersonChecksOut, vars
  <2> QED BY <2>1, <1>a, HistoryQuiet
<1> QED BY <1>1, <1>2, <1>3, <1>4, <1>5, <1>6 DEF Next, Person, Advance

\* No lost update and no partial commit, for every number of processes and
\* calls, every set of plans, and git commits made at any moment.
THEOREM CommitsJustified == Spec => []CommitsAreTheirPlans
<1>1. Init => HistoryInv
  <2> SUFFICES ASSUME Init PROVE HistoryInv
    OBVIOUS
  <2>1. WellFormed /\ BuiltIsJustified
    BY DEF Init, WellFormed, BuiltIsJustified
  <2>2. \A i \in DOMAIN log : log[i].by = External
    BY DEF Init, Commit
  <2> QED BY <2>1, <2>2, TypeInit DEF HistoryInv, CommitsAreTheirPlans
<1>2. HistoryInv => CommitsAreTheirPlans
  BY DEF HistoryInv
<1> QED BY <1>1, <1>2, HistoryStep, PTL DEF Spec

-----------------------------------------------------------------------------
(* The commit lock: the process's mutex, then the worktree's file lock.    *)

Critical == {"read", "prepare", "cas", "reveal", "sync", "hook"}

LockInv ==
  \A w \in Writers :
    /\ pc[w] \in Critical \cup {"mutex"} => mutex[ProcOf[w]] = w
    /\ pc[w] \in Critical => flock = ProcOf[w]
    /\ pc[w] = "unlock" /\ mutex[ProcOf[w]] = w => flock = ProcOf[w]
    /\ pc[w] \in {"idle", "begin"} => mutex[ProcOf[w]] # w

\* At most one call at a time is inside the commit closure.
LEMMA MutualExclusion ==
  ASSUME LockInv, NEW v \in Writers, NEW w \in Writers,
         pc[v] \in Critical, pc[w] \in Critical
  PROVE  v = w
  BY DEF LockInv

LEMMA LockInit == Init => LockInv
  BY DEF Init, LockInv, Critical

LEMMA LockStep == TypeInv /\ LockInv /\ [Next]_vars => LockInv'
<1> SUFFICES ASSUME TypeInv, LockInv, [Next]_vars PROVE LockInv'
  OBVIOUS
<1>t. /\ pc \in [Writers -> Steps]
      /\ mutex \in [Procs -> Writers \cup {Nobody}]
      /\ flock \in Procs \cup {Nobody}
  BY DEF TypeInv, TypeOK
<1> USE DEF LockInv, Critical, Goto, Leave, locks, Steps
<1>1. ASSUME NEW w \in Writers, Submit(w) PROVE LockInv'
  BY <1>t, <1>1 DEF Submit
<1>2. ASSUME NEW w \in Writers, Advance(w) PROVE LockInv'
  <2>1. CASE Reject(w)
    BY <1>t, <2>1 DEF Reject
  <2>2. CASE LockMutex(w)
    BY <1>t, <2>2 DEF LockMutex
  <2>3. CASE LockFile(w)
    BY <1>t, <2>3 DEF LockFile
  <2>4. CASE ReadTip(w)
    BY <1>t, <2>4 DEF ReadTip
  <2>5. CASE Refuse(w) \/ AbortStale(w) \/ AbortNoSource(w)
    BY <1>t, <2>5 DEF Refuse, AbortStale, AbortNoSource
  <2>6. CASE NoOp(w) \/ BuildTree(w)
    BY <1>t, <2>6 DEF NoOp, BuildTree
  <2>7. CASE CasWin(w) \/ CasLose(w) \/ CasGiveUp(w)
    BY <1>t, <2>7 DEF CasWin, CasLose, CasGiveUp
  <2>8. CASE Reveal(w)
    BY <1>t, <2>8 DEF Reveal
  <2>9. CASE SyncIndex(w) \/ Hook(w)
    BY <1>t, <2>9 DEF SyncIndex, Hook
  <2>10. CASE Unlock(w)
    BY <1>t, <2>10 DEF Unlock, Forget
  <2> QED BY <1>2, <2>1, <2>2, <2>3, <2>4, <2>5, <2>6, <2>7, <2>8, <2>9, <2>10 DEF Advance
<1>3. ASSUME NEW w \in Writers, RevealFails(w) PROVE LockInv'
  BY <1>t, <1>3 DEF RevealFails
<1>4. ASSUME NEW p \in Procs, Crash(p) PROVE LockInv'
  BY <1>t, <1>4 DEF Crash, Forget
<1>5. CASE Person
  BY <1>t, <1>5 DEF Person, PersonEdits, PersonStages, PersonCommits, PersonChecksOut, local
<1>6. CASE UNCHANGED vars
  BY <1>t, <1>6 DEF vars, local
<1> QED BY <1>1, <1>2, <1>3, <1>4, <1>5, <1>6 DEF Next

-----------------------------------------------------------------------------
(* The reindex queues see commits in order: a call whose commit is on the   *)
(* branch, and not yet announced, is newer than all that was announced to  *)
(* its process, and is alone.                                              *)

Unannounced(w) == pc[w] \in {"reveal", "sync", "hook"}

HooksInv ==
  /\ HooksFollowCommits
  /\ \A p \in Procs : \A i \in DOMAIN hooks[p] :
       /\ hooks[p][i].commit <= Len(log)
       /\ \A w \in Writers :
            ProcOf[w] = p /\ Unannounced(w) => hooks[p][i].commit <= tip[w]

LEMMA ElementType == ASSUME NEW S, NEW s \in Seq(S), NEW i \in DOMAIN s PROVE s[i] \in S
  OBVIOUS

LEMMA HookType ==
  ASSUME TypeInv, NEW p \in Procs, NEW i \in DOMAIN hooks[p]
  PROVE  hooks[p][i].parent \in Nat /\ hooks[p][i].commit \in Nat
<1>1. hooks[p] \in Seq([parent : Nat, commit : Nat])
  BY DEF TypeInv, TypeOK
<1>2. hooks[p][i] \in [parent : Nat, commit : Nat]
  BY <1>1, ElementType
<1> QED BY <1>2

LEMMA LogLength == ASSUME TypeInv PROVE Len(log) \in Nat
  BY DEF TypeInv, TypeOK

\* A step that announces nothing and reveals nothing new.
LEMMA HooksQuiet ==
  ASSUME TypeInv, TypeInv', HooksInv, hooks' = hooks, Len(log) <= Len(log'),
         \A w \in Writers : Unannounced(w)' => Unannounced(w) /\ tip'[w] = tip[w]
  PROVE  HooksInv'
<1>1. \A p \in Procs : hooks'[p] = hooks[p] /\ hooks[p] \in Seq([parent : Nat, commit : Nat])
  BY DEF TypeInv, TypeOK
<1>2. HooksFollowCommits'
  BY <1>1 DEF HooksInv, HooksFollowCommits
<1>3. ASSUME NEW p \in Procs, NEW i \in DOMAIN hooks[p] PROVE hooks[p][i].commit <= Len(log')
  <2>0. hooks[p][i].commit \in Nat
    BY HookType
  <2>1. Len(log) \in Nat /\ Len(log') \in Nat
    <3>1. /\ log \in Seq([tree : Tree, by : Writers \cup {External}, plan : Plans \cup {NoPlan}])
          /\ log' \in Seq([tree : Tree, by : Writers \cup {External}, plan : Plans \cup {NoPlan}])
      BY DEF TypeInv, TypeOK
    <3> QED BY <3>1
  <2>2. hooks[p][i].commit <= Len(log)
    BY DEF HooksInv
  <2> QED BY <2>0, <2>1, <2>2
<1> QED BY <1>1, <1>2, <1>3 DEF HooksInv

LEMMA HooksStep == TypeInv /\ LockInv /\ HooksInv /\ [Next]_vars => HooksInv'
<1> SUFFICES ASSUME TypeInv, LockInv, HooksInv, [Next]_vars PROVE HooksInv'
  OBVIOUS
<1>a. TypeInv'
  BY TypeStep
<1>b. Len(log) \in Nat
  BY DEF TypeInv, TypeOK
<1> USE DEF Goto, Leave, repo, Unannounced
<1>1. ASSUME NEW w \in Writers, CasWin(w) PROVE HooksInv'
  <2>1. /\ hooks' = hooks /\ tip' = tip /\ tip[w] = Len(log)
        /\ pc' = [pc EXCEPT ![w] = "reveal"]
    BY <1>1 DEF CasWin
  <2>2. Len(log') = Len(log) + 1
    <3>1. log \in Seq(Entries) /\ built[w] \in Tree /\ plan[w] \in Plans \cup {NoPlan}
      BY DEF TypeInv, TypeOK, Entries
    <3>2. Commit(built[w], w, plan[w]) \in Entries
      BY <3>1 DEF Commit, Entries
    <3> QED BY <1>1, <3>1, <3>2 DEF CasWin
  <2>3. HooksFollowCommits'
    BY <2>1 DEF HooksInv, HooksFollowCommits
  <2>4. ASSUME NEW p \in Procs, NEW i \in DOMAIN hooks[p] PROVE hooks[p][i].commit <= Len(log')
    <3>1. hooks[p][i].commit \in Nat
      BY HookType
    <3>2. hooks[p][i].commit <= Len(log)
      BY DEF HooksInv
    <3> QED BY <1>b, <2>2, <3>1, <3>2
  <2>5. ASSUME NEW p \in Procs, NEW i \in DOMAIN hooks[p], NEW v \in Writers,
               ProcOf[v] = p, Unannounced(v)'
        PROVE  hooks[p][i].commit <= tip[v]
    <3>1. CASE v = w
      BY <2>1, <3>1 DEF HooksInv
    <3>2. CASE v # w
      BY <2>1, <2>5, <3>2 DEF HooksInv, TypeInv, TypeOK
    <3> QED BY <3>1, <3>2
  <2> QED BY <2>1, <2>3, <2>4, <2>5 DEF HooksInv
<1>2. ASSUME NEW w \in Writers, Hook(w) PROVE HooksInv'
  <2> DEFINE p == ProcOf[w]
             e == [parent |-> tip[w], commit |-> Own(w)]
  <2>1. /\ pc[w] = "hook" /\ pc' = [pc EXCEPT ![w] = "unlock"]
        /\ hooks' = [hooks EXCEPT ![p] = Append(@, e)]
        /\ log' = log /\ tip' = tip
    BY <1>2 DEF Hook
  <2>2. /\ p \in Procs /\ tip[w] \in Nat /\ tip[w] < Len(log)
        /\ e \in [parent : Nat, commit : Nat] /\ e.commit = tip[w] + 1 /\ e.parent = tip[w]
    <3>1. tip[w] < Len(log)
      BY <2>1 DEF TypeInv, TipKnown
    <3>2. p \in Procs /\ tip[w] \in Nat
      BY DEF TypeInv, TypeOK
    <3> QED BY <3>1, <3>2 DEF Own
  <2>3. /\ hooks[p] \in Seq([parent : Nat, commit : Nat])
        /\ hooks'[p] = Append(hooks[p], e)
        /\ \A q \in Procs : q # p => hooks'[q] = hooks[q]
    BY <2>1, <2>2 DEF TypeInv, TypeOK
  <2> HIDE DEF e, p
  <2>4. /\ DOMAIN hooks[p] = 1 .. Len(hooks[p]) /\ Len(hooks[p]) \in Nat
        /\ DOMAIN hooks'[p] = 1 .. Len(hooks[p]) + 1
        /\ \A i \in 1 .. Len(hooks[p]) : hooks'[p][i] = hooks[p][i]
        /\ hooks'[p][Len(hooks[p]) + 1] = e
    BY <2>2, <2>3
  <2>5. ASSUME NEW i \in 1 .. Len(hooks[p])
        PROVE  /\ hooks[p][i].commit \in Nat /\ hooks[p][i].commit <= tip[w]
               /\ hooks[p][i].commit = hooks[p][i].parent + 1
    <3>1. p = ProcOf[w] /\ i \in DOMAIN hooks[p]
      BY <2>4 DEF p
    <3>2. hooks[p][i].commit \in Nat
      BY <2>2, <3>1, HookType
    <3>3. hooks[p][i].commit <= tip[w]
      BY <2>1, <2>2, <3>1 DEF HooksInv
    <3>4. hooks[p][i].commit = hooks[p][i].parent + 1
      BY <2>2, <3>1 DEF HooksInv, HooksFollowCommits
    <3> QED BY <3>2, <3>3, <3>4
  <2>6. \A v \in Writers : ProcOf[v] = p => ~Unannounced(v)'
    <3> SUFFICES ASSUME NEW v \in Writers, ProcOf[v] = p, Unannounced(v)' PROVE FALSE
      OBVIOUS
    <3>1. v # w /\ pc[v] \in Critical /\ pc[w] \in Critical
      BY <2>1 DEF TypeInv, TypeOK, Critical
    <3> QED BY <3>1, MutualExclusion
  <2>7. HooksFollowCommits'
    <3>1. ASSUME NEW q \in Procs, NEW i \in DOMAIN hooks'[q]
          PROVE  hooks'[q][i].commit = hooks'[q][i].parent + 1
      <4>1. CASE q = p
        <5>1. CASE i \in 1 .. Len(hooks[p])
          BY <2>4, <2>5, <4>1, <5>1
        <5>2. CASE i = Len(hooks[p]) + 1
          BY <2>2, <2>4, <4>1, <5>2
        <5>3. i \in 1 .. Len(hooks[p]) \/ i = Len(hooks[p]) + 1
          BY <2>4, <4>1, OneMore
        <5> QED BY <5>1, <5>2, <5>3
      <4>2. CASE q # p
        BY <2>3, <4>2 DEF HooksInv, HooksFollowCommits
      <4> QED BY <4>1, <4>2
    <3>2. ASSUME NEW q \in Procs, NEW i \in DOMAIN hooks'[q], NEW j \in DOMAIN hooks'[q], i < j
          PROVE  hooks'[q][i].commit < hooks'[q][j].commit
      <4>1. CASE q # p
        BY <2>3, <3>2, <4>1 DEF HooksInv, HooksFollowCommits
      <4>2. CASE q = p /\ j \in 1 .. Len(hooks[p])
        <5>1. i \in 1 .. Len(hooks[p])
          <6>1. i \in 1 .. Len(hooks[p]) + 1 /\ Len(hooks[p]) \in Nat
            BY <2>4, <4>2
          <6> QED BY <3>2, <4>2, <6>1
        <5> QED BY <2>4, <3>2, <4>2, <5>1, <2>2 DEF HooksInv, HooksFollowCommits
      <4>3. CASE q = p /\ j = Len(hooks[p]) + 1
        <5>1. i \in 1 .. Len(hooks[p])
          BY <2>4, <3>2, <4>3
        <5>2. hooks'[q][j].commit = tip[w] + 1
          BY <2>2, <2>4, <4>3
        <5>3. /\ hooks'[q][i].commit \in Nat
              /\ hooks'[q][i].commit <= tip[w]
          BY <2>4, <2>5, <4>3, <5>1
        <5> QED BY <2>2, <5>2, <5>3
      <4>4. q = p => j \in 1 .. Len(hooks[p]) \/ j = Len(hooks[p]) + 1
        <5>1. q = p => j \in 1 .. Len(hooks[p]) + 1
          BY <2>4
        <5> QED BY <2>4, <5>1, OneMore
      <4> QED BY <4>1, <4>2, <4>3, <4>4
    <3> QED BY <3>1, <3>2 DEF HooksFollowCommits
  <2>8. ASSUME NEW q \in Procs, NEW i \in DOMAIN hooks'[q]
        PROVE  /\ hooks'[q][i].commit <= Len(log)
               /\ \A v \in Writers :
                    ProcOf[v] = q /\ Unannounced(v)' => hooks'[q][i].commit <= tip[v]
    <3>1. CASE q = p
      <4>1. hooks'[q][i].commit \in Nat /\ hooks'[q][i].commit <= tip[w] + 1
        <5>1. CASE i \in 1 .. Len(hooks[p])
          <6>1. hooks'[q][i] = hooks[p][i]
            BY <2>4, <3>1, <5>1
          <6>2. hooks[p][i].commit \in Nat /\ hooks[p][i].commit <= tip[w]
            BY <2>5, <5>1
          <6> QED BY <2>2, <6>1, <6>2
        <5>2. CASE i = Len(hooks[p]) + 1
          BY <2>2, <2>4, <3>1, <5>2
        <5>3. i \in 1 .. Len(hooks[p]) \/ i = Len(hooks[p]) + 1
          BY <2>4, <3>1, OneMore
        <5> QED BY <5>1, <5>2, <5>3
      <4> QED BY <1>b, <2>2, <2>6, <3>1, <4>1
    <3>2. CASE q # p
      BY <2>1, <2>3, <3>2 DEF HooksInv, TypeInv, TypeOK
    <3> QED BY <3>1, <3>2
  <2> QED BY <2>1, <2>7, <2>8 DEF HooksInv
<1>3. ASSUME NEW p \in Procs, Crash(p) PROVE HooksInv'
  <2>1. /\ hooks' = [hooks EXCEPT ![p] = <<>>] /\ log' = log
        /\ \A w \in Writers : pc'[w] # "idle" => pc'[w] = pc[w] /\ tip'[w] = tip[w]
    BY <1>3 DEF Crash, Forget
  <2>2. hooks'[p] = <<>> /\ \A q \in Procs : q # p => hooks'[q] = hooks[q]
    BY <2>1 DEF TypeInv, TypeOK
  <2> QED BY <2>1, <2>2 DEF HooksInv, HooksFollowCommits
<1>4. ASSUME NEW w \in Writers, Submit(w) \/ Advance(w) \/ RevealFails(w), ~CasWin(w), ~Hook(w)
      PROVE  HooksInv'
  <2> DEFINE Quiet == /\ hooks' = hooks /\ log' = log
                      /\ \A v \in Writers : Unannounced(v)' => Unannounced(v) /\ tip'[v] = tip[v]
  <2>0. ASSUME Quiet PROVE HooksInv'
    <3>1. Len(log) <= Len(log')
      BY <1>b, <2>0
    <3> QED BY <1>a, <2>0, <3>1, HooksQuiet
  <2>1. CASE Submit(w) \/ Reject(w) \/ LockMutex(w) \/ LockFile(w) \/ ReadTip(w)
    <3>1. Quiet BY <2>1 DEF Submit, Reject, LockMutex, LockFile, ReadTip, TypeInv, TypeOK
    <3> QED BY <2>0, <3>1
  <2>2. CASE Refuse(w) \/ AbortStale(w) \/ AbortNoSource(w) \/ NoOp(w) \/ BuildTree(w)
    <3>1. Quiet BY <2>2 DEF Refuse, AbortStale, AbortNoSource, NoOp, BuildTree, TypeInv, TypeOK
    <3> QED BY <2>0, <3>1
  <2>3. CASE CasLose(w) \/ CasGiveUp(w)
    <3>1. Quiet BY <2>3 DEF CasLose, CasGiveUp, TypeInv, TypeOK
    <3> QED BY <2>0, <3>1
  <2>4. CASE Reveal(w) \/ SyncIndex(w) \/ RevealFails(w)
    <3>1. Quiet BY <2>4 DEF Reveal, SyncIndex, RevealFails, TypeInv, TypeOK
    <3> QED BY <2>0, <3>1
  <2>5. CASE Unlock(w)
    <3>1. Quiet BY <2>5 DEF Unlock, Forget, TypeInv, TypeOK
    <3> QED BY <2>0, <3>1
  <2> QED BY <1>4, <2>1, <2>2, <2>3, <2>4, <2>5 DEF Advance
<1>5. ASSUME Person \/ UNCHANGED vars PROVE HooksInv'
  <2>1. hooks' = hooks /\ pc' = pc /\ tip' = tip /\ Len(log) <= Len(log')
    BY <1>5, <1>b DEF Person, PersonEdits, PersonStages, PersonCommits, PersonChecksOut,
                      vars, local, TypeInv, TypeOK
  <2> QED BY <1>a, <2>1, HooksQuiet
<1> QED BY <1>1, <1>2, <1>3, <1>4, <1>5 DEF Next

\* Every process's reindex queue is fed in commit order, each commit with the
\* parent it was built on.
THEOREM HooksInOrder == Spec => []HooksFollowCommits
<1>1. Init => TypeInv /\ LockInv /\ HooksInv
  <2>1. Init => HooksInv
    BY DEF Init, HooksInv, HooksFollowCommits
  <2> QED BY <2>1, TypeInit, LockInit
<1>2. TypeInv /\ LockInv /\ HooksInv /\ [Next]_vars => (TypeInv /\ LockInv /\ HooksInv)'
  BY TypeStep, LockStep, HooksStep
<1>3. HooksInv => HooksFollowCommits
  BY DEF HooksInv
<1> QED BY <1>1, <1>2, <1>3, PTL DEF Spec

-----------------------------------------------------------------------------
(* What a step of one call leaves to the others.                           *)

Moves(w) == Submit(w) \/ Advance(w) \/ RevealFails(w)

SameCall(v) ==
  /\ pc'[v] = pc[v] /\ plan'[v] = plan[v] /\ tip'[v] = tip[v] /\ built'[v] = built[v]
  /\ todo'[v] = todo[v] /\ reply'[v] = reply[v] /\ since'[v] = since[v]

LEMMA OthersStay ==
  ASSUME TypeInv, NEW w \in Writers, Moves(w), NEW v \in Writers, v # w
  PROVE  SameCall(v)
<1> USE DEF TypeInv, TypeOK, SameCall, Goto, Leave, locks, repo, bounds
<1>1. CASE Submit(w)
  BY <1>1 DEF Submit
<1>2. CASE Reject(w) \/ LockMutex(w) \/ LockFile(w) \/ ReadTip(w)
  BY <1>2 DEF Reject, LockMutex, LockFile, ReadTip
<1>3. CASE Refuse(w) \/ AbortStale(w) \/ AbortNoSource(w) \/ NoOp(w)
  BY <1>3 DEF Refuse, AbortStale, AbortNoSource, NoOp
<1>4. CASE BuildTree(w) \/ CasWin(w) \/ CasLose(w) \/ CasGiveUp(w)
  BY <1>4 DEF BuildTree, CasWin, CasLose, CasGiveUp
<1>5. CASE Reveal(w) \/ SyncIndex(w) \/ RevealFails(w) \/ Hook(w)
  BY <1>5 DEF Reveal, SyncIndex, RevealFails, Hook
<1>6. CASE Unlock(w)
  BY <1>6 DEF Unlock, Forget
<1> QED BY <1>1, <1>2, <1>3, <1>4, <1>5, <1>6 DEF Moves, Advance

LEMMA PersonLeavesCalls ==
  ASSUME TypeInv, Person \/ UNCHANGED vars, NEW v \in Writers
  PROVE  SameCall(v)
  BY DEF Person, PersonEdits, PersonStages, PersonCommits, PersonChecksOut, vars, local, SameCall

\* A step keeps the branch or appends one commit: the call's that won, or one
\* made with git.
Appends(e) == e \in Entries /\ log' = Append(log, e)

LEMMA BranchGrows ==
  ASSUME TypeInv, [Next]_vars
  PROVE  \/ log' = log
         \/ \E w \in Writers : CasWin(w) /\ Appends(Commit(built[w], w, plan[w]))
         \/ PersonCommits /\ Appends(Commit(index, External, NoPlan))
<1> USE DEF TypeInv, TypeOK, repo
<1>1. ASSUME NEW w \in Writers, Moves(w), ~CasWin(w) PROVE log' = log
  BY <1>1 DEF Moves, Advance, Submit, Reject, LockMutex, LockFile, ReadTip, Refuse, AbortStale,
              AbortNoSource, NoOp, BuildTree, CasLose, CasGiveUp, Reveal, SyncIndex,
              RevealFails, Hook, Unlock
<1>2. ASSUME NEW w \in Writers, CasWin(w) PROVE Appends(Commit(built[w], w, plan[w]))
  BY <1>2 DEF CasWin, Appends, Commit, Entries
<1>3. ASSUME PersonCommits PROVE Appends(Commit(index, External, NoPlan))
  BY <1>3 DEF PersonCommits, Appends, Commit, Entries
<1>4. ASSUME (\E p \in Procs : Crash(p)) \/ (Person /\ ~PersonCommits) \/ UNCHANGED vars
      PROVE  log' = log
  BY <1>4 DEF Crash, Person, PersonEdits, PersonStages, PersonChecksOut, vars
<1> QED BY <1>1, <1>2, <1>3, <1>4 DEF Next, Moves

-----------------------------------------------------------------------------
(* Replies.                                                                *)

\* Call w has no commit on the branch since it was made.
Uncommitted(w) == since[w] <= Len(log) /\ \A i \in since[w] + 1 .. Len(log) : log[i].by # w

\* Call w's commit is on the branch.
Committed(w) == Own(w) \in DOMAIN log /\ log[Own(w)].by = w /\ log[Own(w)].plan = plan[w]

ReplyIsTrue(w) ==
  /\ pc[w] \in {"begin", "mutex", "read", "prepare", "cas"} => Uncommitted(w)
  /\ pc[w] \in {"reveal", "sync", "hook"} => Committed(w)
  /\ pc[w] = "unlock" =>
       /\ reply[w] = "committed" => Committed(w)
       /\ reply[w] \in {"conflict", "noop"} => Uncommitted(w)

ReplyInv == \A w \in Writers : ReplyIsTrue(w)

LEMMA LogType == TypeInv => log \in Seq(Entries)
  BY DEF TypeInv, TypeOK, Entries

\* Neither fact is disturbed while no commit of the same call is appended.
LEMMA BranchFactsStay ==
  ASSUME TypeInv, TypeInv', NEW w \in Writers,
         since'[w] = since[w], tip'[w] = tip[w], plan'[w] = plan[w],
         log' = log \/ \E e \in Entries : e.by # w /\ log' = Append(log, e)
  PROVE  (Uncommitted(w) => Uncommitted(w)') /\ (Committed(w) => Committed(w)')
<1>1. /\ Len(log) \in Nat /\ DOMAIN log = 1 .. Len(log) /\ since[w] \in Nat /\ tip[w] \in Nat
  BY LogType DEF TypeInv, TypeOK
<1>2. CASE log' = log
  BY <1>2 DEF Uncommitted, Committed, Own
<1>3. ASSUME NEW e \in Entries, e.by # w, log' = Append(log, e)
      PROVE  (Uncommitted(w) => Uncommitted(w)') /\ (Committed(w) => Committed(w)')
  <2>1. /\ Len(log') = Len(log) + 1 /\ DOMAIN log' = 1 .. Len(log) + 1
        /\ \A i \in 1 .. Len(log) : log'[i] = log[i]
        /\ log'[Len(log) + 1] = e
    <3>1. DOMAIN log' = 1 .. Len(log')
      BY LogType
    <3>2. /\ Len(log') = Len(log) + 1 /\ log'[Len(log) + 1] = e
          /\ \A i \in DOMAIN log : log'[i] = log[i]
      BY <1>3, TreeAtAppend
    <3> QED BY <1>1, <3>1, <3>2
  <2>2. ASSUME Uncommitted(w) PROVE Uncommitted(w)'
    <3>1. ASSUME NEW i \in since[w] + 1 .. Len(log) + 1 PROVE log'[i].by # w
      <4>1. CASE i = Len(log) + 1
        BY <1>3, <2>1, <4>1
      <4>2. CASE i # Len(log) + 1
        <5>1. i \in since[w] + 1 .. Len(log) /\ i \in 1 .. Len(log)
          BY <1>1, <4>2
        <5> QED BY <2>1, <2>2, <5>1 DEF Uncommitted
      <4> QED BY <4>1, <4>2
    <3>2. since[w] <= Len(log) + 1
      BY <1>1, <2>2 DEF Uncommitted
    <3> QED BY <2>1, <3>1, <3>2 DEF Uncommitted
  <2>3. ASSUME Committed(w) PROVE Committed(w)'
    <3>1. Own(w)' = Own(w) /\ Own(w) \in 1 .. Len(log)
      BY <1>1, <2>3 DEF Own, Committed
    <3> QED BY <1>1, <2>1, <2>3, <3>1 DEF Committed
  <2> QED BY <2>2, <2>3
<1> QED BY <1>2, <1>3

\* A call that has just won its compare-and-swap is committed.
LEMMA WinnerIsCommitted ==
  ASSUME TypeInv, TypeInv', NEW w \in Writers, CasWin(w) PROVE Committed(w)'
<1>1. Commit(built[w], w, plan[w]) \in Entries
  BY DEF TypeInv, TypeOK, Entries, Commit
<1>2. /\ log' = Append(log, Commit(built[w], w, plan[w])) /\ tip[w] = Len(log)
      /\ plan' = plan /\ tip' = tip
  BY DEF CasWin
<1>3. Len(log') = Len(log) + 1 /\ log'[Len(log) + 1] = Commit(built[w], w, plan[w])
  BY <1>1, <1>2, TreeAtAppend
<1>4. Len(log) \in Nat /\ Len(log) + 1 \in DOMAIN log'
  <2>1. DOMAIN log' = 1 .. Len(log') /\ Len(log) \in Nat
    BY LogType
  <2> QED BY <1>3, <2>1
<1> QED BY <1>2, <1>3, <1>4 DEF Committed, Own, Commit

LEMMA ReplyMoves ==
  ASSUME TypeInv, TypeInv', ReplyInv, NEW w \in Writers, Moves(w), ~CasWin(w), log' = log
  PROVE  ReplyIsTrue(w)'
<1>0. /\ Len(log) \in Nat /\ pc \in [Writers -> Steps] /\ reply \in [Writers -> Replies]
      /\ since \in [Writers -> Nat] /\ tip \in [Writers -> Nat]
  BY LogLength DEF TypeInv, TypeOK
<1>1. /\ ReplyIsTrue(w)
      /\ since'[w] = since[w] /\ plan'[w] = plan[w] => (Uncommitted(w) => Uncommitted(w)')
      /\ tip'[w] = tip[w] /\ plan'[w] = plan[w] => (Committed(w) => Committed(w)')
  BY DEF ReplyInv, Uncommitted, Committed, Own
<1> USE DEF ReplyIsTrue, Goto, Leave
<1>2. CASE Submit(w)
  <2>1. since'[w] = Len(log) /\ pc'[w] = "begin"
    BY <1>0, <1>2 DEF Submit
  <2>2. Uncommitted(w)'
    BY <1>0, <2>1 DEF Uncommitted
  <2> QED BY <2>1, <2>2
<1>3. CASE Reject(w) \/ LockMutex(w) \/ LockFile(w)
  BY <1>0, <1>1, <1>3 DEF Reject, LockMutex, LockFile
<1>4. CASE ReadTip(w)
  BY <1>0, <1>1, <1>4 DEF ReadTip
<1>5. CASE Refuse(w) \/ AbortStale(w) \/ AbortNoSource(w) \/ NoOp(w)
  BY <1>0, <1>1, <1>5 DEF Refuse, AbortStale, AbortNoSource, NoOp
<1>6. CASE BuildTree(w) \/ CasLose(w) \/ CasGiveUp(w)
  BY <1>0, <1>1, <1>6 DEF BuildTree, CasLose, CasGiveUp
<1>7. CASE Reveal(w)
  BY <1>0, <1>1, <1>7 DEF Reveal
<1>8. CASE SyncIndex(w) \/ RevealFails(w)
  BY <1>0, <1>1, <1>8 DEF SyncIndex, RevealFails
<1>9. CASE Hook(w)
  BY <1>0, <1>1, <1>9 DEF Hook
<1>10. CASE Unlock(w)
  BY <1>0, <1>10 DEF Unlock
<1> QED BY <1>2, <1>3, <1>4, <1>5, <1>6, <1>7, <1>8, <1>9, <1>10 DEF Moves, Advance

LEMMA ReplyStep == TypeInv /\ ReplyInv /\ [Next]_vars => ReplyInv'
<1> SUFFICES ASSUME TypeInv, ReplyInv, [Next]_vars, NEW v \in Writers PROVE ReplyIsTrue(v)'
  BY DEF ReplyInv
<1>0. TypeInv' /\ ReplyIsTrue(v)
  BY TypeStep DEF ReplyInv
<1>1. ASSUME SameCall(v), log' = log \/ \E e \in Entries : e.by # v /\ log' = Append(log, e)
      PROVE  ReplyIsTrue(v)'
  BY <1>0, <1>1, BranchFactsStay DEF SameCall, ReplyIsTrue
<1>2. ASSUME NEW w \in Writers, Moves(w) PROVE ReplyIsTrue(v)'
  <2>1. CASE CasWin(w)
    <3>1. CASE v = w
      <4>1. pc'[v] = "reveal"
        BY <2>1, <3>1 DEF CasWin, Goto, TypeInv, TypeOK
      <4> QED BY <1>0, <2>1, <3>1, <4>1, WinnerIsCommitted DEF ReplyIsTrue
    <3>2. CASE v # w
      <4>1. Commit(built[w], w, plan[w]) \in Entries /\ Commit(built[w], w, plan[w]).by # v
        BY <3>2 DEF Commit, Entries, TypeInv, TypeOK
      <4>2. log' = Append(log, Commit(built[w], w, plan[w]))
        BY <2>1 DEF CasWin
      <4> QED BY <1>1, <1>2, <3>2, <4>1, <4>2, OthersStay
    <3> QED BY <3>1, <3>2
  <2>2. CASE ~CasWin(w)
    <3>1. log' = log
      BY <1>2, <2>2 DEF Moves, Advance, Submit, Reject, LockMutex, LockFile, ReadTip, Refuse,
                        AbortStale, AbortNoSource, NoOp, BuildTree, CasLose, CasGiveUp, Reveal,
                        SyncIndex, RevealFails, Hook, Unlock, repo
    <3>2. CASE v = w
      BY <1>0, <1>2, <2>2, <3>1, <3>2, ReplyMoves
    <3>3. CASE v # w
      BY <1>1, <1>2, <3>1, <3>3, OthersStay
    <3> QED BY <3>2, <3>3
  <2> QED BY <2>1, <2>2
<1>3. ASSUME NEW p \in Procs, Crash(p) PROVE ReplyIsTrue(v)'
  <2>1. log' = log /\ (ProcOf[v] = p => pc'[v] = "idle")
    BY <1>3 DEF Crash, repo
  <2>2. ProcOf[v] # p => SameCall(v)
    BY <1>3 DEF Crash, Forget, SameCall
  <2>3. pc'[v] = "idle" => ReplyIsTrue(v)'
    BY DEF ReplyIsTrue
  <2> QED BY <1>1, <2>1, <2>2, <2>3
<1>4. ASSUME Person \/ UNCHANGED vars PROVE ReplyIsTrue(v)'
  <2>1. SameCall(v)
    BY <1>4, PersonLeavesCalls
  <2>2. log' = log \/ \E e \in Entries : e.by # v /\ log' = Append(log, e)
    <3>1. CASE PersonCommits
      <4>1. Commit(index, External, NoPlan) \in Entries /\ Commit(index, External, NoPlan).by # v
        BY DEF Commit, Entries, TypeInv, TypeOK
      <4> QED BY <3>1, <4>1 DEF PersonCommits
    <3>2. CASE ~PersonCommits
      BY <1>4, <3>2 DEF Person, PersonEdits, PersonStages, PersonChecksOut, vars, repo
    <3> QED BY <3>1, <3>2
  <2> QED BY <1>1, <2>1, <2>2
<1> QED BY <1>2, <1>3, <1>4 DEF Next, Moves

\* What a call is told is the truth about the branch: "committed" names its
\* own commit, a conflict or a no-op left none.
THEOREM RepliesTrue == Spec => []RepliesAreTrue
<1>1. Init => ReplyInv
  BY DEF Init, ReplyInv, ReplyIsTrue
<1>2. ReplyInv => RepliesAreTrue
  BY DEF ReplyInv, ReplyIsTrue, RepliesAreTrue, Committed, Uncommitted
<1> QED BY <1>1, <1>2, TypeInit, TypeStep, ReplyStep, PTL DEF Spec

-----------------------------------------------------------------------------
(* Announcements.                                                          *)

Announced(p, i) == \E k \in DOMAIN hooks[p] : hooks[p][k].commit = i
Pending(v, i)   == Unannounced(v) /\ Own(v) = i

\* The hook announces one commit more, and forgets none.
LEMMA HookAnnounces ==
  ASSUME TypeInv, NEW w \in Writers, Hook(w)
  PROVE  /\ Announced(ProcOf[w], Own(w))'
         /\ \A p \in Procs, i \in Nat : Announced(p, i) => Announced(p, i)'
<1> DEFINE p == ProcOf[w]
           e == [parent |-> tip[w], commit |-> Own(w)]
<1>1. /\ p \in Procs /\ e \in [parent : Nat, commit : Nat] /\ e.commit = Own(w)
      /\ hooks[p] \in Seq([parent : Nat, commit : Nat])
      /\ hooks'[p] = Append(hooks[p], e)
      /\ \A q \in Procs : q # p => hooks'[q] = hooks[q]
      /\ Own(w)' = Own(w)
  <2>1. hooks' = [hooks EXCEPT ![p] = Append(@, e)] /\ tip' = tip
    BY DEF Hook
  <2>2. /\ hooks \in [Procs -> Seq([parent : Nat, commit : Nat])]
        /\ p \in Procs /\ tip[w] \in Nat
    BY DEF TypeInv, TypeOK
  <2> QED BY <2>1, <2>2 DEF Own
<1> HIDE DEF e
<1>2. /\ Len(hooks[p]) \in Nat /\ DOMAIN hooks[p] = 1 .. Len(hooks[p])
      /\ DOMAIN hooks'[p] = 1 .. Len(hooks[p]) + 1
      /\ \A k \in 1 .. Len(hooks[p]) : hooks'[p][k] = hooks[p][k]
      /\ hooks'[p][Len(hooks[p]) + 1] = e
  BY <1>1
<1>3. Announced(p, Own(w))'
  <2>1. Len(hooks[p]) + 1 \in DOMAIN hooks'[p] /\ hooks'[p][Len(hooks[p]) + 1].commit = Own(w)'
    BY <1>1, <1>2
  <2> QED BY <2>1 DEF Announced
<1>4. ASSUME NEW q \in Procs, NEW i \in Nat, Announced(q, i) PROVE Announced(q, i)'
  <2>1. CASE q = p
    <3>1. PICK k \in DOMAIN hooks[q] : hooks[q][k].commit = i
      BY <1>4 DEF Announced
    <3>2. k \in 1 .. Len(hooks[p])
      BY <1>2, <2>1
    <3>3. k \in DOMAIN hooks'[q] /\ hooks'[q][k] = hooks[q][k]
      BY <1>2, <2>1, <3>2
    <3> QED BY <3>1, <3>3 DEF Announced
  <2>2. CASE q # p
    BY <1>1, <1>4, <2>2 DEF Announced
  <2> QED BY <2>1, <2>2
<1> QED BY <1>3, <1>4

\* What NoCommitGoesUnannounced says of one commit.
KnownOrPending(i) == Announced(ProcOf[log[i].by], i) \/ Pending(log[i].by, i)

LEMMA AnnouncedOrPending ==
  NoCommitGoesUnannounced <=>
    \A i \in DOMAIN log : faults = 0 /\ log[i].by # External => KnownOrPending(i)
  BY DEF NoCommitGoesUnannounced, Announced, Pending, Unannounced, KnownOrPending

\* A step that appends nothing of a call, drops no announcement and leaves
\* every call with an unannounced commit where it is.
LEMMA AnnounceQuiet ==
  ASSUME TypeInv, NoCommitGoesUnannounced, faults' = faults,
         \A i \in DOMAIN log' : log'[i].by # External => i \in DOMAIN log /\ log'[i] = log[i],
         \A p \in Procs, i \in Nat : Announced(p, i) => Announced(p, i)',
         \A v \in Writers, i \in Nat : Pending(v, i) => Pending(v, i)' \/ Announced(ProcOf[v], i)'
  PROVE  NoCommitGoesUnannounced'
<1> SUFFICES ASSUME NEW i \in DOMAIN log', faults = 0, log'[i].by # External
             PROVE  KnownOrPending(i)'
  <2>1. (\A i \in DOMAIN log : faults = 0 /\ log[i].by # External => KnownOrPending(i))'
          => NoCommitGoesUnannounced'
    BY AnnouncedOrPending, PTL
  <2> QED BY <2>1
<1>1. i \in DOMAIN log /\ log'[i] = log[i] /\ i \in Nat
  BY LogType
<1>2. log[i].by \in Writers
  <2>1. log[i] \in Entries
    BY <1>1, LogType
  <2> QED BY <1>1, <2>1 DEF Entries
<1>3. ProcOf[log[i].by] \in Procs
  BY <1>2
<1>4. Announced(ProcOf[log[i].by], i) \/ Pending(log[i].by, i)
  BY <1>1, AnnouncedOrPending DEF KnownOrPending
<1> QED BY <1>1, <1>2, <1>3, <1>4 DEF KnownOrPending

LEMMA AnnounceStep == TypeInv /\ NoCommitGoesUnannounced /\ [Next]_vars => NoCommitGoesUnannounced'
<1> SUFFICES ASSUME TypeInv, NoCommitGoesUnannounced, [Next]_vars
             PROVE  NoCommitGoesUnannounced'
  OBVIOUS
<1>0. TypeInv' /\ faults \in Nat
  BY TypeStep DEF TypeInv, TypeOK
<1>1. ASSUME NEW w \in Writers, CasWin(w) PROVE NoCommitGoesUnannounced'
  <2> DEFINE e == Commit(built[w], w, plan[w])
  <2>1. /\ hooks' = hooks /\ tip' = tip /\ faults' = faults /\ tip[w] = Len(log)
        /\ pc[w] = "cas" /\ pc' = [pc EXCEPT ![w] = "reveal"]
        /\ log' = Append(log, e) /\ e \in Entries /\ e.by = w
    BY <1>1 DEF CasWin, Goto, Commit, Entries, TypeInv, TypeOK, bounds
  <2> HIDE DEF e
  <2>2. /\ Len(log') = Len(log) + 1 /\ Len(log) \in Nat
        /\ \A i \in DOMAIN log : log'[i] = log[i]
        /\ log'[Len(log) + 1] = e /\ DOMAIN log' = 1 .. Len(log') /\ DOMAIN log = 1 .. Len(log)
    BY <1>0, <2>1, TreeAtAppend, LogType
  <2> SUFFICES ASSUME NEW i \in DOMAIN log', faults = 0, log'[i].by # External
               PROVE  KnownOrPending(i)'
    <3>1. (\A i \in DOMAIN log : faults = 0 /\ log[i].by # External => KnownOrPending(i))'
            => NoCommitGoesUnannounced'
      BY AnnouncedOrPending, PTL
    <3> QED BY <2>1, <3>1
  <2>3. CASE i = Len(log) + 1
    <3>1. pc'[w] = "reveal" /\ Own(w)' = i /\ log'[i].by = w
      BY <2>1, <2>2, <2>3 DEF Own, TypeInv, TypeOK
    <3>2. Pending(w, i)'
      BY <3>1 DEF Pending, Unannounced
    <3> QED BY <3>1, <3>2 DEF KnownOrPending
  <2>4. CASE i # Len(log) + 1
    <3>1. i \in DOMAIN log /\ log'[i] = log[i]
      BY <2>2, <2>4
    <3>2. KnownOrPending(i)
      BY <3>1, AnnouncedOrPending
    <3>3. ASSUME NEW p \in Procs, Announced(p, i) PROVE Announced(p, i)'
      BY <2>1, <3>3 DEF Announced
    <3>4. ASSUME NEW v \in Writers, Pending(v, i) PROVE Pending(v, i)'
      BY <2>1, <3>4 DEF Pending, Unannounced, Own, TypeInv, TypeOK
    <3>5. log[i].by \in Writers
      <4>1. log[i] \in Entries
        BY <2>2, <3>1, LogType
      <4> QED BY <3>1, <4>1 DEF Entries
    <3>6. ProcOf[log[i].by] \in Procs
      BY <3>5
    <3> QED BY <3>1, <3>2, <3>3, <3>4, <3>5, <3>6 DEF KnownOrPending
  <2> QED BY <2>3, <2>4
<1>2. ASSUME NEW w \in Writers, Moves(w), ~CasWin(w), ~RevealFails(w) PROVE NoCommitGoesUnannounced'
  <2>1. log' = log /\ faults' = faults
    BY <1>2 DEF Moves, Advance, Submit, Reject, LockMutex, LockFile, ReadTip, Refuse,
                AbortStale, AbortNoSource, NoOp, BuildTree, CasLose, CasGiveUp, Reveal,
                SyncIndex, Hook, Unlock, repo, bounds
  <2>2. ASSUME NEW p \in Procs, NEW i \in Nat, Announced(p, i) PROVE Announced(p, i)'
    <3>1. CASE Hook(w)
      BY <2>2, <3>1, HookAnnounces
    <3>2. CASE ~Hook(w)
      <4>1. hooks' = hooks
        BY <1>2, <3>2 DEF Moves, Advance, Submit, Reject, LockMutex, LockFile, ReadTip, Refuse,
                AbortStale, AbortNoSource, NoOp, BuildTree, CasLose, CasGiveUp, Reveal,
                SyncIndex, Unlock
      <4> QED BY <2>2, <4>1 DEF Announced
    <3> QED BY <3>1, <3>2
  <2>3. ASSUME NEW v \in Writers, NEW i \in Nat, Pending(v, i)
        PROVE  Pending(v, i)' \/ Announced(ProcOf[v], i)'
    <3>1. CASE v # w
      <4>1. SameCall(v)
        BY <1>2, <3>1, OthersStay
      <4> QED BY <2>3, <4>1 DEF SameCall, Pending, Unannounced, Own
    <3>2. CASE v = w /\ Hook(w)
      <4>1. Announced(ProcOf[w], Own(w))' /\ Own(w)' = Own(w)
        BY <3>2, HookAnnounces DEF Hook, Own
      <4> QED BY <2>3, <3>2, <4>1 DEF Pending, Announced
    <3>3. CASE v = w /\ ~Hook(w)
      <4>1. Reveal(w) \/ SyncIndex(w)
        BY <1>2, <2>3, <3>3 DEF Pending, Unannounced, Moves, Advance, Submit, Reject, LockMutex,
             LockFile, ReadTip, Refuse, AbortStale, AbortNoSource, NoOp, BuildTree, CasLose,
             CasGiveUp, Unlock, Goto, Leave
      <4>2. pc'[w] \in {"reveal", "sync", "hook"} /\ tip' = tip
        BY <4>1 DEF Reveal, SyncIndex, Goto, TypeInv, TypeOK
      <4> QED BY <2>3, <3>3, <4>2 DEF Pending, Unannounced, Own
    <3> QED BY <3>1, <3>2, <3>3
  <2> QED BY <2>1, <2>2, <2>3, AnnounceQuiet
<1>3. ASSUME (\E w \in Writers : RevealFails(w)) \/ (\E p \in Procs : Crash(p))
      PROVE  NoCommitGoesUnannounced'
  <2>1. faults' # 0
    <3>1. faults' = faults + 1
      BY <1>3 DEF RevealFails, Crash
    <3> QED BY <1>0, <3>1
  <2> QED BY <2>1 DEF NoCommitGoesUnannounced
<1>4. ASSUME Person \/ UNCHANGED vars PROVE NoCommitGoesUnannounced'
  <2>1. hooks' = hooks /\ pc' = pc /\ tip' = tip /\ faults' = faults
    BY <1>4 DEF Person, PersonEdits, PersonStages, PersonCommits, PersonChecksOut, vars, local, bounds
  <2>2. ASSUME NEW i \in DOMAIN log', log'[i].by # External PROVE i \in DOMAIN log /\ log'[i] = log[i]
    <3>1. CASE PersonCommits
      <4> DEFINE e == Commit(index, External, NoPlan)
      <4>1. e \in Entries /\ e.by = External /\ log' = Append(log, e)
        BY <3>1 DEF PersonCommits, Commit, Entries, TypeInv, TypeOK
      <4> HIDE DEF e
      <4>2. /\ DOMAIN log' = 1 .. Len(log) + 1 /\ DOMAIN log = 1 .. Len(log) /\ Len(log) \in Nat
            /\ log'[Len(log) + 1] = e /\ \A j \in DOMAIN log : log'[j] = log[j]
        BY <1>0, <4>1, TreeAtAppend, LogType
      <4> QED BY <2>2, <4>1, <4>2
    <3>2. CASE ~PersonCommits
      <4>1. log' = log
        BY <1>4, <3>2 DEF Person, PersonEdits, PersonStages, PersonChecksOut, vars, repo
      <4> QED BY <4>1
    <3> QED BY <3>1, <3>2
  <2>3. \A p \in Procs, i \in Nat : Announced(p, i) => Announced(p, i)'
    BY <2>1 DEF Announced
  <2>4. \A v \in Writers, i \in Nat : Pending(v, i) => Pending(v, i)'
    BY <2>1 DEF Pending, Unannounced, Own
  <2> QED BY <2>1, <2>2, <2>3, <2>4, AnnounceQuiet
<1> QED BY <1>1, <1>2, <1>3, <1>4 DEF Next, Moves

-----------------------------------------------------------------------------
(* The worktree.  A call checks the files and the index before it builds   *)
(* and overwrites them after its compare-and-swap; in between it holds the *)
(* lock, so that only the person could come between.                       *)

\* What the worktree holds while call w, left alone, is past its check.
UndisturbedCall(w) ==
  /\ pc[w] \in {"prepare", "cas"} => tip[w] = Len(log)
  /\ InReveal(w) => Own(w) = Len(log)
  /\ pc[w] = "cas" => index = HeadTree /\ \A p \in Touched(plan[w]) : work[p] = HeadTree[p]
  /\ InReveal(w) => index = TreeAt(tip[w]) /\ \A p \in todo[w] : work[p] = TreeAt(tip[w])[p]

RevealInv == raced = "no" => \A w \in Writers : UndisturbedCall(w)

Watched == {"prepare", "cas", "reveal", "sync"}

LEMMA OnlyWatchedMatters == \A u : pc[u] \notin Watched => UndisturbedCall(u)
  BY DEF UndisturbedCall, InReveal, Watched

\* What happens while call w stays where it is, in an unchanged repository.
LEMMA UndisturbedStays ==
  ASSUME NEW w \in Writers, UndisturbedCall(w), repo' = repo, SameCall(w)
  PROVE  UndisturbedCall(w)'
<1>1. log' = log /\ work' = work /\ index' = index
  BY DEF repo
<1>2. TreeAt(tip[w])' = TreeAt(tip[w]) /\ HeadTree' = HeadTree /\ Own(w)' = Own(w)
  BY <1>1 DEF TreeAt, HeadTree, Own, SameCall
<1> QED BY <1>1, <1>2 DEF UndisturbedCall, InReveal, SameCall

\* A call outside the lock leaves the repository alone.
LEMMA OutsideLeavesRepo ==
  ASSUME NEW w \in Writers, Moves(w), pc[w] \notin {"cas", "reveal", "sync"}
  PROVE  repo' = repo
  BY DEF Moves, Advance, Submit, Reject, LockMutex, LockFile, ReadTip, Refuse, AbortStale,
         AbortNoSource, NoOp, BuildTree, CasWin, CasLose, CasGiveUp, Reveal, SyncIndex,
         RevealFails, Hook, Unlock, Goto, Leave

LEMMA RevealOwnMove ==
  ASSUME TypeInv, TypeInv', NEW w \in Writers, Moves(w), UndisturbedCall(w)
  PROVE  UndisturbedCall(w)'
<1>0. /\ pc \in [Writers -> Steps] /\ tip \in [Writers -> Nat] /\ Len(log) \in Nat
      /\ todo \in [Writers -> SUBSET Paths] /\ work \in Tree /\ pc' \in [Writers -> Steps]
  BY LogLength DEF TypeInv, TypeOK
<1>1. CASE pc'[w] \notin Watched
  <2>1. (\A u : pc[u] \notin Watched => UndisturbedCall(u))'
    BY OnlyWatchedMatters, PTL
  <2> QED BY <1>1, <2>1
<1>2. CASE ReadTip(w)
  <2>1. pc'[w] = "prepare" /\ tip'[w] = Len(log) /\ log' = log
    BY <1>0, <1>2 DEF ReadTip, Goto, repo
  <2> QED BY <2>1 DEF UndisturbedCall, InReveal
<1>3. CASE BuildTree(w)
  <2>1. /\ pc[w] = "prepare" /\ pc'[w] = "cas" /\ tip' = tip /\ plan' = plan
        /\ log' = log /\ work' = work /\ index' = index
    BY <1>0, <1>3 DEF BuildTree, Goto, repo
  <2>2. tip[w] = Len(log) /\ WorktreeMatches(w)
    BY <1>3, <2>1 DEF UndisturbedCall, BuildTree, Buildable
  <2>3. HeadTree' = HeadTree /\ HeadTree = TreeAt(tip[w])
    BY <2>1, <2>2 DEF HeadTree, TreeAt
  <2> QED BY <2>1, <2>2, <2>3 DEF UndisturbedCall, InReveal, WorktreeMatches
<1>4. CASE CasWin(w)
  <2> DEFINE e == Commit(built[w], w, plan[w])
  <2>1. /\ pc[w] = "cas" /\ pc'[w] = "reveal" /\ tip' = tip /\ tip[w] = Len(log)
        /\ log' = Append(log, e) /\ e \in Entries
        /\ work' = work /\ index' = index /\ todo'[w] = Touched(plan[w])
    BY <1>0, <1>4 DEF CasWin, Goto, Commit, Entries, TypeInv, TypeOK
  <2> HIDE DEF e
  <2>2. Len(log') = Len(log) + 1 /\ TreeAt(tip[w])' = TreeAt(tip[w]) /\ HeadTree = TreeAt(tip[w])
    <3>1. /\ Len(log') = Len(log) + 1
          /\ \A i \in 0 .. Len(log) : TreeAt(i)' = TreeAt(i)
      BY <2>1, TreeAtAppend
    <3>2. tip[w] \in 0 .. Len(log) /\ tip'[w] = tip[w]
      BY <1>0, <2>1
    <3>3. HeadTree = TreeAt(tip[w])
      BY <2>1 DEF HeadTree
    <3>4. TreeAt(tip[w])' = TreeAt(tip[w])
      BY <3>1, <3>2
    <3> QED BY <3>1, <3>3, <3>4
  <2> QED BY <2>1, <2>2 DEF UndisturbedCall, InReveal, Own
<1>5. CASE Reveal(w)
  <2>1. PICK p \in todo[w] :
          /\ work' = [work EXCEPT ![p] = TreeAt(Own(w))[p]]
          /\ todo' = [todo EXCEPT ![w] = @ \ {p}]
    BY <1>5 DEF Reveal
  <2>2. /\ pc[w] = "reveal" /\ pc'[w] \in {"reveal", "sync"}
        /\ log' = log /\ index' = index /\ tip' = tip
    BY <1>0, <1>5 DEF Reveal
  <2>3. todo'[w] = todo[w] \ {p} /\ \A q \in todo[w] \ {p} : work'[q] = work[q]
    BY <1>0, <2>1 DEF Tree
  <2>4. TreeAt(tip[w])' = TreeAt(tip[w]) /\ Own(w)' = Own(w)
    BY <2>2 DEF TreeAt, Own
  <2> QED BY <2>2, <2>3, <2>4 DEF UndisturbedCall, InReveal
<1>6. pc'[w] \in Watched => ReadTip(w) \/ BuildTree(w) \/ CasWin(w) \/ Reveal(w)
  BY <1>0 DEF Watched, Moves, Advance, Submit, Reject, LockMutex, LockFile, Refuse, AbortStale,
         AbortNoSource, NoOp, CasLose, CasGiveUp, SyncIndex, RevealFails, Hook, Unlock, Goto, Leave
<1> QED BY <1>1, <1>2, <1>3, <1>4, <1>5, <1>6

LEMMA RevealStep == TypeInv /\ LockInv /\ RevealInv /\ [Next]_vars => RevealInv'
<1> SUFFICES ASSUME TypeInv, LockInv, RevealInv, [Next]_vars, raced' = "no", NEW v \in Writers
             PROVE  UndisturbedCall(v)'
  BY DEF RevealInv
<1>0. TypeInv' /\ raced \in {"no", "yes"} /\ pc \in [Writers -> Steps]
  BY TypeStep DEF TypeInv, TypeOK
<1>w. pc'[v] \notin Watched => UndisturbedCall(v)'
  <2>1. (\A u : pc[u] \notin Watched => UndisturbedCall(u))'
    BY OnlyWatchedMatters, PTL
  <2> QED BY <2>1
<1>1. ASSUME NEW w \in Writers, Moves(w) PROVE UndisturbedCall(v)'
  <2>1. raced = "no"
    BY <1>1 DEF Moves, Advance, Submit, Reject, LockMutex, LockFile, ReadTip, Refuse, AbortStale,
         AbortNoSource, NoOp, BuildTree, CasWin, CasLose, CasGiveUp, Reveal, SyncIndex,
         RevealFails, Hook, Unlock, bounds
  <2>2. UndisturbedCall(v)
    BY <2>1 DEF RevealInv
  <2>3. CASE v = w
    BY <1>0, <1>1, <2>2, <2>3, RevealOwnMove
  <2>4. CASE v # w /\ pc'[v] \in Watched
    <3>1. SameCall(v)
      BY <1>1, <2>4, OthersStay
    <3>2. pc[v] \in Critical
      BY <2>4, <3>1 DEF SameCall, Watched, Critical
    <3>3. pc[w] \notin {"cas", "reveal", "sync"}
      BY <2>4, <3>2, MutualExclusion DEF Critical
    <3> QED BY <1>1, <2>2, <3>1, <3>3, OutsideLeavesRepo, UndisturbedStays
  <2> QED BY <1>w, <2>3, <2>4
<1>2. ASSUME NEW p \in Procs, Crash(p) PROVE UndisturbedCall(v)'
  <2>1. repo' = repo /\ raced = "no" /\ (ProcOf[v] = p => pc'[v] = "idle")
    BY <1>2 DEF Crash
  <2>2. ProcOf[v] # p => SameCall(v)
    BY <1>2 DEF Crash, Forget, SameCall
  <2>3. ProcOf[v] = p => UndisturbedCall(v)'
    BY <1>w, <2>1 DEF Watched
  <2> QED BY <2>1, <2>2, <2>3, UndisturbedStays DEF RevealInv
<1>3. CASE Person
  <2>1. flock = Nobody /\ SameCall(v)
    BY <1>3, PersonLeavesCalls DEF Person, PersonEdits, PersonStages, PersonCommits,
       PersonChecksOut, PersonActs
  <2>2. pc'[v] \notin Watched
    BY <2>1 DEF SameCall, LockInv, Critical, Watched
  <2> QED BY <1>w, <2>2
<1>4. CASE UNCHANGED vars
  <2>1. raced = "no" /\ repo' = repo /\ SameCall(v)
    BY <1>4, PersonLeavesCalls DEF vars, bounds
  <2> QED BY <2>1, UndisturbedStays DEF RevealInv
<1> QED BY <1>1, <1>2, <1>3, <1>4 DEF Next, Moves

LEMMA RevealInit == Init => RevealInv
  BY DEF Init, RevealInv, UndisturbedCall, InReveal

\* A commit that a call builds on is history by the time it reveals its own.
LEMMA ParentIsHistory ==
  ASSUME TypeInv, NEW w \in Writers, InReveal(w), NEW p
  PROVE  InHistory(p, TreeAt(tip[w])[p])
<1>1. tip[w] \in 0 .. Len(log)
  <2>1. tip[w] \in Nat /\ tip[w] < Len(log)
    BY DEF TypeInv, TypeOK, TipKnown, InReveal
  <2> QED BY <2>1, LogLength
<1> QED BY <1>1 DEF InHistory

\* Left alone, a call only overwrites or deletes files, and only replaces index
\* entries, that some commit still holds.
THEOREM OnlyCommittedOverwritten == Spec => OnlyCommittedWorkOverwritten
<1> DEFINE Files == raced = "no" /\ todo' # todo => CommittedFilesOnly
           Index == raced = "no" /\ pc' # pc =>
                      \A p \in Paths : index'[p] # index[p] => InHistory(p, index[p])
<1>1. TypeInv /\ RevealInv /\ [Next]_vars => [Files]_vars
  <2> SUFFICES ASSUME TypeInv, RevealInv, [Next]_vars, raced = "no", todo' # todo,
                      NEW p \in Paths, work'[p] # work[p]
               PROVE  InHistory(p, work[p])
    BY DEF CommittedFilesOnly
  <2>1. ASSUME NEW w \in Writers, Moves(w) PROVE InHistory(p, work[p])
    <3>1. Reveal(w)
      BY <2>1 DEF Moves, Advance, Submit, Reject, LockMutex, LockFile, ReadTip, Refuse,
         AbortStale, AbortNoSource, NoOp, BuildTree, CasWin, CasLose, CasGiveUp, SyncIndex,
         RevealFails, Hook, Unlock, repo
    <3>2. pc[w] = "reveal" /\ InReveal(w)
      BY <3>1 DEF Reveal, InReveal
    <3>3. PICK q \in todo[w] : work' = [work EXCEPT ![q] = TreeAt(Own(w))[q]]
      BY <3>1 DEF Reveal
    <3>4. p = q
      BY <3>3 DEF TypeInv, TypeOK, Tree
    <3>5. work[p] = TreeAt(tip[w])[p]
      BY <3>2, <3>3, <3>4 DEF RevealInv, UndisturbedCall
    <3> QED BY <3>2, <3>5, ParentIsHistory
  <2>2. ASSUME (\E r \in Procs : Crash(r)) \/ Person \/ UNCHANGED vars PROVE FALSE
    BY <2>2 DEF Crash, Person, PersonEdits, PersonStages, PersonCommits, PersonChecksOut,
       vars, local, repo
  <2> QED BY <2>1, <2>2 DEF Next, Moves
<1>2. TypeInv /\ RevealInv /\ [Next]_vars => [Index]_vars
  <2> SUFFICES ASSUME TypeInv, RevealInv, [Next]_vars, raced = "no", pc' # pc,
                      NEW p \in Paths, index'[p] # index[p]
               PROVE  InHistory(p, index[p])
    OBVIOUS
  <2>1. ASSUME NEW w \in Writers, Moves(w) PROVE InHistory(p, index[p])
    <3>1. SyncIndex(w)
      BY <2>1 DEF Moves, Advance, Submit, Reject, LockMutex, LockFile, ReadTip, Refuse,
         AbortStale, AbortNoSource, NoOp, BuildTree, CasWin, CasLose, CasGiveUp, Reveal,
         RevealFails, Hook, Unlock, repo
    <3>2. InReveal(w)
      BY <3>1 DEF SyncIndex, Goto, InReveal
    <3>3. index = TreeAt(tip[w])
      BY <3>2 DEF RevealInv, UndisturbedCall
    <3> QED BY <3>2, <3>3, ParentIsHistory
  <2>2. ASSUME (\E r \in Procs : Crash(r)) \/ Person \/ UNCHANGED vars PROVE FALSE
    BY <2>2 DEF Crash, Person, PersonEdits, PersonStages, PersonCommits, PersonChecksOut,
       vars, local, repo
  <2> QED BY <2>1, <2>2 DEF Next, Moves
<1>3. Spec => [][Files]_vars /\ [][Index]_vars
  BY <1>1, <1>2, TypeInit, TypeStep, LockInit, LockStep, RevealInit, RevealStep, PTL DEF Spec
<1> QED BY <1>3 DEF OnlyCommittedWorkOverwritten, OnlyCommittedFilesOverwritten,
                   OnlyCommittedIndexOverwritten

-----------------------------------------------------------------------------
(* Interrupted reveals.  A reveal changes the files one by one and the      *)
(* index last and at once, so that the index tells on every state between.  *)

\* With nobody else at the files: the state of a reveal, and the flag.
FlagInv == edits = 0 =>
  /\ raced = "no"
  /\ \A w \in Writers :
       /\ InReveal(w) => \A p \in Paths \ todo[w] : work[p] = HeadTree[p]
       /\ pc[w] = "sync" => todo[w] = {}
  /\ work # HeadTree => index # HeadTree

\* The lemma that makes it inductive: in the middle of a reveal the files that
\* are still to come are those of the index.
LEMMA HalfRevealed ==
  ASSUME TypeInv, RevealInv, FlagInv, edits = 0, NEW w \in Writers, InReveal(w)
  PROVE  \A p \in Paths : work[p] = IF p \in todo[w] THEN index[p] ELSE HeadTree[p]
  BY DEF RevealInv, UndisturbedCall, FlagInv

LEMMA TreesEqual ==
  ASSUME NEW s \in Tree, NEW t \in Tree, \A p \in Paths : s[p] = t[p] PROVE s = t
  BY DEF Tree

LEMMA FlagMoves ==
  ASSUME TypeInv, TypeInv', LockInv, HistoryInv, RevealInv, FlagInv, NEW w \in Writers, Moves(w)
  PROVE  FlagInv'
<1>0. /\ pc \in [Writers -> Steps] /\ tip \in [Writers -> Nat] /\ Len(log) \in Nat
      /\ todo \in [Writers -> SUBSET Paths] /\ work \in Tree /\ index \in Tree
      /\ work' \in Tree /\ index' \in Tree
  BY LogLength DEF TypeInv, TypeOK
<1>e. edits' = edits /\ raced' = raced
  BY DEF Moves, Advance, Submit, Reject, LockMutex, LockFile, ReadTip, Refuse, AbortStale,
         AbortNoSource, NoOp, BuildTree, CasWin, CasLose, CasGiveUp, Reveal, SyncIndex,
         RevealFails, Hook, Unlock, bounds
<1>s. \A v \in Writers \ {w} : SameCall(v)
  BY OthersStay
<1> SUFFICES ASSUME edits = 0 PROVE FlagInv'
  BY <1>e DEF FlagInv
<1>h. HeadTree \in Tree
  BY <1>0, LogType, TreeAtType DEF HeadTree
<1>a. /\ raced = "no"
      /\ work # HeadTree => index # HeadTree
      /\ \A v \in Writers : UndisturbedCall(v)
      /\ \A v \in Writers :
           /\ InReveal(v) => \A p \in Paths \ todo[v] : work[p] = HeadTree[p]
           /\ pc[v] = "sync" => todo[v] = {}
  BY DEF FlagInv, RevealInv
<1>1. CASE CasWin(w)
  <2> DEFINE e == Commit(built[w], w, plan[w])
  <2>1. /\ pc[w] = "cas" /\ pc'[w] = "reveal" /\ tip[w] = Len(log)
        /\ log' = Append(log, e) /\ e \in Entries /\ e.tree = built[w]
        /\ work' = work /\ index' = index /\ todo'[w] = Touched(plan[w])
    BY <1>0, <1>1 DEF CasWin, Goto, Commit, Entries, TypeInv, TypeOK
  <2>2. built[w] = TreeAfter(plan[w], HeadTree)
    <3>1. Justified(Commit(built[w], w, plan[w]), TreeAt(tip[w]))
      BY <2>1 DEF HistoryInv, BuiltIsJustified
    <3>2. TreeAt(tip[w]) = HeadTree
      BY <2>1 DEF HeadTree
    <3> QED BY <3>1, <3>2 DEF Justified, Commit
  <2> HIDE DEF e
  <2>3. HeadTree' = built[w]
    BY <2>1, TreeAtAppend
  <2>4. index = HeadTree /\ work = HeadTree
    BY <1>a, <2>1 DEF UndisturbedCall
  <2>5. \A p \in Paths \ Touched(plan[w]) : HeadTree'[p] = work[p]
    BY <2>2, <2>3, <2>4 DEF TreeAfter
  <2>6. ASSUME NEW v \in Writers, v # w PROVE pc'[v] \notin {"reveal", "sync"}
    <3>1. pc[v] \notin Critical
      BY <2>1, <2>6, MutualExclusion DEF Critical
    <3> QED BY <1>s, <2>6, <3>1 DEF SameCall, Critical
  <2>7. work' # HeadTree' => index' # HeadTree'
    BY <2>1, <2>4
  <2> QED BY <1>a, <1>e, <2>1, <2>5, <2>6, <2>7 DEF FlagInv, InReveal
<1>2. CASE Reveal(w)
  <2>1. PICK p \in todo[w] :
          /\ work' = [work EXCEPT ![p] = TreeAt(Own(w))[p]]
          /\ todo' = [todo EXCEPT ![w] = @ \ {p}]
          /\ pc' = [pc EXCEPT ![w] = IF todo[w] = {p} THEN "sync" ELSE "reveal"]
    BY <1>2 DEF Reveal
  <2>2. pc[w] = "reveal" /\ log' = log /\ index' = index
    BY <1>2 DEF Reveal
  <2>3. HeadTree' = HeadTree /\ TreeAt(Own(w)) = HeadTree
    BY <1>a, <2>2 DEF HeadTree, TreeAt, UndisturbedCall, InReveal
  <2>4. /\ todo'[w] = todo[w] \ {p} /\ (pc'[w] = "sync" => todo'[w] = {})
        /\ work'[p] = HeadTree[p] /\ \A q \in Paths \ {p} : work'[q] = work[q]
    BY <1>0, <2>1, <2>3 DEF Tree
  <2>5. \A q \in Paths \ todo'[w] : work'[q] = HeadTree'[q]
    BY <1>a, <2>2, <2>3, <2>4 DEF InReveal
  <2>6. ASSUME NEW v \in Writers, v # w PROVE pc'[v] \notin {"reveal", "sync"}
    <3>1. pc[v] \notin Critical
      BY <2>2, <2>6, MutualExclusion DEF Critical
    <3> QED BY <1>s, <2>6, <3>1 DEF SameCall, Critical
  <2>7. index' = HeadTree' => work' = HeadTree'
    <3> SUFFICES ASSUME index = HeadTree PROVE work' = HeadTree
      BY <2>2, <2>3
    <3>1. ASSUME NEW q \in Paths PROVE work[q] = HeadTree[q]
      BY <2>2, HalfRevealed DEF InReveal
    <3>2. \A q \in Paths : work'[q] = HeadTree[q]
      BY <2>4, <3>1
    <3> QED BY <1>0, <1>h, <3>2, TreesEqual
  <2> QED BY <1>a, <1>e, <2>4, <2>5, <2>6, <2>7 DEF FlagInv, InReveal
<1>3. CASE SyncIndex(w)
  <2>1. pc[w] = "sync" /\ pc'[w] = "hook" /\ log' = log /\ work' = work
    BY <1>0, <1>3 DEF SyncIndex, Goto
  <2>2. \A q \in Paths : work[q] = HeadTree[q]
    BY <1>a, <2>1 DEF InReveal
  <2>3. HeadTree' = HeadTree /\ work = HeadTree
    BY <1>0, <1>h, <2>1, <2>2, TreesEqual DEF HeadTree, TreeAt
  <2>4. ASSUME NEW v \in Writers PROVE pc'[v] \notin {"reveal", "sync"}
    <3>1. v # w => pc[v] \notin Critical
      BY <2>1, MutualExclusion DEF Critical
    <3> QED BY <1>s, <2>1, <3>1 DEF SameCall, Critical
  <2> QED BY <1>a, <1>e, <2>1, <2>3, <2>4 DEF FlagInv, InReveal
<1>4. CASE ~CasWin(w) /\ ~Reveal(w) /\ ~SyncIndex(w)
  <2>1. /\ repo' = repo /\ pc'[w] \notin {"reveal", "sync"}
    BY <1>0, <1>4 DEF Moves, Advance, Submit, Reject, LockMutex, LockFile, ReadTip, Refuse,
       AbortStale, AbortNoSource, NoOp, BuildTree, CasLose, CasGiveUp, RevealFails, Hook,
       Unlock, Goto, Leave
  <2>2. log' = log /\ work' = work /\ index' = index
    BY <2>1 DEF repo
  <2>3. HeadTree' = HeadTree
    BY <2>2 DEF HeadTree, TreeAt
  <2>4. ASSUME NEW v \in Writers
        PROVE  /\ InReveal(v)' => \A p \in Paths \ todo'[v] : work[p] = HeadTree[p]
               /\ pc'[v] = "sync" => todo'[v] = {}
    <3>1. CASE v = w
      BY <2>1, <3>1 DEF InReveal
    <3>2. CASE v # w
      BY <1>a, <1>s, <3>2 DEF SameCall, InReveal
    <3> QED BY <3>1, <3>2
  <2> QED BY <1>a, <1>e, <2>2, <2>3, <2>4 DEF FlagInv
<1> QED BY <1>1, <1>2, <1>3, <1>4

LEMMA FlagStep ==
  TypeInv /\ LockInv /\ HistoryInv /\ RevealInv /\ FlagInv /\ [Next]_vars => FlagInv'
<1> SUFFICES ASSUME TypeInv, LockInv, HistoryInv, RevealInv, FlagInv, [Next]_vars PROVE FlagInv'
  OBVIOUS
<1>0. TypeInv' /\ edits \in Nat
  BY TypeStep DEF TypeInv, TypeOK
<1>1. ASSUME NEW w \in Writers, Moves(w) PROVE FlagInv'
  BY <1>0, <1>1, FlagMoves
<1>2. ASSUME NEW p \in Procs, Crash(p) PROVE FlagInv'
  <2>1. repo' = repo /\ raced' = raced /\ edits' = edits
    BY <1>2 DEF Crash
  <2>2. log' = log /\ work' = work /\ index' = index /\ HeadTree' = HeadTree
    BY <2>1 DEF repo, HeadTree, TreeAt
  <2>3. ASSUME NEW v \in Writers
        PROVE  pc'[v] = "idle" \/ (pc'[v] = pc[v] /\ todo'[v] = todo[v])
    <3>1. ProcOf[v] = p => pc'[v] = "idle"
      BY <1>2 DEF Crash
    <3>2. ProcOf[v] # p => pc'[v] = pc[v] /\ todo'[v] = todo[v]
      BY <1>2 DEF Crash
    <3> QED BY <3>1, <3>2
  <2> QED BY <2>1, <2>2, <2>3 DEF FlagInv, InReveal
<1>3. CASE Person
  <2>1. edits' # 0
    BY <1>0, <1>3 DEF Person, PersonEdits, PersonStages, PersonCommits, PersonChecksOut
  <2> QED BY <2>1 DEF FlagInv
<1>4. CASE UNCHANGED vars
  BY <1>4 DEF vars, repo, local, bounds, FlagInv, InReveal, HeadTree, TreeAt
<1> QED BY <1>1, <1>2, <1>3, <1>4 DEF Next, Moves

LEMMA FlagInit == Init => FlagInv
  BY DEF Init, FlagInv, InReveal

LEMMA WorktreeInit == Init => HistoryInv /\ LockInv /\ RevealInv /\ FlagInv
<1>1. Init => HistoryInv
  <2> SUFFICES ASSUME Init PROVE HistoryInv
    OBVIOUS
  <2>1. WellFormed /\ BuiltIsJustified
    BY DEF Init, WellFormed, BuiltIsJustified
  <2>2. \A i \in DOMAIN log : log[i].by = External
    BY DEF Init, Commit
  <2> QED BY <2>1, <2>2, TypeInit DEF HistoryInv, CommitsAreTheirPlans
<1> QED BY <1>1, LockInit, RevealInit, FlagInit

\* A crash or a failed file system call in the middle of a reveal leaves an
\* index that is not HEAD, so that the worktree guard refuses later writes.
THEOREM RevealFlagged == Spec => []InterruptedRevealIsFlagged
<1>1. FlagInv => InterruptedRevealIsFlagged
  BY DEF FlagInv, InterruptedRevealIsFlagged
<1>2. HistoryInv => TypeInv
  BY DEF HistoryInv
<1> QED BY <1>1, <1>2, WorktreeInit, HistoryStep, LockStep, RevealStep, FlagStep, PTL DEF Spec

-----------------------------------------------------------------------------
(* Between calls.                                                          *)

CleanInv ==
  edits = 0 /\ faults = 0 /\ (\A w \in Writers : ~InReveal(w)) => index = HeadTree

LEMMA CleanStep ==
  TypeInv /\ LockInv /\ RevealInv /\ FlagInv /\ CleanInv /\ [Next]_vars => CleanInv'
<1> SUFFICES ASSUME TypeInv, LockInv, RevealInv, FlagInv, CleanInv, [Next]_vars,
                    edits' = 0, faults' = 0, \A v \in Writers : ~InReveal(v)'
             PROVE  index' = HeadTree'
  BY DEF CleanInv
<1>0. /\ edits \in Nat /\ faults \in Nat
      /\ pc \in [Writers -> Steps] /\ tip \in [Writers -> Nat] /\ Len(log) \in Nat
  BY LogLength DEF TypeInv, TypeOK
<1>1. ASSUME NEW w \in Writers, Moves(w) PROVE index' = HeadTree'
  <2>e. edits' = edits
    BY <1>1 DEF Moves, Advance, Submit, Reject, LockMutex, LockFile, ReadTip, Refuse, AbortStale,
         AbortNoSource, NoOp, BuildTree, CasWin, CasLose, CasGiveUp, Reveal, SyncIndex,
         RevealFails, Hook, Unlock, bounds
  <2>1. CASE CasWin(w) \/ Reveal(w)
    <3>1. pc'[w] \in {"reveal", "sync"}
      BY <1>0, <2>1 DEF CasWin, Reveal, Goto
    <3> QED BY <3>1 DEF InReveal
  <2>2. CASE RevealFails(w)
    BY <1>0, <2>2 DEF RevealFails
  <2>3. CASE SyncIndex(w)
    <3>1. index' = TreeAt(Own(w)) /\ log' = log /\ InReveal(w)
      BY <2>3 DEF SyncIndex, Goto, InReveal
    <3>2. Own(w) = Len(log)
      BY <2>e, <3>1 DEF FlagInv, RevealInv, UndisturbedCall
    <3> QED BY <3>1, <3>2 DEF HeadTree, TreeAt
  <2>4. CASE ~CasWin(w) /\ ~Reveal(w) /\ ~RevealFails(w) /\ ~SyncIndex(w)
    <3>1. /\ repo' = repo /\ faults' = faults /\ pc[w] \notin {"reveal", "sync"}
      BY <1>1, <2>4 DEF Moves, Advance, Submit, Reject, LockMutex, LockFile, ReadTip, Refuse,
       AbortStale, AbortNoSource, NoOp, BuildTree, CasLose, CasGiveUp, Hook, Unlock, Goto,
       Leave, bounds
    <3>2. log' = log /\ index' = index
      BY <3>1 DEF repo
    <3>3. ASSUME NEW v \in Writers PROVE ~InReveal(v)
      <4>1. v # w => SameCall(v)
        BY <1>1, OthersStay
      <4> QED BY <3>1, <4>1 DEF SameCall, InReveal
    <3>4. index = HeadTree
      BY <2>e, <3>1, <3>3 DEF CleanInv
    <3> QED BY <3>2, <3>4 DEF HeadTree, TreeAt
  <2> QED BY <2>1, <2>2, <2>3, <2>4
<1>2. ASSUME NEW p \in Procs, Crash(p) PROVE FALSE
  BY <1>0, <1>2 DEF Crash
<1>3. CASE Person
  BY <1>0, <1>3 DEF Person, PersonEdits, PersonStages, PersonCommits, PersonChecksOut
<1>4. CASE UNCHANGED vars
  BY <1>4 DEF vars, repo, local, bounds, CleanInv, InReveal, HeadTree, TreeAt
<1> QED BY <1>1, <1>2, <1>3, <1>4 DEF Next, Moves

\* Without faults and other people nothing is left over between calls: no file
\* and no index entry of an earlier commit, and no commit the reindex queue was
\* not told.
THEOREM QuietSettled == Spec => []QuietVaultIsSettled
<1>1. Init => CleanInv /\ NoCommitGoesUnannounced
  <2>1. Init => CleanInv
    BY DEF Init, CleanInv
  <2>2. ASSUME Init PROVE \A i \in DOMAIN log : log[i].by = External
    BY <2>2 DEF Init, Commit
  <2> QED BY <2>1, <2>2 DEF NoCommitGoesUnannounced
<1>2. FlagInv /\ CleanInv => QuietVaultIsClean
  BY DEF FlagInv, CleanInv, QuietVaultIsClean
<1>3. HistoryInv => TypeInv
  BY DEF HistoryInv
<1>4. QuietVaultIsClean /\ NoCommitGoesUnannounced => QuietVaultIsSettled
  BY DEF QuietVaultIsSettled
<1> QED BY <1>1, <1>2, <1>3, <1>4, WorktreeInit, HistoryStep, LockStep, RevealStep, FlagStep,
           CleanStep, AnnounceStep, PTL DEF Spec

-----------------------------------------------------------------------------
(* GitCommit implements VaultHistory.  A step of a call is a step of the    *)
(* history, or none of it; the compare-and-swap is where a write happens.  *)

\* What is asked of a plan and what it does is said alike in both modules.
LEMMA SameMeaning ==
  ASSUME NEW p, NEW t
  PROVE  /\ Abstract!PreconditionsHold(p, t) <=> PreconditionsHold(p, t)
         /\ Abstract!SourcesExist(p, t) <=> SourcesExist(p, t)
         /\ Abstract!Duplicated(p) <=> Duplicated(p)
         /\ Abstract!TreeAfter(p, t) = TreeAfter(p, t)
<1>1. Abstract!PreconditionsHold(p, t) <=> PreconditionsHold(p, t)
  BY DEF PreconditionsHold, Satisfied, Abstract!PreconditionsHold, Abstract!Satisfied
<1>2. Abstract!SourcesExist(p, t) <=> SourcesExist(p, t)
  BY DEF SourcesExist, Abstract!SourcesExist
<1>3. Abstract!Duplicated(p) <=> Duplicated(p)
  BY DEF Duplicated, TouchedBy, Abstract!Duplicated, Abstract!TouchedBy
<1>4. Abstract!TreeAfter(p, t) = TreeAfter(p, t)
  BY DEF TreeAfter, Touched, TouchedBy, Effect, Abstract!TreeAfter, Abstract!Touched,
         Abstract!TouchedBy, Abstract!Effect
<1> QED BY <1>1, <1>2, <1>3, <1>4

LEMMA SameTrees ==
  /\ \A i : Abstract!TreeAt(i) = TreeAt(i)
  /\ Abstract!Latest = HeadTree /\ Abstract!Tree = Tree
<1>1. ASSUME NEW i PROVE Abstract!TreeAt(i) = TreeAt(i)
  BY DEF TreeAt, EmptyTree, Abstract!TreeAt, Abstract!EmptyTree
<1>2. Abstract!Tree = Tree
  BY DEF Tree, Blob, Abstract!Tree, Abstract!Blob
<1> QED BY <1>1, <1>2 DEF HeadTree, Abstract!Latest

\* The tip that a call works on is of its own time, and it has an answer before
\* it returns.
CallInv ==
  \A w \in Writers :
    /\ pc[w] \in {"prepare", "cas"} => since[w] <= tip[w]
    /\ pc[w] = "unlock" => reply[w] # "none"

LEMMA CallStep == TypeInv /\ ReplyInv /\ CallInv /\ [Next]_vars => CallInv'
<1> SUFFICES ASSUME TypeInv, ReplyInv, CallInv, [Next]_vars, NEW v \in Writers
             PROVE  /\ pc'[v] \in {"prepare", "cas"} => since'[v] <= tip'[v]
                    /\ pc'[v] = "unlock" => reply'[v] # "none"
  BY DEF CallInv
<1>1. ASSUME SameCall(v) PROVE /\ pc'[v] \in {"prepare", "cas"} => since'[v] <= tip'[v]
                               /\ pc'[v] = "unlock" => reply'[v] # "none"
  BY <1>1 DEF CallInv, SameCall
<1>2. ASSUME Moves(v) PROVE /\ pc'[v] \in {"prepare", "cas"} => since'[v] <= tip'[v]
                            /\ pc'[v] = "unlock" => reply'[v] # "none"
  <2>0. /\ pc[v] \in {"prepare", "cas"} => since[v] <= tip[v]
        /\ pc[v] = "unlock" => reply[v] # "none"
        /\ pc[v] = "read" => since[v] <= Len(log)
    BY DEF CallInv, ReplyInv, ReplyIsTrue, Uncommitted
  <2> USE <2>0 DEF TypeInv, TypeOK, Goto, Leave
  <2>1. CASE Submit(v) \/ Reject(v) \/ LockMutex(v) \/ LockFile(v)
    BY <2>1 DEF Submit, Reject, LockMutex, LockFile
  <2>2. CASE ReadTip(v)
    BY <2>2 DEF ReadTip
  <2>3. CASE Refuse(v) \/ AbortStale(v) \/ AbortNoSource(v) \/ NoOp(v)
    BY <2>3 DEF Refuse, AbortStale, AbortNoSource, NoOp
  <2>4. CASE BuildTree(v) \/ CasWin(v) \/ CasLose(v) \/ CasGiveUp(v)
    BY <2>4 DEF BuildTree, CasWin, CasLose, CasGiveUp
  <2>5. CASE Reveal(v) \/ SyncIndex(v) \/ RevealFails(v) \/ Hook(v)
    BY <2>5 DEF Reveal, SyncIndex, RevealFails, Hook
  <2>6. CASE Unlock(v)
    BY <2>6 DEF Unlock
  <2> QED BY <1>2, <2>1, <2>2, <2>3, <2>4, <2>5, <2>6 DEF Moves, Advance
<1>3. ASSUME NEW w \in Writers, Moves(w) PROVE v = w \/ SameCall(v)
  BY <1>3, OthersStay
<1>4. ASSUME NEW p \in Procs, Crash(p) PROVE pc'[v] = "idle" \/ SameCall(v)
  BY <1>4 DEF Crash, Forget, SameCall
<1>5. ASSUME Person \/ UNCHANGED vars PROVE SameCall(v)
  BY <1>5, PersonLeavesCalls
<1> QED BY <1>1, <1>2, <1>3, <1>4, <1>5 DEF Next, Moves

\* The statuses of the calls, as the history sees them.
Statuses == [w \in Writers |-> StatusOf(w)]

LEMMA OneStatus ==
  ASSUME TypeInv, NEW w \in Writers, \A v \in Writers \ {w} : SameCall(v)
  PROVE  Statuses' = [Statuses EXCEPT ![w] = StatusOf(w)']
<1>1. ASSUME NEW v \in Writers, v # w PROVE StatusOf(v)' = StatusOf(v)
  BY <1>1 DEF SameCall, StatusOf
<1> QED BY <1>1 DEF Statuses

LEMMA SameStatuses ==
  ASSUME TypeInv, \A v \in Writers : StatusOf(v)' = StatusOf(v)
  PROVE  Statuses' = Statuses
  BY DEF Statuses

\* What call w shows of a step: its status goes from one value to the other, and
\* nobody else's changes.
Shows(w, from, to) ==
  /\ StatusOf(w) = from
  /\ Statuses[w] = from
  /\ Statuses' = [Statuses EXCEPT ![w] = to]

LEMMA MoveShows ==
  ASSUME TypeInv, NEW w \in Writers, Moves(w), NEW from, NEW to,
         StatusOf(w) = from, StatusOf(w)' = to
  PROVE  Shows(w, from, to)
<1>1. \A v \in Writers \ {w} : SameCall(v)
  BY OthersStay
<1>2. Statuses' = [Statuses EXCEPT ![w] = StatusOf(w)']
  BY <1>1, OneStatus
<1>3. Statuses[w] = StatusOf(w)
  BY DEF Statuses
<1> QED BY <1>2, <1>3 DEF Shows

\* A step of a call that decides nothing is not a step of the history.
LEMMA SilentMove ==
  ASSUME TypeInv, NEW w \in Writers, Moves(w), StatusOf(w)' = StatusOf(w),
         log' = log, plan' = plan, since' = since
  PROVE  UNCHANGED Abstract!vars
<1>1. \A v \in Writers \ {w} : SameCall(v)
  BY OthersStay
<1>2. ASSUME NEW v \in Writers PROVE StatusOf(v)' = StatusOf(v)
  BY <1>1 DEF SameCall, StatusOf
<1>3. Statuses' = Statuses
  BY <1>2 DEF Statuses
<1> QED BY <1>3 DEF Abstract!vars, Statuses

LEMMA SilentMoves ==
  ASSUME TypeInv, NEW w \in Writers,
         \/ LockMutex(w) \/ LockFile(w) \/ ReadTip(w) \/ BuildTree(w) \/ CasLose(w)
         \/ Reveal(w) \/ SyncIndex(w) \/ Hook(w)
  PROVE  UNCHANGED Abstract!vars
<1>1. Moves(w)
  BY DEF Moves, Advance
<1>2. log' = log /\ plan' = plan /\ since' = since
  BY DEF LockMutex, LockFile, ReadTip, BuildTree, CasLose, Reveal, SyncIndex, Hook, repo
<1>3. StatusOf(w)' = StatusOf(w)
  <2> USE DEF StatusOf, Goto, Leave, TypeInv, TypeOK
  <2>1. CASE LockMutex(w) \/ LockFile(w) \/ ReadTip(w)
    BY <2>1 DEF LockMutex, LockFile, ReadTip
  <2>2. CASE BuildTree(w) \/ CasLose(w)
    BY <2>2 DEF BuildTree, CasLose
  <2>3. CASE Reveal(w)
    BY <2>3 DEF Reveal
  <2>4. CASE SyncIndex(w) \/ Hook(w)
    BY <2>4 DEF SyncIndex, Hook
  <2> QED BY <2>1, <2>2, <2>3, <2>4
<1> QED BY <1>1, <1>2, <1>3, SilentMove

LEMMA SubmitCalls == ASSUME TypeInv, NEW w \in Writers, Submit(w)
                     PROVE  \E p \in Plans : Abstract!Call(w, p)
<1>1. Moves(w)
  BY DEF Moves
<1>2. StatusOf(w) = "idle" /\ StatusOf(w)' = "pending"
  BY DEF Submit, Goto, StatusOf, TypeInv, TypeOK
<1>3. Shows(w, "idle", "pending")
  BY <1>1, <1>2, MoveShows
<1>4. PICK p \in Plans : plan' = [plan EXCEPT ![w] = p]
  BY DEF Submit
<1>5. since' = [since EXCEPT ![w] = Len(log)] /\ log' = log
  BY DEF Submit, repo
<1>6. Abstract!Call(w, p)
  BY <1>3, <1>4, <1>5 DEF Shows, Abstract!Call, Statuses
<1> QED BY <1>6

LEMMA ErrorFails ==
  ASSUME TypeInv, NEW w \in Writers,
         Reject(w) \/ Refuse(w) \/ AbortNoSource(w) \/ CasGiveUp(w) \/ RevealFails(w)
  PROVE  Abstract!Fail(w)
<1>1. Moves(w)
  BY DEF Moves, Advance
<1>2. log' = log /\ plan' = plan /\ since' = since
  BY DEF Reject, Refuse, AbortNoSource, CasGiveUp, RevealFails, repo
<1>3. StatusOf(w) \in {"pending", "committed"} /\ StatusOf(w)' = "error"
  BY DEF StatusOf, Leave, Goto, TypeInv, TypeOK, Reject, Refuse, AbortNoSource, CasGiveUp, RevealFails
<1>4. Shows(w, StatusOf(w), "error")
  BY <1>1, <1>3, MoveShows
<1> QED BY <1>2, <1>3, <1>4 DEF Shows, Abstract!Fail, Abstract!Decide, Statuses

LEMMA StaleConflicts ==
  ASSUME TypeInv, CallInv, NEW w \in Writers, AbortStale(w)
  PROVE  Abstract!Conflict(w)
<1>1. Moves(w)
  BY DEF Moves, Advance
<1>2. log' = log /\ plan' = plan /\ since' = since
  BY DEF AbortStale, repo
<1>3. StatusOf(w) = "pending" /\ StatusOf(w)' = "conflict"
  BY DEF StatusOf, Leave, Goto, TypeInv, TypeOK, AbortStale
<1>4. Shows(w, "pending", "conflict")
  BY <1>1, <1>3, MoveShows
<1>5. tip[w] \in since[w] .. Len(log)
  BY LogLength DEF AbortStale, Leave, Goto, CallInv, TypeInv, TypeOK, TipKnown
<1>6. ~Abstract!PreconditionsHold(plan[w], Abstract!TreeAt(tip[w]))
  BY SameMeaning, SameTrees DEF AbortStale
<1> QED BY <1>2, <1>4, <1>5, <1>6 DEF Shows, Abstract!Conflict, Abstract!Decide, Statuses

LEMMA IdentityNoOp ==
  ASSUME TypeInv, CallInv, NEW w \in Writers, NoOp(w)
  PROVE  Abstract!NoOp(w)
<1>1. Moves(w)
  BY DEF Moves, Advance
<1>2. log' = log /\ plan' = plan /\ since' = since
  BY DEF NoOp, repo
<1>3. StatusOf(w) = "pending" /\ StatusOf(w)' = "noop"
  BY DEF StatusOf, Leave, Goto, TypeInv, TypeOK, NoOp
<1>4. Shows(w, "pending", "noop")
  BY <1>1, <1>3, MoveShows
<1>5. tip[w] \in since[w] .. Len(log)
  BY LogLength DEF NoOp, Leave, Goto, CallInv, TypeInv, TypeOK, TipKnown
<1>6. /\ Abstract!PreconditionsHold(plan[w], Abstract!TreeAt(tip[w]))
      /\ Abstract!TreeAfter(plan[w], Abstract!TreeAt(tip[w])) = Abstract!TreeAt(tip[w])
  BY SameMeaning, SameTrees DEF NoOp, Buildable, Identity
<1> QED BY <1>2, <1>4, <1>5, <1>6 DEF Shows, Abstract!NoOp, Abstract!Decide, Statuses

\* The compare-and-swap is where a write happens: the tip it names is the latest
\* tree, so what was checked and built on that tip is checked and built on it.
LEMMA WinCommits ==
  ASSUME TypeInv, WellFormed, BuiltIsJustified, NEW w \in Writers, CasWin(w)
  PROVE  Abstract!Commit(w)
<1>1. Moves(w)
  BY DEF Moves, Advance
<1>2. /\ plan' = plan /\ since' = since /\ pc[w] = "cas" /\ tip[w] = Len(log)
      /\ log' = Append(log, Commit(built[w], w, plan[w]))
  BY DEF CasWin, Goto
<1>3. StatusOf(w) = "pending" /\ StatusOf(w)' = "committed"
  BY DEF StatusOf, Goto, TypeInv, TypeOK, CasWin
<1>4. Shows(w, "pending", "committed")
  BY <1>1, <1>3, MoveShows
<1>5. Justified(Commit(built[w], w, plan[w]), HeadTree) /\ ~Duplicated(plan[w])
  BY <1>2 DEF BuiltIsJustified, HeadTree, WellFormed, Malformed
<1>6. /\ PreconditionsHold(plan[w], HeadTree) /\ SourcesExist(plan[w], HeadTree)
      /\ built[w] = TreeAfter(plan[w], HeadTree)
  BY <1>5 DEF Justified, Commit
<1>7. /\ ~Abstract!Duplicated(plan[w])
      /\ Abstract!PreconditionsHold(plan[w], Abstract!Latest)
      /\ Abstract!SourcesExist(plan[w], Abstract!Latest)
      /\ built[w] = Abstract!TreeAfter(plan[w], Abstract!Latest)
  BY <1>5, <1>6, SameMeaning, SameTrees
<1>8. Commit(built[w], w, plan[w])
        = Abstract!Entry(Abstract!TreeAfter(plan[w], Abstract!Latest), w, plan[w])
  BY <1>7 DEF Commit, Abstract!Entry
<1> QED BY <1>2, <1>4, <1>7, <1>8 DEF Shows, Abstract!Commit, Abstract!Decide, Statuses

LEMMA UnlockReturns ==
  ASSUME TypeInv, CallInv, NEW w \in Writers, Unlock(w)
  PROVE  Abstract!Return(w)
<1>1. Moves(w)
  BY DEF Moves, Advance
<1>2. log' = log
  BY DEF Unlock, repo
<1>3. StatusOf(w) = reply[w] /\ StatusOf(w)' = "idle"
  BY DEF StatusOf, Goto, TypeInv, TypeOK, Unlock
<1>4. Shows(w, reply[w], "idle")
  BY <1>1, <1>3, MoveShows
<1>5. reply[w] \in {"committed", "noop", "conflict", "error"}
  BY DEF CallInv, Unlock, Goto, TypeInv, TypeOK, Replies
<1>6. Statuses' = [v \in Writers |-> IF v \in {w} THEN "idle" ELSE Statuses[v]]
  BY <1>4 DEF Shows, Statuses
<1>7. /\ plan' = [v \in Writers |-> IF v \in {w} THEN NoPlan ELSE plan[v]]
      /\ since' = [v \in Writers |-> IF v \in {w} THEN 0 ELSE since[v]]
  BY DEF Unlock, Forget
<1> QED BY <1>2, <1>4, <1>5, <1>6, <1>7
        DEF Shows, Abstract!Return, Abstract!Forget, Statuses

LEMMA CrashCrashes ==
  ASSUME TypeInv, NEW p \in Procs, Crash(p)
  PROVE  \E ws \in SUBSET Writers : Abstract!Crash(ws)
<1> DEFINE gone == {w \in Writers : ProcOf[w] = p}
<1>1. ASSUME NEW v \in Writers
      PROVE  StatusOf(v)' = IF v \in gone THEN "idle" ELSE StatusOf(v)
  BY DEF Crash, Forget, StatusOf
<1>2. Statuses' = [v \in Writers |-> IF v \in gone THEN "idle" ELSE Statuses[v]]
  BY <1>1 DEF Statuses
<1>3. /\ plan' = [v \in Writers |-> IF v \in gone THEN NoPlan ELSE plan[v]]
      /\ since' = [v \in Writers |-> IF v \in gone THEN 0 ELSE since[v]]
      /\ log' = log
  BY DEF Crash, Forget, repo
<1>4. gone \in SUBSET Writers
  OBVIOUS
<1> HIDE DEF gone
<1>5. Abstract!Crash(gone)
  BY <1>2, <1>3 DEF Abstract!Crash, Abstract!Forget, Statuses
<1> QED BY <1>4, <1>5

LEMMA PersonInHistory ==
  ASSUME TypeInv, Person \/ UNCHANGED vars
  PROVE  Abstract!OtherCommit \/ UNCHANGED Abstract!vars
<1>1. \A v \in Writers : StatusOf(v)' = StatusOf(v)
  BY PersonLeavesCalls DEF SameCall, StatusOf
<1>2. Statuses' = Statuses
  BY <1>1, SameStatuses
<1>3. plan' = plan /\ since' = since
  BY DEF Person, PersonEdits, PersonStages, PersonCommits, PersonChecksOut, vars, local
<1>4. CASE PersonCommits
  <2>1. log' = Append(log, Abstract!Entry(index, External, NoPlan)) /\ index \in Abstract!Tree
    BY <1>4, SameTrees DEF PersonCommits, Commit, Abstract!Entry, TypeInv, TypeOK
  <2> QED BY <2>1, <1>2, <1>3 DEF Abstract!OtherCommit, Statuses
<1>5. CASE ~PersonCommits
  <2>1. log' = log
    BY <1>5 DEF Person, PersonEdits, PersonStages, PersonChecksOut, vars, repo
  <2> QED BY <2>1, <1>2, <1>3 DEF Abstract!vars, Statuses
<1> QED BY <1>4, <1>5

LEMMA RefineStep ==
  HistoryInv /\ CallInv /\ [Next]_vars => [Abstract!Next]_(Abstract!vars)
<1> SUFFICES ASSUME HistoryInv, CallInv, [Next]_vars
             PROVE  Abstract!Next \/ UNCHANGED Abstract!vars
  OBVIOUS
<1> USE DEF HistoryInv
<1>1. ASSUME NEW w \in Writers, Moves(w) PROVE Abstract!Next \/ UNCHANGED Abstract!vars
  <2>1. CASE Submit(w)
    BY <2>1, SubmitCalls DEF Abstract!Next
  <2>2. CASE Reject(w) \/ Refuse(w) \/ AbortNoSource(w) \/ CasGiveUp(w) \/ RevealFails(w)
    BY <2>2, ErrorFails DEF Abstract!Next
  <2>3. CASE AbortStale(w)
    BY <2>3, StaleConflicts DEF Abstract!Next
  <2>4. CASE NoOp(w)
    BY <2>4, IdentityNoOp DEF Abstract!Next
  <2>5. CASE CasWin(w)
    BY <2>5, WinCommits DEF Abstract!Next
  <2>6. CASE Unlock(w)
    BY <2>6, UnlockReturns DEF Abstract!Next
  <2>7. CASE \/ LockMutex(w) \/ LockFile(w) \/ ReadTip(w) \/ BuildTree(w) \/ CasLose(w)
             \/ Reveal(w) \/ SyncIndex(w) \/ Hook(w)
    BY <2>7, SilentMoves
  <2> QED BY <1>1, <2>1, <2>2, <2>3, <2>4, <2>5, <2>6, <2>7 DEF Moves, Advance
<1>2. ASSUME NEW p \in Procs, Crash(p) PROVE Abstract!Next
  BY <1>2, CrashCrashes DEF Abstract!Next
<1>3. ASSUME Person \/ UNCHANGED vars PROVE Abstract!Next \/ UNCHANGED Abstract!vars
  BY <1>3, PersonInHistory DEF Abstract!Next
<1> QED BY <1>1, <1>2, <1>3 DEF Next, Moves

LEMMA RefineInit == Init => Abstract!Init
<1> SUFFICES ASSUME Init PROVE Abstract!Init
  OBVIOUS
<1>1. log \in {<<>>} \cup {<<Abstract!Entry(t, External, NoPlan)>> : t \in Abstract!Tree}
  BY SameTrees DEF Init, Commit, Abstract!Entry
<1>2. [w \in Writers |-> StatusOf(w)] = [w \in Writers |-> "idle"]
  BY DEF Init, StatusOf
<1> QED BY <1>1, <1>2 DEF Init, Abstract!Init

\* GitCommit implements VaultHistory: whatever the locks, guards, retries, the
\* reveal, crashes and the person do, what a caller sees is a history of trees that
\* only grows, one whole plan at a time, and a reply that says which.
THEOREM Implements == Spec => Refines
<1>1. Init => HistoryInv /\ ReplyInv /\ CallInv
  <2> SUFFICES ASSUME Init PROVE HistoryInv /\ ReplyInv /\ CallInv
    OBVIOUS
  <2>1. WellFormed /\ BuiltIsJustified /\ ReplyInv /\ CallInv
    BY DEF Init, WellFormed, BuiltIsJustified, ReplyInv, ReplyIsTrue, CallInv
  <2>2. \A i \in DOMAIN log : log[i].by = External
    BY DEF Init, Commit
  <2> QED BY <2>1, <2>2, TypeInit DEF HistoryInv, CommitsAreTheirPlans
<1>2. HistoryInv => TypeInv
  BY DEF HistoryInv
<1> QED BY <1>1, <1>2, RefineInit, RefineStep, HistoryStep, ReplyStep, CallStep, PTL
        DEF Spec, Refines, Abstract!Spec
=============================================================================

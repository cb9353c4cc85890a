------------------------------ MODULE VaultTree ------------------------------
(***************************************************************************)
(* The data every write path of TurboVault works on: a vault's content as  *)
(* a tree (what each path holds), the change plans of turbovault-core      *)
(* (change_plan.rs, precondition.rs) and their meaning on a tree.          *)
(*                                                                         *)
(* A content stands for the bytes of a blob and for its identity at once:  *)
(* two blobs are equal exactly when their object ids are.                  *)
(***************************************************************************)
EXTENDS Naturals, Sequences

CONSTANTS
  Paths,      \* vault-relative paths
  Contents,   \* the distinct file contents
  Absent      \* what a path holds that has no file

ASSUME AbsentAssumption == Absent \notin Contents

Blob == Contents \cup {Absent}
Tree == [Paths -> Blob]

\* The tree of an unborn branch: no path exists.
EmptyTree == [p \in Paths |-> Absent]

-----------------------------------------------------------------------------
(* Changes and plans.  A plan keeps its changes in order; preconditions are *)
(* a set because all of them are checked before anything is applied.       *)

Upsert(p, c) == [op |-> "upsert", path |-> p, content |-> c]
Remove(p)    == [op |-> "remove", path |-> p]
Rename(f, t) == [op |-> "rename", from |-> f, to |-> t]

Expect(p, kind)   == [path |-> p, kind |-> kind]
ExpectBlob(p, c)  == [path |-> p, kind |-> "blob", blob |-> c]

Change == [op : {"upsert"}, path : Paths, content : Contents]
            \cup [op : {"remove"}, path : Paths]
            \cup [op : {"rename"}, from : Paths, to : Paths]

Precondition == [path : Paths, kind : {"absent", "exists", "blind"}]
                  \cup [path : Paths, kind : {"blob"}, blob : Contents]

ChangePlan == [changes : Seq(Change), pre : SUBSET Precondition]

TouchedBy(c) == IF c.op = "rename" THEN {c.from, c.to} ELSE {c.path}

Touched(plan) == UNION {TouchedBy(plan.changes[i]) : i \in DOMAIN plan.changes}

\* Some path is mutated twice, both ends of a rename included.
Duplicated(plan) ==
  \/ \E i, j \in DOMAIN plan.changes :
        i # j /\ TouchedBy(plan.changes[i]) \cap TouchedBy(plan.changes[j]) # {}
  \/ \E i \in DOMAIN plan.changes :
        LET c == plan.changes[i] IN c.op = "rename" /\ c.from = c.to

-----------------------------------------------------------------------------
(* What a plan means on a base tree.                                       *)

Satisfied(tree, pc) ==
  CASE pc.kind = "blob"   -> tree[pc.path] = pc.blob
    [] pc.kind = "absent" -> tree[pc.path] = Absent
    [] pc.kind = "exists" -> tree[pc.path] # Absent
    [] pc.kind = "blind"  -> TRUE

PreconditionsHold(plan, tree) == \A pc \in plan.pre : Satisfied(tree, pc)

\* A rename's source must exist in the base tree.
SourcesExist(plan, tree) ==
  \A i \in DOMAIN plan.changes :
     LET c == plan.changes[i] IN c.op = "rename" => tree[c.from] # Absent

\* What change c leaves at path p, one of the paths it touches.
Effect(c, tree, p) ==
  CASE c.op = "upsert" -> c.content
    [] c.op = "remove" -> Absent
    [] c.op = "rename" -> IF p = c.to THEN tree[c.from] ELSE Absent

\* The whole plan folded over the base tree.  No path is touched twice, so
\* the order of the changes does not matter here.
TreeAfter(plan, tree) ==
  [p \in Paths |->
     IF p \in Touched(plan)
       THEN LET i == CHOOSE k \in DOMAIN plan.changes :
                        p \in TouchedBy(plan.changes[k])
            IN Effect(plan.changes[i], tree, p)
       ELSE tree[p]]
=============================================================================

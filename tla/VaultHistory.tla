---------------------------- MODULE VaultHistory -----------------------------
(***************************************************************************)
(* What the git substrate promises its callers, with no lock, no ref, no   *)
(* working tree and no retry in sight: the vault is a history of trees     *)
(* that only grows; a call to apply a plan either appends one tree, the    *)
(* plan's whole effect on the latest tree whose preconditions hold there,  *)
(* or appends nothing and says why.                                        *)
(*                                                                         *)
(* GitCommit implements this module (see Refines there).                   *)
(***************************************************************************)
EXTENDS VaultTree

CONSTANTS Writers, Plans, External, NoPlan

VARIABLES
  history,   \* sequence of commits [tree, by, plan]
  status,    \* status[w]: what has been decided of w's current call
  asked,     \* asked[w]: the plan of w's current call
  since      \* since[w]: length of the history when the call was made

vars == <<history, status, asked, since>>

TreeAt(i) == IF i = 0 THEN EmptyTree ELSE history[i].tree
Latest    == TreeAt(Len(history))

Entry(tree, by, plan) == [tree |-> tree, by |-> by, plan |-> plan]

Init ==
  /\ history \in {<<>>} \cup {<<Entry(t, External, NoPlan)>> : t \in Tree}
  /\ status = [w \in Writers |-> "idle"]
  /\ asked  = [w \in Writers |-> NoPlan]
  /\ since  = [w \in Writers |-> 0]

-----------------------------------------------------------------------------

Decide(w, answer) ==
  /\ status' = [status EXCEPT ![w] = answer]
  /\ UNCHANGED <<asked, since>>

Forget(ws) ==
  /\ status' = [w \in Writers |-> IF w \in ws THEN "idle" ELSE status[w]]
  /\ asked'  = [w \in Writers |-> IF w \in ws THEN NoPlan ELSE asked[w]]
  /\ since'  = [w \in Writers |-> IF w \in ws THEN 0 ELSE since[w]]
  /\ UNCHANGED history

Call(w, plan) ==
  /\ status[w] = "idle"
  /\ status' = [status EXCEPT ![w] = "pending"]
  /\ asked'  = [asked EXCEPT ![w] = plan]
  /\ since'  = [since EXCEPT ![w] = Len(history)]
  /\ UNCHANGED history

\* The linearization point of a successful write.
Commit(w) ==
  /\ status[w] = "pending"
  /\ ~Duplicated(asked[w])
  /\ PreconditionsHold(asked[w], Latest)
  /\ SourcesExist(asked[w], Latest)
  /\ history' = Append(history, Entry(TreeAfter(asked[w], Latest), w, asked[w]))
  /\ Decide(w, "committed")

\* Nothing to do, as of some moment within the call.
NoOp(w) ==
  /\ status[w] = "pending"
  /\ \E i \in since[w] .. Len(history) :
        PreconditionsHold(asked[w], TreeAt(i)) /\ TreeAfter(asked[w], TreeAt(i)) = TreeAt(i)
  /\ Decide(w, "noop")
  /\ UNCHANGED history

\* The reconsideration domino: some precondition was stale within the call.
Conflict(w) ==
  /\ status[w] = "pending"
  /\ \E i \in since[w] .. Len(history) : ~PreconditionsHold(asked[w], TreeAt(i))
  /\ Decide(w, "conflict")
  /\ UNCHANGED history

\* An error says nothing of whether the plan was committed.
Fail(w) ==
  /\ status[w] \in {"pending", "committed"}
  /\ Decide(w, "error")
  /\ UNCHANGED history

Return(w) ==
  /\ status[w] \in {"committed", "noop", "conflict", "error"}
  /\ Forget({w})

\* A crash takes any number of calls with it, decided or not.
Crash(ws) == Forget(ws)

\* Somebody commits with git directly.
OtherCommit ==
  /\ \E t \in Tree : history' = Append(history, Entry(t, External, NoPlan))
  /\ UNCHANGED <<status, asked, since>>

Next ==
  \/ \E w \in Writers : \/ \E plan \in Plans : Call(w, plan)
                        \/ Commit(w) \/ NoOp(w) \/ Conflict(w)
                        \/ Fail(w) \/ Return(w)
  \/ \E ws \in SUBSET Writers : Crash(ws)
  \/ OtherCommit

Spec == Init /\ [][Next]_vars
=============================================================================

----------------------------- MODULE ServerVaults -----------------------------
(***************************************************************************)
(* The server's vaults as its tools handle them: registration, the cache   *)
(* of vault managers, the active vault, fan-outs into scratch worktrees,   *)
(* and what of it a restart finds again.                                   *)
(*                                                                         *)
(* Every client runs one tool call at a time; a call reads and changes the *)
(* maps in separate lock sections, and the other clients' calls run in     *)
(* between.  `pc` names the section a call runs next, `loc` what it has    *)
(* read.  A fan-out with id i is a branch wip/<i>, the metadata of a       *)
(* worktree, and the worktree's directory, which the server registers as   *)
(* a vault of its own.  Agents commit there and in the base vault.         *)
(*                                                                         *)
(* One directory, Repo, is a git repository.  Commits are numbers; `main`  *)
(* lists, oldest first, the set of commits each step of the branch         *)
(* brought.  Left out: registering a scratch worktree by hand, and         *)
(* fan-outs of a worktree that a restart found registered.                 *)
(***************************************************************************)
EXTENDS Naturals, FiniteSets, Sequences, SequencesExt

-----------------------------------------------------------------------------
(* The registry, turbovault-core's MultiVaultManager: the vaults a server  *)
(* knows by name, and which of them is active.  Each operator is what one  *)
(* lock section of the code does to the two maps.  Names are numbers,      *)
(* ordered as the code orders the strings; a vault's configuration is the  *)
(* directory it serves.                                                    *)

CONSTANTS
  Names,       \* vault names
  Dirs,        \* directories that can be registered
  NoVault,     \* no vault, no directory
  MaxVaults    \* bound of the code on registrations (50)

ASSUME RegistryAssumption ==
  /\ Names \subseteq Nat
  /\ NoVault \notin Names \cup Dirs
  /\ MaxVaults \in Nat

VARIABLES
  vaults,   \* vaults[n]: the directory registered under n
  active    \* the default vault, which the tools act on

registry == <<vaults, active>>

Registered == {n \in Names : vaults[n] # NoVault}

RegistryTypeOK ==
  /\ vaults \in [Names -> Dirs \cup {NoVault}]
  /\ active \in Names \cup {NoVault}

Least(S) == IF S = {} THEN NoVault ELSE CHOOSE n \in S : \A m \in S : n <= m

\* add_vault refuses a known name and a full map.
CanRegister(n) == n \notin Registered /\ Cardinality(Registered) < MaxVaults

\* The map's lock is released here; a first vault becomes the default later.
Register(n, d) ==
  /\ CanRegister(n)
  /\ vaults' = [vaults EXCEPT ![n] = d]

MakeDefault(n) == active' = n

\* Both locks are held: the default moves to the least name left.
Unregister(n) ==
  /\ n \in Registered
  /\ vaults' = [vaults EXCEPT ![n] = NoVault]
  /\ active' = IF active = n THEN Least(Registered \ {n}) ELSE active

SetActive(n) ==
  /\ n \in Registered
  /\ active' = n
  /\ UNCHANGED vaults

\* Start-up adds the saved vaults in no particular order, so that any of them
\* is the default until the saved active vault is restored, if it still can be.
Restore(saved, savedActive) ==
  LET known == {n \in Names : saved[n] # NoVault} IN
    /\ vaults' = saved
    /\ IF savedActive \in known THEN active' = savedActive
       ELSE active' \in (IF known = {} THEN {NoVault} ELSE known)

-----------------------------------------------------------------------------
(* The tools' state.                                                       *)

CONSTANTS
  Clients,      \* callers of tools
  Bases,        \* names callers register vaults under
  Ids,          \* fan-out ids
  NoId,         \* no fan-out
  FanName,      \* FanName[i]: the vault name of fan-out i's worktree
  Repo,         \* the directory that is a git repository
  Strategies,   \* how merges may be done: "merge-commit", "fast-forward"
  MaxCalls,     \* bound: tool calls
  MaxCommits,   \* bound: commits by agents and people
  MaxFaults     \* bound: failing file system calls and crashes

ASSUME ServerAssumption ==
  /\ Bases \subseteq Names
  /\ FanName \in [Ids -> Names \ Bases]
  /\ \A i, j \in Ids : FanName[i] = FanName[j] => i = j
  /\ NoId \notin Ids
  /\ Ids \cup {Repo} \subseteq Dirs
  /\ Repo \notin Ids
  /\ Strategies \subseteq {"merge-commit", "fast-forward"}
  /\ {MaxCalls, MaxCommits, MaxFaults} \subseteq Nat

VARIABLES
  managers,   \* managers[n]: the cached manager of vault n: whose, of which directory
  fanouts,    \* fanouts[n]: the active fan-out of base vault n
  saved,      \* the project cache on disk: registrations and active vault
  main,       \* the repository's branch
  wip,        \* wip[i]: what exists of fan-out i on disk
  pc, loc,    \* control state of each client's call, and what it read
  unsaved,    \* history: names changed by calls that did not save them, or failed to
  settled,    \* history: how fan-out i was ended
  late,       \* history: commits made in i after its merge read the branch
  raced,      \* history: the races that struck in this run of the server
  calls, commits, faults   \* what the bounds count

disk   == <<saved, main, wip>>
memory == <<registry, managers, fanouts>>
past   == <<unsaved, settled, late, raced>>
vars   == <<disk, memory, pc, loc, past, calls, commits, faults>>

YesNo == {"yes", "no"}
NoManager == [by |-> NoVault, dir |-> NoVault]
Fresh == [branch |-> "no", meta |-> "no", dir |-> "no", base |-> NoVault, from |-> 0, made |-> {}]
Blank == [name |-> NoVault, dir |-> NoVault, id |-> NoId, how |-> "", of |-> [n \in Names |-> NoVault],
          seen |-> {}, at |-> 0, queue |-> {}]

\* A start from an empty project cache, or from one that knows all bases: the
\* repository under the first, some directory under the others.
Init ==
  /\ \/ vaults = [n \in Names |-> NoVault] /\ active = NoVault
     \/ /\ \E d \in Dirs \ (Ids \cup {Repo}) : vaults = [n \in Names |-> IF n = Least(Bases) THEN Repo
                                                         ELSE IF n \in Bases THEN d ELSE NoVault]
        /\ active \in Bases
  /\ managers = [n \in Names |-> NoManager]
  /\ fanouts = [n \in Names |-> NoId]
  /\ saved = [vaults |-> vaults, active |-> active]
  /\ main = <<{}>>
  /\ wip = [i \in Ids |-> Fresh]
  /\ pc = [c \in Clients |-> "idle"]
  /\ loc = [c \in Clients |-> Blank]
  /\ unsaved = {}
  /\ settled = [i \in Ids |-> {}]
  /\ late = [i \in Ids |-> {}]
  /\ raced = {}
  /\ calls = 0
  /\ commits = 0
  /\ faults = 0

-----------------------------------------------------------------------------
(* Calls.                                                                  *)

Goto(c, from, to) == pc[c] = from /\ pc' = [pc EXCEPT ![c] = to]
Call(c, to, l) ==
  /\ Goto(c, "idle", to)
  /\ calls < MaxCalls
  /\ calls' = calls + 1
  /\ loc' = [loc EXCEPT ![c] = l]
  /\ UNCHANGED <<disk, memory, past, commits, faults>>

\* A step of c's call: it goes on to section `to`, or returns.
Go(c, to, l) == pc' = [pc EXCEPT ![c] = to] /\ loc' = [loc EXCEPT ![c] = l]
Return(c) == Go(c, "idle", Blank)

Recorded == {fanouts[n] : n \in Names} \ {NoId}
\* A vault that is the base or the worktree of a fan-out.
Participates(n) == fanouts[n] # NoId \/ \E i \in Recorded : FanName[i] = n

AddVault(c) == \E n \in Bases, d \in Dirs \ Ids, tool \in {"add", "create"} :
  Call(c, "register", [Blank EXCEPT !.name = n, !.dir = d, !.how = tool])
RemoveVault(c) == \E n \in Names : Call(c, "remove", [Blank EXCEPT !.name = n])
SetActiveVault(c) == \E n \in Names : Call(c, "switch", [Blank EXCEPT !.name = n])
OnActive(c, to, how) == active # NoVault /\ Call(c, to, [Blank EXCEPT !.name = active, !.how = how])
UseVault(c)      == OnActive(c, "look", "use")   \* any tool that needs the manager
BeginFanout(c)   == OnActive(c, "config", "begin")
CommitFanout(c)  == \E s \in Strategies : OnActive(c, "find", s)
AbandonFanout(c) == OnActive(c, "find", "abandon")
\* The signal handler starts from a copy of the records, and of the vaults then.
Shutdown(c) == Call(c, "next", [Blank EXCEPT !.how = "shutdown", !.of = fanouts,
                 !.queue = {n \in Registered : fanouts[n] # NoId}, !.seen = {n \in Names : vaults[n] = Repo}])

-----------------------------------------------------------------------------
(* Registration and activation.                                            *)

\* The calls whose next section is one of these.
In(sections) == {c \in Clients : pc[c] \in sections}

\* The active vault changes while a begin is between its two reads of it.
Switch == IF In({"config"}) # {} /\ active' # active THEN {"switch"} ELSE {}

\* A new registration's call goes on: activation, nothing, or the record.
AfterRegister(c, l) ==
  CASE l.how = "add"    -> Go(c, "activate", l)
    [] l.how = "create" -> Return(c)
    [] l.how = "begin"  -> Go(c, "record", l)

AddRegister(c) ==
  /\ pc[c] = "register"
  /\ LET l == loc[c]
         n == IF l.how = "begin" THEN FanName[l.id] ELSE l.name IN
       IF CanRegister(n)
       THEN /\ Register(n, l.dir)
            /\ IF Registered = {} THEN Go(c, "default", l) ELSE AfterRegister(c, l)
            /\ unsaved' = IF l.how = "add" THEN unsaved ELSE unsaved \cup {n}
       ELSE Return(c) /\ UNCHANGED <<vaults, unsaved>>
  /\ UNCHANGED <<disk, active, managers, fanouts, settled, late, raced, calls, commits, faults>>

\* A first vault becomes the default, after the map was released.
AddDefault(c) ==
  /\ pc[c] = "default"
  /\ MakeDefault(IF loc[c].how = "begin" THEN FanName[loc[c].id] ELSE loc[c].name)
  /\ raced' = raced \cup Switch
  /\ AfterRegister(c, loc[c])
  /\ UNCHANGED <<disk, vaults, managers, fanouts, unsaved, settled, late, calls, commits, faults>>

LookUp(c) ==
  /\ pc[c] = "look"
  /\ IF managers[loc[c].name] # NoManager THEN Return(c) ELSE Go(c, "activate", loc[c])
  /\ UNCHANGED <<disk, memory, past, calls, commits, faults>>

\* Mutant: builds a manager without looking the vault up.
ReadConfig_Unchecked(c) ==
  /\ pc[c] = "activate"
  /\ Go(c, "publish", [loc[c] EXCEPT !.dir = vaults[loc[c].name]])
  /\ UNCHANGED <<disk, memory, past, calls, commits, faults>>

\* The manager is built from the configuration as it is now.
ReadConfig(c) ==
  /\ pc[c] = "activate"
  /\ LET n == loc[c].name IN
       IF n \in Registered THEN Go(c, "publish", [loc[c] EXCEPT !.dir = vaults[n]]) ELSE Return(c)
  /\ UNCHANGED <<disk, memory, past, calls, commits, faults>>

AfterPublish(c) ==
  /\ IF loc[c].how = "add" THEN Go(c, "list", loc[c]) ELSE Return(c)
  /\ UNCHANGED <<disk, registry, fanouts, past, calls, commits, faults>>

\* Building took time; the first to publish wins.
Publish(c) ==
  /\ pc[c] = "publish"
  /\ managers' = [managers EXCEPT ![loc[c].name] =
                    IF @ = NoManager THEN [by |-> c, dir |-> loc[c].dir] ELSE @]
  /\ AfterPublish(c)

\* The manager cannot be built: the call ends there, though its vault stays
\* registered, and is not saved.
BuildFails(c) ==
  /\ pc[c] = "publish"
  /\ faults < MaxFaults /\ faults' = faults + 1
  /\ unsaved' = unsaved \cup (IF loc[c].how = "add" THEN {loc[c].name} \cap Registered ELSE {})
  /\ Return(c)
  /\ UNCHANGED <<disk, memory, settled, late, raced, calls, commits>>

\* Mutant: takes a vault out from under its fan-out.
RemoveCheck_Skips(c) ==
  /\ pc[c] = "remove"
  /\ Go(c, "unregister", loc[c])
  /\ UNCHANGED <<disk, memory, past, calls, commits, faults>>

\* remove_vault refuses both vaults of a fan-out ...
RemoveCheck(c) ==
  /\ pc[c] = "remove"
  /\ IF Participates(loc[c].name) THEN Return(c) ELSE Go(c, "unregister", loc[c])
  /\ UNCHANGED <<disk, memory, past, calls, commits, faults>>

\* A name goes while another call works on it.
Pulled(c, n) == IF \E d \in Clients \ {c} : pc[d] # "idle" /\ loc[d].name = n
                THEN {"removal"} ELSE {}

RemoveUnregister(c) ==
  /\ pc[c] = "unregister"
  /\ LET n == loc[c].name IN
       IF n \in Registered
       THEN Unregister(n) /\ Go(c, "drop", loc[c]) /\ raced' = raced \cup Pulled(c, n) \cup Switch
       ELSE Return(c) /\ UNCHANGED <<registry, raced>>
  /\ UNCHANGED <<disk, managers, fanouts, unsaved, settled, late, calls, commits, faults>>

\* Mutant: the removal is not saved.
RemoveDrop_Unsaved(c) ==
  /\ pc[c] = "drop"
  /\ managers' = [managers EXCEPT ![loc[c].name] = NoManager]
  /\ Return(c)
  /\ UNCHANGED <<disk, registry, fanouts, past, calls, commits, faults>>

\* ... then drops what was cached for the name, the engines and the manager.
RemoveDrop(c) ==
  /\ pc[c] = "drop"
  /\ managers' = [managers EXCEPT ![loc[c].name] = NoManager]
  /\ Go(c, "list", loc[c])
  /\ UNCHANGED <<disk, registry, fanouts, past, calls, commits, faults>>

SwitchTo(c) ==
  /\ pc[c] = "switch"
  /\ IF loc[c].name \in Registered
     THEN SetActive(loc[c].name) /\ Go(c, "list", loc[c]) /\ raced' = raced \cup Switch
     ELSE Return(c) /\ UNCHANGED <<registry, raced>>
  /\ UNCHANGED <<disk, managers, fanouts, unsaved, settled, late, calls, commits, faults>>

-----------------------------------------------------------------------------
(* The project cache: listed, then written, two files in place.            *)

ListVaults(c) ==
  /\ pc[c] = "list"
  /\ Go(c, "truncate", [loc[c] EXCEPT !.of = vaults])
  /\ raced' = raced \cup (IF In({"truncate", "write", "metadata"}) # {} THEN {"saves"} ELSE {})
  /\ unsaved' = {}
  /\ UNCHANGED <<disk, memory, settled, late, calls, commits, faults>>

Truncate(c) ==
  /\ pc[c] = "truncate"
  /\ Go(c, "write", [loc[c] EXCEPT !.name = active])
  /\ saved' = [saved EXCEPT !.vaults = [n \in Names |-> NoVault]]
  /\ UNCHANGED <<main, wip, memory, past, calls, commits, faults>>

WriteVaults(c) ==
  /\ pc[c] = "write"
  /\ Go(c, "metadata", loc[c])
  /\ saved' = [saved EXCEPT !.vaults = loc[c].of]
  /\ UNCHANGED <<main, wip, memory, past, calls, commits, faults>>

WriteMetadata(c) ==
  /\ pc[c] = "metadata"
  /\ Return(c)
  /\ saved' = [saved EXCEPT !.active = loc[c].name]
  /\ UNCHANGED <<main, wip, memory, past, calls, commits, faults>>

\* What a call listed and the project cache does not have.
Missed(c) == {n \in Names : loc[c].of[n] # saved.vaults[n]}

\* A file cannot be opened, and stays as it is, or cannot be written, and is left
\* empty or broken: only logged, the call returns as if it had saved.
SaveFails(c) ==
  /\ pc[c] \in {"truncate", "write", "metadata"}
  /\ faults < MaxFaults /\ faults' = faults + 1
  /\ unsaved' = unsaved \cup Missed(c)
  /\ Return(c)
  /\ UNCHANGED <<disk, memory, settled, late, raced, calls, commits>>

-----------------------------------------------------------------------------
(* Fan-outs: begin.                                                        *)

\* The name was read before; the configuration is that of the vault active now.
BeginConfig(c) ==
  /\ pc[c] = "config"
  /\ IF active \in Registered /\ vaults[active] = Repo
     THEN Go(c, "free", [loc[c] EXCEPT !.dir = Repo])
     ELSE Return(c)
  /\ UNCHANGED <<disk, memory, past, calls, commits, faults>>

\* One fan-out per vault, says the record; a second begin may be past this check.
BeginFree(c) ==
  /\ pc[c] = "free"
  /\ IF Participates(loc[c].name) THEN Return(c) ELSE Go(c, "branch", loc[c])
  /\ raced' = raced \cup
       (IF \E d \in In({"branch", "worktree", "register", "default", "record"}) \ {c} :
             loc[d].how = "begin" /\ loc[d].name = loc[c].name
        THEN {"begins"} ELSE {})
  /\ UNCHANGED <<disk, memory, unsaved, settled, late, calls, commits, faults>>

OpenBranch(c) ==
  /\ pc[c] = "branch"
  /\ \E i \in Ids :
       /\ wip[i] = Fresh
       /\ wip' = [wip EXCEPT ![i].branch = "yes", ![i].base = loc[c].name,
                             ![i].from = Len(main)]
       /\ Go(c, "worktree", [loc[c] EXCEPT !.id = i, !.dir = i])
  /\ UNCHANGED <<saved, main, memory, past, calls, commits, faults>>

\* When git cannot add the worktree, the branch stays behind.
OpenWorktree(c) ==
  /\ pc[c] = "worktree"
  /\ \/ /\ wip' = [wip EXCEPT ![loc[c].id].meta = "yes", ![loc[c].id].dir = "yes"]
        /\ Go(c, "register", loc[c])
        /\ UNCHANGED faults
     \/ /\ faults < MaxFaults
        /\ faults' = faults + 1
        /\ Return(c)
        /\ UNCHANGED wip
  /\ UNCHANGED <<saved, main, memory, past, calls, commits>>

\* Mutant: records the fan-out under the worktree's vault.
RecordFanout_UnderWorktree(c) ==
  /\ pc[c] = "record"
  /\ fanouts' = [fanouts EXCEPT ![FanName[loc[c].id]] = loc[c].id]
  /\ Return(c)
  /\ UNCHANGED <<disk, registry, managers, past, calls, commits, faults>>

\* A removal has passed its check meanwhile.
Unseen(n) == IF \E d \in In({"unregister"}) : loc[d].name = n THEN {"removal"} ELSE {}

RecordFanout(c) ==
  /\ pc[c] = "record"
  /\ fanouts' = [fanouts EXCEPT ![loc[c].name] = loc[c].id]
  /\ raced' = raced \cup Unseen(loc[c].name)
  /\ Return(c)
  /\ UNCHANGED <<disk, registry, managers, unsaved, settled, late, calls, commits, faults>>

-----------------------------------------------------------------------------
(* Fan-outs: commit, abandon, shutdown.                                    *)

Ending == {"base", "tips", "advance", "dir", "prune", "delete", "deregister", "forget"}

\* The record is found from either of its vaults.
FindRecord(c) ==
  /\ pc[c] = "find"
  /\ LET n == loc[c].name
         own == {b \in Names : fanouts[b] # NoId /\ (b = n \/ FanName[fanouts[b]] = n)} IN
       IF own = {} THEN Return(c) /\ UNCHANGED raced
       ELSE \E b \in (IF n \in own THEN {n} ELSE own) :
              /\ Go(c, "base", [loc[c] EXCEPT !.name = b, !.id = fanouts[b]])
              /\ raced' = raced \cup
                   (IF \E d \in In(Ending) : loc[d].id = fanouts[b] THEN {"ends"} ELSE {})
  /\ UNCHANGED <<disk, memory, unsaved, settled, late, calls, commits, faults>>

\* The base vault must still be there, and be the repository.
OpenBase(c) ==
  /\ pc[c] = "base"
  /\ IF vaults[loc[c].name] # Repo THEN Return(c) /\ UNCHANGED settled
     ELSE IF loc[c].how = "abandon"
     THEN Go(c, "dir", loc[c]) /\ settled' = [settled EXCEPT ![loc[c].id] = @ \cup {"abandoned"}]
     ELSE Go(c, "tips", loc[c]) /\ UNCHANGED settled
  /\ UNCHANGED <<disk, memory, unsaved, late, raced, calls, commits, faults>>

\* A merge that is over, well or not, always goes on to the cleanup.
Settle(c, how) ==
  /\ Go(c, "dir", [loc[c] EXCEPT !.how = how])
  /\ settled' = [settled EXCEPT ![loc[c].id] = @ \cup {how}]

\* Mutant: a merge with nothing on the branch's side is a no-op, whatever the fan-out made.
ReadTips_NoOp(c) ==
  /\ pc[c] = "tips"
  /\ In({"advance"}) = {}
  /\ LET w == wip[loc[c].id] IN
       IF Len(main) = w.from THEN Settle(c, "merged")
       ELSE /\ Go(c, "advance", [loc[c] EXCEPT !.seen = w.made, !.at = Len(main)])
            /\ UNCHANGED settled
  /\ UNCHANGED <<disk, memory, unsaved, late, raced, calls, commits, faults>>

\* Under the commit lock: read both tips, and decide what there is to merge.
\* A branch that has moved may conflict with the fan-out.
ReadTips(c) ==
  /\ pc[c] = "tips"
  /\ In({"advance"}) = {}
  /\ LET w == wip[loc[c].id]
         moved == Len(main) > w.from IN
       \/ w.branch = "no" /\ Settle(c, "refused")
       \/ w.branch = "yes" /\ w.made = {} /\ Settle(c, "merged")
       \/ w.branch = "yes" /\ w.made # {} /\ moved /\ Settle(c, "refused")
       \/ /\ w.branch = "yes" /\ w.made # {}
          /\ loc[c].how = "fast-forward" => ~moved
          /\ Go(c, "advance", [loc[c] EXCEPT !.seen = w.made, !.at = Len(main)])
          /\ UNCHANGED settled
  /\ UNCHANGED <<disk, memory, unsaved, late, raced, calls, commits, faults>>

\* What the branch becomes when the fan-out is merged into it.
Merged(c) == LET l == loc[c] IN
  IF l.how = "fast-forward" THEN Append(SubSeq(main, 1, wip[l.id].from), l.seen)
  ELSE Append(main, l.seen)

\* Mutant: sets the ref, whatever it is by now.
Advance_Blind(c) ==
  /\ pc[c] = "advance"
  /\ main' = Append(SubSeq(main, 1, loc[c].at), loc[c].seen)
  /\ Settle(c, "merged")
  /\ UNCHANGED <<saved, wip, memory, unsaved, late, raced, calls, commits, faults>>

\* Compare-and-swap; then the files.  Failing there is an error, though merged.
Advance(c) ==
  /\ pc[c] = "advance"
  /\ IF Len(main) = loc[c].at
     THEN /\ main' = Merged(c)
          /\ \/ Settle(c, "merged") /\ UNCHANGED faults
             \/ faults < MaxFaults /\ faults' = faults + 1 /\ Settle(c, "refused")
     ELSE Settle(c, "refused") /\ UNCHANGED <<main, faults>>
  /\ UNCHANGED <<saved, wip, memory, unsaved, late, raced, calls, commits>>

\* The three steps of the cleanup are all tried; only abandon reports a failure.
Failed(c) == IF loc[c].how = "abandon" THEN [loc[c] EXCEPT !.how = "refused"] ELSE loc[c]

Clean(c, from, to, gone) ==
  /\ pc[c] = from
  /\ \/ wip' = [wip EXCEPT ![loc[c].id] = gone] /\ Go(c, to, loc[c]) /\ UNCHANGED faults
     \/ faults < MaxFaults /\ faults' = faults + 1 /\ Go(c, to, Failed(c)) /\ UNCHANGED wip
  /\ UNCHANGED <<saved, main, memory, past, calls, commits>>

RemoveDir(c)     == Clean(c, "dir", "prune", [wip[loc[c].id] EXCEPT !.dir = "no"])
PruneWorktree(c) == Clean(c, "prune", "delete", [wip[loc[c].id] EXCEPT !.meta = "no", !.dir = "no"])

\* git keeps a branch that a worktree has checked out.
DeleteBranch(c) ==
  /\ pc[c] = "delete"
  /\ LET i == loc[c].id
         kept == wip[i].meta = "yes"
         l == IF kept THEN Failed(c) ELSE loc[c] IN
       /\ wip' = [wip EXCEPT ![i].branch = IF kept THEN @ ELSE "no"]
       /\ IF l.how = "refused" THEN Return(c) ELSE Go(c, "deregister", l)
  /\ UNCHANGED <<saved, main, memory, past, calls, commits, faults>>

Deregister(c) ==
  /\ pc[c] = "deregister"
  /\ LET n == FanName[loc[c].id] IN
       IF n \in Registered
       THEN Unregister(n) /\ unsaved' = unsaved \cup {n} /\ raced' = raced \cup Switch
       ELSE UNCHANGED <<registry, unsaved, raced>>
  /\ Go(c, IF loc[c].how = "shutdown" THEN "next" ELSE "forget", loc[c])
  /\ UNCHANGED <<disk, managers, fanouts, settled, late, calls, commits, faults>>

\* Whatever fan-out the base vault has by now.
ForgetFanout(c) ==
  /\ pc[c] = "forget"
  /\ fanouts' = [fanouts EXCEPT ![loc[c].name] = NoId]
  /\ Return(c)
  /\ UNCHANGED <<disk, registry, managers, past, calls, commits, faults>>

\* The signal handler abandons one fan-out after the other.
ShutdownNext(c) ==
  /\ pc[c] = "next"
  /\ \E b \in loc[c].queue :
       LET l == [loc[c] EXCEPT !.name = b, !.id = loc[c].of[b], !.queue = @ \ {b}] IN
         /\ Go(c, IF b \in l.seen THEN "dir" ELSE "deregister", l)
         /\ settled' = IF b \in l.seen
                       THEN [settled EXCEPT ![l.id] = @ \cup {"abandoned"}] ELSE settled
  /\ UNCHANGED <<disk, memory, unsaved, late, raced, calls, commits, faults>>

-----------------------------------------------------------------------------
(* Agents and people, crashes, the next start.                             *)

\* A commit in the base vault, through the server or with git.  Bound: only
\* while there is a fan-out that has to be merged with it.
CommitMain ==
  /\ commits < MaxCommits
  /\ \E i \in Ids : wip[i].branch = "yes"
  /\ commits' = commits + 1
  /\ main' = Append(main, {commits'})
  /\ UNCHANGED <<saved, wip, memory, pc, loc, past, calls, faults>>

\* A commit in a worktree, under a mutex of its own.
CommitWip(i) ==
  /\ commits < MaxCommits
  /\ wip[i].dir = "yes" /\ wip[i].meta = "yes" /\ wip[i].branch = "yes"
  /\ commits' = commits + 1
  /\ wip' = [wip EXCEPT ![i].made = @ \cup {commits'}]
  /\ late' = [late EXCEPT ![i] =
       IF \E c \in In({"advance", "dir", "prune", "delete"}) : loc[c].id = i THEN @ \cup {commits'} ELSE @]
  /\ UNCHANGED <<saved, main, memory, pc, loc, unsaved, settled, raced, calls, faults>>

Restart ==
  /\ Restore(saved.vaults, saved.active)
  /\ managers' = [n \in Names |-> NoManager]
  /\ fanouts' = [n \in Names |-> NoId]
  /\ pc' = [c \in Clients |-> "idle"]
  /\ loc' = [c \in Clients |-> Blank]
  /\ settled' = [i \in Ids |-> settled[i] \cup (IF wip[i] = Fresh THEN {} ELSE {"orphaned"})]
  /\ unsaved' = {}
  /\ raced' = {}
  /\ UNCHANGED <<disk, late, calls, commits>>

Exit(c) == pc[c] = "next" /\ loc[c].queue = {} /\ Restart /\ UNCHANGED faults
Crash == faults < MaxFaults /\ faults' = faults + 1 /\ Restart

-----------------------------------------------------------------------------
Start(c) == AddVault(c) \/ RemoveVault(c) \/ SetActiveVault(c) \/ UseVault(c)
            \/ BeginFanout(c) \/ CommitFanout(c) \/ AbandonFanout(c) \/ Shutdown(c)
Register1(c) == AddRegister(c) \/ AddDefault(c) \/ LookUp(c) \/ ReadConfig(c) \/ Publish(c) \/ BuildFails(c)
                \/ RemoveCheck(c) \/ RemoveUnregister(c) \/ RemoveDrop(c) \/ SwitchTo(c)
Save(c) == ListVaults(c) \/ Truncate(c) \/ WriteVaults(c) \/ WriteMetadata(c) \/ SaveFails(c)
Begin(c) == BeginConfig(c) \/ BeginFree(c) \/ OpenBranch(c) \/ OpenWorktree(c) \/ RecordFanout(c)
End(c) == FindRecord(c) \/ OpenBase(c) \/ ReadTips(c) \/ Advance(c) \/ RemoveDir(c) \/ PruneWorktree(c)
          \/ DeleteBranch(c) \/ Deregister(c) \/ ForgetFanout(c) \/ ShutdownNext(c) \/ Exit(c)

Next ==
  \/ \E c \in Clients : Start(c) \/ Register1(c) \/ Save(c) \/ Begin(c) \/ End(c)
  \/ CommitMain
  \/ \E i \in Ids : CommitWip(i)
  \/ Crash

Spec == Init /\ [][Next]_vars

-----------------------------------------------------------------------------
(* Properties.                                                             *)

TypeOK ==
  /\ RegistryTypeOK
  /\ managers \in [Names -> {NoManager} \cup [by : Clients, dir : Dirs]]
  /\ fanouts \in [Names -> Ids \cup {NoId}]
  /\ wip \in [Ids -> [branch : YesNo, meta : YesNo, dir : YesNo, base : Names \cup {NoVault},
                      from : Nat, made : SUBSET (1 .. MaxCommits)]]
  /\ main \in Seq(SUBSET (1 .. MaxCommits))
  /\ \A i \in Ids : settled[i] \subseteq {"merged", "refused", "abandoned", "orphaned"}
  /\ \A i \in Ids : late[i] \subseteq wip[i].made
  /\ raced \subseteq {"switch", "removal", "begins", "ends", "saves"}

OnMain == UNION {main[k] : k \in DOMAIN main}

\* Every commit made in a fan-out is on the branch, or still on a wip branch, or
\* its fan-out was abandoned or its merge refused: a merge that reports success
\* leaves nothing behind.  Except what is committed while the merge runs: it has
\* a mutex of its own, and its branch is deleted (fanout.rs).
AcknowledgedWorkSurvives == \A i \in Ids : \A k \in wip[i].made :
  \/ k \in OnMain \/ wip[i].branch = "yes"
  \/ k \in late[i]
  \/ settled[i] \cap {"refused", "abandoned"} # {}

\* Mutant: takes a worktree that is registered as a vault for one in use.
Orphans_Unregistered == {i \in Ids : /\ wip[i].meta = "yes"
                                     /\ FanName[i] \notin Registered
                                     /\ \E n \in Registered : vaults[n] = Repo}

\* What list_orphan_fanouts reports: worktrees the repository's vaults know and
\* no record names.
Orphans == {i \in Ids : /\ wip[i].meta = "yes"
                        /\ i \notin Recorded
                        /\ \E n \in Registered : vaults[n] = Repo}

\* Work in a fan-out that nobody ended is never out of sight, whatever crashed
\* when: its branch exists, and it is recorded or, while the repository is
\* registered, listed as an orphan.
UnsettledWorkIsListed == \A i \in Ids :
  (wip[i].made # {} /\ settled[i] \subseteq {"orphaned"}) =>
    /\ wip[i].branch = "yes"
    /\ (\E n \in Registered : vaults[n] = Repo) => i \in Recorded \cup Orphans

\* A merge that is refused leaves the fan-out's commits on its branch: both
\* refusals tell the caller to merge in another way ("use MergeCommit instead",
\* "resolve manually", fanout.rs).
RefusedWorkSurvives == \A i \in Ids : \A k \in wip[i].made :
  \/ k \in OnMain \/ wip[i].branch = "yes"
  \/ k \in late[i]
  \/ "abandoned" \in settled[i]

\* A merge only ever adds to the branch: what others committed since the fan-out
\* began stays on it, under either strategy.
MainOnlyGrows == [][IsPrefix(main, main')]_vars

\* One fan-out per base vault, as its record promises, unless two begins passed
\* the check at once or two calls ended one fan-out (begin_fanout checks under a
\* lock it releases; ForgetFanout removes whatever is recorded by then).
OneFanoutPerVault == raced \cap {"begins", "ends"} = {} =>
  \A i, j \in Ids : (/\ wip[i].base = wip[j].base
                     /\ "orphaned" \notin settled[i] \cup settled[j]
                     /\ {FanName[i], FanName[j]} \subseteq Registered) => i = j

\* A fan-out can be ended: the base vault of a record is registered, at the
\* repository the worktree belongs to, or commit and abandon can never find it.
\* Fails when the active vault changes between begin's two reads of it, and when
\* the base is removed between its check and its record.
FanoutsCanBeEnded == raced \cap {"switch", "removal"} = {} =>
  \A b \in Names : fanouts[b] # NoId => vaults[b] = Repo

\* The cached manager of a registered name serves the directory the name stands
\* for now: after a removal and a new registration nothing writes to the old
\* directory.  Fails when a manager is still being built as its vault is removed.
ManagersAreCurrent == "removal" \notin raced =>
  \A n \in Bases : \/ managers[n] = NoManager \/ managers[n].dir = vaults[n]
                   \/ \E c \in In({"drop"}) : loc[c].name = n

\* The active vault is a registered one, unless a vault was removed under the
\* call that was about to make it the default, or the active vault changed
\* between begin's two reads of it.
ActiveIsRegistered == raced \cap {"switch", "removal"} = {} =>
  active = NoVault \/ active \in Registered

\* The maps the server keeps about its vaults agree: records of fan-outs, cached
\* managers, the registry and the active vault.
MapsAgree == OneFanoutPerVault /\ ManagersAreCurrent /\ ActiveIsRegistered

\* With no call under way, a restart brings back the registrations there are, of
\* every name whose last change was saved: by a tool that saves (create_vault and
\* the fan-outs do not), that got as far (add_vault returns before its save when
\* the manager cannot be built) and could write its files (an error is logged, and
\* takes with it what the file held).  A later save makes good for all of them.
\* Not so when two calls save at once: each writes what it listed.
RestartRemembers == (In({"idle"}) = Clients /\ "saves" \notin raced) =>
  \A n \in Names \ unsaved : saved.vaults[n] = vaults[n]

=============================================================================

------------------------- MODULE ServerVaultsProofs -------------------------
(***************************************************************************)
(* Proofs about ServerVaults: its types, that merges only add to the       *)
(* branch and lose nothing, that unsettled work stays in sight, that the   *)
(* maps agree with each other, and what a restart finds again.             *)
(*                                                                         *)
(* They are laid out from the calls to the maps: what a call in each       *)
(* section has in hand (Legal), where it can have come from (Moved), who   *)
(* can change which map (VaultSteps, FanoutSteps, ...).  Then one          *)
(* invariant per concern, each with its own step lemma:                    *)
(*   ForkInv    a merge was decided on while nothing had been added        *)
(*   WorkInv    a call on its way to delete a branch has it settled        *)
(*   NamesInv   a name stands for a base directory or for a worktree       *)
(*   EndInv     a begin in hand has the repository under its name          *)
(*   ManagerInv a manager being built serves what its name stands for      *)
(*   SaveInv    every change is saved, noted, or has its save ahead        *)
(*   RecordInv  a recorded fan-out belongs to no call that is opening one  *)
(*   OneInv     a registered fan-out is recorded, or about to be           *)
(* Nothing bounds the sets or the counters: the constants are arbitrary,   *)
(* but for the two assumptions they are declared with.                     *)
(***************************************************************************)
EXTENDS ServerVaults, TLAPS, SequenceTheorems, WellFoundedInduction

USE RegistryAssumption, ServerAssumption

-----------------------------------------------------------------------------
(* Calls: where a call can be, and with what in hand.                      *)

Sections == {"idle", "register", "default", "look", "activate", "publish", "remove", "unregister",
             "drop", "switch", "list", "truncate", "write", "metadata", "config", "free", "branch",
             "worktree", "record", "find", "next"} \cup Ending

Ends == {"abandon", "merged", "refused", "shutdown"} \cup Strategies
Hows == {"", "add", "create", "use", "begin"} \cup Ends

Directories == [Names -> Dirs \cup {NoVault}]

Loc == [name : Names \cup {NoVault}, dir : Dirs \cup {NoVault}, id : Ids \cup {NoId}, how : Hows,
        of : [Names -> Dirs \cup {NoVault, NoId}], seen : SUBSET Nat, at : Nat,
        queue : SUBSET Names]

\* The sections of a begin that has passed the check, and of one that has an id.
Opening == {"branch", "worktree", "register", "default", "record"}

\* What a call in section s has read.
Legal(s, l) ==
  /\ s \in {"look", "activate", "publish", "remove", "unregister", "drop", "switch", "config",
            "free", "branch", "worktree", "record", "find"} \cup Ending => l.name \in Names
  /\ s \in {"register", "default"} =>
       \/ l.how \in {"add", "create"} /\ l.name \in Bases /\ l.dir \in Dirs
       \/ l.how = "begin" /\ l.name \in Names /\ l.id \in Ids /\ l.dir = l.id
  /\ s = "activate" => l.how \in {"add", "use"}
  /\ s = "publish" => l.how \in {"add", "use"} /\ l.dir \in Dirs
  /\ s \in {"activate", "publish"} /\ l.how = "add" => l.name \in Bases
  /\ s = "look" => l.how = "use"
  /\ s \in {"drop", "remove", "unregister", "switch"} => l.how = ""
  /\ s \in {"config", "free", "branch", "worktree", "record"} => l.how = "begin"
  /\ s \in {"worktree", "record"} => l.id \in Ids /\ l.dir = l.id
  /\ s = "list" => l.how \in {"", "add"}
  /\ s \in {"truncate", "write"} => l.of \in Directories
  /\ s \in {"find", "base"} => l.how \in {"abandon"} \cup Strategies
  /\ s \in {"tips", "advance"} => l.how \in Strategies
  /\ s = "advance" => l.seen \subseteq 1 .. MaxCommits
  /\ s \in Ending => l.id \in Ids /\ l.how \in Ends
  /\ s = "next" => l.how = "shutdown"
  /\ s = "forget" => l.how # "shutdown"
  /\ l.how = "shutdown" => \A b \in l.queue : l.of[b] \in Ids

CallsOK ==
  /\ pc \in [Clients -> Sections]
  /\ loc \in [Clients -> Loc]
  /\ \A c \in Clients : Legal(pc[c], loc[c])

LEMMA GoKeepsCalls ==
  ASSUME CallsOK, NEW c \in Clients, NEW to \in Sections, NEW l \in Loc, Legal(to, l), Go(c, to, l)
  PROVE  CallsOK'
  BY DEF CallsOK, Go

LEMMA BlankIsLegal == Blank \in Loc /\ Legal("idle", Blank)
  BY DEF Blank, Loc, Hows, Legal, Ending

LEMMA ReturnKeepsCalls ==
  ASSUME CallsOK, NEW c \in Clients, Return(c)
  PROVE  CallsOK'
<1>1. "idle" \in Sections /\ Legal("idle", Blank)
  BY BlankIsLegal DEF Sections
<1> QED BY <1>1, BlankIsLegal, GoKeepsCalls DEF Return

\* A call that goes on with what it had.
LEMMA GoOnKeepsCalls ==
  ASSUME CallsOK, NEW c \in Clients, NEW to \in Sections, Legal(to, loc[c]), Go(c, to, loc[c])
  PROVE  CallsOK'
<1>1. loc[c] \in Loc
  BY DEF CallsOK
<1> QED BY <1>1, GoKeepsCalls

\* Where each action of a call takes it.
StartSections == {"register", "remove", "switch", "look", "config", "find", "next"}

LEMMA StartKeepsCalls ==
  ASSUME CallsOK, fanouts \in [Names -> Ids \cup {NoId}], active \in Names \cup {NoVault},
         NEW c \in Clients, Start(c)
  PROVE  CallsOK'
<1> DEFINE Starts(to, l) == to \in Sections /\ l \in Loc /\ Legal(to, l) /\ Call(c, to, l)
<1>1. ASSUME NEW to, NEW l, Starts(to, l) PROVE CallsOK'
  BY <1>1, GoKeepsCalls DEF Call, Goto, Go
<1>2. CASE AddVault(c)
  <2>1. PICK n \in Bases, d \in Dirs \ Ids, tool \in {"add", "create"} :
          Call(c, "register", [Blank EXCEPT !.name = n, !.dir = d, !.how = tool])
    BY <1>2 DEF AddVault
  <2> DEFINE l == [Blank EXCEPT !.name = n, !.dir = d, !.how = tool]
  <2>2. l \in Loc /\ l.name = n /\ l.dir = d /\ l.how = tool
    BY BlankIsLegal DEF Loc, Hows, Blank
  <2>3. Starts("register", l)
    <3> HIDE DEF l
    <3>1. Legal("register", l)
      BY <2>2 DEF Legal, Ending
    <3> QED BY <2>1, <2>2, <3>1 DEF Sections, l
  <2> QED BY <1>1, <2>3
<1>3. CASE RemoveVault(c) \/ SetActiveVault(c)
  <2>1. PICK n \in Names, to \in {"remove", "switch"} : Call(c, to, [Blank EXCEPT !.name = n])
    BY <1>3 DEF RemoveVault, SetActiveVault
  <2> DEFINE l == [Blank EXCEPT !.name = n]
  <2>2. l \in Loc /\ l.name = n /\ l.how = ""
    BY BlankIsLegal DEF Loc, Hows, Blank
  <2>3. Starts(to, l)
    <3> HIDE DEF l
    <3>1. Legal(to, l)
      BY <2>2 DEF Legal, Ending
    <3> QED BY <2>1, <2>2, <3>1 DEF Sections, l
  <2> QED BY <1>1, <2>3
<1>4. ASSUME NEW to, NEW how, OnActive(c, to, how),
             \/ to = "look" /\ how = "use"
             \/ to = "config" /\ how = "begin"
             \/ to = "find" /\ how \in Strategies \cup {"abandon"}
      PROVE  CallsOK'
  <2> DEFINE l == [Blank EXCEPT !.name = active, !.how = how]
  <2>1. l \in Loc /\ l.name = active /\ l.how = how /\ l.queue = {} /\ active \in Names
    BY <1>4, BlankIsLegal DEF Loc, Hows, Ends, Blank, OnActive
  <2>2. Call(c, to, l)
    BY <1>4 DEF OnActive
  <2> HIDE DEF l
  <2>3. Legal(to, l)
    BY <1>4, <2>1 DEF Legal, Ending
  <2> QED BY <1>1, <1>4, <2>1, <2>2, <2>3 DEF Sections
<1>5. CASE Shutdown(c)
  <2> DEFINE l == [Blank EXCEPT !.how = "shutdown", !.of = fanouts,
                 !.queue = {n \in Registered : fanouts[n] # NoId}, !.seen = {n \in Names : vaults[n] = Repo}]
  <2>1. l \in Loc /\ l.how = "shutdown" /\ l.of = fanouts /\ l.queue = {n \in Registered : fanouts[n] # NoId}
    BY BlankIsLegal DEF Loc, Hows, Ends, Blank, Registered
  <2>2. Call(c, "next", l)
    BY <1>5 DEF Shutdown
  <2> HIDE DEF l
  <2>3. Legal("next", l)
    BY <2>1 DEF Legal, Ending, Registered
  <2> QED BY <1>1, <2>1, <2>2, <2>3 DEF Sections
<1> QED BY <1>2, <1>3, <1>4, <1>5
        DEF Start, UseVault, BeginFanout, CommitFanout, AbandonFanout

\* What a call in hand has: the facts of its own section.
LEMMA InHand ==
  ASSUME CallsOK, NEW c \in Clients
  PROVE  /\ Legal(pc[c], loc[c]) /\ loc[c] \in Loc /\ pc[c] \in Sections
         /\ loc[c].name \in Names \cup {NoVault} /\ loc[c].dir \in Dirs \cup {NoVault}
         /\ loc[c].id \in Ids \cup {NoId} /\ loc[c].how \in Hows /\ loc[c].seen \subseteq Nat
         /\ loc[c].at \in Nat /\ loc[c].queue \in SUBSET Names
         /\ loc[c].of \in [Names -> Dirs \cup {NoVault, NoId}]
  BY DEF CallsOK, Loc

\* Registration, activation and saving.
LEMMA RegisterKeepsCalls ==
  ASSUME CallsOK, vaults \in Directories, active \in Names \cup {NoVault},
         NEW c \in Clients, Register1(c) \/ Save(c)
  PROVE  CallsOK'
<1> DEFINE GoOn(to) == to \in Sections /\ Legal(to, loc[c]) /\ Go(c, to, loc[c])
<1>1. ASSUME NEW to, GoOn(to) PROVE CallsOK'
  BY <1>1, GoOnKeepsCalls
<1>2. ASSUME Return(c) PROVE CallsOK'
  BY <1>2, ReturnKeepsCalls
<1>r. ASSUME pc[c] \in {"register", "default"}, AfterRegister(c, loc[c]) PROVE CallsOK'
  <2>1. CASE loc[c].how = "add"
    BY <1>r, <2>1, <1>1, InHand DEF AfterRegister, Legal, Sections, Ending
  <2>2. CASE loc[c].how = "create"
    BY <1>r, <2>2, <1>2 DEF AfterRegister
  <2>3. CASE loc[c].how = "begin"
    BY <1>r, <2>3, <1>1, InHand DEF AfterRegister, Legal, Sections, Ending
  <2> QED BY <1>r, <2>1, <2>2, <2>3, InHand DEF Legal
<1>3. CASE AddRegister(c)
  <2>1. CASE Go(c, "default", loc[c])
    BY <1>3, <2>1, <1>1, InHand DEF AddRegister, Legal, Sections, Ending
  <2> QED BY <1>3, <1>2, <1>r, <2>1 DEF AddRegister
<1>4. CASE AddDefault(c)
  BY <1>4, <1>r DEF AddDefault
<1>5. CASE LookUp(c)
  <2>1. Legal("activate", loc[c])
    BY <1>5, InHand DEF LookUp, Legal, Ending
  <2>2. CASE Go(c, "activate", loc[c])
    BY <2>1, <2>2, <1>1 DEF Sections
  <2> QED BY <1>5, <1>2, <2>2 DEF LookUp
<1>6. CASE ReadConfig(c)
  <2> DEFINE n == loc[c].name
             l == [loc[c] EXCEPT !.dir = vaults[n]]
  <2>1. CASE n \in Registered
    <3>1. /\ n \in Names /\ vaults[n] \in Dirs
          /\ pc[c] = "activate" /\ Go(c, "publish", l)
      BY <1>6, <2>1, InHand DEF ReadConfig, Registered, Directories
    <3>2. /\ l \in Loc /\ l.name = loc[c].name /\ l.dir = vaults[n] /\ l.how = loc[c].how
      BY <3>1, InHand DEF Loc
    <3> HIDE DEF l
    <3>3. Legal("publish", l)
      BY <3>1, <3>2, InHand DEF Legal, Ending
    <3> QED BY <3>1, <3>2, <3>3, GoKeepsCalls DEF Sections
  <2> QED BY <1>6, <1>2, <2>1 DEF ReadConfig
<1>7. CASE Publish(c)
  BY <1>7, <1>1, <1>2, InHand DEF Publish, AfterPublish, Legal, Sections, Ending
<1>8. CASE RemoveCheck(c) \/ RemoveUnregister(c) \/ RemoveDrop(c) \/ SwitchTo(c)
  <2>1. CASE RemoveCheck(c)
    BY <2>1, <1>1, <1>2, InHand DEF RemoveCheck, Legal, Sections, Ending
  <2>2. CASE RemoveUnregister(c)
    BY <2>2, <1>1, <1>2, InHand DEF RemoveUnregister, Legal, Sections, Ending
  <2>3. CASE RemoveDrop(c)
    BY <2>3, <1>1, <1>2, InHand DEF RemoveDrop, Legal, Sections, Ending
  <2>4. CASE SwitchTo(c)
    BY <2>4, <1>1, <1>2, InHand DEF SwitchTo, Legal, Sections, Ending
  <2> QED BY <1>8, <2>1, <2>2, <2>3, <2>4
<1>9. CASE ListVaults(c)
  <2> DEFINE l == [loc[c] EXCEPT !.of = vaults]
  <2>1. Go(c, "truncate", l) /\ pc[c] = "list"
    BY <1>9 DEF ListVaults
  <2>2. l \in Loc /\ l.of = vaults /\ l.how = loc[c].how /\ l.queue = loc[c].queue
    BY InHand DEF Loc, Directories
  <2> HIDE DEF l
  <2>3. loc[c].how # "shutdown"
    BY <2>1, InHand DEF Legal
  <2> QED BY <2>1, <2>2, <2>3, GoKeepsCalls DEF Sections, Legal, Ending
<1>10. CASE Truncate(c)
  <2> DEFINE l == [loc[c] EXCEPT !.name = active]
  <2>1. Go(c, "write", l) /\ pc[c] = "truncate"
    BY <1>10 DEF Truncate
  <2>2. l \in Loc /\ l.of = loc[c].of /\ l.how = loc[c].how /\ l.queue = loc[c].queue
    BY InHand DEF Loc
  <2> HIDE DEF l
  <2> QED BY <2>1, <2>2, InHand, GoKeepsCalls DEF Sections, Legal, Ending
<1>11. CASE WriteVaults(c)
  BY <1>11, <1>1, InHand DEF WriteVaults, Legal, Sections, Ending
<1>12. CASE WriteMetadata(c) \/ BuildFails(c) \/ SaveFails(c)
  BY <1>12, <1>2 DEF WriteMetadata, BuildFails, SaveFails
<1> QED BY <1>3, <1>4, <1>5, <1>6, <1>7, <1>8, <1>9, <1>10, <1>11, <1>12 DEF Register1, Save

\* Fan-outs that begin.
LEMMA BeginKeepsCalls ==
  ASSUME CallsOK, NEW c \in Clients, Begin(c)
  PROVE  CallsOK'
<1>1. ASSUME NEW to \in Sections, Legal(to, loc[c]), Go(c, to, loc[c]) PROVE CallsOK'
  BY <1>1, GoOnKeepsCalls
<1>2. ASSUME Return(c) PROVE CallsOK'
  BY <1>2, ReturnKeepsCalls
<1>3. CASE BeginConfig(c)
  <2> DEFINE l == [loc[c] EXCEPT !.dir = Repo]
  <2>1. CASE Go(c, "free", l)
    <3>1. /\ l \in Loc /\ l.name = loc[c].name /\ l.how = loc[c].how /\ l.queue = loc[c].queue
          /\ l.of = loc[c].of /\ pc[c] = "config"
      BY <1>3, InHand DEF Loc, BeginConfig
    <3> HIDE DEF l
    <3>2. Legal("free", l)
      BY <3>1, InHand DEF Legal, Ending
    <3> QED BY <2>1, <3>1, <3>2, GoKeepsCalls DEF Sections
  <2> QED BY <1>3, <1>2, <2>1 DEF BeginConfig
<1>4. CASE BeginFree(c)
  BY <1>4, <1>1, <1>2, InHand DEF BeginFree, Legal, Sections, Ending
<1>5. CASE OpenBranch(c)
  <2>1. PICK i \in Ids : Go(c, "worktree", [loc[c] EXCEPT !.id = i, !.dir = i])
    BY <1>5 DEF OpenBranch
  <2> DEFINE l == [loc[c] EXCEPT !.id = i, !.dir = i]
  <2>2. /\ l \in Loc /\ l.name = loc[c].name /\ l.how = loc[c].how /\ l.queue = loc[c].queue
        /\ l.of = loc[c].of /\ l.id = i /\ l.dir = i /\ pc[c] = "branch"
    <3>1. loc[c] \in Loc /\ i \in Dirs /\ pc[c] = "branch"
      BY <1>5, InHand DEF OpenBranch
    <3> QED BY <3>1 DEF Loc
  <2>3. Go(c, "worktree", l)
    BY <2>1
  <2> HIDE DEF l
  <2>4. Legal("worktree", l)
    BY <2>2, InHand DEF Legal, Ending
  <2> QED BY <2>2, <2>3, <2>4, GoKeepsCalls DEF Sections
<1>6. CASE OpenWorktree(c) \/ RecordFanout(c)
  BY <1>6, <1>1, <1>2, InHand DEF OpenWorktree, RecordFanout, Legal, Sections, Ending
<1> QED BY <1>3, <1>4, <1>5, <1>6 DEF Begin

\* Fan-outs that end.  A call on its way through the cleanup keeps all it has
\* read but the outcome.
LEMMA OutcomeKeepsCalls ==
  ASSUME CallsOK, NEW c \in Clients, NEW how \in {"merged", "refused"},
         NEW to \in {"dir", "prune", "delete"},
         pc[c] \in {"tips", "advance", "dir", "prune", "delete"}, loc[c].how # "shutdown",
         Go(c, to, [loc[c] EXCEPT !.how = how])
  PROVE  CallsOK'
<1> DEFINE l == [loc[c] EXCEPT !.how = how]
<1>1. /\ l \in Loc /\ l.name = loc[c].name /\ l.how = how /\ l.id = loc[c].id
  <2>1. loc[c] \in Loc /\ how \in Hows
    BY InHand DEF Hows, Ends
  <2> QED BY <2>1 DEF Loc
<1>2. Go(c, to, l)
  OBVIOUS
<1> HIDE DEF l
<1>3. Legal(to, l)
  BY <1>1, InHand DEF Legal, Ending, Ends
<1> QED BY <1>1, <1>2, <1>3, GoKeepsCalls DEF Sections, Ending

LEMMA EndKeepsCalls ==
  ASSUME CallsOK, fanouts \in [Names -> Ids \cup {NoId}],
         \A i \in Ids : wip[i].made \subseteq 1 .. MaxCommits, main \in Seq(SUBSET (1 .. MaxCommits)),
         NEW c \in Clients, End(c), ~Exit(c)
  PROVE  CallsOK'
<1>1. ASSUME NEW to \in Sections, Legal(to, loc[c]), Go(c, to, loc[c]) PROVE CallsOK'
  BY <1>1, GoOnKeepsCalls
<1>2. ASSUME Return(c) PROVE CallsOK'
  BY <1>2, ReturnKeepsCalls
<1>s. ASSUME pc[c] \in {"tips", "advance"}, NEW how \in {"merged", "refused"}, Settle(c, how)
      PROVE  CallsOK'
  <2>1. loc[c].how # "shutdown"
    BY <1>s, InHand DEF Legal
  <2> QED BY <1>s, <2>1, OutcomeKeepsCalls DEF Settle
<1>3. CASE FindRecord(c)
  <2>1. CASE \E b \in Names : fanouts[b] # NoId /\
                 Go(c, "base", [loc[c] EXCEPT !.name = b, !.id = fanouts[b]])
    <3>1. PICK b \in Names : fanouts[b] # NoId /\
                 Go(c, "base", [loc[c] EXCEPT !.name = b, !.id = fanouts[b]])
      BY <2>1
    <3> DEFINE l == [loc[c] EXCEPT !.name = b, !.id = fanouts[b]]
    <3>0. fanouts[b] \in Ids
      BY <3>1
    <3>2. /\ l \in Loc /\ l.name = b /\ l.how = loc[c].how /\ l.id = fanouts[b] /\ l.id \in Ids
          /\ l.queue = loc[c].queue /\ l.of = loc[c].of /\ pc[c] = "find"
      <4>1. loc[c] \in Loc /\ pc[c] = "find"
        BY <1>3, InHand DEF FindRecord
      <4> QED BY <4>1, <3>0, <3>1 DEF Loc
    <3>3. Go(c, "base", l)
      BY <3>1
    <3> HIDE DEF l
    <3>4. Legal("base", l)
      BY <3>2, InHand DEF Legal, Ending, Ends
    <3> QED BY <3>2, <3>3, <3>4, GoKeepsCalls DEF Sections, Ending
  <2> QED BY <1>3, <1>2, <2>1 DEF FindRecord
<1>4. CASE OpenBase(c)
  BY <1>4, <1>1, <1>2, InHand DEF OpenBase, Legal, Sections, Ending, Ends
<1>5. CASE ReadTips(c)
  <2> DEFINE l == [loc[c] EXCEPT !.seen = wip[loc[c].id].made, !.at = Len(main)]
  <2>0. pc[c] = "tips"
    BY <1>5 DEF ReadTips
  <2>1. CASE Go(c, "advance", l)
    <3>1. loc[c].id \in Ids /\ Len(main) \in Nat /\ loc[c] \in Loc
      <4>1. Len(main) \in Nat
        OBVIOUS
      <4>2. loc[c].id \in Ids /\ loc[c] \in Loc
        BY <2>0, InHand DEF Legal, Ending
      <4> QED BY <4>1, <4>2
    <3>2. wip[loc[c].id].made \subseteq 1 .. MaxCommits
      BY <3>1
    <3>3. /\ l \in Loc /\ l.name = loc[c].name /\ l.how = loc[c].how /\ l.id = loc[c].id
          /\ l.seen = wip[loc[c].id].made /\ l.queue = loc[c].queue /\ l.of = loc[c].of
      <4>1. wip[loc[c].id].made \subseteq Nat
        BY <3>2
      <4> QED BY <3>1, <4>1 DEF Loc
    <3> HIDE DEF l
    <3>4. Legal("advance", l)
      BY <2>0, <3>2, <3>3, InHand DEF Legal, Ending
    <3> QED BY <2>1, <3>3, <3>4, GoKeepsCalls DEF Sections, Ending
  <2> QED BY <1>5, <1>s, <2>0, <2>1 DEF ReadTips
<1>6. CASE Advance(c)
  BY <1>6, <1>s DEF Advance
<1>7. CASE RemoveDir(c) \/ PruneWorktree(c)
  <2>1. PICK from \in {"dir", "prune"}, to \in {"prune", "delete"} :
          pc[c] = from /\ (Go(c, to, loc[c]) \/ Go(c, to, Failed(c)))
    BY <1>7 DEF RemoveDir, PruneWorktree, Clean
  <2>2. Legal(to, loc[c]) /\ to \in Sections
    BY <2>1, InHand DEF Legal, Ending, Sections
  <2>3. CASE loc[c].how = "abandon" /\ Go(c, to, Failed(c))
    BY <2>1, <2>3, OutcomeKeepsCalls DEF Failed
  <2> QED BY <1>1, <2>1, <2>2, <2>3 DEF Failed
<1>8. CASE DeleteBranch(c)
  <2>0. pc[c] = "delete"
    BY <1>8 DEF DeleteBranch
  <2>1. CASE Go(c, "deregister", Failed(c)) /\ Failed(c).how # "refused"
    <3>1. Failed(c) = loc[c]
      BY <2>1, InHand DEF Failed, Loc
    <3>2. Legal("deregister", loc[c]) /\ "deregister" \in Sections
      BY <2>0, InHand DEF Legal, Ending, Sections
    <3> QED BY <2>1, <3>1, <3>2, <1>1
  <2>2. CASE Go(c, "deregister", loc[c])
    BY <2>0, <2>2, <1>1, InHand DEF Legal, Ending, Sections
  <2> QED BY <1>8, <1>2, <2>1, <2>2 DEF DeleteBranch
<1>9. CASE Deregister(c)
  <2>1. PICK to \in {"next", "forget"} : /\ Go(c, to, loc[c]) /\ pc[c] = "deregister"
                                         /\ to = "next" <=> loc[c].how = "shutdown"
    BY <1>9 DEF Deregister
  <2> QED BY <2>1, <1>1, InHand DEF Legal, Ending, Sections
<1>10. CASE ForgetFanout(c)
  BY <1>10, <1>2 DEF ForgetFanout
<1>11. CASE ShutdownNext(c)
  <2> DEFINE l(b) == [loc[c] EXCEPT !.name = b, !.id = loc[c].of[b], !.queue = @ \ {b}]
  <2>0. pc[c] = "next"
    BY <1>11 DEF ShutdownNext
  <2>1. PICK b \in loc[c].queue, to \in {"dir", "deregister"} : Go(c, to, l(b))
    BY <1>11 DEF ShutdownNext
  <2>2. b \in Names /\ loc[c].of[b] \in Ids /\ loc[c].how = "shutdown"
    BY <2>0, <2>1, InHand DEF Legal
  <2>3. /\ l(b) \in Loc /\ l(b).name = b /\ l(b).how = loc[c].how /\ l(b).id = loc[c].of[b]
        /\ l(b).queue = loc[c].queue \ {b} /\ l(b).of = loc[c].of
    <3>1. loc[c] \in Loc /\ loc[c].of[b] \in Ids /\ b \in Names
      BY <2>2, InHand
    <3> QED BY <3>1 DEF Loc
  <2> HIDE DEF l
  <2>4. Legal(to, l(b))
    BY <2>0, <2>2, <2>3, InHand DEF Legal, Ending, Ends
  <2> QED BY <2>1, <2>3, <2>4, GoKeepsCalls DEF Sections, Ending
<1> QED BY <1>3, <1>4, <1>5, <1>6, <1>7, <1>8, <1>9, <1>10, <1>11 DEF End

-----------------------------------------------------------------------------
(* Type correctness.                                                       *)

StoreOK ==
  /\ saved \in [vaults : Directories, active : Names \cup {NoVault}]
  /\ settled \in [Ids -> SUBSET {"merged", "refused", "abandoned", "orphaned"}]
  /\ late \in [Ids -> SUBSET (1 .. MaxCommits)]
  /\ commits \in Nat /\ calls \in Nat /\ faults \in Nat

TypeInv == TypeOK /\ StoreOK /\ CallsOK

\* A non-empty set of names has a least one.
LEMMA LeastIsMember ==
  ASSUME NEW S \in SUBSET Names
  PROVE  /\ Least(S) \in S \cup {NoVault}
         /\ S # {} => Least(S) \in S
<1> SUFFICES ASSUME S # {} PROVE Least(S) \in S
  BY DEF Least
<1> DEFINE R == OpToRel(<, Nat)
<1>1. IsWellFoundedOn(R, Nat)
  BY NatLessThanWellFounded, Zenon
<1>2. \E n \in S : \A m \in S : ~ (<<m, n>> \in R)
  <2> HIDE DEF R
  <2> QED BY <1>1, WFMin
<1>3. PICK n \in S : \A m \in S : ~ (<<m, n>> \in R)
  BY <1>2, Zenon
<1>4. \A m \in S : ~ (m < n)
  BY <1>3, Zenon DEF OpToRel
<1> HIDE DEF R
<1>5. ASSUME NEW m \in S PROVE n <= m
  BY <1>4, n \in Nat, m \in Nat
<1> QED BY <1>5 DEF Least

Wip == [branch : YesNo, meta : YesNo, dir : YesNo, base : Names \cup {NoVault},
        from : Nat, made : SUBSET (1 .. MaxCommits)]

LEMMA TypeInit == Init => TypeInv
<1> SUFFICES ASSUME Init PROVE TypeInv
  OBVIOUS
<1>1. CallsOK
  BY BlankIsLegal DEF Init, CallsOK, Sections
<1>2. vaults \in Directories /\ active \in Names \cup {NoVault}
  <2>1. CASE vaults = [n \in Names |-> NoVault] /\ active = NoVault
    BY <2>1 DEF Directories
  <2>2. CASE /\ \E d \in Dirs \ (Ids \cup {Repo}) :
                  vaults = [n \in Names |-> IF n = Least(Bases) THEN Repo
                                            ELSE IF n \in Bases THEN d ELSE NoVault]
             /\ active \in Bases
    BY <2>2, ServerAssumption DEF Directories
  <2> QED BY <2>1, <2>2 DEF Init
<1>3. Fresh \in Wip /\ Fresh.made = {}
  BY DEF Fresh, Wip, YesNo
<1>4. main \in Seq(SUBSET (1 .. MaxCommits))
  BY DEF Init
<1>5. TypeOK
  BY <1>2, <1>3, <1>4 DEF Init, TypeOK, RegistryTypeOK, Directories, Wip
<1>6. StoreOK
  BY <1>2 DEF Init, StoreOK
<1> QED BY <1>1, <1>5, <1>6 DEF TypeInv

\* One fan-out's entry changes.
LEMMA WipUpdate ==
  ASSUME wip \in [Ids -> Wip], NEW i \in Ids, NEW w \in Wip, wip' = [wip EXCEPT ![i] = w]
  PROVE  wip' \in [Ids -> Wip] /\ wip'[i] = w /\ \A j \in Ids \ {i} : wip'[j] = wip[j]
  OBVIOUS

LEMMA WipAt == ASSUME wip \in [Ids -> Wip], NEW i \in Ids PROVE wip[i] \in Wip
  OBVIOUS

\* The registry's own operations.
LEMMA RegistryTypes ==
  ASSUME RegistryTypeOK
  PROVE  /\ \A n \in Names, d \in Dirs : Register(n, d) => vaults' \in Directories
         /\ \A n \in Names : Unregister(n) => RegistryTypeOK'
         /\ \A n \in Names : SetActive(n) => RegistryTypeOK'
         /\ \A v \in Directories, a \in Names \cup {NoVault} : Restore(v, a) => RegistryTypeOK'
<1>1. ASSUME NEW n \in Names, NEW d \in Dirs, Register(n, d) PROVE vaults' \in Directories
  BY <1>1 DEF RegistryTypeOK, Register, Directories
<1>2. ASSUME NEW n \in Names, Unregister(n) PROVE RegistryTypeOK'
  <2>1. Registered \ {n} \in SUBSET Names
    BY DEF Registered
  <2>2. Least(Registered \ {n}) \in Names \cup {NoVault}
    BY <2>1, LeastIsMember
  <2> QED BY <1>2, <2>2 DEF RegistryTypeOK, Unregister
<1>3. ASSUME NEW n \in Names, SetActive(n) PROVE RegistryTypeOK'
  BY <1>3 DEF RegistryTypeOK, SetActive
<1>4. ASSUME NEW v \in Directories, NEW a \in Names \cup {NoVault}, Restore(v, a)
      PROVE  RegistryTypeOK'
  BY <1>4 DEF RegistryTypeOK, Restore, Directories
<1> QED BY <1>1, <1>2, <1>3, <1>4

LEMMA TypeFacts ==
  ASSUME TypeInv
  PROVE  /\ CallsOK /\ RegistryTypeOK /\ vaults \in Directories
         /\ active \in Names \cup {NoVault}
         /\ fanouts \in [Names -> Ids \cup {NoId}] /\ wip \in [Ids -> Wip]
         /\ \A i \in Ids : wip[i] \in Wip /\ wip[i].made \subseteq 1 .. MaxCommits
         /\ main \in Seq(SUBSET (1 .. MaxCommits))
  BY DEF TypeInv, TypeOK, RegistryTypeOK, Directories, Wip

\* Where a fan-out forked is on the branch, and a fast-forward was decided on
\* while nothing had been added since.
ForkInv ==
  /\ \A i \in Ids : wip[i].from <= Len(main) /\ (wip[i].branch = "yes" => wip[i].base # NoVault)
  /\ \A c \in Clients : pc[c] = "advance" =>
       /\ wip[loc[c].id].base # NoVault
       /\ loc[c].how = "fast-forward" => loc[c].at <= wip[loc[c].id].from

\* So a merge, whatever the strategy, adds to the branch.
LEMMA AdvanceAppends ==
  ASSUME TypeInv, ForkInv, NEW c \in Clients, Advance(c)
  PROVE  main' = main \/ main' = Append(main, loc[c].seen)
<1>1. CASE Len(main) # loc[c].at
  BY <1>1 DEF Advance
<1>2. CASE Len(main) = loc[c].at /\ loc[c].how # "fast-forward"
  BY <1>2 DEF Advance, Merged
<1>3. CASE Len(main) = loc[c].at /\ loc[c].how = "fast-forward"
  <2>1. pc[c] = "advance" /\ loc[c].id \in Ids
    BY TypeFacts, InHand DEF Advance, Legal, Ending
  <2>2. wip[loc[c].id].from \in Nat /\ main \in Seq(SUBSET (1 .. MaxCommits))
    BY <2>1, TypeFacts DEF Wip
  <2>3. wip[loc[c].id].from = Len(main)
    BY <1>3, <2>1, <2>2 DEF ForkInv
  <2>4. SubSeq(main, 1, Len(main)) = main
    BY <2>2
  <2> QED BY <1>3, <2>3, <2>4 DEF Advance, Merged
<1> QED BY <1>1, <1>2, <1>3

LEMMA TypeStart == ASSUME TypeInv, NEW c \in Clients, Start(c) PROVE TypeInv'
<1>1. CallsOK'
  BY TypeFacts, StartKeepsCalls
<1>2. UNCHANGED <<disk, memory, past, commits, faults>> /\ calls' = calls + 1
  BY DEF Start, AddVault, RemoveVault, SetActiveVault, UseVault, BeginFanout, CommitFanout,
         AbandonFanout, Shutdown, OnActive, Call
<1> QED BY <1>1, <1>2 DEF TypeInv, TypeOK, StoreOK, RegistryTypeOK, disk, memory, past, registry

LEMMA TypeRegister == ASSUME TypeInv, NEW c \in Clients, Register1(c) \/ Save(c) PROVE TypeInv'
<1>1. CallsOK'
  BY TypeFacts, RegisterKeepsCalls
<1> DEFINE Same == faults' \in Nat /\ UNCHANGED <<main, wip, fanouts, settled, late, calls, commits>>
<1>2. ASSUME Same, RegistryTypeOK', saved' \in [vaults : Directories, active : Names \cup {NoVault}],
             managers' \in [Names -> {NoManager} \cup [by : Clients, dir : Dirs]],
             raced' \subseteq {"switch", "removal", "begins", "ends", "saves"}
      PROVE  TypeInv'
  BY <1>1, <1>2 DEF TypeInv, TypeOK, StoreOK
<1>3. /\ RegistryTypeOK /\ saved \in [vaults : Directories, active : Names \cup {NoVault}]
      /\ managers \in [Names -> {NoManager} \cup [by : Clients, dir : Dirs]]
      /\ raced \subseteq {"switch", "removal", "begins", "ends", "saves"}
      /\ faults \in Nat
  BY DEF TypeInv, TypeOK, StoreOK
<1> USE DEF disk, memory, past, registry
<1>4. CASE AddRegister(c)
  <2> DEFINE n == IF loc[c].how = "begin" THEN FanName[loc[c].id] ELSE loc[c].name
  <2>1. n \in Names /\ loc[c].dir \in Dirs
    BY <1>4, TypeFacts, InHand DEF AddRegister, Legal
  <2>2. vaults' = vaults \/ Register(n, loc[c].dir)
    BY <1>4 DEF AddRegister
  <2>3. active' = active
    BY <1>4 DEF AddRegister
  <2> HIDE DEF n
  <2>4. vaults' \in Directories
    BY <2>1, <2>2, RegistryTypes, TypeFacts
  <2>5. RegistryTypeOK'
    BY <1>3, <2>3, <2>4 DEF RegistryTypeOK, Directories
  <2> QED BY <1>2, <1>3, <1>4, <2>5 DEF AddRegister
<1>5. CASE AddDefault(c)
  <2>1. (IF loc[c].how = "begin" THEN FanName[loc[c].id] ELSE loc[c].name) \in Names
    BY <1>5, TypeFacts, InHand DEF AddDefault, Legal
  <2>2. RegistryTypeOK'
    BY <1>3, <1>5, <2>1 DEF AddDefault, MakeDefault, RegistryTypeOK
  <2> QED BY <1>2, <1>3, <1>5, <2>2 DEF AddDefault, Switch
<1>6. CASE LookUp(c) \/ ReadConfig(c) \/ RemoveCheck(c)
  BY <1>2, <1>3, <1>6 DEF LookUp, ReadConfig, RemoveCheck, RegistryTypeOK
<1>7. CASE Publish(c)
  <2>1. loc[c].dir \in Dirs
    BY <1>7, TypeFacts, InHand DEF Publish, Legal
  <2>2. managers' \in [Names -> {NoManager} \cup [by : Clients, dir : Dirs]]
    BY <1>3, <1>7, <2>1 DEF Publish
  <2> QED BY <1>2, <1>3, <1>7, <2>2 DEF Publish, AfterPublish, RegistryTypeOK
<1>8. CASE RemoveUnregister(c)
  <2>1. loc[c].name \in Names
    BY <1>8, TypeFacts, InHand DEF RemoveUnregister, Legal
  <2>2. UNCHANGED registry \/ Unregister(loc[c].name)
    BY <1>8 DEF RemoveUnregister
  <2>3. RegistryTypeOK'
    BY <1>3, <2>1, <2>2, RegistryTypes DEF RegistryTypeOK
  <2> QED BY <1>2, <1>3, <1>8, <2>3 DEF RemoveUnregister, Switch, Pulled
<1>9. CASE RemoveDrop(c)
  <2>1. managers' \in [Names -> {NoManager} \cup [by : Clients, dir : Dirs]]
    BY <1>3, <1>9 DEF RemoveDrop
  <2> QED BY <1>2, <1>3, <1>9, <2>1 DEF RemoveDrop, RegistryTypeOK
<1>10. CASE SwitchTo(c)
  <2>1. loc[c].name \in Names
    BY <1>10, TypeFacts, InHand DEF SwitchTo, Legal
  <2>2. RegistryTypeOK'
    BY <1>3, <1>10, <2>1, RegistryTypes DEF SwitchTo, RegistryTypeOK
  <2> QED BY <1>2, <1>3, <1>10, <2>2 DEF SwitchTo, Switch
<1>11. CASE ListVaults(c)
  BY <1>2, <1>3, <1>11 DEF ListVaults, RegistryTypeOK
<1>12. CASE Truncate(c) \/ WriteVaults(c)
  <2>1. pc[c] = "write" => loc[c].of \in Directories
    BY TypeFacts, InHand DEF Legal
  <2>2. saved' \in [vaults : Directories, active : Names \cup {NoVault}]
    BY <1>3, <1>12, <2>1 DEF Truncate, WriteVaults, Directories
  <2> QED BY <1>2, <1>3, <1>12, <2>2 DEF Truncate, WriteVaults, RegistryTypeOK
<1>13. CASE WriteMetadata(c)
  <2>1. loc[c].name \in Names \cup {NoVault}
    BY TypeFacts, InHand
  <2>2. saved' \in [vaults : Directories, active : Names \cup {NoVault}]
    BY <1>3, <1>13, <2>1 DEF WriteMetadata
  <2> QED BY <1>2, <1>3, <1>13, <2>2 DEF WriteMetadata, RegistryTypeOK
<1>14. CASE BuildFails(c) \/ SaveFails(c)
  <2>1. /\ faults' = faults + 1
        /\ UNCHANGED <<main, wip, saved, vaults, active, managers, fanouts, settled, late, raced, calls, commits>>
    BY <1>14 DEF BuildFails, SaveFails
  <2>2. Same
    BY <1>3, <2>1
  <2>3. RegistryTypeOK'
    BY <1>3, <2>1 DEF RegistryTypeOK
  <2> QED BY <1>2, <1>3, <2>1, <2>2, <2>3
<1> QED BY <1>4, <1>5, <1>6, <1>7, <1>8, <1>9, <1>10, <1>11, <1>12, <1>13, <1>14 DEF Register1, Save

LEMMA TypeBegin == ASSUME TypeInv, NEW c \in Clients, Begin(c) PROVE TypeInv'
<1>1. CallsOK'
  BY TypeFacts, BeginKeepsCalls
<1> DEFINE Same == UNCHANGED <<saved, main, registry, managers, unsaved, settled, late, calls, commits>>
<1>2. ASSUME Same, fanouts' \in [Names -> Ids \cup {NoId}], wip' \in [Ids -> Wip],
             \A i \in Ids : wip'[i].made = wip[i].made, faults' \in Nat,
             raced' \subseteq {"switch", "removal", "begins", "ends", "saves"}
      PROVE  TypeInv'
  BY <1>1, <1>2 DEF TypeInv, TypeOK, StoreOK, Wip, RegistryTypeOK, registry
<1>3. /\ fanouts \in [Names -> Ids \cup {NoId}] /\ wip \in [Ids -> Wip] /\ faults \in Nat
      /\ raced \subseteq {"switch", "removal", "begins", "ends", "saves"}
      /\ Len(main) \in Nat
  BY DEF TypeInv, TypeOK, StoreOK, Wip
<1> USE DEF disk, memory, past, registry
<1>4. CASE BeginConfig(c) \/ BeginFree(c)
  BY <1>2, <1>3, <1>4 DEF BeginConfig, BeginFree
<1>5. CASE OpenBranch(c)
  <2>1. loc[c].name \in Names
    BY <1>5, TypeFacts, InHand DEF OpenBranch, Legal
  <2>2. PICK i \in Ids : wip' = [wip EXCEPT ![i].branch = "yes", ![i].base = loc[c].name,
                                           ![i].from = Len(main)]
    BY <1>5 DEF OpenBranch
  <2> DEFINE w == [wip[i] EXCEPT !.branch = "yes", !.base = loc[c].name, !.from = Len(main)]
  <2>a. w \in Wip /\ w.made = wip[i].made
    <3>1. wip[i] \in Wip /\ Len(main) \in Nat
      BY <1>3, WipAt
    <3> QED BY <2>1, <3>1 DEF Wip, YesNo
  <2>b. wip' = [wip EXCEPT ![i] = w]
    BY <1>3, <2>2
  <2> HIDE DEF w
  <2>3. wip' \in [Ids -> Wip] /\ \A j \in Ids : wip'[j].made = wip[j].made
    BY <1>3, <2>a, <2>b, WipUpdate
  <2> QED BY <1>2, <1>3, <1>5, <2>3 DEF OpenBranch
<1>6. CASE OpenWorktree(c)
  <2> DEFINE i == loc[c].id
             w == [wip[i] EXCEPT !.meta = "yes", !.dir = "yes"]
  <2>i. i \in Ids
    BY <1>6, TypeFacts, InHand DEF OpenWorktree, Legal
  <2>a. w \in Wip /\ w.made = wip[i].made
    <3>1. wip[i] \in Wip
      BY <1>3, <2>i, WipAt
    <3> HIDE DEF i
    <3> QED BY <3>1 DEF Wip, YesNo
  <2>b. wip' = wip \/ wip' = [wip EXCEPT ![i] = w]
    <3>1. CASE wip' = [wip EXCEPT ![i].meta = "yes", ![i].dir = "yes"]
      BY <1>3, <2>i, <3>1
    <3> QED BY <1>6, <3>1 DEF OpenWorktree
  <2> HIDE DEF w, i
  <2>1. wip' \in [Ids -> Wip] /\ \A j \in Ids : wip'[j].made = wip[j].made
    BY <1>3, <2>i, <2>a, <2>b, WipUpdate
  <2>2. faults' \in Nat
    BY <1>3, <1>6 DEF OpenWorktree
  <2> QED BY <1>2, <1>3, <1>6, <2>1, <2>2 DEF OpenWorktree
<1>7. CASE RecordFanout(c)
  <2>1. loc[c].id \in Ids
    BY <1>7, TypeFacts, InHand DEF RecordFanout, Legal
  <2>2. fanouts' \in [Names -> Ids \cup {NoId}]
    BY <1>3, <1>7, <2>1 DEF RecordFanout
  <2> QED BY <1>2, <1>3, <1>7, <2>2 DEF RecordFanout, Unseen
<1> QED BY <1>4, <1>5, <1>6, <1>7 DEF Begin

LEMMA TypeEnd == ASSUME TypeInv, ForkInv, NEW c \in Clients, End(c), ~Exit(c) PROVE TypeInv'
<1>1. CallsOK'
  BY TypeFacts, EndKeepsCalls
<1> DEFINE Outcomes == {"merged", "refused", "abandoned", "orphaned"}
           Races == {"switch", "removal", "begins", "ends", "saves"}
           Same == UNCHANGED <<saved, managers, late, calls, commits>>
<1>2. ASSUME Same, fanouts' \in [Names -> Ids \cup {NoId}], wip' \in [Ids -> Wip],
             \A i \in Ids : wip'[i].made = wip[i].made, faults' \in Nat, RegistryTypeOK',
             settled' \in [Ids -> SUBSET Outcomes], main' \in Seq(SUBSET (1 .. MaxCommits)),
             raced' \subseteq Races
      PROVE  TypeInv'
  BY <1>1, <1>2 DEF TypeInv, TypeOK, StoreOK, Wip, RegistryTypeOK, registry
<1>3. /\ fanouts \in [Names -> Ids \cup {NoId}] /\ wip \in [Ids -> Wip] /\ faults \in Nat
      /\ raced \subseteq Races /\ settled \in [Ids -> SUBSET Outcomes]
      /\ main \in Seq(SUBSET (1 .. MaxCommits)) /\ RegistryTypeOK
      /\ UNCHANGED registry => RegistryTypeOK'
  BY DEF TypeInv, TypeOK, StoreOK, Wip, RegistryTypeOK, registry
<1>i. pc[c] \in Ending => loc[c].id \in Ids /\ loc[c].name \in Names
  BY TypeFacts, InHand DEF Legal
<1> USE DEF disk, memory, past
<1> HIDE DEF Races
<1>r. {"ends", "switch"} \subseteq Races
  BY DEF Races
<1>4. CASE FindRecord(c)
  BY <1>2, <1>3, <1>4, <1>r DEF FindRecord
<1>s. ASSUME NEW how \in {"merged", "refused", "abandoned"},
             settled' = [settled EXCEPT ![loc[c].id] = @ \cup {how}]
      PROVE  settled' \in [Ids -> SUBSET Outcomes]
  BY <1>3, <1>s
<1>5. CASE OpenBase(c)
  <2>1. settled' \in [Ids -> SUBSET Outcomes]
    BY <1>3, <1>5, <1>s DEF OpenBase
  <2> QED BY <1>2, <1>3, <1>5, <2>1 DEF OpenBase
<1>6. CASE ReadTips(c)
  <2>1. settled' \in [Ids -> SUBSET Outcomes]
    BY <1>3, <1>6, <1>s DEF ReadTips, Settle
  <2> QED BY <1>2, <1>3, <1>6, <2>1 DEF ReadTips
<1>7. CASE Advance(c)
  <2>1. settled' \in [Ids -> SUBSET Outcomes]
    BY <1>7, <1>s DEF Advance, Settle
  <2>2. loc[c].seen \in SUBSET (1 .. MaxCommits) /\ loc[c].id \in Ids
    BY <1>7, <1>i, TypeFacts, InHand DEF Advance, Legal, Ending
  <2>3. main' = main \/ main' = Append(main, loc[c].seen)
    BY <1>7, AdvanceAppends
  <2>5. main' \in Seq(SUBSET (1 .. MaxCommits))
    <3>1. main \in Seq(SUBSET (1 .. MaxCommits))
      BY <1>3
    <3> QED BY <3>1, <2>2, <2>3
  <2>6. faults' \in Nat
    BY <1>3, <1>7 DEF Advance
  <2> QED BY <1>2, <1>3, <1>7, <2>1, <2>5, <2>6 DEF Advance
<1>8. CASE RemoveDir(c) \/ PruneWorktree(c) \/ DeleteBranch(c)
  <2>1. pc[c] \in Ending
    BY <1>8 DEF RemoveDir, PruneWorktree, Clean, DeleteBranch, Ending
  <2>2. loc[c].id \in Ids
    BY <1>i, <2>1
  <2>3. wip' \in [Ids -> Wip] /\ \A j \in Ids : wip'[j].made = wip[j].made
    <3>1. PICK w : wip' = [wip EXCEPT ![loc[c].id] = w] /\ w \in Wip /\ w.made = wip[loc[c].id].made
      <4>1. wip[loc[c].id] \in Wip
        BY <1>3, <2>2
      <4> DEFINE w1 == [wip[loc[c].id] EXCEPT !.dir = "no"]
                 w2 == [wip[loc[c].id] EXCEPT !.meta = "no", !.dir = "no"]
                 w3 == [wip[loc[c].id] EXCEPT !.branch = "no"]
      <4>2. /\ w1 \in Wip /\ w1.made = wip[loc[c].id].made
            /\ w2 \in Wip /\ w2.made = wip[loc[c].id].made
            /\ w3 \in Wip /\ w3.made = wip[loc[c].id].made
        BY <4>1 DEF Wip, YesNo
      <4>3. \/ wip' = [wip EXCEPT ![loc[c].id] = w1]
            \/ wip' = [wip EXCEPT ![loc[c].id] = w2]
            \/ wip' = [wip EXCEPT ![loc[c].id] = w3]
            \/ wip' = [wip EXCEPT ![loc[c].id] = wip[loc[c].id]]
        <5>1. CASE RemoveDir(c) \/ PruneWorktree(c)
          BY <1>3, <5>1, <2>2 DEF RemoveDir, PruneWorktree, Clean
        <5>2. CASE DeleteBranch(c)
          <6>1. CASE wip[loc[c].id].meta = "yes"
            <7>1. wip' = [wip EXCEPT ![loc[c].id].branch = @]
              BY <5>2, <6>1 DEF DeleteBranch
            <7> QED BY <1>3, <2>2, <4>1, <7>1 DEF Wip
          <6>2. CASE wip[loc[c].id].meta # "yes"
            <7>1. wip' = [wip EXCEPT ![loc[c].id].branch = "no"]
              BY <5>2, <6>2 DEF DeleteBranch
            <7> QED BY <1>3, <2>2, <7>1
          <6> QED BY <6>1, <6>2
        <5> QED BY <1>8, <5>1, <5>2
      <4> HIDE DEF w1, w2, w3
      <4> QED BY <4>1, <4>2, <4>3
    <3> QED BY <1>3, <2>2, <3>1
  <2>4. faults' \in Nat /\ UNCHANGED <<saved, main, registry, managers, fanouts, unsaved, settled,
                                       late, raced, calls, commits>>
    BY <1>3, <1>8 DEF RemoveDir, PruneWorktree, Clean, DeleteBranch
  <2> QED BY <1>2, <1>3, <2>3, <2>4
<1>9. CASE Deregister(c)
  <2>1. FanName[loc[c].id] \in Names
    BY <1>9, <1>i DEF Deregister, Ending
  <2>2. RegistryTypeOK'
    BY <1>3, <1>9, <2>1, RegistryTypes DEF Deregister
  <2> QED BY <1>2, <1>3, <1>9, <2>2, <1>r DEF Deregister, Switch
<1>10. CASE ForgetFanout(c)
  <2>1. fanouts' \in [Names -> Ids \cup {NoId}]
    BY <1>3, <1>10 DEF ForgetFanout
  <2> QED BY <1>2, <1>3, <1>10, <2>1 DEF ForgetFanout
<1>11. CASE ShutdownNext(c)
  <2>1. PICK b \in loc[c].queue :
          LET l == [loc[c] EXCEPT !.name = b, !.id = loc[c].of[b], !.queue = @ \ {b}] IN
            settled' = IF b \in l.seen
                       THEN [settled EXCEPT ![l.id] = @ \cup {"abandoned"}] ELSE settled
    BY <1>11 DEF ShutdownNext
  <2>2. settled' \in [Ids -> SUBSET Outcomes]
    BY <1>3, <2>1
  <2> QED BY <1>2, <1>3, <1>11, <2>2 DEF ShutdownNext
<1> QED BY <1>4, <1>5, <1>6, <1>7, <1>8, <1>9, <1>10, <1>11 DEF End

LEMMA TypeWorld ==
  ASSUME TypeInv, \/ CommitMain \/ (\E i \in Ids : CommitWip(i)) \/ Crash
                  \/ (\E c \in Clients : Exit(c)) \/ UNCHANGED vars
  PROVE  TypeInv'
<1>0. /\ commits \in Nat /\ calls \in Nat /\ faults \in Nat /\ main \in Seq(SUBSET (1 .. MaxCommits))
      /\ wip \in [Ids -> Wip] /\ late \in [Ids -> SUBSET (1 .. MaxCommits)]
      /\ settled \in [Ids -> SUBSET {"merged", "refused", "abandoned", "orphaned"}]
      /\ saved \in [vaults : Directories, active : Names \cup {NoVault}]
      /\ \A i \in Ids : late[i] \subseteq wip[i].made
      /\ RegistryTypeOK
  BY DEF TypeInv, TypeOK, StoreOK, Wip
<1> USE DEF disk, memory, past, registry
<1>m. MaxCommits \in Nat
  OBVIOUS
<1>1. CASE CommitMain
  <2>1. commits + 1 \in 1 .. MaxCommits
    BY <1>0, <1>1, <1>m DEF CommitMain
  <2>2. main' \in Seq(SUBSET (1 .. MaxCommits))
    BY <1>0, <1>1, <2>1 DEF CommitMain
  <2> QED BY <1>0, <1>1, <2>2 DEF CommitMain, TypeInv, TypeOK, StoreOK, CallsOK, RegistryTypeOK
<1>2. ASSUME NEW i \in Ids, CommitWip(i) PROVE TypeInv'
  <2>1. commits' \in 1 .. MaxCommits /\ commits' \in Nat
    BY <1>0, <1>2, <1>m DEF CommitWip
  <2>2. wip' = [wip EXCEPT ![i].made = @ \cup {commits'}]
    BY <1>2 DEF CommitWip
  <2> DEFINE w == [wip[i] EXCEPT !.made = @ \cup {commits'}]
  <2>a. w \in Wip /\ wip[i].made \subseteq w.made /\ commits' \in w.made
    <3>1. wip[i] \in Wip
      BY <1>0, WipAt
    <3> QED BY <2>1, <3>1 DEF Wip
  <2>b. wip' = [wip EXCEPT ![i] = w]
    BY <1>0, <2>2
  <2> HIDE DEF w
  <2>3. /\ wip' \in [Ids -> Wip] /\ \A j \in Ids : wip[j].made \subseteq wip'[j].made
        /\ commits' \in wip'[i].made
    BY <1>0, <2>a, <2>b, WipUpdate
  <2>4. late' = late \/ late' = [late EXCEPT ![i] = @ \cup {commits'}]
    BY <1>0, <1>2 DEF CommitWip
  <2>5. late' \in [Ids -> SUBSET (1 .. MaxCommits)] /\ \A j \in Ids : late'[j] \subseteq wip'[j].made
    BY <1>0, <2>1, <2>3, <2>4
  <2> QED BY <1>0, <1>2, <2>1, <2>3, <2>5
          DEF CommitWip, TypeInv, TypeOK, StoreOK, CallsOK, RegistryTypeOK, Wip
<1>3. ASSUME Restart, faults' \in Nat PROVE TypeInv'
  <2>1. CallsOK'
    BY <1>3, BlankIsLegal DEF Restart, CallsOK, Sections
  <2>2. RegistryTypeOK'
    BY <1>0, <1>3, RegistryTypes DEF Restart
  <2>3. settled' \in [Ids -> SUBSET {"merged", "refused", "abandoned", "orphaned"}]
    BY <1>0, <1>3 DEF Restart
  <2>4. /\ managers' = [n \in Names |-> NoManager] /\ fanouts' = [n \in Names |-> NoId]
        /\ raced' = {} /\ UNCHANGED <<saved, main, wip, late, calls, commits>>
    BY <1>3 DEF Restart
  <2> QED BY <1>0, <1>3, <2>1, <2>2, <2>3, <2>4 DEF TypeInv, TypeOK, StoreOK, Wip
<1>4. CASE Crash \/ (\E c \in Clients : Exit(c))
  BY <1>0, <1>3, <1>4 DEF Crash, Exit
<1>5. CASE UNCHANGED vars
  BY <1>5 DEF vars, TypeInv, TypeOK, StoreOK, CallsOK, RegistryTypeOK
<1> QED BY <1>1, <1>2, <1>4, <1>5

LEMMA TypeStep == TypeInv /\ ForkInv /\ [Next]_vars => TypeInv'
<1> SUFFICES ASSUME TypeInv, ForkInv, [Next]_vars PROVE TypeInv'
  OBVIOUS
<1>1. ASSUME NEW c \in Clients, Start(c) \/ Register1(c) \/ Save(c) \/ Begin(c) \/ End(c)
      PROVE  TypeInv'
  BY <1>1, TypeStart, TypeRegister, TypeBegin, TypeEnd, TypeWorld
<1> QED BY <1>1, TypeWorld DEF Next

-----------------------------------------------------------------------------
(* What each kind of step leaves alone.                                    *)

SameCall(d) == pc'[d] = pc[d] /\ loc'[d] = loc[d]

\* A step of one call leaves the others where they are.
LEMMA OthersStay ==
  ASSUME TypeInv, NEW c \in Clients,
         Start(c) \/ Register1(c) \/ Save(c) \/ Begin(c) \/ End(c), ~Exit(c),
         NEW d \in Clients, d # c
  PROVE  SameCall(d)
<1>0. pc \in [Clients -> Sections] /\ loc \in [Clients -> Loc]
  BY TypeFacts DEF CallsOK
<1>1. ASSUME NEW to, NEW l, Go(c, to, l) PROVE SameCall(d)
  BY <1>0, <1>1 DEF Go, SameCall
<1>2. ASSUME NEW to, NEW l, Call(c, to, l) PROVE SameCall(d)
  BY <1>1, <1>2 DEF Call, Goto, Go
<1>3. ASSUME Return(c) PROVE SameCall(d)
  BY <1>1, <1>3 DEF Return
<1>4. CASE Start(c)
  BY <1>2, <1>4 DEF Start, AddVault, RemoveVault, SetActiveVault, UseVault, BeginFanout,
       CommitFanout, AbandonFanout, Shutdown, OnActive
<1>5. CASE AddRegister(c) \/ AddDefault(c)
  BY <1>1, <1>3, <1>5, TypeFacts, InHand DEF AddRegister, AddDefault, AfterRegister, Legal
<1>6. CASE LookUp(c) \/ ReadConfig(c) \/ Publish(c) \/ RemoveCheck(c)
  BY <1>1, <1>3, <1>6 DEF LookUp, ReadConfig, Publish, AfterPublish, RemoveCheck
<1>7. CASE RemoveUnregister(c) \/ RemoveDrop(c) \/ SwitchTo(c)
  BY <1>1, <1>3, <1>7 DEF RemoveUnregister, RemoveDrop, SwitchTo
<1>8. CASE Save(c) \/ BuildFails(c)
  BY <1>1, <1>3, <1>8 DEF Save, ListVaults, Truncate, WriteVaults, WriteMetadata, BuildFails, SaveFails
<1>9. CASE Begin(c)
  BY <1>1, <1>3, <1>9 DEF Begin, BeginConfig, BeginFree, OpenBranch, OpenWorktree, RecordFanout
<1>10. CASE FindRecord(c) \/ OpenBase(c) \/ ReadTips(c) \/ Advance(c)
  BY <1>1, <1>3, <1>10 DEF FindRecord, OpenBase, ReadTips, Advance, Settle
<1>11. CASE RemoveDir(c) \/ PruneWorktree(c) \/ DeleteBranch(c)
  BY <1>1, <1>3, <1>11 DEF RemoveDir, PruneWorktree, Clean, DeleteBranch
<1>12. CASE Deregister(c) \/ ForgetFanout(c) \/ ShutdownNext(c)
  BY <1>1, <1>3, <1>12 DEF Deregister, ForgetFanout, ShutdownNext
<1> QED BY <1>4, <1>5, <1>6, <1>7, <1>8, <1>9, <1>10, <1>11, <1>12 DEF Register1, End

-----------------------------------------------------------------------------
(* Where a call can have come from, and what it still has in hand.         *)

\* The name a registering call registers.
Named(c) == IF loc[c].how = "begin" THEN FanName[loc[c].id] ELSE loc[c].name

\* With all it had.
GoesOn(c) ==
  /\ loc'[c] = loc[c]
  /\ \/ AddRegister(c) /\ pc'[c] = "default"
     \/ (AddRegister(c) \/ AddDefault(c)) /\ pc'[c] = "activate" /\ loc[c].how = "add"
     \/ (AddRegister(c) \/ AddDefault(c)) /\ pc'[c] = "record" /\ loc[c].how = "begin"
     \/ LookUp(c) /\ pc'[c] = "activate"
     \/ Publish(c) /\ pc'[c] = "list" /\ loc[c].how = "add"
     \/ RemoveCheck(c) /\ pc'[c] = "unregister"
     \/ RemoveUnregister(c) /\ pc'[c] = "drop"
     \/ RemoveDrop(c) /\ pc'[c] = "list"
     \/ SwitchTo(c) /\ pc'[c] = "list"
     \/ WriteVaults(c) /\ pc'[c] = "metadata"
     \/ BeginFree(c) /\ pc'[c] = "branch"
     \/ OpenWorktree(c) /\ pc'[c] = "register"
     \/ OpenBase(c) /\ pc'[c] \in {"dir", "tips"}
     \/ RemoveDir(c) /\ pc'[c] = "prune"
     \/ PruneWorktree(c) /\ pc'[c] = "delete"
     \/ DeleteBranch(c) /\ pc'[c] = "deregister"
     \/ Deregister(c) /\ pc'[c] = (IF loc[c].how = "shutdown" THEN "next" ELSE "forget")

\* With something it has just read, or a new outcome.
GoesOnWith(c) ==
  \/ /\ loc'[c].name = loc[c].name /\ loc'[c].how = loc[c].how /\ loc'[c].id = loc[c].id
     /\ \/ ReadConfig(c) /\ pc'[c] = "publish" /\ loc'[c].dir = vaults[loc[c].name]
        \/ ListVaults(c) /\ pc'[c] = "truncate" /\ loc'[c].of = vaults
        \/ BeginConfig(c) /\ pc'[c] = "free"
        \/ ReadTips(c) /\ pc'[c] = "advance" /\ loc'[c].seen = wip[loc[c].id].made
  \/ Truncate(c) /\ pc'[c] = "write" /\ loc'[c].of = loc[c].of
  \/ /\ OpenBranch(c) /\ pc'[c] = "worktree"
     /\ loc'[c].name = loc[c].name /\ loc'[c].how = loc[c].how
     /\ wip[loc'[c].id] = Fresh /\ wip'[loc'[c].id].base = loc[c].name
  \/ /\ FindRecord(c) /\ pc'[c] = "base" /\ loc'[c].how = loc[c].how
     /\ loc'[c].id = fanouts[loc'[c].name]
  \/ /\ loc'[c].name = loc[c].name /\ loc'[c].id = loc[c].id /\ loc[c].how # "shutdown"
     /\ \/ ReadTips(c) /\ pc'[c] = "dir" /\ loc'[c].how \in {"merged", "refused"}
        \/ Advance(c) /\ pc'[c] = "dir" /\ loc'[c].how \in {"merged", "refused"}
        \/ RemoveDir(c) /\ pc'[c] = "prune" /\ loc'[c].how = "refused"
        \/ PruneWorktree(c) /\ pc'[c] = "delete" /\ loc'[c].how = "refused"
  \/ ShutdownNext(c) /\ pc'[c] \in {"dir", "deregister"} /\ loc'[c].how = "shutdown"

Starts(c) ==
  /\ Start(c) /\ pc[c] = "idle" /\ pc'[c] \in StartSections
  /\ pc'[c] = "register" => loc'[c].how # "begin"
  /\ pc'[c] = "config" => loc'[c].name = active

Moved(c) ==
  \/ SameCall(c)
  \/ pc'[c] = "idle"
  \/ Starts(c)
  \/ GoesOn(c)
  \/ GoesOnWith(c)

LEMMA StartMoves == ASSUME TypeInv, NEW c \in Clients, Start(c) PROVE Starts(c)
<1>0. pc \in [Clients -> Sections] /\ loc \in [Clients -> Loc]
  BY TypeFacts DEF CallsOK
<1>1. ASSUME NEW to, NEW l, Call(c, to, l) PROVE pc[c] = "idle" /\ pc'[c] = to /\ loc'[c] = l
  BY <1>0, <1>1 DEF Call, Goto
<1>2. CASE AddVault(c)
  <2>1. PICK n \in Bases, d \in Dirs \ Ids, tool \in {"add", "create"} :
          Call(c, "register", [Blank EXCEPT !.name = n, !.dir = d, !.how = tool])
    BY <1>2 DEF AddVault
  <2>2. loc'[c] = [Blank EXCEPT !.name = n, !.dir = d, !.how = tool] /\ pc'[c] = "register"
        /\ pc[c] = "idle"
    BY <1>1, <2>1
  <2> QED BY <2>2 DEF Starts, StartSections, Blank
<1>3. ASSUME NEW to \in {"look", "config", "find"}, NEW how, OnActive(c, to, how) PROVE Starts(c)
  <2>1. Call(c, to, [Blank EXCEPT !.name = active, !.how = how])
    BY <1>3 DEF OnActive
  <2>2. loc'[c] = [Blank EXCEPT !.name = active, !.how = how] /\ pc'[c] = to /\ pc[c] = "idle"
    BY <1>1, <2>1
  <2> QED BY <2>2 DEF Starts, StartSections, Blank
<1>4. CASE RemoveVault(c) \/ SetActiveVault(c) \/ Shutdown(c)
  <2>1. pc[c] = "idle" /\ pc'[c] \in {"remove", "switch", "next"}
    BY <1>1, <1>4 DEF RemoveVault, SetActiveVault, Shutdown
  <2> QED BY <2>1 DEF Starts, StartSections
<1> QED BY <1>2, <1>3, <1>4 DEF Start, UseVault, BeginFanout, CommitFanout, AbandonFanout

LEMMA RegisterMoves ==
  ASSUME TypeInv, NEW c \in Clients, Register1(c) \/ Save(c)
  PROVE  pc'[c] = "idle" \/ GoesOn(c) \/ GoesOnWith(c)
<1>0. pc \in [Clients -> Sections] /\ loc \in [Clients -> Loc] /\ loc[c] \in Loc
  BY TypeFacts DEF CallsOK
<1>1. ASSUME NEW to, NEW l, Go(c, to, l) PROVE pc'[c] = to /\ loc'[c] = l
  BY <1>0, <1>1 DEF Go
<1>2. ASSUME Return(c) PROVE pc'[c] = "idle"
  BY <1>1, <1>2 DEF Return
<1>3. CASE AddRegister(c) \/ AddDefault(c)
  BY <1>1, <1>2, <1>3, TypeFacts, InHand
     DEF AddRegister, AddDefault, AfterRegister, Legal, GoesOn
<1>4. CASE LookUp(c) \/ Publish(c) \/ RemoveCheck(c)
  BY <1>1, <1>2, <1>4 DEF LookUp, Publish, AfterPublish, RemoveCheck, GoesOn
<1>5. CASE RemoveUnregister(c) \/ RemoveDrop(c) \/ SwitchTo(c)
  BY <1>1, <1>2, <1>5 DEF RemoveUnregister, RemoveDrop, SwitchTo, GoesOn
<1>6. CASE ReadConfig(c)
  <2> DEFINE l == [loc[c] EXCEPT !.dir = vaults[loc[c].name]]
  <2>1. CASE Go(c, "publish", l)
    <3>1. pc'[c] = "publish" /\ loc'[c] = l
      BY <1>1, <2>1
    <3>2. l.name = loc[c].name /\ l.how = loc[c].how /\ l.id = loc[c].id /\ l.dir = vaults[loc[c].name]
      BY <1>0 DEF Loc
    <3> QED BY <1>6, <3>1, <3>2 DEF GoesOnWith
  <2> QED BY <1>2, <1>6, <2>1 DEF ReadConfig
<1>7. CASE ListVaults(c)
  <2> DEFINE l == [loc[c] EXCEPT !.of = vaults]
  <2>1. pc'[c] = "truncate" /\ loc'[c] = l
    BY <1>1, <1>7 DEF ListVaults
  <2>2. l.name = loc[c].name /\ l.how = loc[c].how /\ l.id = loc[c].id /\ l.of = vaults
    BY <1>0 DEF Loc
  <2> QED BY <1>7, <2>1, <2>2 DEF GoesOnWith
<1>8. CASE Truncate(c)
  <2> DEFINE l == [loc[c] EXCEPT !.name = active]
  <2>1. pc'[c] = "write" /\ loc'[c] = l
    BY <1>1, <1>8 DEF Truncate
  <2>2. l.of = loc[c].of
    BY <1>0 DEF Loc
  <2> QED BY <1>8, <2>1, <2>2 DEF GoesOnWith
<1>9. CASE WriteVaults(c) \/ WriteMetadata(c) \/ BuildFails(c) \/ SaveFails(c)
  BY <1>1, <1>2, <1>9 DEF WriteVaults, WriteMetadata, BuildFails, SaveFails, GoesOn
<1> QED BY <1>3, <1>4, <1>5, <1>6, <1>7, <1>8, <1>9 DEF Register1, Save

LEMMA BeginMoves ==
  ASSUME TypeInv, NEW c \in Clients, Begin(c)
  PROVE  pc'[c] = "idle" \/ GoesOn(c) \/ GoesOnWith(c)
<1>0. pc \in [Clients -> Sections] /\ loc \in [Clients -> Loc] /\ loc[c] \in Loc
      /\ wip \in [Ids -> Wip]
  BY TypeFacts DEF CallsOK
<1>1. ASSUME NEW to, NEW l, Go(c, to, l) PROVE pc'[c] = to /\ loc'[c] = l
  BY <1>0, <1>1 DEF Go
<1>2. ASSUME Return(c) PROVE pc'[c] = "idle"
  BY <1>1, <1>2 DEF Return
<1>3. CASE BeginConfig(c)
  <2> DEFINE l == [loc[c] EXCEPT !.dir = Repo]
  <2>1. CASE Go(c, "free", l)
    <3>1. pc'[c] = "free" /\ loc'[c] = l
      BY <1>1, <2>1
    <3>2. l.name = loc[c].name /\ l.how = loc[c].how /\ l.id = loc[c].id
      BY <1>0 DEF Loc
    <3> QED BY <1>3, <3>1, <3>2 DEF GoesOnWith
  <2> QED BY <1>2, <1>3, <2>1 DEF BeginConfig
<1>4. CASE BeginFree(c) \/ OpenWorktree(c) \/ RecordFanout(c)
  BY <1>1, <1>2, <1>4 DEF BeginFree, OpenWorktree, RecordFanout, GoesOn
<1>5. CASE OpenBranch(c)
  <2>1. PICK i \in Ids : /\ wip[i] = Fresh
                         /\ wip' = [wip EXCEPT ![i].branch = "yes", ![i].base = loc[c].name,
                                               ![i].from = Len(main)]
                         /\ Go(c, "worktree", [loc[c] EXCEPT !.id = i, !.dir = i])
    BY <1>5 DEF OpenBranch
  <2> DEFINE l == [loc[c] EXCEPT !.id = i, !.dir = i]
             w == [wip[i] EXCEPT !.branch = "yes", !.base = loc[c].name, !.from = Len(main)]
  <2>2. l.name = loc[c].name /\ l.how = loc[c].how /\ l.id = i
    BY <1>0 DEF Loc
  <2>3. pc'[c] = "worktree" /\ loc'[c] = l
    BY <1>1, <2>1
  <2>4. w.base = loc[c].name
    BY <2>1 DEF Fresh
  <2>5. wip' = [wip EXCEPT ![i] = w]
    BY <1>0, <2>1
  <2> HIDE DEF l, w
  <2> QED BY <1>0, <1>5, <2>1, <2>2, <2>3, <2>4, <2>5 DEF GoesOnWith
<1> QED BY <1>3, <1>4, <1>5 DEF Begin

LEMMA EndMoves ==
  ASSUME TypeInv, NEW c \in Clients, End(c), ~Exit(c)
  PROVE  pc'[c] = "idle" \/ GoesOn(c) \/ GoesOnWith(c)
<1>0. pc \in [Clients -> Sections] /\ loc \in [Clients -> Loc] /\ loc[c] \in Loc
  BY TypeFacts DEF CallsOK
<1>1. ASSUME NEW to, NEW l, Go(c, to, l) PROVE pc'[c] = to /\ loc'[c] = l
  BY <1>0, <1>1 DEF Go
<1>2. ASSUME Return(c) PROVE pc'[c] = "idle"
  BY <1>1, <1>2 DEF Return
<1>h. ASSUME NEW how, NEW l, l = [loc[c] EXCEPT !.how = how]
      PROVE  l.name = loc[c].name /\ l.id = loc[c].id /\ l.how = how
  BY <1>0, <1>h DEF Loc
<1>3. CASE FindRecord(c)
  <2>1. CASE \E b \in Names : Go(c, "base", [loc[c] EXCEPT !.name = b, !.id = fanouts[b]])
    <3>1. PICK b \in Names : Go(c, "base", [loc[c] EXCEPT !.name = b, !.id = fanouts[b]])
      BY <2>1
    <3> DEFINE l == [loc[c] EXCEPT !.name = b, !.id = fanouts[b]]
    <3>2. pc'[c] = "base" /\ loc'[c] = l
      BY <1>1, <3>1
    <3>3. l.name = b /\ l.id = fanouts[b] /\ l.how = loc[c].how
      BY <1>0 DEF Loc
    <3> HIDE DEF l
    <3> QED BY <1>3, <3>2, <3>3 DEF GoesOnWith
  <2> QED BY <1>2, <1>3, <2>1 DEF FindRecord
<1>4. CASE OpenBase(c)
  BY <1>1, <1>2, <1>4 DEF OpenBase, GoesOn
<1>s. ASSUME ReadTips(c) \/ Advance(c), NEW how \in {"merged", "refused"}, Settle(c, how)
      PROVE  GoesOnWith(c)
  <2>1. pc'[c] = "dir" /\ loc'[c] = [loc[c] EXCEPT !.how = how]
    BY <1>s, <1>1 DEF Settle
  <2>2. loc'[c].name = loc[c].name /\ loc'[c].id = loc[c].id /\ loc'[c].how = how
    BY <2>1, <1>h
  <2>3. loc[c].how # "shutdown"
    BY <1>s, TypeFacts, InHand DEF ReadTips, Advance, Legal
  <2> QED BY <1>s, <2>1, <2>2, <2>3 DEF GoesOnWith
<1>5. CASE ReadTips(c)
  <2> DEFINE l == [loc[c] EXCEPT !.seen = wip[loc[c].id].made, !.at = Len(main)]
  <2>1. CASE Go(c, "advance", l)
    <3>1. pc'[c] = "advance" /\ loc'[c] = l
      BY <1>1, <2>1
    <3>2. l.name = loc[c].name /\ l.how = loc[c].how /\ l.id = loc[c].id /\ l.seen = wip[loc[c].id].made
      BY <1>0 DEF Loc
    <3> HIDE DEF l
    <3> QED BY <1>5, <3>1, <3>2 DEF GoesOnWith
  <2> QED BY <1>5, <1>s, <2>1 DEF ReadTips
<1>6. CASE Advance(c)
  BY <1>6, <1>s DEF Advance
<1>7. CASE RemoveDir(c) \/ PruneWorktree(c)
  <2>1. PICK to \in {"prune", "delete"} :
          /\ (RemoveDir(c) /\ to = "prune") \/ (PruneWorktree(c) /\ to = "delete")
          /\ Go(c, to, loc[c]) \/ Go(c, to, Failed(c))
    BY <1>7 DEF RemoveDir, PruneWorktree, Clean
  <2>2. CASE Go(c, to, loc[c])
    BY <1>1, <2>1, <2>2 DEF GoesOn
  <2>3. CASE Go(c, to, Failed(c)) /\ loc[c].how = "abandon"
    <3>1. pc'[c] = to /\ loc'[c] = [loc[c] EXCEPT !.how = "refused"]
      BY <1>1, <2>3 DEF Failed
    <3>2. loc'[c].name = loc[c].name /\ loc'[c].id = loc[c].id /\ loc'[c].how = "refused"
      BY <3>1, <1>h
    <3> QED BY <2>1, <2>3, <3>1, <3>2 DEF GoesOnWith
  <2> QED BY <2>1, <2>2, <2>3 DEF Failed
<1>8. CASE DeleteBranch(c)
  <2>1. CASE Go(c, "deregister", loc[c])
    BY <1>1, <1>8, <2>1 DEF GoesOn
  <2>2. CASE Return(c)
    BY <1>2, <2>2
  <2>3. CASE loc[c].how = "abandon" /\ Go(c, "deregister", Failed(c)) /\ Failed(c).how # "refused"
    BY <2>3, <1>h DEF Failed
  <2> QED BY <1>8, <2>1, <2>2, <2>3 DEF DeleteBranch, Failed
<1>9. CASE Deregister(c) \/ ForgetFanout(c)
  BY <1>1, <1>2, <1>9 DEF Deregister, ForgetFanout, GoesOn
<1>10. CASE ShutdownNext(c)
  <2>0. loc[c].how = "shutdown"
    BY <1>10, TypeFacts, InHand DEF ShutdownNext, Legal
  <2>1. PICK b \in loc[c].queue :
          LET l == [loc[c] EXCEPT !.name = b, !.id = loc[c].of[b], !.queue = @ \ {b}] IN
            Go(c, IF b \in l.seen THEN "dir" ELSE "deregister", l)
    BY <1>10 DEF ShutdownNext
  <2> DEFINE l == [loc[c] EXCEPT !.name = b, !.id = loc[c].of[b], !.queue = @ \ {b}]
  <2>2. pc'[c] \in {"dir", "deregister"} /\ loc'[c] = l
    BY <1>1, <2>1
  <2>3. l.how = loc[c].how
    BY <1>0 DEF Loc
  <2> HIDE DEF l
  <2> QED BY <1>10, <2>0, <2>2, <2>3 DEF GoesOnWith
<1> QED BY <1>3, <1>4, <1>5, <1>6, <1>7, <1>8, <1>9, <1>10 DEF End

LEMMA Moves ==
  ASSUME TypeInv, [Next]_vars, NEW c \in Clients
  PROVE  Moved(c)
<1>1. ASSUME NEW d \in Clients, Start(d) \/ Register1(d) \/ Save(d) \/ Begin(d) \/ End(d)
      PROVE  Moved(c)
  <2>1. CASE Exit(d)
    BY <2>1 DEF Exit, Restart, Moved
  <2>2. CASE d # c /\ ~Exit(d)
    BY <1>1, <2>2, OthersStay DEF Moved
  <2>3. CASE d = c /\ ~Exit(d)
    BY <1>1, <2>3, StartMoves, RegisterMoves, BeginMoves, EndMoves DEF Moved
  <2> QED BY <2>1, <2>2, <2>3
<1>2. ASSUME CommitMain \/ (\E i \in Ids : CommitWip(i)) \/ UNCHANGED vars PROVE Moved(c)
  BY <1>2 DEF CommitMain, CommitWip, vars, SameCall, Moved
<1>3. CASE Crash
  BY <1>3 DEF Crash, Restart, Moved
<1> QED BY <1>1, <1>2, <1>3 DEF Next

-----------------------------------------------------------------------------
(* What a step does to the fan-outs on disk and to the branch.             *)

\* The tools that register, activate and save leave the fan-outs alone.
LEMMA NoFanoutTouched ==
  ASSUME NEW c \in Clients, Start(c) \/ Register1(c) \/ Save(c)
  PROVE  UNCHANGED <<main, wip, fanouts, settled, late, commits>>
  BY DEF Start, AddVault, RemoveVault, SetActiveVault, UseVault, BeginFanout, CommitFanout,
         AbandonFanout, Shutdown, OnActive, Call, Register1, AddRegister, AddDefault, LookUp,
         ReadConfig, Publish, BuildFails, AfterPublish, RemoveCheck, RemoveUnregister, RemoveDrop, SwitchTo,
         Save, ListVaults, Truncate, WriteVaults, WriteMetadata, SaveFails, disk, memory, past, registry

\* How a fan-out's entry can change: it is opened from nothing, or keeps where
\* it forked, never gets its branch back, and loses it to a cleanup only.
Kept(i) ==
  /\ wip'[i].base = wip[i].base /\ wip'[i].from = wip[i].from
  /\ wip'[i].branch = "yes" => wip[i].branch = "yes"
  /\ \/ wip'[i].made = wip[i].made
     \/ /\ CommitWip(i) /\ wip'[i].made = wip[i].made \cup {commits'}
        /\ wip'[i].branch = "yes" /\ wip'[i].meta = "yes"
  /\ wip[i].meta = "yes" => \/ wip'[i].meta = "yes"
                            \/ \E c \in Clients : PruneWorktree(c) /\ loc[c].id = i
  /\ wip[i].branch = "yes" => \/ wip'[i].branch = "yes"
                              \/ \E c \in Clients : DeleteBranch(c) /\ loc[c].id = i

Opened(i) ==
  /\ wip[i] = Fresh
  /\ wip'[i].base \in Names /\ wip'[i].from = Len(main) /\ wip'[i].made = {}

LEMMA WipOpens ==
  ASSUME TypeInv, NEW c \in Clients, OpenBranch(c)
  PROVE  \A i \in Ids : wip'[i] = wip[i] \/ Opened(i)
<1>0. wip \in [Ids -> Wip] /\ loc[c].name \in Names
  BY TypeFacts, InHand DEF OpenBranch, Legal
<1>1. PICK i \in Ids : /\ wip[i] = Fresh
                       /\ wip' = [wip EXCEPT ![i].branch = "yes", ![i].base = loc[c].name,
                                             ![i].from = Len(main)]
  BY DEF OpenBranch
<1> DEFINE w == [wip[i] EXCEPT !.branch = "yes", !.base = loc[c].name, !.from = Len(main)]
<1>2. w.base = loc[c].name /\ w.from = Len(main) /\ w.made = {}
  BY <1>1 DEF Fresh
<1>3. wip' = [wip EXCEPT ![i] = w]
  BY <1>0, <1>1
<1> HIDE DEF w
<1> QED BY <1>0, <1>1, <1>2, <1>3 DEF Opened

LEMMA WipSteps ==
  ASSUME TypeInv, [Next]_vars, NEW i \in Ids
  PROVE  Kept(i) \/ Opened(i)
<1>0. wip \in [Ids -> Wip] /\ wip[i] \in Wip
  BY TypeFacts
<1>s. wip' = wip => Kept(i)
  BY DEF Kept
<1>1. ASSUME NEW c \in Clients, Start(c) \/ Register1(c) \/ Save(c) PROVE Kept(i)
  BY <1>1, <1>s, NoFanoutTouched
<1>2. ASSUME NEW c \in Clients, Begin(c) PROVE Kept(i) \/ Opened(i)
  <2>1. CASE OpenBranch(c)
    BY <1>s, <2>1, WipOpens DEF Kept
  <2>2. CASE OpenWorktree(c)
    <3> DEFINE k == loc[c].id
               w == [wip[k] EXCEPT !.meta = "yes", !.dir = "yes"]
    <3>1. wip' = wip \/ wip' = [wip EXCEPT ![k].meta = "yes", ![k].dir = "yes"]
      BY <2>2 DEF OpenWorktree
    <3>2. k \in Ids /\ wip[k] \in Wip
      BY <1>0, <2>2, TypeFacts, InHand DEF OpenWorktree, Legal
    <3>3. /\ w.base = wip[k].base /\ w.from = wip[k].from /\ w.branch = wip[k].branch
          /\ w.made = wip[k].made /\ w.meta = "yes"
      BY <3>2 DEF Wip
    <3>4. wip' = wip \/ wip' = [wip EXCEPT ![k] = w]
      BY <1>0, <3>1, <3>2
    <3> HIDE DEF w, k
    <3> QED BY <1>0, <3>2, <3>3, <3>4 DEF Kept
  <2>3. CASE BeginConfig(c) \/ BeginFree(c) \/ RecordFanout(c)
    BY <1>s, <2>3 DEF BeginConfig, BeginFree, RecordFanout, disk
  <2> QED BY <1>2, <2>1, <2>2, <2>3 DEF Begin
<1>3. ASSUME NEW c \in Clients, End(c) PROVE Kept(i)
  <2> DEFINE k == loc[c].id
             w1 == [wip[k] EXCEPT !.dir = "no"]
             w2 == [wip[k] EXCEPT !.meta = "no", !.dir = "no"]
             w3 == [wip[k] EXCEPT !.branch = "no"]
  <2>k. ASSUME RemoveDir(c) \/ PruneWorktree(c) \/ DeleteBranch(c) PROVE k \in Ids /\ wip[k] \in Wip
    <3>1. pc[c] \in Ending
      BY <2>k DEF RemoveDir, PruneWorktree, Clean, DeleteBranch, Ending
    <3> QED BY <1>0, <3>1, TypeFacts, InHand DEF Legal
  <2>w. ASSUME wip[k] \in Wip
        PROVE  /\ w1.base = wip[k].base /\ w1.from = wip[k].from /\ w1.branch = wip[k].branch
               /\ w1.made = wip[k].made /\ w1.meta = wip[k].meta
               /\ w2.base = wip[k].base /\ w2.from = wip[k].from /\ w2.branch = wip[k].branch
               /\ w2.made = wip[k].made
               /\ w3.base = wip[k].base /\ w3.from = wip[k].from /\ w3.branch = "no"
               /\ w3.made = wip[k].made /\ w3.meta = wip[k].meta
    BY <2>w DEF Wip
  <2>1. CASE RemoveDir(c)
    <3>1. wip' = wip \/ wip' = [wip EXCEPT ![k] = w1]
      BY <2>1 DEF RemoveDir, Clean
    <3> HIDE DEF w1, w2, w3, k
    <3> QED BY <1>0, <1>s, <2>1, <2>k, <2>w, <3>1 DEF Kept
  <2>2. CASE PruneWorktree(c)
    <3>1. wip' = wip \/ wip' = [wip EXCEPT ![k] = w2]
      BY <2>2 DEF PruneWorktree, Clean
    <3>2. k = i => \E d \in Clients : PruneWorktree(d) /\ loc[d].id = i
      BY <2>2
    <3> HIDE DEF w1, w2, w3, k
    <3> QED BY <1>0, <1>s, <2>2, <2>k, <2>w, <3>1, <3>2 DEF Kept
  <2>3. CASE DeleteBranch(c)
    <3>1. wip' = wip \/ wip' = [wip EXCEPT ![k] = w3]
      <4>1. wip' = [wip EXCEPT ![k].branch = IF wip[k].meta = "yes" THEN @ ELSE "no"]
        BY <2>3 DEF DeleteBranch
      <4>2. CASE wip[k].meta = "yes"
        <5>1. wip' = [wip EXCEPT ![k].branch = @]
          BY <4>1, <4>2
        <5> QED BY <1>0, <2>3, <2>k, <5>1 DEF Wip
      <4>3. CASE wip[k].meta # "yes"
        BY <4>1, <4>3
      <4> QED BY <4>2, <4>3
    <3>2. k = i => \E d \in Clients : DeleteBranch(d) /\ loc[d].id = i
      BY <2>3
    <3> HIDE DEF w1, w2, w3, k
    <3> QED BY <1>0, <1>s, <2>3, <2>k, <2>w, <3>1, <3>2 DEF Kept
  <2>4. CASE ~(RemoveDir(c) \/ PruneWorktree(c) \/ DeleteBranch(c))
    BY <1>3, <1>s, <2>4 DEF End, FindRecord, OpenBase, ReadTips, Advance, Deregister, ForgetFanout,
       ShutdownNext, Exit, Restart, disk
  <2> QED BY <2>1, <2>2, <2>3, <2>4
<1>4. ASSUME NEW j \in Ids, CommitWip(j) PROVE Kept(i)
  <2> DEFINE w == [wip[j] EXCEPT !.made = @ \cup {commits'}]
  <2>1. wip[j] \in Wip /\ wip[j].branch = "yes" /\ wip[j].meta = "yes"
    BY <1>0, <1>4 DEF CommitWip
  <2>2. /\ w.base = wip[j].base /\ w.from = wip[j].from /\ w.branch = "yes" /\ w.meta = "yes"
        /\ w.made = wip[j].made \cup {commits'}
    BY <2>1 DEF Wip
  <2>3. wip' = [wip EXCEPT ![j] = w]
    BY <1>0, <1>4 DEF CommitWip
  <2> HIDE DEF w
  <2>4. CASE j = i
    <3>1. wip'[i] = w
      BY <1>0, <2>3, <2>4
    <3> QED BY <1>4, <2>1, <2>2, <2>4, <3>1 DEF Kept
  <2>5. CASE j # i
    <3>1. wip'[i] = wip[i]
      BY <1>0, <2>3, <2>5
    <3> QED BY <3>1 DEF Kept
  <2> QED BY <2>4, <2>5
<1>5. CASE CommitMain \/ Crash \/ UNCHANGED vars
  BY <1>s, <1>5 DEF CommitMain, Crash, Restart, vars, disk
<1> QED BY <1>1, <1>2, <1>3, <1>4, <1>5 DEF Next

\* The branch stays, or one set of commits is added to it.
LEMMA MainSteps ==
  ASSUME TypeInv, ForkInv, [Next]_vars
  PROVE  \/ main' = main
         \/ \E S \in SUBSET (1 .. MaxCommits) : main' = Append(main, S)
<1>1. ASSUME NEW c \in Clients, Advance(c)
      PROVE  main' = main \/ \E S \in SUBSET (1 .. MaxCommits) : main' = Append(main, S)
  <2>1. loc[c].seen \subseteq 1 .. MaxCommits
    BY <1>1, TypeFacts, InHand DEF Advance, Legal
  <2> QED BY <1>1, <2>1, AdvanceAppends
<1>2. CASE CommitMain
  <2>1. commits' \in 1 .. MaxCommits
    BY <1>2, MaxCommits \in Nat DEF CommitMain, TypeInv, StoreOK
  <2> QED BY <1>2, <2>1 DEF CommitMain
<1>3. ASSUME NEW c \in Clients, Start(c) \/ Register1(c) \/ Save(c) PROVE main' = main
  BY <1>3, NoFanoutTouched
<1>4. ASSUME NEW c \in Clients, Begin(c) \/ (End(c) /\ ~Advance(c)) PROVE main' = main
  BY <1>4 DEF Begin, BeginConfig, BeginFree, OpenBranch, OpenWorktree, RecordFanout,
       End, FindRecord, OpenBase, ReadTips, RemoveDir, PruneWorktree, Clean, DeleteBranch,
       Deregister, ForgetFanout, ShutdownNext, Exit, Restart, disk
<1>5. CASE (\E i \in Ids : CommitWip(i)) \/ Crash \/ UNCHANGED vars
  BY <1>5 DEF CommitWip, Crash, Restart, vars, disk
<1> QED BY <1>1, <1>2, <1>3, <1>4, <1>5 DEF Next

LEMMA MainGrows ==
  ASSUME TypeInv, ForkInv, [Next]_vars
  PROVE  /\ Len(main) \in Nat /\ Len(main') \in Nat /\ Len(main) <= Len(main')
         /\ OnMain \subseteq OnMain'
         /\ IsPrefix(main, main')
<1>0. main \in Seq(SUBSET (1 .. MaxCommits))
  BY TypeFacts
<1>1. CASE main' = main
  BY <1>0, <1>1 DEF OnMain, IsPrefix
<1>2. ASSUME NEW S \in SUBSET (1 .. MaxCommits), main' = Append(main, S)
      PROVE  /\ Len(main) \in Nat /\ Len(main') \in Nat /\ Len(main) <= Len(main')
             /\ OnMain \subseteq OnMain'
             /\ IsPrefix(main, main')
  <2>1. /\ Len(main) \in Nat /\ Len(main') = Len(main) + 1
        /\ main' \in Seq(SUBSET (1 .. MaxCommits))
        /\ \A k \in 1 .. Len(main) : main'[k] = main[k]
    BY <1>0, <1>2
  <2>2. OnMain \subseteq OnMain'
    <3>1. ASSUME NEW k \in DOMAIN main PROVE k \in DOMAIN main' /\ main'[k] = main[k]
      BY <1>0, <2>1
    <3> QED BY <3>1 DEF OnMain
  <2>3. IsPrefix(main, main')
    <3>1. SubSeq(main, 1, Len(main)) = SubSeq(main', 1, Len(main))
      BY <1>0, <2>1
    <3> QED BY <2>1, <3>1 DEF IsPrefix
  <2> QED BY <2>1, <2>2, <2>3
<1> QED BY <1>1, <1>2, MainSteps

LEMMA ForkStep == TypeInv /\ ForkInv /\ [Next]_vars => ForkInv'
<1> SUFFICES ASSUME TypeInv, ForkInv, [Next]_vars PROVE ForkInv'
  OBVIOUS
<1>0. /\ TypeInv' /\ \A i \in Ids : wip[i] \in Wip /\ wip'[i] \in Wip
      /\ pc \in [Clients -> Sections] /\ loc \in [Clients -> Loc]
  <2>1. TypeInv'
    BY TypeStep
  <2>2. wip' \in [Ids -> Wip]
    BY <2>1 DEF TypeInv, TypeOK, Wip
  <2> QED BY <2>1, <2>2, TypeFacts DEF CallsOK
<1>1. ASSUME NEW i \in Ids
      PROVE  wip'[i].from <= Len(main') /\ (wip'[i].branch = "yes" => wip'[i].base # NoVault)
  <2>1. wip[i].from \in Nat /\ wip'[i].from \in Nat
    BY <1>0 DEF Wip
  <2> QED BY <2>1, MainGrows, WipSteps DEF ForkInv, Kept, Opened
<1>2. ASSUME NEW c \in Clients, pc'[c] = "advance", SameCall(c)
      PROVE  /\ wip'[loc'[c].id].base # NoVault
             /\ loc'[c].how = "fast-forward" => loc'[c].at <= wip'[loc'[c].id].from
  <2>1. loc[c].id \in Ids /\ wip[loc[c].id].base # NoVault
    BY <1>2, TypeFacts, InHand DEF SameCall, ForkInv, Legal, Ending
  <2>2. Kept(loc[c].id)
    BY <2>1, WipSteps DEF Opened, Fresh
  <2> QED BY <1>2, <2>2 DEF SameCall, ForkInv, Kept
<1>3. ASSUME NEW c \in Clients, pc'[c] = "advance"
      PROVE  /\ wip'[loc'[c].id].base # NoVault
             /\ loc'[c].how = "fast-forward" => loc'[c].at <= wip'[loc'[c].id].from
  <2>1. CASE SameCall(c)
    BY <1>2, <1>3, <2>1
  <2>2. CASE ReadTips(c)
    <3> DEFINE l == [loc[c] EXCEPT !.seen = wip[loc[c].id].made, !.at = Len(main)]
    <3>1. ~Settle(c, "refused") /\ ~Settle(c, "merged")
      BY <1>0, <1>3 DEF Settle, Go
    <3>2. /\ wip[loc[c].id].branch = "yes" /\ Go(c, "advance", l) /\ wip' = wip
          /\ loc[c].how = "fast-forward" => ~(Len(main) > wip[loc[c].id].from)
      BY <2>2, <3>1 DEF ReadTips, disk
    <3>3. loc[c].id \in Ids /\ loc[c] \in Loc
      BY <2>2, TypeFacts, InHand DEF ReadTips, Legal, Ending
    <3>4. l.id = loc[c].id /\ l.how = loc[c].how /\ l.at = Len(main)
      BY <3>3 DEF Loc
    <3>5. loc'[c] = l
      BY <1>0, <3>2 DEF Go
    <3>6. wip[loc[c].id].from \in Nat /\ Len(main) \in Nat
      BY <1>0, <3>3, MainGrows DEF Wip
    <3> HIDE DEF l
    <3> QED BY <3>2, <3>3, <3>4, <3>5, <3>6 DEF ForkInv
  <2>3. SameCall(c) \/ ReadTips(c)
    BY <1>3, Moves DEF Moved, Starts, StartSections, GoesOn, GoesOnWith
  <2> QED BY <2>1, <2>2, <2>3
<1> QED BY <1>1, <1>3 DEF ForkInv

LEMMA ForkInit == Init => ForkInv
  BY DEF Init, ForkInv, Fresh

\* What is remembered of a fan-out is never forgotten.
LEMMA HistoryGrows ==
  ASSUME TypeInv, [Next]_vars, NEW i \in Ids
  PROVE  late[i] \subseteq late'[i] /\ settled[i] \subseteq settled'[i]
<1>0. /\ late \in [Ids -> SUBSET (1 .. MaxCommits)]
      /\ settled \in [Ids -> SUBSET {"merged", "refused", "abandoned", "orphaned"}]
  BY DEF TypeInv, StoreOK
<1>s. UNCHANGED <<late, settled>> => late[i] \subseteq late'[i] /\ settled[i] \subseteq settled'[i]
  OBVIOUS
<1>a. ASSUME NEW j, NEW how, settled' = [settled EXCEPT ![j] = @ \cup {how}], late' = late
      PROVE  late[i] \subseteq late'[i] /\ settled[i] \subseteq settled'[i]
  BY <1>0, <1>a
<1>1. ASSUME NEW c \in Clients, Start(c) \/ Register1(c) \/ Save(c)
      PROVE  UNCHANGED <<late, settled>>
  BY <1>1, NoFanoutTouched
<1>2. ASSUME NEW c \in Clients, Begin(c) PROVE UNCHANGED <<late, settled>>
  BY <1>2 DEF Begin, BeginConfig, BeginFree, OpenBranch, OpenWorktree, RecordFanout, past
<1>r. ASSUME Restart PROVE late[i] \subseteq late'[i] /\ settled[i] \subseteq settled'[i]
  BY <1>0, <1>r DEF Restart
<1>3. ASSUME NEW c \in Clients, End(c)
      PROVE  late[i] \subseteq late'[i] /\ settled[i] \subseteq settled'[i]
  <2>1. CASE OpenBase(c) \/ ReadTips(c) \/ Advance(c)
    BY <1>a, <1>s, <2>1 DEF OpenBase, ReadTips, Advance, Settle
  <2>2. CASE ShutdownNext(c)
    <3>1. PICK b \in loc[c].queue :
            LET l == [loc[c] EXCEPT !.name = b, !.id = loc[c].of[b], !.queue = @ \ {b}] IN
              settled' = IF b \in l.seen
                         THEN [settled EXCEPT ![l.id] = @ \cup {"abandoned"}] ELSE settled
      BY <2>2 DEF ShutdownNext
    <3>2. late' = late
      BY <2>2 DEF ShutdownNext
    <3> QED BY <1>a, <3>1, <3>2
  <2>3. CASE FindRecord(c) \/ RemoveDir(c) \/ PruneWorktree(c) \/ DeleteBranch(c) \/ Deregister(c)
             \/ ForgetFanout(c)
    BY <1>s, <2>3 DEF FindRecord, RemoveDir, PruneWorktree, Clean, DeleteBranch, Deregister,
       ForgetFanout, past
  <2> QED BY <1>3, <1>r, <2>1, <2>2, <2>3 DEF End, Exit
<1>4. ASSUME NEW j \in Ids, CommitWip(j)
      PROVE  late[i] \subseteq late'[i] /\ settled[i] \subseteq settled'[i]
  BY <1>0, <1>4 DEF CommitWip
<1>5. CASE CommitMain \/ Crash \/ UNCHANGED vars
  BY <1>s, <1>r, <1>5 DEF CommitMain, Crash, vars, past
<1> QED BY <1>1, <1>2, <1>3, <1>4, <1>5 DEF Next

-----------------------------------------------------------------------------
(* Nothing acknowledged is lost, and nothing unsettled is out of sight.    *)

Cleaning == {"dir", "prune", "delete"}

\* A call on its way to delete the branch has settled the fan-out, and unless it
\* refuses or abandons it, has all of it on the branch; what it is about to merge
\* is all that was there when it read the tips.
Safe(i) == \/ settled[i] \cap {"refused", "abandoned"} # {}
           \/ "merged" \in settled[i] /\ \A k \in wip[i].made : k \in OnMain \/ k \in late[i]

WorkInv ==
  /\ AcknowledgedWorkSurvives
  /\ \A i \in Ids : wip[i].made # {} /\ settled[i] \subseteq {"orphaned"} =>
       wip[i].branch = "yes" /\ wip[i].meta = "yes"
  /\ \A c \in Clients : pc[c] \in Cleaning => Safe(loc[c].id)
  /\ \A c \in Clients : pc[c] = "advance" =>
       \A k \in wip[loc[c].id].made : k \in loc[c].seen \/ k \in late[loc[c].id]

\* A commit in a fan-out that is being merged or cleaned up is a late one.
LEMMA LateCommits ==
  ASSUME TypeInv, NEW c \in Clients, pc[c] \in Cleaning \cup {"advance"}, CommitWip(loc[c].id)
  PROVE  commits' \in late'[loc[c].id]
<1>1. late \in [Ids -> SUBSET (1 .. MaxCommits)] /\ loc[c].id \in Ids
  BY TypeFacts, InHand DEF Legal, Ending, Cleaning, TypeInv, StoreOK
<1> QED BY <1>1 DEF CommitWip, In, Cleaning

\* Made work, seen from a call that has it safe.
LEMMA MadeSteps ==
  ASSUME TypeInv, [Next]_vars, NEW i \in Ids, NEW k \in wip'[i].made
  PROVE  k \in wip[i].made \/ (CommitWip(i) /\ k = commits' /\ wip'[i].branch = "yes")
BY WipSteps DEF Kept, Opened

LEMMA SafeStays ==
  ASSUME TypeInv, ForkInv, [Next]_vars, NEW c \in Clients, pc[c] \in Cleaning,
         NEW i \in Ids, loc[c].id = i, Safe(i)
  PROVE  Safe(i)'
<1>1. late[i] \subseteq late'[i] /\ settled[i] \subseteq settled'[i] /\ OnMain \subseteq OnMain'
  BY HistoryGrows, MainGrows
<1>2. ASSUME NEW k \in wip'[i].made, \A m \in wip[i].made : m \in OnMain \/ m \in late[i]
      PROVE  k \in OnMain' \/ k \in late'[i]
  BY <1>1, <1>2, MadeSteps, LateCommits
<1> QED BY <1>1, <1>2 DEF Safe

\* A merge is a new step of the branch.
LEMMA MergedIsNew ==
  ASSUME TypeInv, ForkInv, NEW c \in Clients, pc[c] = "advance", Len(main) = loc[c].at
  PROVE  Merged(c) # main
<1>0. main \in Seq(SUBSET (1 .. MaxCommits)) /\ loc[c].id \in Ids /\ loc[c].seen \in SUBSET (1 .. MaxCommits)
  BY TypeFacts, InHand DEF Legal, Ending
<1>1. Append(main, loc[c].seen) # main
  BY <1>0
<1>2. CASE loc[c].how = "fast-forward"
  <2>1. wip[loc[c].id].from \in Nat /\ wip[loc[c].id].from = Len(main)
    BY <1>0, <1>2, TypeFacts DEF ForkInv, Wip
  <2>2. SubSeq(main, 1, Len(main)) = main
    BY <1>0
  <2> QED BY <1>1, <1>2, <2>1, <2>2 DEF Merged
<1> QED BY <1>1, <1>2 DEF Merged

\* A merge that is decided on under the lock, or made, leaves the fan-out safe.
LEMMA SettledIsSafe ==
  ASSUME TypeInv, ForkInv, WorkInv, [Next]_vars, NEW c \in Clients,
         ReadTips(c) \/ Advance(c) \/ OpenBase(c) \/ ShutdownNext(c), pc'[c] = "dir"
  PROVE  Safe(loc[c].id)'
<1>0. /\ pc \in [Clients -> Sections] /\ loc \in [Clients -> Loc] /\ loc[c] \in Loc
      /\ settled \in [Ids -> SUBSET {"merged", "refused", "abandoned", "orphaned"}]
  BY TypeFacts DEF CallsOK, TypeInv, StoreOK
<1>1. ASSUME NEW to, NEW l, Go(c, to, l) PROVE pc'[c] = to /\ loc'[c] = l
  BY <1>0, <1>1 DEF Go
<1>2. ASSUME NEW i \in Ids, NEW how \in {"refused", "abandoned"}, loc'[c].id = i,
             settled' = [settled EXCEPT ![i] = @ \cup {how}]
      PROVE  Safe(loc[c].id)'
  BY <1>0, <1>2 DEF Safe
<1>i. pc[c] \in {"tips", "advance", "base"} => loc[c].id \in Ids
  BY TypeFacts, InHand DEF Legal, Ending
<1>h. ASSUME NEW how, Settle(c, how)
      PROVE  loc'[c].id = loc[c].id /\ settled' = [settled EXCEPT ![loc[c].id] = @ \cup {how}]
  <2>1. loc'[c] = [loc[c] EXCEPT !.how = how]
    BY <1>1, <1>h DEF Settle
  <2> QED BY <1>0, <1>h, <2>1 DEF Settle, Loc
<1>m. ASSUME NEW i \in Ids, loc'[c].id = i, settled' = [settled EXCEPT ![i] = @ \cup {"merged"}],
             \A k \in wip'[i].made : k \in OnMain' \/ k \in late'[i]
      PROVE  Safe(loc[c].id)'
  BY <1>0, <1>m DEF Safe
<1>3. CASE ReadTips(c)
  <2>1. loc[c].id \in Ids /\ pc[c] = "tips"
    BY <1>3, <1>i DEF ReadTips
  <2>2. CASE Settle(c, "refused")
    BY <1>2, <1>h, <2>1, <2>2
  <2>3. CASE wip[loc[c].id].made = {} /\ Settle(c, "merged")
    <3>1. wip' = wip
      BY <1>3 DEF ReadTips, disk
    <3> QED BY <1>m, <1>h, <2>1, <2>3, <3>1
  <2> QED BY <1>1, <1>3, <2>2, <2>3 DEF ReadTips
<1>4. CASE Advance(c)
  <2>1. loc[c].id \in Ids /\ pc[c] = "advance" /\ UNCHANGED <<wip, late>>
    BY <1>4, <1>i DEF Advance
  <2>2. CASE Settle(c, "refused")
    BY <1>2, <1>h, <2>1, <2>2
  <2>3. CASE main' = Merged(c) /\ Len(main) = loc[c].at /\ Settle(c, "merged")
    <3>1. main' = Append(main, loc[c].seen) \/ main' = main
      BY <1>4, AdvanceAppends
    <3>2. main \in Seq(SUBSET (1 .. MaxCommits)) /\ loc[c].seen \in SUBSET (1 .. MaxCommits)
      BY <2>1, TypeFacts, InHand DEF Legal
    <3>3. main' # main
      BY <1>4, <2>1, <2>3, <3>2, MergedIsNew
    <3>4. main' \in Seq(SUBSET (1 .. MaxCommits)) /\ Len(main') \in DOMAIN main'
          /\ main'[Len(main')] = loc[c].seen
      BY <3>1, <3>2, <3>3
    <3>5. loc[c].seen \subseteq OnMain'
      BY <3>4 DEF OnMain
    <3>6. \A k \in wip[loc[c].id].made : k \in loc[c].seen \/ k \in late[loc[c].id]
      BY <2>1 DEF WorkInv
    <3> QED BY <1>m, <1>h, <2>1, <2>3, <3>5, <3>6
  <2> QED BY <1>4, <2>2, <2>3 DEF Advance
<1>5. CASE OpenBase(c)
  <2>1. loc[c].id \in Ids
    BY <1>5, <1>i DEF OpenBase
  <2>2. settled' = [settled EXCEPT ![loc[c].id] = @ \cup {"abandoned"}] /\ loc'[c] = loc[c]
    <3>1. ~Go(c, "tips", loc[c]) /\ ~Return(c)
      BY <1>1 DEF Return
    <3> QED BY <1>1, <1>5, <3>1 DEF OpenBase
  <2> QED BY <1>2, <2>1, <2>2
<1>6. CASE ShutdownNext(c)
  <2>1. PICK b \in loc[c].queue :
          LET l == [loc[c] EXCEPT !.name = b, !.id = loc[c].of[b], !.queue = @ \ {b}] IN
            /\ Go(c, IF b \in l.seen THEN "dir" ELSE "deregister", l)
            /\ settled' = IF b \in l.seen
                          THEN [settled EXCEPT ![l.id] = @ \cup {"abandoned"}] ELSE settled
    BY <1>6 DEF ShutdownNext
  <2> DEFINE l == [loc[c] EXCEPT !.name = b, !.id = loc[c].of[b], !.queue = @ \ {b}]
  <2>2. l.id = loc[c].of[b] /\ loc[c].of[b] \in Ids
    <3>1. loc[c].how = "shutdown"
      BY <1>6, TypeFacts, InHand DEF ShutdownNext, Legal
    <3> QED BY <1>0, <2>1, <3>1, TypeFacts, InHand DEF Legal, Loc
  <2>3. loc'[c] = l /\ b \in l.seen
    BY <1>1, <2>1
  <2>4. settled' = [settled EXCEPT ![l.id] = @ \cup {"abandoned"}]
    BY <2>1, <2>3
  <2> HIDE DEF l
  <2> QED BY <1>2, <2>2, <2>3, <2>4
<1> QED BY <1>3, <1>4, <1>5, <1>6

LEMMA WorkInit == Init => WorkInv
  BY DEF Init, WorkInv, AcknowledgedWorkSurvives, Fresh, Cleaning

LEMMA WorkStep == TypeInv /\ ForkInv /\ WorkInv /\ [Next]_vars => WorkInv'
<1> SUFFICES ASSUME TypeInv, ForkInv, WorkInv, [Next]_vars PROVE WorkInv'
  OBVIOUS
<1>g. ASSUME NEW i \in Ids
      PROVE  late[i] \subseteq late'[i] /\ settled[i] \subseteq settled'[i] /\ OnMain \subseteq OnMain'
  BY <1>g, HistoryGrows, MainGrows
<1>d. ASSUME NEW c \in Clients, DeleteBranch(c)
      PROVE  pc[c] = "delete" /\ loc[c].id \in Ids /\ Safe(loc[c].id) /\ late' = late /\ settled' = settled
  BY <1>d, TypeFacts, InHand DEF DeleteBranch, WorkInv, Cleaning, Legal, Ending, past
<1>1. ASSUME NEW i \in Ids, NEW k \in wip'[i].made
      PROVE  \/ k \in OnMain' \/ wip'[i].branch = "yes"
             \/ k \in late'[i]
             \/ settled'[i] \cap {"refused", "abandoned"} # {}
  <2>1. CASE k \notin wip[i].made
    BY <2>1, <1>1, MadeSteps
  <2>2. CASE k \in wip[i].made
    <3>1. \/ k \in OnMain \/ wip[i].branch = "yes" \/ k \in late[i]
          \/ settled[i] \cap {"refused", "abandoned"} # {}
      BY <2>2 DEF WorkInv, AcknowledgedWorkSurvives
    <3>2. CASE wip[i].branch = "yes" /\ wip'[i].branch # "yes"
      <4>1. PICK c \in Clients : DeleteBranch(c) /\ loc[c].id = i
        BY <3>2, WipSteps DEF Kept, Opened, Fresh
      <4>2. Safe(i)
        BY <1>d, <4>1
      <4> QED BY <2>2, <4>2, <1>g DEF Safe
    <3> QED BY <3>1, <3>2, <1>g
  <2> QED BY <2>1, <2>2
<1>2. ASSUME NEW i \in Ids, wip'[i].made # {}, settled'[i] \subseteq {"orphaned"}
      PROVE  wip'[i].branch = "yes" /\ wip'[i].meta = "yes"
  <2>1. Kept(i)
    BY <1>2, WipSteps DEF Opened
  <2>2. settled[i] \subseteq {"orphaned"}
    BY <1>2, <1>g
  <2>3. CASE wip'[i].made = wip[i].made
    <3>1. wip[i].branch = "yes" /\ wip[i].meta = "yes"
      BY <1>2, <2>2, <2>3 DEF WorkInv
    <3>2. ASSUME NEW c \in Clients, DeleteBranch(c) \/ PruneWorktree(c), loc[c].id = i PROVE FALSE
      <4>1. pc[c] \in Cleaning
        BY <3>2 DEF DeleteBranch, PruneWorktree, Clean, Cleaning
      <4>2. Safe(i)
        BY <3>2, <4>1 DEF WorkInv
      <4> QED BY <2>2, <4>2 DEF Safe
    <3> QED BY <2>1, <3>1, <3>2 DEF Kept
  <2> QED BY <2>1, <2>3 DEF Kept
<1>3. ASSUME NEW c \in Clients, pc'[c] \in Cleaning PROVE Safe(loc[c].id)'
  <2>1. CASE pc[c] \in Cleaning /\ loc'[c].id = loc[c].id
    <3>1. loc[c].id \in Ids
      BY <2>1, TypeFacts, InHand DEF Legal, Ending, Cleaning
    <3>2. Safe(loc[c].id)
      BY <2>1 DEF WorkInv
    <3>3. \A i \in Ids : i = loc[c].id => Safe(i)'
      BY <2>1, <3>2, SafeStays
    <3> QED BY <2>1, <3>1, <3>3 DEF Safe
  <2>2. CASE (ReadTips(c) \/ Advance(c) \/ OpenBase(c) \/ ShutdownNext(c)) /\ pc'[c] = "dir"
    BY <2>2, SettledIsSafe
  <2>3. \/ pc[c] \in Cleaning /\ loc'[c].id = loc[c].id
        \/ (ReadTips(c) \/ Advance(c) \/ OpenBase(c) \/ ShutdownNext(c)) /\ pc'[c] = "dir"
    BY <1>3, Moves DEF Moved, SameCall, Starts, StartSections, GoesOn, GoesOnWith, Cleaning,
       RemoveDir, PruneWorktree, Clean
  <2> QED BY <2>1, <2>2, <2>3
<1>4. ASSUME NEW c \in Clients, pc'[c] = "advance", NEW k \in wip'[loc'[c].id].made
      PROVE  k \in loc'[c].seen \/ k \in late'[loc'[c].id]
  <2>1. CASE SameCall(c)
    <3>1. loc'[c] = loc[c] /\ pc[c] = "advance" /\ loc[c].id \in Ids
      BY <1>4, <2>1, TypeFacts, InHand DEF SameCall, Legal, Ending
    <3> QED BY <1>4, <1>g, <3>1, MadeSteps, LateCommits DEF WorkInv
  <2>2. CASE ReadTips(c) /\ loc'[c].seen = wip[loc[c].id].made /\ loc'[c].id = loc[c].id
    <3>1. wip' = wip
      BY <2>2 DEF ReadTips, disk
    <3> QED BY <1>4, <2>2, <3>1
  <2>3. SameCall(c) \/ (ReadTips(c) /\ loc'[c].seen = wip[loc[c].id].made /\ loc'[c].id = loc[c].id)
    BY <1>4, Moves DEF Moved, Starts, StartSections, GoesOn, GoesOnWith
  <2> QED BY <2>1, <2>2, <2>3
<1>a. AcknowledgedWorkSurvives'
  BY <1>1 DEF AcknowledgedWorkSurvives
<1> QED BY <1>a, <1>2, <1>3, <1>4 DEF WorkInv

\* What is still there of a fan-out nobody ended is recorded or an orphan.
LEMMA KnownWork == WorkInv => UnsettledWorkIsListed
  BY DEF WorkInv, UnsettledWorkIsListed, Orphans

-----------------------------------------------------------------------------
(* What a step does to the maps, and who did it.                           *)

Idle == /\ \A c \in Clients : pc'[c] = "idle" /\ loc'[c] = Blank
        /\ saved' = saved /\ wip' = wip
        /\ raced' = {} /\ unsaved' = {}
        /\ managers' = [n \in Names |-> NoManager] /\ fanouts' = [n \in Names |-> NoId]

\* After a restart nothing is in hand, and the maps are the saved ones.
Restarted == Restart /\ Idle

Races == {"switch", "removal", "begins", "ends", "saves"}

\* These leave all the maps, and all history of races.
LEMMA NoMapTouched ==
  ASSUME NEW c \in Clients,
         \/ Start(c) \/ LookUp(c) \/ ReadConfig(c) \/ RemoveCheck(c)
         \/ BeginConfig(c) \/ OpenBranch(c) \/ OpenWorktree(c)
         \/ OpenBase(c) \/ ReadTips(c) \/ Advance(c) \/ RemoveDir(c) \/ PruneWorktree(c)
         \/ DeleteBranch(c) \/ ShutdownNext(c)
  PROVE  UNCHANGED <<vaults, active, managers, fanouts, saved, raced, unsaved>>
  BY DEF Start, AddVault, RemoveVault, SetActiveVault, UseVault, BeginFanout, CommitFanout,
         AbandonFanout, Shutdown, OnActive, Call, LookUp, ReadConfig, RemoveCheck, BeginConfig,
         OpenBranch, OpenWorktree, OpenBase, ReadTips, Advance, RemoveDir, PruneWorktree, Clean,
         DeleteBranch, ShutdownNext, disk, memory, past, registry

\* The steps that do touch them.
Mapping(c) ==
  \/ AddRegister(c) \/ AddDefault(c) \/ Publish(c) \/ RemoveUnregister(c) \/ RemoveDrop(c)
  \/ SwitchTo(c) \/ ListVaults(c) \/ Truncate(c) \/ WriteVaults(c) \/ WriteMetadata(c)
  \/ BeginFree(c) \/ RecordFanout(c) \/ FindRecord(c) \/ Deregister(c) \/ ForgetFanout(c)
  \/ BuildFails(c) \/ SaveFails(c)

LEMMA Mappers ==
  ASSUME [Next]_vars
  PROVE  \/ Restarted
         \/ UNCHANGED <<vaults, active, managers, fanouts, saved, raced, unsaved>>
         \/ \E c \in Clients : Mapping(c)
<1>1. Restart => Restarted
  BY DEF Restarted, Restart, Idle, disk
<1>2. ASSUME NEW c \in Clients, Start(c) \/ Register1(c) \/ Save(c) \/ Begin(c) \/ End(c)
      PROVE  \/ Restarted
             \/ UNCHANGED <<vaults, active, managers, fanouts, saved, raced, unsaved>>
             \/ Mapping(c)
  BY <1>1, <1>2, NoMapTouched DEF Register1, Save, Begin, End, Exit, Mapping
<1>3. CASE CommitMain \/ (\E i \in Ids : CommitWip(i)) \/ UNCHANGED vars
  BY <1>3 DEF CommitMain, CommitWip, vars, disk, memory, past, registry
<1>4. CASE Crash
  BY <1>1, <1>4 DEF Crash
<1> QED BY <1>2, <1>3, <1>4 DEF Next

\* Within a run of the server, races are remembered.
LEMMA RacesRemembered ==
  ASSUME [Next]_vars
  PROVE  Restarted \/ raced \subseteq raced'
<1>1. ASSUME NEW c \in Clients, Mapping(c) PROVE raced \subseteq raced'
  BY <1>1 DEF Mapping, BuildFails, SaveFails, AddRegister, AddDefault, Publish, AfterPublish, RemoveUnregister, RemoveDrop,
     SwitchTo, ListVaults, Truncate, WriteVaults, WriteMetadata, BeginFree, RecordFanout,
     FindRecord, Deregister, ForgetFanout, past
<1> QED BY <1>1, Mappers

\* A name is registered, unregistered by remove_vault, or by the end of a fan-out.
LEMMA VaultSteps ==
  ASSUME TypeInv, [Next]_vars, NEW n \in Names
  PROVE  \/ Restarted
         \/ vaults'[n] = vaults[n]
         \/ \E c \in Clients : /\ AddRegister(c) /\ n = Named(c) /\ loc[c].dir \in Dirs
                               /\ vaults[n] = NoVault /\ vaults'[n] = loc[c].dir
                               /\ loc[c].how # "add" => n \in unsaved'
         \/ \E c \in Clients : /\ RemoveUnregister(c) /\ n = loc[c].name /\ n \in Registered
                               /\ vaults'[n] = NoVault
         \/ \E c \in Clients : /\ Deregister(c) /\ n = FanName[loc[c].id] /\ n \in Registered
                               /\ vaults'[n] = NoVault /\ n \in unsaved'
<1>0. vaults \in Directories
  BY TypeFacts
<1>1. ASSUME NEW c \in Clients, Mapping(c), vaults'[n] # vaults[n]
      PROVE  AddRegister(c) \/ RemoveUnregister(c) \/ Deregister(c)
  BY <1>1 DEF Mapping, BuildFails, SaveFails, AddDefault, MakeDefault, Publish, AfterPublish, RemoveDrop, SwitchTo,
     SetActive, ListVaults, Truncate, WriteVaults, WriteMetadata, BeginFree, RecordFanout,
     FindRecord, ForgetFanout, memory, registry
<1>2. ASSUME NEW c \in Clients, AddRegister(c), vaults'[n] # vaults[n]
      PROVE  /\ n = Named(c) /\ loc[c].dir \in Dirs
             /\ vaults[n] = NoVault /\ vaults'[n] = loc[c].dir
             /\ loc[c].how # "add" => n \in unsaved'
  <2>1. loc[c].dir \in Dirs
    BY <1>2, TypeFacts, InHand DEF AddRegister, Legal
  <2>2. Register(Named(c), loc[c].dir) /\ unsaved' = (IF loc[c].how = "add" THEN unsaved ELSE unsaved \cup {Named(c)})
    BY <1>2 DEF AddRegister, Named
  <2> QED BY <1>0, <1>2, <2>1, <2>2 DEF Register, CanRegister, Registered, Directories
<1>3. ASSUME NEW c \in Clients, RemoveUnregister(c), vaults'[n] # vaults[n]
      PROVE  n = loc[c].name /\ n \in Registered /\ vaults'[n] = NoVault
  BY <1>0, <1>3 DEF RemoveUnregister, Unregister, Registered, Directories, registry
<1>4. ASSUME NEW c \in Clients, Deregister(c), vaults'[n] # vaults[n]
      PROVE  n = FanName[loc[c].id] /\ n \in Registered /\ vaults'[n] = NoVault /\ n \in unsaved'
  BY <1>0, <1>4 DEF Deregister, Unregister, Registered, Directories, registry
<1> QED BY <1>1, <1>2, <1>3, <1>4, Mappers

LEMMA FanoutSteps ==
  ASSUME TypeInv, [Next]_vars, NEW b \in Names
  PROVE  \/ Restarted
         \/ fanouts'[b] = fanouts[b]
         \/ \E c \in Clients : RecordFanout(c) /\ b = loc[c].name /\ fanouts'[b] = loc[c].id
         \/ \E c \in Clients : ForgetFanout(c) /\ b = loc[c].name /\ fanouts'[b] = NoId
<1>0. fanouts \in [Names -> Ids \cup {NoId}]
  BY TypeFacts
<1>1. ASSUME NEW c \in Clients, Mapping(c), fanouts'[b] # fanouts[b]
      PROVE  RecordFanout(c) \/ ForgetFanout(c)
  BY <1>1 DEF Mapping, BuildFails, SaveFails, AddRegister, AddDefault, Publish, AfterPublish, RemoveUnregister, RemoveDrop,
     SwitchTo, ListVaults, Truncate, WriteVaults, WriteMetadata, BeginFree, FindRecord, Deregister,
     memory
<1>2. ASSUME NEW c \in Clients, RecordFanout(c), fanouts'[b] # fanouts[b]
      PROVE  b = loc[c].name /\ fanouts'[b] = loc[c].id
  BY <1>0, <1>2 DEF RecordFanout
<1>3. ASSUME NEW c \in Clients, ForgetFanout(c), fanouts'[b] # fanouts[b]
      PROVE  b = loc[c].name /\ fanouts'[b] = NoId
  BY <1>0, <1>3 DEF ForgetFanout
<1> QED BY <1>1, <1>2, <1>3, Mappers

LEMMA ManagerSteps ==
  ASSUME TypeInv, [Next]_vars, NEW n \in Names
  PROVE  \/ Restarted
         \/ managers'[n] = managers[n]
         \/ \E c \in Clients : Publish(c) /\ n = loc[c].name /\ managers'[n].dir = loc[c].dir
         \/ \E c \in Clients : RemoveDrop(c) /\ n = loc[c].name /\ managers'[n] = NoManager
<1>0. managers \in [Names -> {NoManager} \cup [by : Clients, dir : Dirs]]
  BY DEF TypeInv, TypeOK
<1>1. ASSUME NEW c \in Clients, Mapping(c), managers'[n] # managers[n]
      PROVE  Publish(c) \/ RemoveDrop(c)
  BY <1>1 DEF Mapping, BuildFails, SaveFails, AddRegister, AddDefault, RemoveUnregister, RecordFanout, ForgetFanout,
     SwitchTo, ListVaults, Truncate, WriteVaults, WriteMetadata, BeginFree, FindRecord, Deregister,
     memory
<1>2. ASSUME NEW c \in Clients, Publish(c), managers'[n] # managers[n]
      PROVE  n = loc[c].name /\ managers'[n].dir = loc[c].dir
  BY <1>0, <1>2 DEF Publish
<1>3. ASSUME NEW c \in Clients, RemoveDrop(c), managers'[n] # managers[n]
      PROVE  n = loc[c].name /\ managers'[n] = NoManager
  BY <1>0, <1>3 DEF RemoveDrop
<1> QED BY <1>1, <1>2, <1>3, Mappers

\* When the active vault goes, the least name left is active.
LEMMA UnregisterActive ==
  ASSUME TypeInv, NEW n \in Names, Unregister(n)
  PROVE  \/ active' = NoVault \/ active' \in Registered'
         \/ active' = active /\ active \notin Registered
<1>0. vaults \in Directories
  BY TypeFacts
<1>1. Registered' = Registered \ {n}
  BY <1>0 DEF Unregister, Registered, Directories
<1>2. CASE active = n
  <2>1. active' = Least(Registered \ {n})
    BY <1>2 DEF Unregister
  <2> QED BY <1>1, <2>1, LeastIsMember DEF Registered, Least
<1>3. CASE active # n
  BY <1>1, <1>3 DEF Unregister
<1> QED BY <1>2, <1>3

LEMMA ActiveSteps ==
  ASSUME TypeInv, [Next]_vars
  PROVE  \/ active' = NoVault \/ active' \in Registered'
         \/ active' = active /\ active \notin Registered
         \/ \E c \in Clients : AddDefault(c) /\ active' = Named(c) /\ vaults' = vaults
<1>0. vaults \in Directories /\ active \in Names \cup {NoVault}
  BY TypeFacts
<1>s. UNCHANGED <<vaults, active>> => active' \in Registered' \/ (active' = active /\ active \notin Registered)
  BY DEF Registered
<1>1. CASE Restarted
  <2>1. Restore(saved.vaults, saved.active)
    BY <1>1 DEF Restarted, Restart
  <2> QED BY <2>1 DEF Restore, Registered
<1>2. ASSUME NEW c \in Clients, AddRegister(c)
      PROVE  active' \in Registered' \/ (active' = active /\ active \notin Registered)
  <2>1. active' = active
    BY <1>2 DEF AddRegister
  <2>2. CASE vaults' = vaults
    BY <1>s, <2>1, <2>2
  <2>3. CASE Register(Named(c), loc[c].dir)
    <3>1. loc[c].dir # NoVault
      BY <1>2, TypeFacts, InHand DEF AddRegister, Legal
    <3>2. Registered \subseteq Registered'
      BY <1>0, <2>3, <3>1 DEF Register, Registered, Directories
    <3> QED BY <2>1, <3>2
  <2> QED BY <1>2, <2>2, <2>3 DEF AddRegister, Named
<1>3. ASSUME NEW c \in Clients, AddDefault(c) PROVE active' = Named(c) /\ vaults' = vaults
  BY <1>3 DEF AddDefault, MakeDefault, Named
<1>4. ASSUME NEW c \in Clients, RemoveUnregister(c) \/ Deregister(c)
      PROVE  UNCHANGED <<vaults, active>> \/ \E n \in Names : Unregister(n)
  <2>1. loc[c].name \in Names /\ (Deregister(c) => loc[c].id \in Ids)
    BY <1>4, TypeFacts, InHand DEF RemoveUnregister, Deregister, Legal, Ending
  <2> QED BY <1>4, <2>1 DEF RemoveUnregister, Deregister, registry
<1>5. ASSUME NEW c \in Clients, SwitchTo(c)
      PROVE  UNCHANGED <<vaults, active>> \/ active' \in Registered'
  BY <1>5 DEF SwitchTo, SetActive, Registered, registry
<1>6. ASSUME NEW c \in Clients, Mapping(c), ~AddRegister(c), ~AddDefault(c), ~RemoveUnregister(c),
             ~Deregister(c), ~SwitchTo(c)
      PROVE  UNCHANGED <<vaults, active>>
  BY <1>6 DEF Mapping, BuildFails, SaveFails, Publish, AfterPublish, RemoveDrop, RecordFanout, ForgetFanout, ListVaults,
     Truncate, WriteVaults, WriteMetadata, BeginFree, FindRecord, memory, registry
<1> QED BY <1>1, <1>2, <1>3, <1>4, <1>5, <1>6, <1>s, Mappers, UnregisterActive

\* A switch under a begin does not go unnoticed.
LEMMA SwitchesSeen ==
  ASSUME [Next]_vars, active' # active, NEW c \in Clients, pc[c] = "config"
  PROVE  Restarted \/ "switch" \in raced'
<1>1. In({"config"}) # {}
  BY DEF In
<1>2. ASSUME NEW d \in Clients, Mapping(d) PROVE "switch" \in raced'
  <2>1. AddDefault(d) \/ RemoveUnregister(d) \/ SwitchTo(d) \/ Deregister(d)
    BY <1>2 DEF Mapping, BuildFails, SaveFails, AddRegister, Publish, AfterPublish, RemoveDrop, RecordFanout, ForgetFanout,
       ListVaults, Truncate, WriteVaults, WriteMetadata, BeginFree, FindRecord, memory, registry
  <2> QED BY <1>1, <2>1 DEF AddDefault, RemoveUnregister, SwitchTo, Deregister, Switch, registry
<1> QED BY <1>2, Mappers

\* Nor does a removal under another call.
LEMMA RemovalsSeen ==
  ASSUME TypeInv, NEW c \in Clients, NEW d \in Clients, RemoveUnregister(d), loc[d].name \in Registered,
         loc[c].name = loc[d].name, pc[c] \notin {"idle", "unregister"}
  PROVE  "removal" \in raced'
<1>1. c # d
  BY DEF RemoveUnregister
<1> QED BY <1>1 DEF RemoveUnregister, Pulled

-----------------------------------------------------------------------------
(* The registry: what names stand for, the active vault, the managers, and *)
(* the base vaults of fan-outs.                                            *)

\* What is on disk of the registrations.
LEMMA SavedSteps ==
  ASSUME TypeInv, [Next]_vars
  PROVE  \/ saved'.vaults = saved.vaults /\ \A c \in Clients : ~Truncate(c) /\ ~WriteVaults(c)
         \/ \E c \in Clients : /\ Truncate(c)
                               /\ saved'.vaults = [n \in Names |-> NoVault]
         \/ \E c \in Clients : WriteVaults(c) /\ saved'.vaults = loc[c].of
<1>0. saved \in [vaults : Directories, active : Names \cup {NoVault}]
  BY DEF TypeInv, StoreOK
<1>1. ASSUME NEW c \in Clients, Truncate(c) PROVE saved'.vaults = [n \in Names |-> NoVault]
  BY <1>0, <1>1 DEF Truncate
<1>2. ASSUME NEW c \in Clients, WriteVaults(c) PROVE saved'.vaults = loc[c].of
  BY <1>0, <1>2 DEF WriteVaults
<1>3. ASSUME NEW c \in Clients, WriteMetadata(c) PROVE saved'.vaults = saved.vaults
  BY <1>0, <1>3 DEF WriteMetadata
<1>4. ASSUME NEW c \in Clients, Mapping(c), ~Truncate(c), ~WriteVaults(c) PROVE saved'.vaults = saved.vaults
  BY <1>3, <1>4 DEF Mapping, BuildFails, SaveFails, AddRegister, AddDefault, Publish, AfterPublish, RemoveUnregister,
     RemoveDrop, SwitchTo, ListVaults, BeginFree, RecordFanout, FindRecord, Deregister, ForgetFanout, disk
<1> QED BY <1>1, <1>2, <1>4, Mappers DEF Restarted, Idle

\* A name stands for a directory registered under it, or for a worktree.
BaseOrWorktree(v) == \A n \in Names : v[n] = NoVault \/ n \in Bases \/ v[n] \in Ids

NamesInv ==
  /\ BaseOrWorktree(vaults) /\ BaseOrWorktree(saved.vaults)
  /\ \A c \in Clients : pc[c] \in {"truncate", "write"} => BaseOrWorktree(loc[c].of)

LEMMA NamesInit == Init => NamesInv
<1> SUFFICES ASSUME Init PROVE NamesInv
  OBVIOUS
<1>1. BaseOrWorktree(vaults)
  BY LeastIsMember DEF Init, BaseOrWorktree
<1>2. saved.vaults = vaults /\ pc = [c \in Clients |-> "idle"]
  BY DEF Init
<1> QED BY <1>1, <1>2 DEF NamesInv

LEMMA NamesStep == TypeInv /\ NamesInv /\ [Next]_vars => NamesInv'
<1> SUFFICES ASSUME TypeInv, NamesInv, [Next]_vars PROVE NamesInv'
  OBVIOUS
<1>1. BaseOrWorktree(vaults)'
  <2> SUFFICES ASSUME NEW n \in Names PROVE vaults'[n] = NoVault \/ n \in Bases \/ vaults'[n] \in Ids
    BY DEF BaseOrWorktree
  <2>1. CASE Restarted
    <3>1. vaults' = saved.vaults
      BY <2>1 DEF Restarted, Restart, Restore
    <3> QED BY <3>1 DEF NamesInv, BaseOrWorktree
  <2>2. ASSUME NEW c \in Clients, AddRegister(c), n = Named(c), vaults'[n] = loc[c].dir
        PROVE  n \in Bases \/ vaults'[n] \in Ids
    BY <2>2, TypeFacts, InHand DEF AddRegister, Legal, Named
  <2>3. \/ Restarted \/ vaults'[n] \in {vaults[n], NoVault}
        \/ \E c \in Clients : AddRegister(c) /\ n = Named(c) /\ vaults'[n] = loc[c].dir
    BY VaultSteps
  <2>4. vaults[n] = NoVault \/ n \in Bases \/ vaults[n] \in Ids
    BY DEF NamesInv, BaseOrWorktree
  <2> QED BY <2>1, <2>2, <2>3, <2>4
<1>2. BaseOrWorktree(saved.vaults)'
  <2>1. ASSUME NEW c \in Clients, WriteVaults(c), saved'.vaults = loc[c].of PROVE BaseOrWorktree(saved.vaults)'
    BY <2>1 DEF WriteVaults, NamesInv, BaseOrWorktree
  <2> QED BY <2>1, SavedSteps DEF NamesInv, BaseOrWorktree
<1>3. ASSUME NEW c \in Clients, pc'[c] \in {"truncate", "write"} PROVE BaseOrWorktree(loc[c].of)'
  <2>1. \/ SameCall(c)
        \/ ListVaults(c) /\ loc'[c].of = vaults
        \/ Truncate(c) /\ loc'[c].of = loc[c].of
    BY <1>3, Moves DEF Moved, Starts, StartSections, GoesOn, GoesOnWith
  <2> QED BY <1>3, <2>1 DEF SameCall, NamesInv, BaseOrWorktree, Truncate
<1> QED BY <1>1, <1>2, <1>3 DEF NamesInv

\* What a call works on is not taken away unnoticed.
LEMMA VaultStays ==
  ASSUME TypeInv, [Next]_vars, ~Restarted, "removal" \notin raced',
         NEW c \in Clients, pc[c] \notin {"idle", "unregister"},
         loc[c].name \in Bases, loc[c].name \in Registered
  PROVE  vaults'[loc[c].name] = vaults[loc[c].name]
<1>1. ASSUME NEW d \in Clients, Deregister(d), loc[c].name = FanName[loc[d].id] PROVE FALSE
  BY <1>1, TypeFacts, InHand DEF Deregister, Legal, Ending
<1>2. loc[c].name \in Names /\ vaults[loc[c].name] # NoVault
  BY DEF Registered
<1> QED BY <1>1, <1>2, VaultSteps, RemovalsSeen

\* Steps of the sections below that leave the registry alone.
LEMMA RegistryAlone ==
  ASSUME NEW c \in Clients,
         \/ Start(c) \/ ReadConfig(c) \/ RemoveCheck(c) \/ BeginConfig(c) \/ BeginFree(c) \/ OpenBranch(c)
         \/ OpenWorktree(c) \/ RecordFanout(c) \/ Publish(c)
  PROVE  UNCHANGED registry
  BY NoMapTouched DEF BeginFree, RecordFanout, Publish, AfterPublish, memory, registry

IsOpening(c) == pc[c] \in Opening /\ loc[c].how = "begin"

\* Calm: no switch under a begin, no removal under a call.  A begin in hand has
\* the repository under its name, and no removal of a fan-out's base is under way.
Calm == raced \cap {"switch", "removal"} = {}

EndInv == Calm =>
  /\ \A b \in Names : fanouts[b] # NoId => vaults[b] = Repo
  /\ active = NoVault \/ active \in Registered
  /\ \A c \in Clients :
       /\ pc[c] = "config" => active = loc[c].name
       /\ pc[c] = "free" \/ IsOpening(c) => loc[c].name \in Bases /\ vaults[loc[c].name] = Repo
       /\ pc[c] = "unregister" => fanouts[loc[c].name] = NoId
       /\ pc[c] = "default" => loc[c].how # "begin" /\ loc[c].name \in Registered

LEMMA EndInit == Init => EndInv
<1> SUFFICES ASSUME Init PROVE EndInv
  OBVIOUS
<1>1. active = NoVault \/ active \in Registered
  <2>1. CASE vaults = [n \in Names |-> NoVault] /\ active = NoVault
    BY <2>1
  <2>2. CASE active \in Bases /\ \E d \in Dirs \ (Ids \cup {Repo}) : vaults = [n \in Names |->
               IF n = Least(Bases) THEN Repo ELSE IF n \in Bases THEN d ELSE NoVault]
    BY <2>2 DEF Registered
  <2> QED BY <2>1, <2>2 DEF Init
<1>2. pc = [c \in Clients |-> "idle"] /\ fanouts = [n \in Names |-> NoId]
  BY DEF Init
<1> QED BY <1>1, <1>2 DEF EndInv, IsOpening, Opening

LEMMA EndStep == TypeInv /\ NamesInv /\ EndInv /\ [Next]_vars => EndInv'
<1> SUFFICES ASSUME TypeInv, NamesInv, EndInv, [Next]_vars, Calm' PROVE
      /\ \A b \in Names : fanouts'[b] # NoId => vaults'[b] = Repo
      /\ active' = NoVault \/ active' \in Registered'
      /\ \A c \in Clients :
           /\ pc'[c] = "config" => active' = loc'[c].name
           /\ pc'[c] = "free" \/ IsOpening(c)' => loc'[c].name \in Bases /\ vaults'[loc'[c].name] = Repo
           /\ pc'[c] = "unregister" => fanouts'[loc'[c].name] = NoId
           /\ pc'[c] = "default" => loc'[c].how # "begin" /\ loc'[c].name \in Registered'
  BY DEF EndInv
<1>0. vaults \in Directories /\ fanouts \in [Names -> Ids \cup {NoId}] /\ active \in Names \cup {NoVault}
  BY TypeFacts
<1>1. CASE Restarted
  <2>1. active' = NoVault \/ active' \in Registered'
    BY <1>1 DEF Restarted, Restart, Restore, Registered
  <2>2. \A c \in Clients : pc'[c] = "idle"
    BY <1>1 DEF Restarted, Idle
  <2>3. \A b \in Names : fanouts'[b] = NoId
    BY <1>1 DEF Restarted, Idle
  <2> QED BY <2>1, <2>2, <2>3 DEF IsOpening, Opening
<1>2. CASE ~Restarted
  <2>0. Calm /\ "removal" \notin raced' /\ "switch" \notin raced'
    BY <1>2, RacesRemembered DEF Calm
  <2>b. \A n \in Names : vaults[n] = Repo => n \in Bases
    BY DEF NamesInv, BaseOrWorktree
  <2>1. ASSUME NEW b \in Names, fanouts'[b] # NoId PROVE vaults'[b] = Repo
    <3>1. ASSUME NEW c \in Clients, RecordFanout(c), b = loc[c].name PROVE vaults'[b] = Repo
      <4>1. IsOpening(c)
        BY <3>1, TypeFacts, InHand DEF RecordFanout, Legal, IsOpening, Opening
      <4> QED BY <2>0, <3>1, <4>1, RegistryAlone DEF EndInv, registry
    <3>2. CASE fanouts'[b] = fanouts[b]
      <4>1. vaults[b] = Repo /\ b \in Bases
        BY <2>0, <2>1, <2>b, <3>2 DEF EndInv
      <4>2. ASSUME NEW c \in Clients, Deregister(c), b = FanName[loc[c].id] PROVE FALSE
        BY <4>1, <4>2, TypeFacts, InHand DEF Deregister, Legal, Ending
      <4>3. ASSUME NEW c \in Clients, RemoveUnregister(c), b = loc[c].name PROVE FALSE
        BY <2>0, <2>1, <3>2, <4>3 DEF RemoveUnregister, EndInv
      <4> QED BY <1>2, <4>1, <4>2, <4>3, VaultSteps
    <3> QED BY <1>2, <2>1, <3>1, <3>2, FanoutSteps
  <2>2. active' = NoVault \/ active' \in Registered'
    <3>1. ASSUME NEW c \in Clients, AddDefault(c), active' = Named(c), vaults' = vaults
          PROVE  active' \in Registered'
      BY <2>0, <3>1 DEF AddDefault, EndInv, Named, Registered
    <3> QED BY <2>0, <3>1, ActiveSteps DEF EndInv
  <2>3. ASSUME NEW c \in Clients, pc'[c] = "config" PROVE active' = loc'[c].name
    <3>1. SameCall(c) \/ (Start(c) /\ loc'[c].name = active)
      BY <2>3, Moves DEF Moved, Starts, GoesOn, GoesOnWith
    <3>2. CASE SameCall(c)
      BY <1>2, <2>0, <2>3, <3>2, SwitchesSeen DEF SameCall, EndInv
    <3> QED BY <3>1, <3>2, RegistryAlone DEF registry
  <2>4. ASSUME NEW c \in Clients, pc'[c] = "free" \/ IsOpening(c)'
        PROVE  loc'[c].name \in Bases /\ vaults'[loc'[c].name] = Repo
    <3>1. CASE loc'[c].name = loc[c].name /\ (pc[c] = "free" \/ IsOpening(c))
      <4>1. loc[c].name \in Bases /\ vaults[loc[c].name] = Repo
        BY <2>0, <3>1 DEF EndInv
      <4>2. loc[c].name \in Registered /\ pc[c] \notin {"idle", "unregister"}
        BY <3>1, <4>1 DEF Registered, IsOpening, Opening
      <4> QED BY <1>2, <2>0, <3>1, <4>1, <4>2, VaultStays
    <3>2. CASE BeginConfig(c) /\ loc'[c].name = loc[c].name /\ pc'[c] = "free"
      <4>1. vaults[active] = Repo /\ active \in Registered /\ pc[c] = "config"
        <5>1. pc \in [Clients -> Sections]
          BY TypeFacts DEF CallsOK
        <5> QED BY <3>2, <5>1 DEF BeginConfig, Return, Go
      <4>2. loc[c].name = active /\ active \in Bases
        BY <2>0, <2>b, <4>1 DEF EndInv, Registered
      <4> QED BY <3>2, <4>1, <4>2, RegistryAlone DEF registry
    <3>3. \/ loc'[c].name = loc[c].name /\ (pc[c] = "free" \/ IsOpening(c))
          \/ BeginConfig(c) /\ loc'[c].name = loc[c].name /\ pc'[c] = "free"
      <4>1. CASE SameCall(c)
        BY <2>4, <4>1 DEF SameCall, IsOpening
      <4>2. CASE Starts(c)
        BY <2>4, <4>2 DEF Starts, StartSections, IsOpening, Opening
      <4>3. CASE GoesOn(c)
        BY <2>4, <4>3 DEF GoesOn, IsOpening, Opening, AddRegister, AddDefault, BeginFree, OpenWorktree
      <4>4. CASE GoesOnWith(c)
        <5>1. \/ BeginConfig(c) /\ loc'[c].name = loc[c].name /\ pc'[c] = "free"
              \/ OpenBranch(c) /\ loc'[c].name = loc[c].name
          BY <2>4, <4>4 DEF GoesOnWith, IsOpening, Opening
        <5> QED BY <5>1, TypeFacts, InHand DEF OpenBranch, IsOpening, Opening, Legal
      <4> QED BY <2>4, <4>1, <4>2, <4>3, <4>4, Moves DEF Moved, IsOpening, Opening
    <3> QED BY <3>1, <3>2, <3>3
  <2>5. ASSUME NEW c \in Clients, pc'[c] = "unregister" PROVE fanouts'[loc'[c].name] = NoId
    <3>1. SameCall(c) \/ (RemoveCheck(c) /\ loc'[c] = loc[c])
      BY <2>5, Moves DEF Moved, Starts, StartSections, GoesOn, GoesOnWith
    <3>2. CASE SameCall(c)
      <4>1. loc[c].name \in Names /\ fanouts[loc[c].name] = NoId
        BY <2>0, <2>5, <3>2, TypeFacts, InHand DEF SameCall, EndInv, Legal
      <4>2. ASSUME NEW d \in Clients, RecordFanout(d), loc[c].name = loc[d].name PROVE FALSE
        BY <2>0, <2>5, <3>2, <4>2 DEF RecordFanout, Unseen, In, SameCall
      <4> QED BY <1>2, <3>2, <4>1, <4>2, FanoutSteps DEF SameCall
    <3>3. CASE RemoveCheck(c) /\ loc'[c] = loc[c]
      <4>1. ~Participates(loc[c].name) /\ fanouts' = fanouts
        <5>1. pc \in [Clients -> Sections]
          BY TypeFacts DEF CallsOK
        <5> QED BY <2>5, <3>3, <5>1, NoMapTouched DEF RemoveCheck, Return, Go
      <4> QED BY <3>3, <4>1 DEF Participates
    <3> QED BY <3>1, <3>2, <3>3
  <2>6. ASSUME NEW c \in Clients, pc'[c] = "default"
        PROVE  loc'[c].how # "begin" /\ loc'[c].name \in Registered'
    <3>1. SameCall(c) \/ (AddRegister(c) /\ loc'[c] = loc[c])
      BY <2>6, Moves DEF Moved, Starts, StartSections, GoesOn, GoesOnWith
    <3>2. CASE SameCall(c)
      <4>1. /\ loc[c].how # "begin" /\ loc[c].name \in Registered /\ pc[c] = "default"
            /\ loc[c].name \in Bases
        BY <2>0, <2>6, <3>2, TypeFacts, InHand DEF SameCall, EndInv, Legal
      <4>2. vaults'[loc[c].name] = vaults[loc[c].name]
        BY <1>2, <2>0, <4>1, VaultStays
      <4> QED BY <3>2, <4>1, <4>2 DEF SameCall, Registered
    <3>3. CASE AddRegister(c) /\ loc'[c] = loc[c]
      <4>0. pc \in [Clients -> Sections]
        BY TypeFacts DEF CallsOK
      <4>1. Register(Named(c), loc[c].dir) /\ Registered = {} /\ pc[c] = "register"
        <5>1. loc[c].how \in {"add", "create", "begin"}
          BY <3>3, TypeFacts, InHand DEF AddRegister, Legal
        <5>2. ~AfterRegister(c, loc[c]) /\ ~Return(c)
          BY <2>6, <4>0, <5>1 DEF AfterRegister, Return, Go
        <5> QED BY <3>3, <5>2 DEF AddRegister, Named
      <4>2. loc[c].how # "begin"
        <5>1. loc[c].how = "begin" => loc[c].name \in Bases /\ vaults[loc[c].name] = Repo
          BY <2>0, <4>1 DEF EndInv, IsOpening, Opening
        <5> QED BY <4>1, <5>1 DEF Registered
      <4>3. loc[c].name \in Names /\ loc[c].dir # NoVault
        BY <4>1, <4>2, TypeFacts, InHand DEF Legal
      <4> QED BY <1>0, <3>3, <4>1, <4>2, <4>3 DEF Register, Named, Registered, Directories
    <3> QED BY <3>1, <3>2, <3>3
  <2> QED BY <2>1, <2>2, <2>3, <2>4, <2>5, <2>6
<1> QED BY <1>1, <1>2

\* A call that leaves a section took the step of that section.
LEMMA OwnStep ==
  ASSUME TypeInv, [Next]_vars, ~Restarted, NEW c \in Clients, ~SameCall(c)
  PROVE  /\ pc[c] = "default" => AddDefault(c)
         /\ pc[c] = "activate" => ReadConfig(c)
         /\ pc[c] = "publish" => Publish(c) \/ BuildFails(c)
         /\ pc[c] = "drop" => RemoveDrop(c)
         /\ pc[c] = "list" => ListVaults(c)
         /\ pc[c] = "truncate" => Truncate(c) \/ SaveFails(c)
         /\ pc[c] = "write" => WriteVaults(c) \/ SaveFails(c)
         /\ pc[c] = "record" => RecordFanout(c)
<1>1. PICK d \in Clients : (Start(d) \/ Register1(d) \/ Save(d) \/ Begin(d) \/ End(d)) /\ ~Exit(d)
  <2>1. Restart => Restarted
    BY DEF Restarted, Restart, Idle, disk
  <2>2. ~Crash /\ \A d \in Clients : ~Exit(d)
    BY <2>1 DEF Crash, Exit
  <2>3. CommitMain \/ (\E i \in Ids : CommitWip(i)) \/ UNCHANGED vars => SameCall(c)
    BY DEF CommitMain, CommitWip, vars, SameCall
  <2> QED BY <2>2, <2>3 DEF Next
<1>2. d = c
  BY <1>1, OthersStay
<1>3. Start(c) => pc[c] = "idle"
  BY StartMoves DEF Starts
<1>4. /\ AddRegister(c) => pc[c] = "register"
      /\ LookUp(c) => pc[c] = "look"
      /\ AddDefault(c) => pc[c] = "default"
      /\ ReadConfig(c) => pc[c] = "activate"
      /\ Publish(c) \/ BuildFails(c) => pc[c] = "publish"
      /\ RemoveCheck(c) => pc[c] = "remove"
      /\ RemoveUnregister(c) => pc[c] = "unregister"
      /\ RemoveDrop(c) => pc[c] = "drop"
      /\ SwitchTo(c) => pc[c] = "switch"
  BY DEF AddRegister, LookUp, AddDefault, ReadConfig, Publish, BuildFails, RemoveCheck, RemoveUnregister,
         RemoveDrop, SwitchTo
<1>5. /\ ListVaults(c) => pc[c] = "list"
      /\ Truncate(c) => pc[c] = "truncate"
      /\ WriteVaults(c) => pc[c] = "write"
      /\ WriteMetadata(c) => pc[c] = "metadata"
      /\ SaveFails(c) => pc[c] \in {"truncate", "write", "metadata"}
      /\ BeginConfig(c) => pc[c] = "config"
      /\ BeginFree(c) => pc[c] = "free"
      /\ OpenBranch(c) => pc[c] = "branch"
      /\ OpenWorktree(c) => pc[c] = "worktree"
      /\ RecordFanout(c) => pc[c] = "record"
  BY DEF ListVaults, Truncate, WriteVaults, WriteMetadata, SaveFails, BeginConfig, BeginFree, OpenBranch,
         OpenWorktree, RecordFanout
<1>6. End(c) => pc[c] \in Ending \cup {"find", "next"}
  BY DEF End, FindRecord, OpenBase, ReadTips, Advance, RemoveDir, PruneWorktree, Clean, DeleteBranch,
         Deregister, ForgetFanout, ShutdownNext, Exit, Ending
<1> QED BY <1>1, <1>2, <1>3, <1>4, <1>5, <1>6 DEF Register1, Save, Begin, Ending

\* A manager that is about to be published serves what its name stands for.
ManagerInv ==
  /\ ManagersAreCurrent
  /\ "removal" \notin raced =>
       \A c \in Clients : pc[c] = "publish" /\ loc[c].name \in Bases => vaults[loc[c].name] = loc[c].dir

LEMMA ManagerInit == Init => ManagerInv
  BY DEF Init, ManagerInv, ManagersAreCurrent

LEMMA ManagerStep == TypeInv /\ ManagerInv /\ [Next]_vars => ManagerInv'
<1> SUFFICES ASSUME TypeInv, ManagerInv, [Next]_vars, "removal" \notin raced' PROVE
      /\ \A n \in Bases : \/ managers'[n] = NoManager \/ managers'[n].dir = vaults'[n]
                          \/ \E c \in Clients : pc'[c] = "drop" /\ loc'[c].name = n
      /\ \A c \in Clients : pc'[c] = "publish" /\ loc'[c].name \in Bases =>
           vaults'[loc'[c].name] = loc'[c].dir
  BY DEF ManagerInv, ManagersAreCurrent, In
<1>0. managers \in [Names -> {NoManager} \cup [by : Clients, dir : Dirs]]
  BY DEF TypeInv, TypeOK
<1>1. CASE Restarted
  BY <1>1 DEF Restarted, Idle
<1>2. CASE ~Restarted
  <2>0. "removal" \notin raced
    BY <1>2, RacesRemembered
  <2>1. ASSUME NEW n \in Bases
        PROVE  \/ managers'[n] = NoManager \/ managers'[n].dir = vaults'[n]
               \/ \E c \in Clients : pc'[c] = "drop" /\ loc'[c].name = n
    <3>1. ASSUME NEW c \in Clients, Publish(c), n = loc[c].name, managers'[n].dir = loc[c].dir
          PROVE  managers'[n].dir = vaults'[n]
      BY <2>0, <3>1, RegistryAlone DEF Publish, ManagerInv, registry
    <3>2. CASE managers'[n] = managers[n]
      <4>1. CASE managers[n] # NoManager /\ managers[n].dir = vaults[n]
        <5>1. vaults[n] # NoVault
          BY <1>0, <4>1
        <5>2. ASSUME NEW c \in Clients, Deregister(c), n = FanName[loc[c].id] PROVE FALSE
          BY <5>2, TypeFacts, InHand DEF Deregister, Legal, Ending
        <5>3. ASSUME NEW c \in Clients, RemoveUnregister(c), n = loc[c].name, n \in Registered
              PROVE  pc'[c] = "drop" /\ loc'[c].name = n
          <6>1. pc \in [Clients -> Sections] /\ loc \in [Clients -> Loc]
            BY TypeFacts DEF CallsOK
          <6> QED BY <5>3, <6>1 DEF RemoveUnregister, Go
        <5> QED BY <1>2, <3>2, <4>1, <5>1, <5>2, <5>3, VaultSteps
      <4>2. ASSUME NEW c \in Clients, pc[c] = "drop", loc[c].name = n
            PROVE  managers'[n] = NoManager \/ (pc'[c] = "drop" /\ loc'[c].name = n)
        <5>1. CASE SameCall(c)
          BY <4>2, <5>1 DEF SameCall
        <5>2. CASE ~SameCall(c)
          BY <1>0, <1>2, <4>2, <5>2, OwnStep DEF RemoveDrop
        <5> QED BY <5>1, <5>2
      <4> QED BY <2>0, <3>2, <4>1, <4>2 DEF ManagerInv, ManagersAreCurrent, In
    <3> QED BY <1>2, <3>1, <3>2, ManagerSteps
  <2>2. ASSUME NEW c \in Clients, pc'[c] = "publish", loc'[c].name \in Bases
        PROVE  vaults'[loc'[c].name] = loc'[c].dir
    <3>1. \/ SameCall(c)
          \/ ReadConfig(c) /\ loc'[c].name = loc[c].name /\ loc'[c].dir = vaults[loc[c].name]
      BY <2>2, Moves DEF Moved, Starts, StartSections, GoesOn, GoesOnWith
    <3>2. CASE SameCall(c)
      <4>1. /\ pc[c] = "publish" /\ loc[c].name \in Bases /\ vaults[loc[c].name] = loc[c].dir
            /\ loc[c].dir \in Dirs
        BY <2>0, <2>2, <3>2, TypeFacts, InHand DEF SameCall, ManagerInv, Legal
      <4>2. vaults'[loc[c].name] = vaults[loc[c].name]
        BY <1>2, <4>1, VaultStays DEF Registered
      <4> QED BY <3>2, <4>1, <4>2 DEF SameCall
    <3> QED BY <3>1, <3>2, RegistryAlone DEF registry
  <2> QED BY <2>1, <2>2
<1> QED BY <1>1, <1>2

-----------------------------------------------------------------------------
(* What a restart finds again.                                             *)

Saving == {"truncate", "write"}

\* The project cache holds, or is about to be given, what the name stands for.
Backed(n) ==
  \/ saved.vaults[n] = vaults[n] /\ \A c \in Clients : pc[c] \notin Saving
  \/ \E c \in Clients : pc[c] \in Saving /\ loc[c].of[n] = vaults[n]

\* A call that changed the name, or is about to serve it, has its save ahead.
WillSave(c, n) ==
  /\ loc[c].name = n
  /\ \/ pc[c] \in {"drop", "list"}
     \/ pc[c] \in {"default", "activate", "publish"} /\ loc[c].how = "add" /\ n \in Registered

SaveInv == "saves" \notin raced =>
  /\ \A c, d \in Clients : {pc[c], pc[d]} \subseteq Saving \cup {"metadata"} => c = d
  /\ \A n \in Names : n \in unsaved \/ Backed(n) \/ \E c \in Clients : WillSave(c, n)

LEMMA SaveInit == Init => SaveInv
<1> SUFFICES ASSUME Init PROVE SaveInv
  OBVIOUS
<1>1. saved.vaults = vaults /\ pc = [c \in Clients |-> "idle"]
  BY DEF Init
<1> QED BY <1>1 DEF SaveInv, Backed, Saving

\* Saving starts with the list, and nothing but the list clears what is unsaved.
LEMMA SavingStarts ==
  ASSUME TypeInv, [Next]_vars, NEW c \in Clients, pc'[c] \in Saving \cup {"metadata"}
  PROVE  \/ ListVaults(c)
         \/ pc[c] \in Saving \cup {"metadata"} /\ (pc'[c] \in Saving => pc[c] \in Saving)
BY Moves DEF Moved, SameCall, Starts, StartSections, GoesOn, GoesOnWith, Saving, Truncate, WriteVaults

LEMMA UnsavedGrows ==
  ASSUME [Next]_vars, ~Restarted, \A c \in Clients : ~ListVaults(c)
  PROVE  unsaved \subseteq unsaved'
<1>1. ASSUME NEW c \in Clients, Mapping(c) PROVE unsaved \subseteq unsaved'
  BY <1>1 DEF Mapping, BuildFails, SaveFails, AddRegister, AddDefault, Publish, AfterPublish, RemoveUnregister, RemoveDrop,
     SwitchTo, Truncate, WriteVaults, WriteMetadata, BeginFree, RecordFanout,
     FindRecord, Deregister, ForgetFanout, past
<1> QED BY <1>1, Mappers

\* A name that changes is noted, or has a save ahead.
LEMMA ChangesAreSaved ==
  ASSUME TypeInv, [Next]_vars, ~Restarted, NEW n \in Names, vaults'[n] # vaults[n]
  PROVE  n \in unsaved' \/ \E c \in Clients : WillSave(c, n)'
<1>0. pc \in [Clients -> Sections] /\ loc \in [Clients -> Loc]
  BY TypeFacts DEF CallsOK
<1>g. ASSUME NEW c \in Clients, NEW to, Go(c, to, loc[c]) PROVE pc'[c] = to /\ loc'[c] = loc[c]
  BY <1>0, <1>g DEF Go
<1>1. ASSUME NEW c \in Clients, AddRegister(c), n = Named(c), loc[c].dir \in Dirs,
             vaults'[n] = loc[c].dir, loc[c].how = "add"
      PROVE  WillSave(c, n)'
  <2>1. n = loc[c].name /\ n \in Registered'
    BY <1>1 DEF Named, Registered
  <2>2. Go(c, "default", loc[c]) \/ Go(c, "activate", loc[c])
    BY <1>1 DEF AddRegister, AfterRegister
  <2>3. pc'[c] \in {"default", "activate"} /\ loc'[c] = loc[c]
    BY <2>2, <1>g
  <2> QED BY <1>1, <2>1, <2>3 DEF WillSave
<1>2. ASSUME NEW c \in Clients, RemoveUnregister(c), n = loc[c].name, n \in Registered
      PROVE  WillSave(c, n)'
  <2>1. pc'[c] = "drop" /\ loc'[c] = loc[c]
    BY <1>2, <1>g DEF RemoveUnregister
  <2> QED BY <1>2, <2>1 DEF WillSave
<1> QED BY <1>1, <1>2, VaultSteps

\* A save that is ahead stays ahead until the list is made.
LEMMA SaversStay ==
  ASSUME TypeInv, [Next]_vars, ~Restarted, \A c \in Clients : ~ListVaults(c),
         NEW n \in Names, NEW c \in Clients, WillSave(c, n)
  PROVE  n \in unsaved' \/ \E d \in Clients : WillSave(d, n)'
<1>0. pc \in [Clients -> Sections] /\ loc \in [Clients -> Loc]
  BY TypeFacts DEF CallsOK
<1>1. CASE vaults'[n] # vaults[n]
  BY <1>1, ChangesAreSaved
<1>2. CASE vaults'[n] = vaults[n] /\ SameCall(c)
  BY <1>2 DEF WillSave, SameCall, Registered
<1>3. CASE vaults'[n] = vaults[n] /\ ~SameCall(c)
  <2>g. ASSUME NEW to, Go(c, to, loc[c]) PROVE pc'[c] = to /\ loc'[c] = loc[c]
    BY <1>0, <2>g DEF Go
  <2>1. CASE pc[c] = "list"
    BY <1>3, <2>1, OwnStep
  <2>2. CASE pc[c] = "drop"
    <3>1. pc'[c] = "list" /\ loc'[c] = loc[c]
      BY <1>3, <2>2, <2>g, OwnStep DEF RemoveDrop
    <3> QED BY <3>1 DEF WillSave
  <2>3. CASE pc[c] = "publish" /\ loc[c].how = "add" /\ n \in Registered
    <3>1. CASE Publish(c)
      <4>1. pc'[c] = "list" /\ loc'[c] = loc[c]
        BY <2>3, <2>g, <3>1 DEF Publish, AfterPublish
      <4> QED BY <4>1 DEF WillSave
    <3>2. CASE BuildFails(c)
      BY <2>3, <3>2 DEF BuildFails, WillSave
    <3> QED BY <1>3, <2>3, <3>1, <3>2, OwnStep
  <2>4. CASE pc[c] = "default" /\ loc[c].how = "add" /\ n \in Registered
    <3>1. pc'[c] = "activate" /\ loc'[c] = loc[c]
      BY <1>3, <2>4, <2>g, OwnStep DEF AddDefault, AfterRegister
    <3> QED BY <1>3, <2>4, <3>1 DEF WillSave, Registered
  <2>5. CASE pc[c] = "activate" /\ loc[c].how = "add" /\ n \in Registered
    <3>1. ReadConfig(c) /\ loc[c].name = n
      BY <1>3, <2>5, OwnStep DEF WillSave
    <3>2. pc'[c] = "publish"
      BY <1>0, <2>5, <3>1 DEF ReadConfig, Go
    <3>3. loc'[c].name = n /\ loc'[c].how = "add"
      <4>1. ~SameCall(c) /\ pc'[c] # "idle"
        BY <1>3, <3>2
      <4> QED BY <2>5, <3>1, <3>2, <4>1, Moves DEF Moved, Starts, StartSections, GoesOn, GoesOnWith
    <3> QED BY <1>3, <2>5, <3>2, <3>3 DEF WillSave, Registered
  <2> QED BY <2>1, <2>2, <2>3, <2>4, <2>5 DEF WillSave
<1> QED BY <1>1, <1>2, <1>3

LEMMA SaveStep == TypeInv /\ SaveInv /\ [Next]_vars => SaveInv'
<1> SUFFICES ASSUME TypeInv, SaveInv, [Next]_vars, "saves" \notin raced' PROVE
      /\ \A c, d \in Clients : {pc'[c], pc'[d]} \subseteq Saving \cup {"metadata"} => c = d
      /\ \A n \in Names : n \in unsaved' \/ Backed(n)' \/ \E c \in Clients : WillSave(c, n)'
  BY DEF SaveInv
<1>0. pc \in [Clients -> Sections] /\ loc \in [Clients -> Loc]
  BY TypeFacts DEF CallsOK
<1>1. CASE Restarted
  <2>1. vaults' = saved.vaults /\ saved' = saved /\ \A c \in Clients : pc'[c] = "idle"
    BY <1>1 DEF Restarted, Restart, Restore, Idle
  <2> QED BY <2>1 DEF Backed, Saving
<1>2. CASE ~Restarted
  <2>0. /\ \A c, d \in Clients : {pc[c], pc[d]} \subseteq Saving \cup {"metadata"} => c = d
        /\ \A n \in Names : n \in unsaved \/ Backed(n) \/ \E c \in Clients : WillSave(c, n)
    BY <1>2, RacesRemembered DEF SaveInv
  <2>l. ASSUME NEW c \in Clients, ListVaults(c)
        PROVE  /\ pc'[c] = "truncate" /\ loc'[c].of = vaults /\ vaults' = vaults
               /\ \A d \in Clients : pc[d] \notin Saving \cup {"metadata"}
    <3>1. pc'[c] = "truncate" /\ vaults' = vaults
      BY <1>0, <2>l DEF ListVaults, Go, memory, registry
    <3>2. loc'[c].of = vaults
      <4>1. ~SameCall(c)
        BY <2>l, <3>1 DEF ListVaults, SameCall
      <4> QED BY <3>1, <4>1, Moves DEF Moved, Starts, StartSections, GoesOn, GoesOnWith
    <3>3. \A d \in Clients : pc[d] \notin Saving \cup {"metadata"}
      BY <2>l DEF ListVaults, In, Saving
    <3> QED BY <3>1, <3>2, <3>3
  <2>1. ASSUME NEW c \in Clients, NEW d \in Clients, {pc'[c], pc'[d]} \subseteq Saving \cup {"metadata"}
        PROVE  c = d
    <3>1. ASSUME NEW a \in Clients, NEW b \in Clients, ListVaults(a), a # b,
                 pc'[b] \in Saving \cup {"metadata"}
          PROVE  FALSE
      <4>1. SameCall(b)
        <5>1. ~Exit(a)
          BY <3>1 DEF ListVaults, Exit
        <5> QED BY <3>1, <5>1, OthersStay DEF Save
      <4> QED BY <2>l, <3>1, <4>1 DEF SameCall
    <3> QED BY <2>0, <2>1, <3>1, SavingStarts
  <2>2. ASSUME NEW n \in Names
        PROVE  n \in unsaved' \/ Backed(n)' \/ \E c \in Clients : WillSave(c, n)'
    <3>1. CASE \E c \in Clients : ListVaults(c)
      BY <2>l, <3>1 DEF Backed, Saving
    <3>2. CASE \A c \in Clients : ~ListVaults(c)
      <4>1. CASE n \in unsaved
        BY <1>2, <3>2, <4>1, UnsavedGrows
      <4>2. CASE \E c \in Clients : WillSave(c, n)
        BY <1>2, <3>2, <4>2, SaversStay
      <4>3. CASE Backed(n) /\ vaults'[n] = vaults[n]
        <5>1. CASE saved.vaults[n] = vaults[n] /\ \A c \in Clients : pc[c] \notin Saving
          <6>1. \A c \in Clients : pc'[c] \notin Saving
            BY <3>2, <5>1, SavingStarts
          <6>2. saved'.vaults = saved.vaults
            BY <5>1, SavedSteps DEF Truncate, WriteVaults, Saving
          <6> QED BY <4>3, <5>1, <6>1, <6>2 DEF Backed
        <5>2. ASSUME NEW c \in Clients, pc[c] \in Saving, loc[c].of[n] = vaults[n]
              PROVE  n \in unsaved' \/ Backed(n)'
          <6>1. CASE SameCall(c)
            BY <4>3, <5>2, <6>1 DEF SameCall, Backed
          <6>2. CASE Truncate(c) /\ ~SameCall(c)
            <7>1. pc'[c] = "write"
              BY <1>0, <6>2 DEF Truncate, Go
            <7>2. loc'[c].of = loc[c].of
              BY <6>2, <7>1, Moves DEF Moved, Starts, StartSections, GoesOn, GoesOnWith
            <7> QED BY <4>3, <5>2, <7>1, <7>2 DEF Backed, Saving
          <6>3. CASE WriteVaults(c) /\ ~SameCall(c)
            <7>1. pc'[c] = "metadata" /\ pc[c] = "write"
              BY <1>0, <6>3 DEF WriteVaults, Go
            <7>2. saved'.vaults = loc[c].of
              <8>1. saved \in [vaults : Directories, active : Names \cup {NoVault}]
                BY DEF TypeInv, StoreOK
              <8> QED BY <6>3, <8>1 DEF WriteVaults
            <7>3. ASSUME NEW d \in Clients, pc'[d] \in Saving PROVE FALSE
              BY <2>0, <3>2, <5>2, <7>1, <7>3, SavingStarts DEF Saving
            <7> QED BY <4>3, <5>2, <7>2, <7>3 DEF Backed
          <6>4. CASE SaveFails(c) /\ ~SameCall(c)
            <7>1. pc'[c] = "idle" /\ saved' = saved /\ (n \in unsaved' \/ saved.vaults[n] = loc[c].of[n])
              BY <1>0, <6>4 DEF SaveFails, Missed, Return, Go, disk
            <7>2. ASSUME NEW d \in Clients, pc'[d] \in Saving PROVE FALSE
              BY <2>0, <3>2, <5>2, <7>1, <7>2, SavingStarts DEF Saving
            <7> QED BY <4>3, <5>2, <7>1, <7>2 DEF Backed
          <6> QED BY <1>2, <5>2, <6>1, <6>2, <6>3, <6>4, OwnStep DEF Saving
        <5> QED BY <4>3, <5>1, <5>2 DEF Backed
      <4>4. CASE vaults'[n] # vaults[n]
        BY <1>2, <4>4, ChangesAreSaved
      <4> QED BY <2>0, <4>1, <4>2, <4>3, <4>4
    <3> QED BY <3>1, <3>2
  <2> QED BY <2>1, <2>2
<1> QED BY <1>1, <1>2

\* With every call idle, only what is backed is left.
LEMMA QuietIsBacked == SaveInv => RestartRemembers
<1> SUFFICES ASSUME SaveInv, In({"idle"}) = Clients, "saves" \notin raced, NEW n \in Names \ unsaved
             PROVE  saved.vaults[n] = vaults[n]
  BY DEF RestartRemembers
<1>1. \A c \in Clients : pc[c] = "idle"
  BY DEF In
<1> QED BY <1>1 DEF SaveInv, Backed, WillSave, Saving

-----------------------------------------------------------------------------
(* One fan-out per base vault.                                             *)

\* An opening call that has a fan-out of its own.
HasId(c) == IsOpening(c) /\ pc[c] # "branch"

\* The name of a worktree that was never opened is not in use.
Unknown(v) == \A i \in Ids : wip[i].base = NoVault => v[FanName[i]] = NoVault

RecordInv ==
  /\ Unknown(vaults) /\ Unknown(saved.vaults)
  /\ \A c \in Clients : pc[c] \in Saving => Unknown(loc[c].of)
  /\ \A c \in Clients : HasId(c) => wip[loc[c].id].base = loc[c].name
  /\ \A c, d \in Clients : HasId(c) /\ HasId(d) /\ loc[c].id = loc[d].id => c = d
  /\ \A b \in Names : fanouts[b] # NoId =>
       /\ wip[fanouts[b]].base = b
       /\ \A c \in Clients : HasId(c) => loc[c].id # fanouts[b]

LEMMA IdsInHand ==
  ASSUME TypeInv, NEW c \in Clients
  PROVE  /\ IsOpening(c) \/ pc[c] = "free" => loc[c].name \in Names
         /\ HasId(c) => loc[c].id \in Ids
         /\ pc[c] \in Ending => loc[c].id \in Ids /\ loc[c].name \in Names
  BY TypeFacts, InHand DEF IsOpening, HasId, Opening, Legal

LEMMA BaseStays ==
  ASSUME TypeInv, [Next]_vars, NEW i \in Ids
  PROVE  /\ wip[i].base \in Names => wip'[i].base = wip[i].base
         /\ wip'[i].base = NoVault => wip[i].base = NoVault
         /\ wip[i].base \in Names \cup {NoVault}
<1>1. wip[i].base \in Names \cup {NoVault}
  BY TypeFacts DEF Wip
<1> QED BY <1>1, WipSteps DEF Kept, Opened, Fresh

\* How a call comes to be opening a fan-out, and to have its id.
LEMMA OpeningSteps ==
  ASSUME TypeInv, [Next]_vars, NEW c \in Clients, IsOpening(c)'
  PROVE  /\ loc'[c].name = loc[c].name
         /\ IsOpening(c) \/ (BeginFree(c) /\ pc'[c] = "branch")
<1>1. CASE SameCall(c)
  BY <1>1 DEF SameCall, IsOpening
<1>2. CASE Starts(c)
  BY <1>2 DEF Starts, StartSections, IsOpening, Opening
<1>3. CASE GoesOn(c)
  BY <1>3 DEF GoesOn, IsOpening, Opening, AddRegister, AddDefault, BeginFree, OpenWorktree
<1>4. CASE GoesOnWith(c)
  <2>1. OpenBranch(c) /\ loc'[c].name = loc[c].name
    BY <1>4 DEF GoesOnWith, IsOpening, Opening
  <2> QED BY <2>1, TypeFacts, InHand DEF OpenBranch, IsOpening, Opening, Legal
<1> QED BY <1>1, <1>2, <1>3, <1>4, Moves DEF Moved, IsOpening, Opening

LEMMA IdSteps ==
  ASSUME TypeInv, TypeInv', [Next]_vars, NEW c \in Clients, HasId(c)'
  PROVE  /\ loc'[c].name = loc[c].name /\ loc'[c].id \in Ids /\ loc[c].name \in Names
         /\ \/ HasId(c) /\ loc'[c].id = loc[c].id
            \/ /\ OpenBranch(c) /\ pc'[c] = "worktree"
               /\ wip[loc'[c].id] = Fresh /\ wip'[loc'[c].id].base = loc[c].name
<1>0. IsOpening(c)' /\ pc'[c] # "branch"
  BY DEF HasId
<1>1. loc'[c].name = loc[c].name /\ IsOpening(c)
  BY <1>0, OpeningSteps
<1>2. loc[c].name \in Names
  BY <1>1, IdsInHand
<1>3. loc'[c].id \in Ids
  <2>1. Legal(pc'[c], loc'[c])
    BY DEF TypeInv, CallsOK
  <2> QED BY <1>0, <2>1 DEF IsOpening, Opening, Legal
<1>4. CASE SameCall(c)
  BY <1>0, <1>1, <1>2, <1>3, <1>4 DEF SameCall, HasId
<1>5. CASE GoesOn(c)
  BY <1>0, <1>1, <1>2, <1>3, <1>5 DEF GoesOn, HasId, IsOpening, Opening, AddRegister, AddDefault,
     BeginFree, OpenWorktree
<1>6. CASE GoesOnWith(c)
  BY <1>0, <1>1, <1>2, <1>3, <1>6 DEF GoesOnWith, IsOpening, Opening
<1> QED BY <1>0, <1>1, <1>2, <1>3, <1>4, <1>5, <1>6, Moves DEF Moved, IsOpening, Opening, Starts, StartSections

\* Two calls do not move at once.
LEMMA OneMoves ==
  ASSUME TypeInv, NEW c \in Clients, NEW d \in Clients, c # d
  PROVE  /\ OpenBranch(c) => SameCall(d)
         /\ BeginFree(c) => SameCall(d)
         /\ FindRecord(c) => SameCall(d)
<1>1. (Begin(c) \/ FindRecord(c)) /\ ~Exit(c) => SameCall(d)
  BY OthersStay DEF End
<1>2. OpenBranch(c) \/ BeginFree(c) \/ FindRecord(c) => ~Exit(c)
  BY DEF OpenBranch, BeginFree, FindRecord, Exit
<1> QED BY <1>1, <1>2 DEF Begin

LEMMA RecordInit == Init => RecordInv
<1> SUFFICES ASSUME Init PROVE RecordInv
  OBVIOUS
<1>1. Unknown(vaults)
  <2>1. \A i \in Ids : FanName[i] \in Names /\ FanName[i] \notin Bases
    OBVIOUS
  <2>2. CASE vaults = [n \in Names |-> NoVault]
    BY <2>1, <2>2 DEF Unknown
  <2>3. CASE \E d \in Dirs \ (Ids \cup {Repo}) : vaults = [n \in Names |->
               IF n = Least(Bases) THEN Repo ELSE IF n \in Bases THEN d ELSE NoVault]
    <3>1. Least(Bases) \in Bases \cup {NoVault}
      BY LeastIsMember
    <3> QED BY <2>1, <2>3, <3>1 DEF Unknown
  <2> QED BY <2>2, <2>3 DEF Init
<1>2. saved.vaults = vaults /\ pc = [c \in Clients |-> "idle"] /\ fanouts = [n \in Names |-> NoId]
  BY DEF Init
<1> QED BY <1>1, <1>2 DEF RecordInv, HasId, IsOpening, Opening, Saving

LEMMA RecordStep == TypeInv /\ TypeInv' /\ RecordInv /\ [Next]_vars => RecordInv'
<1> SUFFICES ASSUME TypeInv, TypeInv', RecordInv, [Next]_vars PROVE RecordInv'
  OBVIOUS
<1>f. \A i \in Ids : FanName[i] \in Names /\ FanName[i] \notin Bases
  OBVIOUS
<1>1. ASSUME NEW v, Unknown(v) PROVE \A i \in Ids : wip'[i].base = NoVault => v[FanName[i]] = NoVault
  BY <1>1, BaseStays DEF Unknown
<1>2. Unknown(vaults)'
  <2> SUFFICES ASSUME NEW i \in Ids, wip'[i].base = NoVault PROVE vaults'[FanName[i]] = NoVault
    BY DEF Unknown
  <2>1. wip[i].base = NoVault /\ vaults[FanName[i]] = NoVault
    BY BaseStays DEF RecordInv, Unknown
  <2>2. CASE Restarted
    <3>1. vaults' = saved.vaults
      BY <2>2 DEF Restarted, Restart, Restore
    <3> QED BY <1>1, <3>1 DEF RecordInv
  <2>3. ASSUME NEW c \in Clients, AddRegister(c), FanName[i] = Named(c) PROVE FALSE
    <3>1. loc[c].how = "begin"
      BY <1>f, <2>3, TypeFacts, InHand DEF AddRegister, Legal, Named
    <3>2. HasId(c) /\ loc[c].id = i
      <4>1. HasId(c)
        BY <2>3, <3>1 DEF AddRegister, HasId, IsOpening, Opening
      <4> QED BY <2>3, <3>1, <4>1, IdsInHand DEF Named
    <3>3. loc[c].name \in Names
      BY <3>2, IdsInHand DEF HasId
    <3> QED BY <2>1, <3>2, <3>3 DEF RecordInv
  <2> QED BY <1>f, <2>1, <2>2, <2>3, VaultSteps
<1>3. Unknown(saved.vaults)'
  <2>1. ASSUME NEW c \in Clients, WriteVaults(c), saved'.vaults = loc[c].of PROVE Unknown(saved.vaults)'
    <3>1. Unknown(loc[c].of)
      BY <2>1 DEF WriteVaults, RecordInv, Saving
    <3> QED BY <1>1, <2>1, <3>1 DEF Unknown
  <2>2. CASE saved'.vaults = saved.vaults
    BY <1>1, <2>2 DEF RecordInv, Unknown
  <2>3. CASE saved'.vaults = [n \in Names |-> NoVault]
    BY <1>f, <2>3 DEF Unknown
  <2> QED BY <2>1, <2>2, <2>3, SavedSteps
<1>4. ASSUME NEW c \in Clients, pc'[c] \in Saving PROVE Unknown(loc[c].of)'
  <2>1. \/ SameCall(c)
        \/ ListVaults(c) /\ loc'[c].of = vaults
        \/ Truncate(c) /\ loc'[c].of = loc[c].of
    BY <1>4, Moves DEF Moved, Starts, StartSections, GoesOn, GoesOnWith, Saving
  <2>2. PICK v : Unknown(v) /\ loc'[c].of = v
    BY <1>4, <2>1 DEF SameCall, RecordInv, Truncate, Saving
  <2> QED BY <1>1, <2>2 DEF Unknown
<1>5. ASSUME NEW c \in Clients, HasId(c)' PROVE wip'[loc'[c].id].base = loc'[c].name
  <2>1. CASE HasId(c) /\ loc'[c].id = loc[c].id
    BY <1>5, <2>1, IdSteps, BaseStays DEF RecordInv
  <2> QED BY <1>5, <2>1, IdSteps
<1>6. ASSUME NEW c \in Clients, NEW d \in Clients, HasId(c)', HasId(d)', loc'[c].id = loc'[d].id, c # d
      PROVE  FALSE
  <2>1. ASSUME NEW a \in Clients, NEW b \in Clients, a # b, HasId(a)', HasId(b)', loc'[a].id = loc'[b].id,
               OpenBranch(a), wip[loc'[a].id] = Fresh
        PROVE  FALSE
    <3>1. CASE HasId(b) /\ loc'[b].id = loc[b].id
      BY <2>1, <3>1, IdSteps DEF RecordInv, Fresh
    <3>2. CASE OpenBranch(b) /\ pc'[b] = "worktree"
      BY <2>1, <3>2, OneMoves DEF SameCall, OpenBranch
    <3> QED BY <2>1, <3>1, <3>2, IdSteps
  <2> QED BY <1>6, <2>1, IdSteps DEF RecordInv
<1>7. ASSUME NEW b \in Names, fanouts'[b] # NoId
      PROVE  /\ wip'[fanouts'[b]].base = b
             /\ \A c \in Clients : HasId(c)' => loc'[c].id # fanouts'[b]
  <2>1. CASE Restarted
    BY <1>7, <2>1 DEF Restarted, Idle
  <2>2. CASE fanouts'[b] = fanouts[b]
    <3>1. fanouts[b] \in Ids /\ wip[fanouts[b]].base = b
      BY <1>7, <2>2, TypeFacts DEF RecordInv
    <3>2. wip'[fanouts[b]].base = b
      BY <3>1, BaseStays
    <3>3. ASSUME NEW c \in Clients, HasId(c)' PROVE loc'[c].id # fanouts[b]
      BY <1>7, <2>2, <3>1, <3>3, IdSteps DEF RecordInv, Fresh
    <3> QED BY <2>2, <3>2, <3>3
  <2>3. ASSUME NEW r \in Clients, RecordFanout(r), b = loc[r].name, fanouts'[b] = loc[r].id
        PROVE  /\ wip'[fanouts'[b]].base = b
               /\ \A c \in Clients : HasId(c)' => loc'[c].id # fanouts'[b]
    <3>1. HasId(r) /\ loc[r].id \in Ids
      BY <2>3, IdsInHand, TypeFacts, InHand DEF RecordFanout, HasId, IsOpening, Opening, Legal
    <3>2. wip[loc[r].id].base = b
      BY <2>3, <3>1 DEF RecordInv
    <3>3. wip'[loc[r].id].base = b
      BY <3>1, <3>2, BaseStays
    <3>4. ASSUME NEW c \in Clients, HasId(c)' PROVE loc'[c].id # loc[r].id
      <4>1. CASE HasId(c) /\ loc'[c].id = loc[c].id
        <5>1. pc \in [Clients -> Sections]
          BY TypeFacts DEF CallsOK
        <5>2. pc'[r] = "idle"
          BY <2>3, <5>1 DEF RecordFanout, Return, Go
        <5>3. c # r
          BY <3>4, <5>2 DEF HasId, IsOpening, Opening
        <5> QED BY <3>1, <4>1, <5>3 DEF RecordInv
      <4>2. CASE wip[loc'[c].id] = Fresh
        BY <3>2, <4>2 DEF Fresh
      <4> QED BY <3>4, <4>1, <4>2, IdSteps
    <3> QED BY <2>3, <3>3, <3>4
  <2> QED BY <1>7, <2>1, <2>2, <2>3, FanoutSteps
<1> QED BY <1>2, <1>3, <1>4, <1>5, <1>6, <1>7 DEF RecordInv

\* Orderly: no two begins passed the check at once, and no two calls end one
\* fan-out.  (The signal handler does not forget records.)
Orderly == raced \cap {"begins", "ends"} = {}

Ender(c) == pc[c] \in Ending /\ loc[c].how # "shutdown"

\* A fan-out of this run of the server that is registered: so it is recorded, or
\* about to be.
Live(i) == FanName[i] \in Registered /\ "orphaned" \notin settled[i]

Pending(c) == pc[c] \in {"default", "record"} /\ loc[c].how = "begin"

OneInv == Orderly =>
  /\ \A c, d \in Clients : Ender(c) /\ Ender(d) /\ loc[c].id = loc[d].id => c = d
  /\ \A c \in Clients : Ender(c) => fanouts[loc[c].name] = loc[c].id
  /\ \A c \in Clients : pc[c] = "forget" => FanName[loc[c].id] \notin Registered
  /\ \A c \in Clients : IsOpening(c) => fanouts[loc[c].name] = NoId
  /\ \A c, d \in Clients : IsOpening(c) /\ IsOpening(d) /\ loc[c].name = loc[d].name => c = d
  /\ \A i \in Ids : Live(i) =>
       \/ fanouts[wip[i].base] = i
       \/ \E c \in Clients : Pending(c) /\ loc[c].id = i

LEMMA OneInit == Init => OneInv
<1> SUFFICES ASSUME Init PROVE OneInv
  OBVIOUS
<1>1. Unknown(vaults)
  BY RecordInit DEF RecordInv
<1>2. \A i \in Ids : wip[i].base = NoVault
  BY DEF Init, Fresh
<1>3. \A i \in Ids : ~Live(i)
  BY <1>1, <1>2 DEF Unknown, Live, Registered
<1>4. pc = [c \in Clients |-> "idle"]
  BY DEF Init
<1> QED BY <1>3, <1>4 DEF OneInv, IsOpening, Opening, Ender, Ending

\* How a call comes to be ending a fan-out.
LEMMA EnderSteps ==
  ASSUME TypeInv, TypeInv', [Next]_vars, NEW c \in Clients, Ender(c)'
  PROVE  /\ loc'[c].id \in Ids /\ loc'[c].name \in Names
         /\ \/ Ender(c) /\ loc'[c].id = loc[c].id /\ loc'[c].name = loc[c].name
            \/ /\ FindRecord(c) /\ pc'[c] = "base" /\ fanouts[loc'[c].name] = loc'[c].id
               /\ \A d \in Clients : pc[d] \in Ending /\ loc[d].id = loc'[c].id => "ends" \in raced'
<1>1. loc'[c].id \in Ids /\ loc'[c].name \in Names
  <2>1. Legal(pc'[c], loc'[c])
    BY DEF TypeInv, CallsOK
  <2> QED BY <2>1 DEF Ender, Legal
<1> DEFINE Old == Ender(c) /\ loc'[c].id = loc[c].id /\ loc'[c].name = loc[c].name
<1>2. CASE SameCall(c)
  BY <1>1, <1>2 DEF SameCall, Ender
<1>3. CASE Starts(c)
  BY <1>3 DEF Starts, StartSections, Ender, Ending
<1>4. CASE GoesOn(c)
  <2>1. Old
    BY <1>4 DEF GoesOn, Ender, Ending, OpenBase, RemoveDir, PruneWorktree, Clean, DeleteBranch, Deregister
  <2> QED BY <1>1, <2>1
<1>5. CASE GoesOnWith(c)
  <2>1. CASE FindRecord(c) /\ pc'[c] = "base"
    <3>0. pc \in [Clients -> Sections] /\ loc \in [Clients -> Loc] /\ loc[c] \in Loc
      BY TypeFacts DEF CallsOK
    <3>1. PICK b \in Names :
            /\ Go(c, "base", [loc[c] EXCEPT !.name = b, !.id = fanouts[b]])
            /\ raced' = raced \cup (IF \E d \in In(Ending) : loc[d].id = fanouts[b] THEN {"ends"} ELSE {})
      BY <2>1, <3>0 DEF FindRecord, Return, Go
    <3> DEFINE l == [loc[c] EXCEPT !.name = b, !.id = fanouts[b]]
    <3>2. loc'[c] = l /\ l.name = b /\ l.id = fanouts[b]
      BY <3>0, <3>1 DEF Go, Loc
    <3> HIDE DEF l
    <3> QED BY <1>1, <2>1, <3>1, <3>2 DEF In
  <2>2. CASE ~(FindRecord(c) /\ pc'[c] = "base")
    <3>1. Old
      BY <1>5, <2>2 DEF GoesOnWith, Ender, Ending, ReadTips, Advance, RemoveDir, PruneWorktree, Clean
    <3> QED BY <1>1, <3>1
  <2> QED BY <2>1, <2>2
<1> QED BY <1>2, <1>3, <1>4, <1>5, Moves DEF Moved, Ender, Ending

\* What a begin checks.
LEMMA FreeChecks ==
  ASSUME TypeInv, [Next]_vars, NEW c \in Clients, BeginFree(c), pc'[c] = "branch"
  PROVE  /\ fanouts[loc[c].name] = NoId /\ fanouts' = fanouts
         /\ \A d \in Clients : d # c /\ IsOpening(d) /\ loc[d].name = loc[c].name => "begins" \in raced'
<1>1. pc \in [Clients -> Sections]
  BY TypeFacts DEF CallsOK
<1>2. ~Participates(loc[c].name)
  BY <1>1 DEF BeginFree, Return, Go
<1>3. fanouts' = fanouts
  BY DEF BeginFree, memory
<1>4. ASSUME NEW d \in Clients, d # c, IsOpening(d), loc[d].name = loc[c].name PROVE "begins" \in raced'
  BY <1>4 DEF BeginFree, In, IsOpening, Opening
<1> QED BY <1>2, <1>3, <1>4 DEF Participates

\* The call that records a fan-out, or forgets one, is over.
LEMMA RecordersReturn ==
  ASSUME TypeInv, NEW c \in Clients
  PROVE  /\ RecordFanout(c) => pc'[c] = "idle" /\ IsOpening(c) /\ HasId(c) /\ Pending(c)
         /\ ForgetFanout(c) => pc'[c] = "idle" /\ Ender(c) /\ pc[c] = "forget"
<1>1. pc \in [Clients -> Sections]
  BY TypeFacts DEF CallsOK
<1>2. RecordFanout(c) => pc[c] = "record" /\ pc'[c] = "idle" /\ loc[c].how = "begin"
  BY <1>1, TypeFacts, InHand DEF RecordFanout, Return, Go, Legal
<1>3. ForgetFanout(c) => pc[c] = "forget" /\ pc'[c] = "idle" /\ loc[c].how # "shutdown"
  BY <1>1, TypeFacts, InHand DEF ForgetFanout, Return, Go, Legal
<1> QED BY <1>2, <1>3 DEF IsOpening, HasId, Opening, Pending, Ender, Ending

LEMMA OneStep == TypeInv /\ TypeInv' /\ RecordInv /\ OneInv /\ [Next]_vars => OneInv'
<1> SUFFICES ASSUME TypeInv, TypeInv', RecordInv, OneInv, [Next]_vars, Orderly' PROVE
      /\ \A c, d \in Clients : Ender(c)' /\ Ender(d)' /\ loc'[c].id = loc'[d].id => c = d
      /\ \A c \in Clients : Ender(c)' => fanouts'[loc'[c].name] = loc'[c].id
      /\ \A c \in Clients : pc'[c] = "forget" => FanName[loc'[c].id] \notin Registered'
      /\ \A c \in Clients : IsOpening(c)' => fanouts'[loc'[c].name] = NoId
      /\ \A c, d \in Clients : IsOpening(c)' /\ IsOpening(d)' /\ loc'[c].name = loc'[d].name => c = d
      /\ \A i \in Ids : Live(i)' =>
           \/ fanouts'[wip'[i].base] = i
           \/ \E c \in Clients : Pending(c)' /\ loc'[c].id = i
  BY DEF OneInv
<1>f. \A i \in Ids : FanName[i] \in Names /\ FanName[i] \notin Bases
  OBVIOUS
<1>1. CASE Restarted
  <2>1. \A c \in Clients : pc'[c] = "idle"
    BY <1>1 DEF Restarted, Idle
  <2>2. ASSUME NEW i \in Ids PROVE ~Live(i)'
    <3>1. vaults' = saved.vaults /\ settled'[i] = settled[i] \cup (IF wip[i] = Fresh THEN {} ELSE {"orphaned"})
      BY <1>1 DEF Restarted, Restart, Restore
    <3>2. wip[i] = Fresh => vaults'[FanName[i]] = NoVault
      BY <3>1 DEF RecordInv, Unknown, Fresh
    <3> QED BY <3>1, <3>2 DEF Live, Registered
  <2> QED BY <2>1, <2>2 DEF IsOpening, Opening, Ender, Ending
<1>2. CASE ~Restarted
  <2>0. Orderly /\ "begins" \notin raced' /\ "ends" \notin raced'
    BY <1>2, RacesRemembered DEF Orderly
  <2>i. fanouts \in [Names -> Ids \cup {NoId}] /\ vaults \in Directories
    BY TypeFacts
  <2>1. ASSUME NEW c \in Clients, NEW d \in Clients, Ender(c)', Ender(d)', loc'[c].id = loc'[d].id, c # d
        PROVE  FALSE
    <3>1. ASSUME NEW a \in Clients, NEW b \in Clients, a # b, Ender(b)', FindRecord(a),
                 loc'[a].id = loc'[b].id,
                 \A e \in Clients : pc[e] \in Ending /\ loc[e].id = loc'[a].id => "ends" \in raced'
          PROVE  FALSE
      <4>1. SameCall(b)
        BY <3>1, OneMoves
      <4> QED BY <2>0, <3>1, <4>1 DEF SameCall, Ender
    <3> QED BY <2>0, <2>1, <3>1, EnderSteps DEF OneInv
  <2>2. ASSUME NEW c \in Clients, Ender(c)' PROVE fanouts'[loc'[c].name] = loc'[c].id
    <3>1. CASE FindRecord(c) /\ fanouts[loc'[c].name] = loc'[c].id
      BY <3>1 DEF FindRecord, memory
    <3>2. CASE Ender(c) /\ loc'[c].id = loc[c].id /\ loc'[c].name = loc[c].name
      <4>1. fanouts[loc[c].name] = loc[c].id /\ loc[c].id \in Ids /\ loc[c].name \in Names
        BY <2>0, <3>2, IdsInHand DEF OneInv, Ender
      <4>2. ASSUME NEW r \in Clients, RecordFanout(r), loc[c].name = loc[r].name PROVE FALSE
        BY <2>0, <4>1, <4>2, RecordersReturn DEF OneInv
      <4>3. ASSUME NEW r \in Clients, ForgetFanout(r), loc[c].name = loc[r].name PROVE FALSE
        <5>1. Ender(r) /\ pc'[r] = "idle"
          BY <4>3, RecordersReturn
        <5>2. loc[r].id = loc[c].id
          BY <2>0, <4>1, <4>3, <5>1 DEF OneInv
        <5>3. r = c
          BY <2>0, <3>2, <5>1, <5>2 DEF OneInv
        <5> QED BY <2>2, <5>1, <5>3 DEF Ender, Ending
      <4> QED BY <1>2, <3>2, <4>1, <4>2, <4>3, FanoutSteps
    <3> QED BY <2>2, <3>1, <3>2, EnderSteps
  <2>3. ASSUME NEW c \in Clients, pc'[c] = "forget" PROVE FanName[loc'[c].id] \notin Registered'
    <3>1. SameCall(c) \/ (Deregister(c) /\ loc'[c] = loc[c])
      BY <2>3, Moves DEF Moved, Starts, StartSections, GoesOn, GoesOnWith
    <3>2. CASE SameCall(c)
      <4>1. /\ pc[c] = "forget" /\ Ender(c) /\ loc[c].id \in Ids /\ loc[c].name \in Names
            /\ FanName[loc[c].id] \notin Registered /\ fanouts[loc[c].name] = loc[c].id
        <5>1. pc[c] = "forget"
          BY <2>3, <3>2 DEF SameCall
        <5>2. Ender(c) /\ pc[c] \in Ending
          BY <5>1, TypeFacts, InHand DEF Ender, Ending, Legal
        <5> QED BY <2>0, <5>1, <5>2, IdsInHand DEF OneInv
      <4>2. ASSUME NEW a \in Clients, AddRegister(a), FanName[loc[c].id] = Named(a) PROVE FALSE
        <5>1. loc[a].how = "begin"
          BY <1>f, <4>1, <4>2, TypeFacts, InHand DEF AddRegister, Legal, Named
        <5>2. HasId(a) /\ loc[a].id = loc[c].id
          <6>1. HasId(a)
            BY <4>2, <5>1 DEF AddRegister, HasId, IsOpening, Opening
          <6> QED BY <4>1, <4>2, <5>1, <6>1, IdsInHand DEF Named
        <5>3. \A b \in Names : fanouts[b] # NoId => loc[a].id # fanouts[b]
          BY <5>2 DEF RecordInv
        <5> QED BY <4>1, <5>2, <5>3
      <4> QED BY <1>2, <1>f, <3>2, <4>1, <4>2, VaultSteps DEF SameCall, Registered
    <3>3. CASE Deregister(c) /\ loc'[c] = loc[c]
      <4>1. loc[c].id \in Ids
        BY <3>3, IdsInHand DEF Deregister, Ending
      <4> QED BY <2>i, <1>f, <3>3, <4>1 DEF Deregister, Unregister, Registered, Directories, registry
    <3> QED BY <3>1, <3>2, <3>3
  <2>4. ASSUME NEW c \in Clients, IsOpening(c)' PROVE fanouts'[loc'[c].name] = NoId
    <3>1. CASE BeginFree(c) /\ pc'[c] = "branch"
      BY <2>4, <3>1, FreeChecks, OpeningSteps
    <3>2. CASE IsOpening(c)
      <4>1. fanouts[loc[c].name] = NoId /\ loc[c].name \in Names
        BY <2>0, <3>2, IdsInHand DEF OneInv
      <4>2. ASSUME NEW r \in Clients, RecordFanout(r), loc[c].name = loc[r].name PROVE FALSE
        <5>1. r = c
          BY <2>0, <3>2, <4>2, RecordersReturn DEF OneInv
        <5> QED BY <2>4, <4>2, <5>1, RecordersReturn DEF IsOpening, Opening
      <4>3. loc'[c].name = loc[c].name
        BY <2>4, OpeningSteps
      <4> QED BY <1>2, <4>1, <4>2, <4>3, FanoutSteps
    <3> QED BY <2>4, <3>1, <3>2, OpeningSteps
  <2>5. ASSUME NEW c \in Clients, NEW d \in Clients, IsOpening(c)', IsOpening(d)',
               loc'[c].name = loc'[d].name, c # d
        PROVE  FALSE
    <3>1. ASSUME NEW a \in Clients, NEW b \in Clients, a # b, IsOpening(a)', IsOpening(b)',
                 loc'[a].name = loc'[b].name, BeginFree(a), pc'[a] = "branch"
          PROVE  FALSE
      <4>1. SameCall(b)
        BY <3>1, OneMoves
      <4>2. IsOpening(b) /\ loc[b].name = loc[a].name
        BY <3>1, <4>1, OpeningSteps DEF SameCall, IsOpening
      <4> QED BY <2>0, <3>1, <4>2, FreeChecks
    <3> QED BY <2>0, <2>5, <3>1, OpeningSteps DEF OneInv
  <2>6. ASSUME NEW i \in Ids, Live(i)'
        PROVE  \/ fanouts'[wip'[i].base] = i
               \/ \E c \in Clients : Pending(c)' /\ loc'[c].id = i
    <3> DEFINE b == wip[i].base
    <3>1. "orphaned" \notin settled[i]
      BY <2>6, HistoryGrows DEF Live
    <3>2. CASE FanName[i] \in Registered
      <4>1. b \in Names /\ wip'[i].base = b
        <5>1. b # NoVault
          BY <3>2 DEF RecordInv, Unknown, Registered
        <5> QED BY <5>1, BaseStays
      <4>2. CASE fanouts[b] = i
        <5>1. ASSUME NEW r \in Clients, RecordFanout(r), b = loc[r].name PROVE FALSE
          BY <2>0, <4>2, <5>1, RecordersReturn DEF OneInv
        <5>2. ASSUME NEW r \in Clients, ForgetFanout(r), b = loc[r].name PROVE FALSE
          <6>1. Ender(r) /\ pc[r] = "forget"
            BY <5>2, RecordersReturn
          <6>2. loc[r].id = i
            BY <2>0, <4>2, <5>2, <6>1 DEF OneInv
          <6> QED BY <2>0, <3>2, <6>1, <6>2 DEF OneInv
        <5> QED BY <1>2, <4>1, <4>2, <5>1, <5>2, FanoutSteps
      <4>3. ASSUME NEW c \in Clients, Pending(c), loc[c].id = i
            PROVE  \/ fanouts'[wip'[i].base] = i
                   \/ \E d \in Clients : Pending(d)' /\ loc'[d].id = i
        <5>0. pc \in [Clients -> Sections] /\ loc \in [Clients -> Loc]
          BY TypeFacts DEF CallsOK
        <5>1. CASE SameCall(c)
          BY <4>3, <5>1 DEF SameCall, Pending
        <5>2. CASE ~SameCall(c) /\ pc[c] = "default"
          <6>1. Go(c, "record", loc[c])
            BY <1>2, <4>3, <5>2, OwnStep DEF AddDefault, AfterRegister, Pending
          <6> QED BY <4>3, <5>0, <6>1 DEF Go, Pending
        <5>3. CASE ~SameCall(c) /\ pc[c] = "record"
          <6>1. RecordFanout(c)
            BY <1>2, <5>3, OwnStep
          <6>2. HasId(c) /\ loc[c].name = b
            BY <4>3, <6>1, RecordersReturn DEF RecordInv
          <6> QED BY <2>i, <4>1, <4>3, <6>1, <6>2 DEF RecordFanout
        <5> QED BY <4>3, <5>1, <5>2, <5>3 DEF Pending
      <4> QED BY <2>0, <3>1, <3>2, <4>2, <4>3 DEF OneInv, Live
    <3>3. CASE FanName[i] \notin Registered
      <4>1. PICK a \in Clients : AddRegister(a) /\ FanName[i] = Named(a)
                                 /\ vaults'[FanName[i]] # vaults[FanName[i]]
        <5>1. vaults'[FanName[i]] # vaults[FanName[i]]
          BY <1>f, <2>6, <3>3 DEF Live, Registered
        <5> QED BY <1>2, <1>f, <2>6, <3>3, <5>1, VaultSteps DEF Live, Registered
      <4>2. loc[a].how = "begin" /\ loc[a].id \in Ids
        BY <1>f, <4>1, TypeFacts, InHand DEF AddRegister, Legal, Named
      <4>3. loc[a].id = i
        BY <4>1, <4>2 DEF Named
      <4>4. Go(a, "default", loc[a]) \/ Go(a, "record", loc[a])
        BY <4>1, <4>2 DEF AddRegister, AfterRegister
      <4>5. pc \in [Clients -> Sections] /\ loc \in [Clients -> Loc]
        BY TypeFacts DEF CallsOK
      <4> QED BY <4>2, <4>3, <4>4, <4>5 DEF Go, Pending
    <3> QED BY <3>2, <3>3
  <2> QED BY <2>1, <2>2, <2>3, <2>4, <2>5, <2>6
<1> QED BY <1>1, <1>2

\* So two live fan-outs have different bases.
LEMMA OneIsEnough == TypeInv /\ RecordInv /\ OneInv => OneFanoutPerVault
<1> SUFFICES ASSUME TypeInv, RecordInv, OneInv, Orderly, NEW i \in Ids, NEW j \in Ids,
                    wip[i].base = wip[j].base, Live(i), Live(j)
             PROVE  i = j
  BY DEF OneFanoutPerVault, Orderly, Live
<1>1. wip[i].base \in Names
  <2>1. wip[i].base \in Names \cup {NoVault}
    BY TypeFacts DEF Wip
  <2> QED BY <2>1 DEF RecordInv, Unknown, Live, Registered
<1>2. ASSUME NEW c \in Clients, Pending(c)
      PROVE  IsOpening(c) /\ HasId(c) /\ fanouts[loc[c].name] = NoId /\ wip[loc[c].id].base = loc[c].name
  <2>1. IsOpening(c) /\ HasId(c)
    BY <1>2 DEF Pending, IsOpening, HasId, Opening
  <2> QED BY <2>1 DEF OneInv, RecordInv
<1>3. ASSUME NEW a \in Ids, NEW b \in Ids, wip[a].base = wip[b].base, fanouts[wip[a].base] = a, a # b
      PROVE  \A c \in Clients : ~(Pending(c) /\ loc[c].id = b)
  BY <1>2, <1>3
<1> QED BY <1>2, <1>3 DEF OneInv

-----------------------------------------------------------------------------
(* The inductive invariant, and the theorems.                              *)

Inv == /\ TypeInv /\ ForkInv /\ WorkInv
       /\ NamesInv /\ EndInv /\ ManagerInv
       /\ SaveInv
       /\ RecordInv /\ OneInv

LEMMA InvHolds == Spec => []Inv
<1>1. Init => Inv
  BY TypeInit, ForkInit, WorkInit, NamesInit, EndInit, ManagerInit, SaveInit, RecordInit, OneInit
     DEF Inv
<1>2. Inv /\ [Next]_vars => Inv'
  <2> SUFFICES ASSUME Inv, [Next]_vars PROVE Inv'
    OBVIOUS
  <2>1. TypeInv' /\ ForkInv' /\ WorkInv'
    BY TypeStep, ForkStep, WorkStep DEF Inv
  <2>2. NamesInv' /\ EndInv' /\ ManagerInv' /\ SaveInv'
    BY NamesStep, EndStep, ManagerStep, SaveStep DEF Inv
  <2>3. RecordInv' /\ OneInv'
    BY <2>1, RecordStep, OneStep DEF Inv
  <2> QED BY <2>1, <2>2, <2>3 DEF Inv
<1> QED BY <1>1, <1>2, PTL DEF Spec

\* Every reachable state has the shape the runs check on small instances.
THEOREM TypeCorrect == Spec => []TypeOK
<1>1. Inv => TypeOK
  BY DEF Inv, TypeInv
<1> QED BY <1>1, InvHolds, PTL

\* No merge, under either strategy, and whatever others commit meanwhile, takes
\* a commit off the branch (commit_fanout's compare-and-swap of the branch).
THEOREM BranchOnlyGrows == Spec => MainOnlyGrows
<1>1. Inv /\ [Next]_vars => [IsPrefix(main, main')]_vars
  BY MainGrows DEF Inv
<1> QED BY <1>1, InvHolds, PTL DEF Spec, MainOnlyGrows

\* A merge that reports success leaves nothing of the fan-out behind, however the
\* merge, the cleanup, other merges and crashes fall (fanout.rs).
THEOREM WorkSurvives == Spec => []AcknowledgedWorkSurvives
<1>1. Inv => AcknowledgedWorkSurvives
  BY DEF Inv, WorkInv
<1> QED BY <1>1, InvHolds, PTL

\* Work in a fan-out nobody ended is recorded or listed as an orphan, after any
\* number of restarts (list_orphan_fanouts).
THEOREM WorkIsListed == Spec => []UnsettledWorkIsListed
<1>1. Inv => UnsettledWorkIsListed
  BY KnownWork DEF Inv
<1> QED BY <1>1, InvHolds, PTL

\* The base vault of a recorded fan-out is the repository, so that commit and
\* abandon find it; but for the two races the property names.
THEOREM EndsAreFound == Spec => []FanoutsCanBeEnded
<1>1. Inv => FanoutsCanBeEnded
  BY DEF Inv, EndInv, Calm, FanoutsCanBeEnded
<1> QED BY <1>1, InvHolds, PTL

\* One fan-out per base vault, managers of the directories their names stand for,
\* an active vault that is registered; but for the races each of them names.
THEOREM MapsAlwaysAgree == Spec => []MapsAgree
<1>1. Inv => OneFanoutPerVault
  BY OneIsEnough DEF Inv
<1>2. Inv => ManagersAreCurrent /\ ActiveIsRegistered
  BY DEF Inv, ManagerInv, EndInv, Calm, ActiveIsRegistered
<1>3. Inv => MapsAgree
  BY <1>1, <1>2 DEF MapsAgree
<1> QED BY <1>3, InvHolds, PTL

\* With every call over, a restart brings back the registrations there are, but for
\* the names whose last change was not saved: by its tool, for a manager that could
\* not be built, or for an error of save_vaults; unless two calls saved at once.
THEOREM RestartsRemember == Spec => []RestartRemembers
<1>1. Inv => RestartRemembers
  BY QuietIsBacked DEF Inv
<1> QED BY <1>1, InvHolds, PTL

=============================================================================

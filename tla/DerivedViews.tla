----------------------------- MODULE DerivedViews -----------------------------
(***************************************************************************)
(* What the server derives from a vault and keeps: the full-text engine,   *)
(* the similarity engine, and the embedding engine with its index file and *)
(* its marker of staleness.                                                *)
(*                                                                         *)
(* A note is a version number: in the vault (`disk`), in the manager's     *)
(* cache (`known`, what the manager wrote or a sweep noticed) and in an    *)
(* engine, a function from notes to versions.  Every client runs one       *)
(* request at a time; `pc` is the section it runs next, and the other      *)
(* requests, and the rebuild in the background, run between any two.  A    *)
(* request may be dropped at any of them, as when its client gives up.     *)
(*                                                                         *)
(* A write, in IndexSync many steps, is one here: it lands and is known.   *)
(***************************************************************************)
EXTENDS Integers, TLC

CONSTANTS
  Clients,      \* callers of tools
  Task,         \* the rebuild that start_reindex spawns
  Nobody,       \* no process
  Notes,
  MaxCalls,     \* bound: requests
  MaxWrites,    \* bound: requests that write
  MaxEdits,     \* bound: saves by people, outside of the server
  MaxFaults     \* bound: dropped requests, crashes, failing rebuilds

ASSUME ViewsAssumption ==
  /\ Task \notin Clients /\ Nobody \notin Clients \cup {Task}
  /\ {MaxCalls, MaxWrites, MaxEdits, MaxFaults} \subseteq Nat

VARIABLES
  disk,      \* disk[n]: the note in the vault
  known,     \* known[n]: the note in the manager's cache
  search,    \* the cached full-text engine
  similar,   \* the cached similarity engine
  dense,     \* the cached embedding engine: its index, its flag, its rebuild switch
  stored,    \* the embedding index on disk
  marker,    \* the file that says it is out of date
  gate,      \* who holds the sweep's lock
  pc, loc,   \* control state of each process's request, and what it read
  answer,    \* what the last step answered
  raced,     \* history: the races that struck
  calls, writes, edits, faults   \* what the bounds count

vault  == <<disk, known>>
lazy   == <<search, similar>>
index  == <<stored, marker>>
bounds == <<calls, writes, edits, faults>>
vars   == <<vault, lazy, dense, index, gate, pc, loc, answer, raced, bounds>>

Procs == Clients \cup {Task}
None == <<>>                       \* no index
NoEngine == [id |-> 0, of |-> None]
Closed == [open |-> FALSE, of |-> None, stale |-> FALSE, running |-> FALSE]
Blank == [id |-> 0, kind |-> "", since |-> None, of |-> None, notes |-> {}, flag |-> FALSE, told |-> 0]

\* A vault without an embedding index, or with one that is current.
Init ==
  /\ disk = [n \in Notes |-> 1]
  /\ known = disk
  /\ search = NoEngine
  /\ similar = NoEngine
  /\ dense = Closed
  /\ stored \in {None, disk}
  /\ marker = FALSE
  /\ gate = Nobody
  /\ pc = [p \in Procs |-> "idle"]
  /\ loc = [p \in Procs |-> Blank]
  /\ answer = Blank
  /\ raced = {}
  /\ calls = 0
  /\ writes = 0
  /\ edits = 0
  /\ faults = 0

-----------------------------------------------------------------------------
(* Requests.                                                               *)

In(sections) == {p \in Procs : pc[p] \in sections}
Go(p, to, l) ==
  /\ pc' = [pc EXCEPT ![p] = to]
  /\ loc' = [loc EXCEPT ![p] = l]
  /\ answer' = Blank
Return(p) == Go(p, "idle", Blank)
Only(p, section) == pc[p] = section /\ UNCHANGED bounds

\* What a request that starts now may expect of note n: all that the manager
\* knows, once nobody is still telling the engines of it.
Settled == [n \in Notes |-> IF \E p \in Procs : n \in loc[p].notes THEN 0 ELSE known[n]]

Call(c, kind) ==
  /\ pc[c] = "idle"
  /\ calls < MaxCalls
  /\ calls' = calls + 1
  /\ Go(c, "gate", [Blank EXCEPT !.id = calls', !.kind = kind, !.since = Settled])
  /\ UNCHANGED <<vault, lazy, dense, index, gate, raced, writes, edits, faults>>

Search(c)  == Call(c, "search")
Similar(c) == Call(c, "similar")
Dense(c)   == Call(c, "dense")
Reindex(c) == Call(c, "reindex")

\* A write lands, and the manager has indexed it; what is left is to tell.
Write(c, n) ==
  /\ pc[c] = "idle"
  /\ calls < MaxCalls /\ writes < MaxWrites
  /\ calls' = calls + 1
  /\ writes' = writes + 1
  /\ disk' = [disk EXCEPT ![n] = @ + 1]
  /\ known' = [known EXCEPT ![n] = disk'[n]]
  /\ Go(c, "find", [Blank EXCEPT !.id = calls', !.kind = "write", !.notes = {n}])
  /\ UNCHANGED <<lazy, dense, index, gate, raced, edits, faults>>

\* Somebody saves a note with an editor.
EditOutside(n) ==
  /\ edits < MaxEdits
  /\ edits' = edits + 1
  /\ disk' = [disk EXCEPT ![n] = @ + 1]
  /\ UNCHANGED <<known, lazy, dense, index, gate, pc, loc, raced, calls, writes, faults>>
  /\ answer' = Blank

-----------------------------------------------------------------------------
(* The freshness gate, and the listener that every change goes through.    *)

Changed == {n \in Notes : disk[n] # known[n]}
Rebuilds(p) == loc[p].kind \in {"rebuild", "refresh"}

\* Past the gate, a rebuild goes on to the notes, a request to its engine.
PastGate(p) == Go(p, IF Rebuilds(p) THEN "scan" ELSE "look",
                  [loc[p] EXCEPT !.notes = {}, !.of = None])

\* The lock is taken before the schedule is looked at: who is not due has
\* waited for the sweep of another.
SkipSweep(p) ==
  /\ Only(p, "gate")
  /\ gate = Nobody
  /\ PastGate(p)
  /\ UNCHANGED <<vault, lazy, dense, index, gate, raced>>

Sweep(p) ==
  /\ Only(p, "gate")
  /\ gate = Nobody
  /\ known' = disk
  /\ IF Changed = {} THEN PastGate(p) /\ UNCHANGED gate
     ELSE Go(p, "find", [loc[p] EXCEPT !.notes = Changed]) /\ gate' = p
  /\ UNCHANGED <<disk, lazy, dense, index, raced>>

\* A change is told while an engine of this kind is being built.
Built(kind) == IF \E p \in In({"read", "publish"}) : loc[p].kind = kind THEN {"build"} ELSE {}

\* The listener takes the engine that is cached, if there is one ...
Find(p) ==
  /\ Only(p, "find")
  /\ IF search = NoEngine
     THEN Go(p, "forget", loc[p]) /\ raced' = raced \cup Built("search")
     ELSE Go(p, "apply", [loc[p] EXCEPT !.told = search.id]) /\ UNCHANGED raced
  /\ UNCHANGED <<vault, lazy, dense, index, gate>>

\* ... and reads the notes into it.  An engine has one writer at a time; the
\* second one's attempt fails, and then the engine is dropped: whoever began to
\* build before it was cached may now cache another.
Apply(p) ==
  /\ Only(p, "apply")
  /\ IF \E q \in In({"commit"}) : loc[q].told = loc[p].told
     THEN /\ Go(p, "forget", loc[p])
          /\ search' = NoEngine
          /\ raced' = raced \cup Built("search")
     ELSE Go(p, "commit", [loc[p] EXCEPT !.of = disk]) /\ UNCHANGED <<search, raced>>
  /\ UNCHANGED <<vault, similar, dense, index, gate>>

\* It may have been dropped from the cache, or replaced, meanwhile.
Commit(p) ==
  /\ Only(p, "commit")
  /\ Go(p, "forget", [loc[p] EXCEPT !.of = None])
  /\ search' = IF search.id # loc[p].told THEN search
               ELSE [search EXCEPT !.of = [n \in Notes |-> IF n \in loc[p].notes
                                             THEN loc[p].of[n] ELSE @[n]]]
  /\ UNCHANGED <<vault, similar, dense, index, gate, raced>>

\* Mutant: the similarity engine is left to after_write.
Forget_Nothing(p) ==
  /\ Only(p, "forget")
  /\ Go(p, "flag", loc[p])
  /\ UNCHANGED <<vault, lazy, dense, index, gate, raced>>

Forget(p) ==
  /\ Only(p, "forget")
  /\ similar' = NoEngine
  /\ raced' = raced \cup Built("similar")
  /\ Go(p, "flag", loc[p])
  /\ UNCHANGED <<vault, search, dense, index, gate>>

\* Told: a write goes on to evict, and is then done; a sweep lets others in.
Told(p) ==
  CASE loc[p].kind = "write" /\ ~loc[p].flag -> Go(p, "evict", [loc[p] EXCEPT !.flag = TRUE]) /\ UNCHANGED gate
    [] loc[p].kind = "write" /\ loc[p].flag  -> Return(p) /\ UNCHANGED gate
    [] OTHER -> PastGate(p) /\ gate' = Nobody

Opening == \E p \in In({"load", "publish"}) : loc[p].kind \in {"dense", "reindex"}
Rebuilding == \E p \in Procs : Rebuilds(p)

\* mark_stale, of an engine that is open: the flag, then the file.
Mark(p) ==
  /\ Only(p, "flag")
  /\ IF dense.open
     THEN /\ dense' = [dense EXCEPT !.stale = TRUE]
          /\ Go(p, "file", loc[p])
          /\ raced' = raced \cup (IF Rebuilding THEN {"during"} ELSE {})
          /\ UNCHANGED gate
     ELSE /\ raced' = raced \cup (IF stored # None \/ Opening THEN {"cold"} ELSE {})
          /\ Told(p)
          /\ UNCHANGED dense
  /\ UNCHANGED <<vault, lazy, index>>

\* Mutant: the mark is not persisted.
MarkFile_FlagOnly(p) ==
  /\ Only(p, "file")
  /\ Told(p)
  /\ UNCHANGED <<vault, lazy, dense, index, raced>>

MarkFile(p) ==
  /\ Only(p, "file")
  /\ marker' = TRUE
  /\ Told(p)
  /\ UNCHANGED <<vault, lazy, dense, stored, raced>>

\* after_write drops both engines, whatever the listener made of them.
Evict(p) ==
  /\ Only(p, "evict")
  /\ search' = NoEngine
  /\ similar' = NoEngine
  /\ raced' = raced \cup Built("search") \cup Built("similar")
  /\ Go(p, "flag", loc[p])
  /\ UNCHANGED <<vault, dense, index, gate>>

-----------------------------------------------------------------------------
(* Engines: looked up, built, cached.                                      *)

\* The answer that is ranked from the engine `of` is the request's last step.
Answer(p, of) ==
  /\ pc' = [pc EXCEPT ![p] = "idle"]
  /\ loc' = [loc EXCEPT ![p] = Blank]
  /\ answer' = [loc[p] EXCEPT !.of = of]

Look(p) ==
  /\ Only(p, "look")
  /\ LET k == loc[p].kind IN
       CASE k = "search" /\ search # NoEngine   -> Answer(p, search.of)
         [] k = "similar" /\ similar # NoEngine -> Answer(p, similar.of)
         [] \/ k = "search" /\ search = NoEngine
            \/ k = "similar" /\ similar = NoEngine -> Go(p, "read", loc[p])
         [] k \in {"dense", "reindex"}          -> Go(p, IF dense.open THEN "ready" ELSE "load", loc[p])
  /\ UNCHANGED <<vault, lazy, dense, index, gate, raced>>

\* A build reads one note after the other, in the order of the scan.
ReadNote(p, n) == [loc[p] EXCEPT !.of = [m \in DOMAIN @ \cup {n} |-> IF m = n THEN disk[n] ELSE @[m]]]
Read(p, from, to) ==
  /\ Only(p, from)
  /\ \E n \in Notes \ DOMAIN loc[p].of :
       Go(p, IF DOMAIN loc[p].of \cup {n} = Notes THEN to ELSE from, ReadNote(p, n))
  /\ UNCHANGED <<vault, lazy, dense, index, gate, raced>>

Build(p) == Read(p, "read", "publish")

\* The first to publish wins ...
PublishSearch(p) ==
  /\ Only(p, "publish")
  /\ loc[p].kind = "search"
  /\ IF search # NoEngine THEN Answer(p, search.of) /\ UNCHANGED search
     ELSE Answer(p, loc[p].of) /\ search' = [id |-> loc[p].id, of |-> loc[p].of]
  /\ UNCHANGED <<vault, similar, dense, index, gate, raced>>

\* ... the last to publish wins.
PublishSimilar(p) ==
  /\ Only(p, "publish")
  /\ loc[p].kind = "similar"
  /\ Answer(p, loc[p].of)
  /\ similar' = [id |-> loc[p].id, of |-> loc[p].of]
  /\ UNCHANGED <<vault, search, dense, index, gate, raced>>

\* Opening the embedding engine reads its marker and its index; no rebuild runs
\* while it is closed, so that nothing comes between the two.
Load(p) ==
  /\ Only(p, "load")
  /\ Go(p, "publish", [loc[p] EXCEPT !.flag = marker, !.of = stored])
  /\ UNCHANGED <<vault, lazy, dense, index, gate, raced>>

PublishDense(p) ==
  /\ Only(p, "publish")
  /\ loc[p].kind \in {"dense", "reindex"}
  /\ dense' = IF dense.open THEN dense
              ELSE [open |-> TRUE, of |-> loc[p].of, stale |-> loc[p].flag, running |-> FALSE]
  /\ Go(p, "ready", [loc[p] EXCEPT !.of = None, !.flag = FALSE])
  /\ UNCHANGED <<vault, lazy, index, gate, raced>>

-----------------------------------------------------------------------------
(* The embedding index: rebuilt in the background, or by a search when it  *)
(* is due; one rebuild at a time.                                          *)

\* start_reindex leaves the rebuild to a task of its own, and returns.
StartReindex(p) ==
  /\ Only(p, "ready")
  /\ loc[p].kind = "reindex"
  /\ IF dense.running THEN Return(p) /\ UNCHANGED dense
     ELSE /\ dense' = [dense EXCEPT !.running = TRUE]
          /\ pc' = [pc EXCEPT ![p] = "idle", ![Task] = "stale"]
          /\ loc' = [loc EXCEPT ![p] = Blank, ![Task] = [Blank EXCEPT !.kind = "rebuild"]]
          /\ answer' = Blank
  /\ UNCHANGED <<vault, lazy, index, gate, raced>>

\* refresh_if_due: never builds a missing index; whether a stale one is due is
\* a matter of its age and of the last attempt.
Refresh(p) ==
  /\ Only(p, "ready")
  /\ loc[p].kind = "dense"
  /\ ~dense.running /\ dense.stale /\ dense.of # None
  /\ dense' = [dense EXCEPT !.running = TRUE]
  /\ Go(p, "stale", [loc[p] EXCEPT !.kind = "refresh"])
  /\ UNCHANGED <<vault, lazy, index, gate, raced>>

\* The flag is read for the answer's diagnostics, then the index for its rows.
ReadFlag(p) ==
  /\ Only(p, "ready")
  /\ loc[p].kind \in {"dense", "refresh"}
  /\ Go(p, "rank", [loc[p] EXCEPT !.kind = "dense", !.flag = dense.stale])
  /\ UNCHANGED <<vault, lazy, dense, index, gate, raced>>

Rank(p) ==
  /\ Only(p, "rank")
  /\ IF dense.of = None THEN Return(p) ELSE Answer(p, dense.of)
  /\ UNCHANGED <<vault, lazy, dense, index, gate, raced>>

\* run_reindex.
Stale(p) ==
  /\ Only(p, "stale")
  /\ dense' = [dense EXCEPT !.stale = TRUE]
  /\ Go(p, "stalefile", loc[p])
  /\ UNCHANGED <<vault, lazy, index, gate, raced>>

StaleFile(p) ==
  /\ Only(p, "stalefile")
  /\ marker' = TRUE
  /\ Go(p, "gate", loc[p])
  /\ UNCHANGED <<vault, lazy, dense, stored, gate, raced>>

Scan(p) == Read(p, "scan", "store")

\* Mutant: an error leaves reindex() before the end that clears the switch.
EmbedFails_Early(p) ==
  /\ pc[p] = "store"
  /\ faults < MaxFaults
  /\ faults' = faults + 1
  /\ Return(p)
  /\ UNCHANGED <<vault, lazy, dense, index, gate, raced, calls, writes, edits>>

\* The embedding endpoint fails: the index stays what it was.
EmbedFails(p) ==
  /\ pc[p] = "store"
  /\ faults < MaxFaults
  /\ faults' = faults + 1
  /\ Go(p, "finish", loc[p])
  /\ UNCHANGED <<vault, lazy, dense, index, gate, raced, calls, writes, edits>>

\* Written beside, then renamed over.
Store(p) ==
  /\ Only(p, "store")
  /\ stored' = loc[p].of
  /\ Go(p, "unmark", loc[p])
  /\ UNCHANGED <<vault, lazy, dense, marker, gate, raced>>

Unmark(p) ==
  /\ Only(p, "unmark")
  /\ marker' = FALSE
  /\ Go(p, "swap", loc[p])
  /\ UNCHANGED <<vault, lazy, dense, stored, gate, raced>>

Swap(p) ==
  /\ Only(p, "swap")
  /\ dense' = [dense EXCEPT !.of = loc[p].of]
  /\ Go(p, "clear", loc[p])
  /\ UNCHANGED <<vault, lazy, index, gate, raced>>

Clear(p) ==
  /\ Only(p, "clear")
  /\ dense' = [dense EXCEPT !.stale = FALSE]
  /\ Go(p, "finish", loc[p])
  /\ UNCHANGED <<vault, lazy, index, gate, raced>>

Finish(p) ==
  /\ Only(p, "finish")
  /\ dense' = [dense EXCEPT !.running = FALSE]
  /\ IF p = Task THEN Return(p) ELSE Go(p, "ready", [loc[p] EXCEPT !.of = None])
  /\ UNCHANGED <<vault, lazy, index, gate, raced>>

-----------------------------------------------------------------------------
(* Requests that are dropped, and crashes.                                 *)

Drop(c) ==
  /\ pc[c] # "idle"
  /\ faults < MaxFaults
  /\ faults' = faults + 1
  /\ Return(c)
  /\ gate' = IF gate = c THEN Nobody ELSE gate
  /\ raced' = raced \cup (IF loc[c].notes # {} THEN {"untold"} ELSE {})
                    \cup (IF Rebuilds(c) THEN {"stuck"} ELSE {})
  /\ UNCHANGED <<vault, lazy, dense, index, calls, writes, edits>>

\* The next server starts from the vault as it finds it.
Crash ==
  /\ faults < MaxFaults
  /\ faults' = faults + 1
  /\ known' = disk
  /\ search' = NoEngine
  /\ similar' = NoEngine
  /\ dense' = Closed
  /\ gate' = Nobody
  /\ pc' = [p \in Procs |-> "idle"]
  /\ loc' = [p \in Procs |-> Blank]
  /\ answer' = Blank
  /\ raced' = raced \cup (IF Changed # {} \/ \E p \in Procs : loc[p].notes # {} THEN {"untold"} ELSE {})
  /\ UNCHANGED <<disk, index, calls, writes, edits>>

-----------------------------------------------------------------------------
Tell(p) == SkipSweep(p) \/ Sweep(p) \/ Find(p) \/ Apply(p) \/ Commit(p) \/ Forget(p) \/ Mark(p)
           \/ MarkFile(p) \/ Evict(p)
Serve(p) == Look(p) \/ Build(p) \/ PublishSearch(p) \/ PublishSimilar(p) \/ Load(p)
            \/ PublishDense(p) \/ StartReindex(p) \/ Refresh(p) \/ ReadFlag(p) \/ Rank(p)
Rebuild(p) == Stale(p) \/ StaleFile(p) \/ Scan(p) \/ Store(p) \/ Unmark(p) \/ Swap(p) \/ Clear(p) \/ Finish(p)
Step(p) == Tell(p) \/ Serve(p) \/ Rebuild(p)

Next ==
  \/ \E c \in Clients : Search(c) \/ Similar(c) \/ Dense(c) \/ Reindex(c) \/ Drop(c)
                        \/ \E n \in Notes : Write(c, n)
  \/ \E n \in Notes : EditOutside(n)
  \/ \E p \in Procs : Step(p) \/ EmbedFails(p)
  \/ Crash

Spec == Init /\ [][Next]_vars

-----------------------------------------------------------------------------
(* Properties.                                                             *)

Versions == [Notes -> Nat]
Indexes == {None} \cup Versions

TypeOK ==
  /\ disk \in Versions /\ known \in Versions
  /\ \A n \in Notes : known[n] <= disk[n]
  /\ search \in [id : 0 .. MaxCalls, of : Indexes]
  /\ similar \in [id : 0 .. MaxCalls, of : Indexes]
  /\ dense \in [open : BOOLEAN, of : Indexes, stale : BOOLEAN, running : BOOLEAN]
  /\ stored \in Indexes
  /\ marker \in BOOLEAN
  /\ gate \in Procs \cup {Nobody}
  /\ raced \subseteq {"build", "cold", "during", "untold", "stuck"}

Covers(of, since) == \A n \in Notes : of[n] >= since[n]

\* A search sees every change the server had finished telling when it began,
\* whether it was written here or noticed by a sweep (after_write and the change
\* listener, tools.rs).  Not so if a change was told while an engine was being
\* built: the engine is cached after the eviction, and stays; and if the request
\* that told a change was dropped.
SearchesAreFresh ==
  raced \cap {"build", "untold"} = {} /\ answer.kind \in {"search", "similar"} =>
  Covers(answer.of, answer.since)

\* A dense search sees them too, or says that its index is stale
\* (HybridDiagnostics).  Not so if a change was told while no engine was open, or
\* during a rebuild, whose end clears the flag.
DenseAnswersAreHonest ==
  raced \cap {"cold", "during", "untold"} = {} /\ answer.kind = "dense" =>
  answer.flag \/ Covers(answer.of, answer.since)

\* Every search, of the three engines.
AnswersAreFresh == SearchesAreFresh /\ DenseAnswersAreHonest

\* A restart knows: the index on disk is current, or it is marked.
StalenessSurvives ==
  raced \cap {"cold", "during", "untold"} = {} =>
  stored = None \/ marker \/ Covers(stored, Settled)

\* The switch that keeps other rebuilds out (reindex_running) is on only while
\* there is a rebuild, unless the request whose rebuild it was has been dropped:
\* only the end of reindex() turns it off.
RebuildsEnd == dense.running => Rebuilding \/ "stuck" \in raced

\* The flags of the dense index mean what they say.
FlagsAreSound == TypeOK /\ RebuildsEnd

\* Clients are interchangeable.
Symm == Permutations(Clients)

=============================================================================

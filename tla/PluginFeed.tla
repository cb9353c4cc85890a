------------------------------ MODULE PluginFeed ------------------------------
(***************************************************************************)
(* The change feed that plugins build their own state from, and the vault  *)
(* operations the host offers them.                                        *)
(*                                                                         *)
(* One plugin mirrors one note of the vault Home.  Its worker listens to   *)
(* the bus, re-reads the note when an event or a lag says so, and stores   *)
(* how far it came; its tool reads and writes the note of the vault that   *)
(* it believes is active.  Beside it an ordinary tool writes, people save  *)
(* the note behind the server, somebody selects another vault, and the     *)
(* server is stopped, once or twice, or dies.                              *)
(*                                                                         *)
(* A note is the number of the write that stored it, 0 when it is absent.  *)
(***************************************************************************)
EXTENDS Integers, Sequences, FiniteSets, SequencesExt

CONSTANTS
  Vaults, Home,
  GitVaults,    \* the vaults with the git backend; the others write directly
  Tool,         \* a call of an ordinary write tool
  Plug,         \* a call of the plugin's tool
  Gate,         \* whoever runs the freshness sweep
  Stoppers,     \* callers of shutdown: the signal handler, the end of serve()
  Capacity,     \* of the bus
  MaxWrites, MaxTroubles   \* bounds: writes; edits, switches and faults together

Free == "free"
ASSUME FeedAssumption ==
  /\ Home \in Vaults
  /\ Capacity \in Nat \ {0}
  /\ {MaxWrites, MaxTroubles} \subseteq Nat
  /\ Tool # Plug /\ Tool # Gate /\ Plug # Gate
  /\ {Tool, Plug, Gate} \cap (Stoppers \cup {Free}) = {}

VARIABLES
  notes,      \* notes[v]: the note of vault v
  known,      \* known[v]: the note as the server last saw it
  active,     \* the active vault
  log,        \* history: the vault of every write, and whether it was the plugin's
  epoch,      \* of the bus: one for each run of the server
  tail,       \* events the bus has numbered
  ring,       \* the last events it has sent
  mutex,      \* who holds the bus's sender
  closed,     \* the sender has been dropped
  signal,     \* the shutdown signal has fired
  pc, loc,    \* control state of each process, and what it holds
  held, seen, \* the plugin's token for its next write; the notes it has been shown
  worker,     \* the plugin's background task
  cursor,     \* the epoch of the position it has stored
  files,      \* the names in the plugin's storage, by their parts
  raced,      \* history: the races that struck
  clock, troubles   \* what the bounds count

world  == <<notes, known, active>>
bus    == <<epoch, tail, ring, mutex, closed>>
plugin == <<held, seen>>
mine   == <<worker, cursor, files>>
bounds == <<clock, troubles>>
vars   == <<world, log, bus, signal, pc, loc, plugin, mine, raced, bounds>>

Procs == {Tool, Plug, Gate} \cup Stoppers
Backend(v) == IF v \in GitVaults THEN "git" ELSE "direct"
Blank == [kind |-> "", vault |-> Home, asked |-> Home, note |-> 0, token |-> <<>>, plugin |-> FALSE, seq |-> 0]
NoCursor == 0
\* The worker subscribes before it reads: what changes meanwhile is an event.
Started(at) == [at |-> "start", next |-> at, due |-> TRUE, mirror |-> 0, last |-> NoCursor, temp |-> <<>>]

Init ==
  /\ notes = [v \in Vaults |-> 0]
  /\ known = notes
  /\ active = Home
  /\ log = <<>>
  /\ epoch = 1
  /\ tail = 0
  /\ ring = <<>>
  /\ mutex = Free
  /\ closed = FALSE
  /\ signal = FALSE
  /\ pc = [p \in Procs |-> "idle"]
  /\ loc = [p \in Procs |-> Blank]
  /\ held = <<>>
  /\ seen = {}
  /\ worker = Started(0)
  /\ cursor = NoCursor
  /\ files = {}
  /\ raced = {}
  /\ clock = 0
  /\ troubles = 0

Go(p, to, l) ==
  /\ pc' = [pc EXCEPT ![p] = to]
  /\ loc' = [loc EXCEPT ![p] = l]
Return(p) == Go(p, "idle", Blank)
Only(p, section) == pc[p] = section /\ UNCHANGED bounds
Put(v, n) == notes' = [notes EXCEPT ![v] = n] /\ known' = [known EXCEPT ![v] = n]
Log(v, own) == log' = Append(log, [vault |-> v, plugin |-> own])

-----------------------------------------------------------------------------
(* The bus.                                                                *)

\* The end of a call that announced its write: the plugin has its receipt.
Told(p) ==
  /\ Return(p)
  /\ IF p = Plug THEN held' = loc[p].token /\ UNCHANGED seen ELSE UNCHANGED plugin

\* Mutant: the number is taken before the lock.
Number_Unlocked(p) ==
  /\ Only(p, "publish")
  /\ IF closed THEN Told(p) /\ UNCHANGED <<tail, mutex>>
     ELSE /\ tail' = tail + 1
          /\ Go(p, "send", [loc[p] EXCEPT !.seq = tail'])
          /\ UNCHANGED <<mutex, plugin>>
  /\ UNCHANGED <<world, log, epoch, ring, closed, signal, mine, raced>>

\* publish, under the sender's lock: a number, then the send.  The feed is
\* advisory: a closed bus is not the writer's failure.
Number(p) ==
  /\ Only(p, "publish")
  /\ mutex = Free
  /\ IF closed THEN Told(p) /\ UNCHANGED <<tail, mutex>>
     ELSE /\ tail' = tail + 1
          /\ Go(p, "send", [loc[p] EXCEPT !.seq = tail'])
          /\ mutex' = p
          /\ UNCHANGED plugin
  /\ UNCHANGED <<world, log, epoch, ring, closed, signal, mine, raced>>

Envelope(l) == [seq |-> l.seq, vault |-> l.vault, plugin |-> l.plugin, note |-> l.note]

\* The channel keeps the last Capacity envelopes.
Send(p) ==
  /\ Only(p, "send")
  /\ LET all == Append(ring, Envelope(loc[p])) IN
       ring' = IF Len(all) > Capacity THEN Tail(all) ELSE all
  /\ mutex' = Free
  /\ Told(p)
  /\ UNCHANGED <<world, log, epoch, tail, closed, signal, mine, raced>>

\* The first number that is still in the ring.
Sent == IF mutex = Free THEN tail ELSE tail - 1
Oldest == Sent - Len(ring) + 1

-----------------------------------------------------------------------------
(* Writers.                                                                *)

\* An ordinary tool stores or deletes the note of the active vault, and then
\* says so.
ToolWrite ==
  /\ pc[Tool] = "idle"
  /\ clock < MaxWrites
  /\ clock' = clock + 1
  /\ \E n \in {0, clock'} :
       /\ n # notes[active]
       /\ Put(active, n)
       /\ Log(active, FALSE)
       /\ Go(Tool, "publish", [Blank EXCEPT !.vault = active, !.note = n])
  /\ UNCHANGED <<active, bus, signal, plugin, mine, raced, troubles>>

\* People save or remove a note; the next sweep of its vault notices, unless the
\* note came and went between two sweeps.
EditOutside(v) ==
  /\ troubles < MaxTroubles /\ clock < MaxWrites
  /\ troubles' = troubles + 1
  /\ clock' = clock + 1
  /\ \E n \in {0, clock'} :
       /\ n # notes[v]
       /\ notes' = [notes EXCEPT ![v] = n]
       /\ raced' = raced \cup (IF n = 0 /\ known[v] = 0 THEN {"unseen"} ELSE {})
  /\ Log(v, FALSE)
  /\ UNCHANGED <<known, active, bus, signal, pc, loc, plugin, mine>>

Sweep(v) ==
  /\ Only(Gate, "idle")
  /\ notes[v] # known[v]
  /\ known' = [known EXCEPT ![v] = notes[v]]
  /\ Go(Gate, "publish", [Blank EXCEPT !.vault = v, !.note = notes[v]])
  /\ UNCHANGED <<notes, active, log, bus, signal, plugin, mine, raced>>

SetActiveVault(v) ==
  /\ troubles < MaxTroubles
  /\ v # active
  /\ troubles' = troubles + 1
  /\ active' = v
  /\ UNCHANGED <<notes, known, log, bus, signal, pc, loc, plugin, mine, raced, clock>>

-----------------------------------------------------------------------------
(* The plugin's tool: PluginVaultHost.                                     *)

\* Each operation names the vault, and is refused if that is not the active one.
Ask(kind) ==
  /\ Only(Plug, "idle")
  /\ Go(Plug, "resolve", [Blank EXCEPT !.kind = kind, !.asked = active, !.token = held, !.plugin = TRUE])
  /\ UNCHANGED <<world, log, bus, signal, plugin, mine, raced>>

\* Then the active vault is looked up again, for its manager.
Resolve ==
  /\ Only(Plug, "resolve")
  /\ Go(Plug, IF loc[Plug].kind = "read" THEN "load" ELSE "land", [loc[Plug] EXCEPT !.vault = active])
  /\ raced' = raced \cup (IF active # loc[Plug].asked THEN {"elsewhere"} ELSE {})
  /\ UNCHANGED <<world, log, bus, signal, plugin, mine>>

\* read_note: the content, and later its token.
LoadNote ==
  /\ Only(Plug, "load")
  /\ LET v == loc[Plug].vault IN
       IF notes[v] = 0 THEN Return(Plug)
       ELSE Go(Plug, "token", [loc[Plug] EXCEPT !.note = notes[v]])
  /\ UNCHANGED <<world, log, bus, signal, plugin, mine, raced>>

\* Mutant: the version is not compared.
Allowed_Blind(l) == l.kind = "write" \/ notes[l.vault] = 0

\* CreateOnly wants the path free, Match wants the version of its token.
Allowed(l) == IF l.kind = "create" THEN notes[l.vault] = 0
              ELSE l.token = <<Backend(l.vault), notes[l.vault]>>

Land ==
  /\ pc[Plug] = "land"
  /\ LET l == loc[Plug] IN
       IF ~Allowed(l) THEN Return(Plug) /\ UNCHANGED <<notes, known, log, seen, raced, clock>>
       ELSE /\ clock < MaxWrites
            /\ clock' = clock + 1
            /\ Put(l.vault, clock')
            /\ Log(l.vault, TRUE)
            /\ seen' = seen \cup {clock'}
            /\ Go(Plug, "readback", [l EXCEPT !.note = clock'])
            /\ raced' = raced \cup (IF notes[l.vault] \notin seen \cup {0} THEN {"overwrote"} ELSE {})
  /\ UNCHANGED <<active, bus, signal, held, mine, troubles>>

\* The receipt's version is that of what the note holds by then.
ReadBack ==
  /\ Only(Plug, "readback")
  /\ LET l == loc[Plug] IN
       /\ raced' = raced \cup (IF notes[l.vault] # l.note THEN {"readback"} ELSE {})
       /\ IF notes[l.vault] = 0 THEN Return(Plug)
          ELSE Go(Plug, "token", [l EXCEPT !.token = <<"", notes[l.vault]>>])
  /\ UNCHANGED <<world, log, bus, signal, plugin, mine>>

\* Its kind is that of the vault which is active by then.
Token ==
  /\ Only(Plug, "token")
  /\ LET l == loc[Plug] IN
       IF l.kind = "read"
       THEN /\ held' = <<Backend(active), l.note>>
            /\ seen' = seen \cup {l.note}
            /\ Return(Plug)
       ELSE /\ Go(Plug, "publish", [l EXCEPT !.token = <<Backend(active), @[2]>>])
            /\ UNCHANGED plugin
  /\ UNCHANGED <<world, log, bus, signal, mine, raced>>

\* A plugin's call is dropped when its time is up (never inside of publish).
Timeout ==
  /\ pc[Plug] \in {"resolve", "load", "land", "readback", "token"}
  /\ troubles < MaxTroubles
  /\ troubles' = troubles + 1
  /\ Return(Plug)
  /\ raced' = raced \cup (IF pc[Plug] \in {"readback", "token"} /\ loc[Plug].kind # "read" THEN {"untold"} ELSE {})
  /\ UNCHANGED <<world, log, bus, signal, plugin, mine, clock>>

-----------------------------------------------------------------------------
(* The plugin's worker, as the plugin contract describes it.               *)

Work(w) == worker' = w /\ UNCHANGED <<world, log, bus, signal, pc, loc, plugin, raced, bounds>>

\* It compares its stored position with the bus: after a restart it has to look
\* for itself.
Start ==
  /\ worker.at = "start"
  /\ Work([worker EXCEPT !.at = "loop", !.due = cursor # epoch])
  /\ UNCHANGED <<cursor, files>>

\* Mutant: a receiver that fell behind goes on with the oldest event there is.
Recv_Silently ==
  /\ worker.at = "loop" /\ ~worker.due /\ ~signal
  /\ worker.next < Sent
  /\ LET next == IF worker.next + 1 < Oldest THEN Oldest ELSE worker.next + 1
         e == ring[next - Oldest + 1]
     IN Work([worker EXCEPT !.next = next, !.due = e.vault = Home, !.last = epoch])
  /\ UNCHANGED <<cursor, files>>

\* recv: a lag is told, and goes on with the oldest event in the ring.
Recv ==
  /\ worker.at = "loop" /\ ~worker.due /\ ~signal
  /\ worker.next < Sent
  /\ IF worker.next + 1 < Oldest
     THEN Work([worker EXCEPT !.next = Oldest - 1, !.due = TRUE])
     ELSE LET e == ring[worker.next + 2 - Oldest] IN
          Work([worker EXCEPT !.next = @ + 1, !.due = e.vault = Home,
                              !.last = epoch])
  /\ UNCHANGED <<cursor, files>>

\* It reads while Home is active; the host checks that first, and reads the note
\* of the vault that is active then.
ReReadCheck ==
  /\ worker.at = "loop" /\ worker.due /\ ~signal
  /\ active = Home
  /\ Work([worker EXCEPT !.at = "read"])
  /\ UNCHANGED <<cursor, files>>

ReRead ==
  /\ worker.at = "read"
  /\ worker' = [worker EXCEPT !.at = "put", !.due = FALSE, !.mirror = notes[active]]
  /\ raced' = raced \cup (IF active # Home THEN {"elsewhere"} ELSE {})
  /\ UNCHANGED <<world, log, bus, signal, pc, loc, plugin, cursor, files, bounds>>

\* put: a file beside the key, with the extension tmp.<id>, renamed over it.  A
\* put that is cut off leaves the file (Ids bounds how many).
Key == <<"cursor", "json">>
Ids == {"id1", "id2"}
Temps == {<<"cursor", "tmp", id>> : id \in Ids}

PutTemp ==
  /\ worker.at = "put"
  /\ ~(Temps \subseteq files)
  /\ LET temp == CHOOSE name \in Temps : name \notin files IN
       /\ Work([worker EXCEPT !.at = "rename", !.temp = temp])
       /\ files' = files \cup {temp}
  /\ UNCHANGED cursor

PutRename ==
  /\ worker.at = "rename"
  /\ Work([worker EXCEPT !.at = "loop"])
  /\ files' = (files \ {worker.temp}) \cup {Key}
  /\ cursor' = worker.last

\* list: the files whose extension, the part after the last dot, does not begin
\* with "tmp.".
Listed == {name \in files : \A id \in Ids : Last(name) # "tmp." \o id}

\* It stops when it is told to, between two notes.
StopWorker ==
  /\ worker.at \in {"start", "loop"}
  /\ signal
  /\ Work([worker EXCEPT !.at = "stopped"])
  /\ UNCHANGED <<cursor, files>>

-----------------------------------------------------------------------------
(* Shutdown: the signal, the plugin's own shutdown, the bus.               *)

\* Mutant: the plugin is asked to shut down before the signal is given.
Stop_Quietly(s) ==
  /\ Only(s, "idle")
  /\ Go(s, "await", loc[s])
  /\ UNCHANGED <<world, log, bus, signal, plugin, mine, raced>>

Stop(s) ==
  /\ Only(s, "idle")
  /\ signal' = TRUE
  /\ Go(s, "await", loc[s])
  /\ UNCHANGED <<world, log, bus, plugin, mine, raced>>

\* The plugin awaits its worker.
Stopped(s) ==
  /\ Only(s, "await")
  /\ worker.at = "stopped"
  /\ Go(s, "close", loc[s])
  /\ UNCHANGED <<world, log, bus, signal, plugin, mine, raced>>

Close(s) ==
  /\ Only(s, "close")
  /\ mutex = Free
  /\ closed' = TRUE
  /\ Go(s, "done", loc[s])
  /\ UNCHANGED <<world, log, epoch, tail, ring, mutex, signal, plugin, mine, raced>>

\* The server dies, or ends, and another one starts: a new bus, a new epoch.
Restart ==
  /\ troubles < MaxTroubles
  /\ troubles' = troubles + 1
  /\ known' = notes
  /\ epoch' = epoch + 1
  /\ tail' = 0
  /\ ring' = <<>>
  /\ mutex' = Free
  /\ closed' = FALSE
  /\ signal' = FALSE
  /\ pc' = [p \in Procs |-> "idle"]
  /\ loc' = [p \in Procs |-> Blank]
  /\ held' = <<>>
  /\ worker' = [Started(0) EXCEPT !.mirror = worker.mirror]
  /\ UNCHANGED <<notes, active, log, seen, cursor, files, raced, clock>>

-----------------------------------------------------------------------------
Working == Start \/ Recv \/ ReReadCheck \/ ReRead \/ PutTemp \/ PutRename \/ StopWorker
Calling == Resolve \/ LoadNote \/ Land \/ ReadBack \/ Token
Publishing == \E p \in {Tool, Plug, Gate} : Number(p) \/ Send(p)
Stopping == \E s \in Stoppers : Stopped(s) \/ Close(s)

Next ==
  \/ ToolWrite \/ \E v \in Vaults : EditOutside(v) \/ Sweep(v) \/ SetActiveVault(v)
  \/ \E kind \in {"read", "create", "write"} : Ask(kind)
  \/ Calling \/ Publishing \/ Timeout
  \/ Working
  \/ \E s \in Stoppers : Stop(s)
  \/ Stopping \/ Restart

\* The runtime runs every task that can go on.
Fairness == WF_vars(Working) /\ WF_vars(Calling) /\ WF_vars(Publishing) /\ WF_vars(Stopping)

Spec == Init /\ [][Next]_vars /\ Fairness

-----------------------------------------------------------------------------
(* Properties.                                                             *)

Notes == 0 .. MaxWrites
Tokens == {<<>>} \cup {"", "direct", "git"} \X Notes

TypeOK ==
  /\ notes \in [Vaults -> Notes] /\ known \in [Vaults -> Notes]
  /\ active \in Vaults
  /\ tail \in Nat /\ Len(ring) <= Capacity
  /\ mutex \in {Free, Tool, Plug, Gate}
  /\ held \in Tokens /\ seen \subseteq Notes
  /\ worker.at \in {"start", "loop", "read", "put", "rename", "stopped"}
  /\ worker.mirror \in Notes /\ worker.next \in 0 .. Sent

\* Subscribers observe events in sequence order, none left out (the comment on
\* VaultEventEnvelope): the ring always holds the last ones that were numbered.
FeedInOrder == \A i \in DOMAIN ring : ring[i].seq = Oldest + i - 1

\* Once a worker has nothing left to do, and no sweep and no announcement is
\* pending, its mirror is the vault's note: through lost events, restarts and
\* changes of the active vault.  Not so if a call that had written was dropped
\* before it announced, if another vault was read under Home's name, or if the
\* worker read a note that came and went between two sweeps.
QuietMirrorIsCurrent ==
  ( /\ raced \cap {"untold", "elsewhere", "unseen"} = {}
    /\ ~closed
    /\ worker.at = "loop" /\ ~worker.due /\ worker.next = tail
    /\ known = notes
    /\ \A p \in {Tool, Plug, Gate} : pc[p] \in {"idle", "resolve", "load", "land"} )
  => worker.mirror = notes[Home]

\* "Replace only the exact version previously returned" (WritePrecondition): a
\* plugin never replaces a note it was not shown.  Not so if the note changed
\* between its write and the reading back: the receipt is then for the other
\* writer's version.
PluginReplacesWhatItSaw == "readback" \notin raced => "overwrote" \notin raced

\* An event names the vault in which the note changed, and carries the plugin's
\* name if and only if the change is the plugin's: the stamp that a plugin which
\* writes in response to events breaks its loop with.
EventsAreTrue ==
  \A i \in DOMAIN ring : ring[i].note # 0 =>
    log[ring[i].note] = [vault |-> ring[i].vault, plugin |-> ring[i].plugin]

\* The feed as a subscriber relies on it: numbered in order, and each event true.
FeedIsSound == TypeOK /\ FeedInOrder /\ EventsAreTrue

\* A shutdown ends: the signal precedes the plugin's own shutdown, which awaits
\* the worker.
ShutdownEnds == \A s \in Stoppers : pc[s] = "await" ~> pc[s] \in {"done", "idle"}

\* "Temp files from an interrupted `put` are not keys" (plugin_storage.rs:140).  Does
\* not hold: no name of a temp file has the extension that is looked for.
ListsOnlyKeys == Listed \subseteq {Key}

=============================================================================

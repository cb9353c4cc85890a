--------------------------- MODULE PluginFeedProofs ---------------------------
(***************************************************************************)
(* What a subscriber may rely on, proved of PluginFeed for any vaults, any *)
(* capacity of the bus and any number of writes, switches and restarts.    *)
(*                                                                         *)
(* Three arguments.  The bus numbers and sends under one lock, so that its *)
(* ring is the end of one sequence.  A write's number says whose it is, so *)
(* that whatever is announced of it later is true.  And between the note   *)
(* and the plugin's mirror of it something is always still to come: an     *)
(* event, a lag, an announcement, a sweep, or a look of the worker's own.  *)
(***************************************************************************)
EXTENDS PluginFeed, TLAPS

Senders == {Tool, Plug, Gate}
Sections == {"idle", "resolve", "load", "land", "readback", "token", "publish", "send", "await", "close", "done"}
Kinds == {"", "read", "create", "write"}
Calls == [kind : Kinds, vault : Vaults, asked : Vaults, note : Notes, token : Tokens,
          plugin : BOOLEAN, seq : Nat]
Events == [seq : Nat, vault : Vaults, plugin : BOOLEAN, note : Notes]
Workers == [at : {"start", "loop", "read", "put", "rename", "stopped"}, next : Nat, due : BOOLEAN,
            mirror : Notes, last : Nat, temp : Temps \cup {<<>>}]

TypeInv ==
  /\ notes \in [Vaults -> Notes] /\ known \in [Vaults -> Notes] /\ active \in Vaults
  /\ log \in Seq([vault : Vaults, plugin : BOOLEAN]) /\ Len(log) = clock
  /\ epoch \in Nat \ {0} /\ tail \in Nat /\ ring \in Seq(Events) /\ Len(ring) <= Capacity
  /\ mutex \in Senders \cup {Free} /\ closed \in BOOLEAN /\ signal \in BOOLEAN
  /\ pc \in [Procs -> Sections] /\ loc \in [Procs -> Calls]
  /\ held \in Tokens /\ seen \subseteq Notes
  /\ worker \in Workers /\ cursor \in Nat
  /\ clock \in Notes /\ troubles \in Nat

\* Who is where: only the plugin's tool has sections of its own.
Writing == {"land", "readback", "token", "publish", "send"}
PlaceInv ==
  /\ pc[Tool] \in {"idle", "publish", "send"} /\ pc[Gate] \in {"idle", "publish", "send"}
  /\ pc[Plug] \notin {"await", "close", "done"}
  /\ \A s \in Stoppers : pc[s] \in {"idle", "await", "close", "done"}
  /\ pc[Plug] = "load" => loc[Plug].kind = "read"
  /\ pc[Plug] \in {"land", "readback", "publish", "send"} => loc[Plug].kind # "read"
  /\ pc[Plug] # "idle" => loc[Plug].plugin
  /\ pc[Plug] = "readback" => loc[Plug].note # 0
  /\ pc[Plug] = "token" /\ loc[Plug].kind # "read" => loc[Plug].token # <<>>

\* One process numbers and sends at a time.
LockInv ==
  /\ \A p \in Senders : pc[p] = "send" <=> mutex = p
  /\ \A p \in Senders : pc[p] = "send" => loc[p].seq = tail
  /\ mutex # Free => tail > 0
  /\ Len(ring) <= Sent
  /\ worker.next <= Sent
BusInv == LockInv /\ FeedInOrder

\* A call that has written, and is to announce it.
Announces(p) ==
  \/ pc[p] \in {"publish", "send"}
  \/ p = Plug /\ pc[p] \in {"readback", "token"} /\ loc[p].kind # "read"

\* A number is that of one write.
Wrote(n, v, own) == n # 0 => n <= clock /\ log[n] = [vault |-> v, plugin |-> own]
TruthInv ==
  /\ \A v \in Vaults : notes[v] # 0 => notes[v] <= clock /\ log[notes[v]].vault = v
  /\ \A v \in Vaults : known[v] <= clock
  /\ \A v \in Vaults : notes[v] # known[v] /\ notes[v] # 0 => ~log[notes[v]].plugin
  /\ \A p \in Senders : Announces(p) => Wrote(loc[p].note, loc[p].vault, loc[p].plugin)
  /\ \A i \in DOMAIN ring : Wrote(ring[i].note, ring[i].vault, ring[i].plugin)

\* The plugin's tokens are of notes it has seen, unless a receipt was for another's.
Showed(token) == token # <<>> => token[2] \in seen \cup {0}
SeenInv ==
  /\ "readback" \notin raced => Showed(held) /\ Showed(loc[Plug].token) /\ "overwrote" \notin raced
  /\ Announces(Plug) => loc[Plug].note \in seen

\* A worker that starts has no position of this run of the server.
StartInv == cursor <= epoch /\ worker.last <= epoch /\ (worker.at = "start" => cursor < epoch)

\* What is still to come to the mirror.
Looks == worker.due \/ worker.at \in {"start", "read", "stopped"}
Lags == worker.next + 1 < Oldest
Coming == \E i \in DOMAIN ring : ring[i].seq > worker.next /\ ring[i].vault = Home
Announced == \E p \in Senders :
  /\ Announces(p) /\ loc[p].vault = Home
  /\ pc[p] = "readback" => loc[p].note = notes[Home]
Unswept == notes[Home] # known[Home]
MirrorInv == raced \cap {"untold", "elsewhere", "unseen"} = {} /\ ~closed =>
  worker.mirror = notes[Home] \/ Looks \/ Lags \/ Coming \/ Announced \/ Unswept

IndInv == TypeInv /\ PlaceInv /\ BusInv /\ TruthInv /\ SeenInv /\ StartInv /\ MirrorInv

-----------------------------------------------------------------------------
(* Types: one lemma per action, with what its record is.                   *)

Same(q) == pc'[q] = pc[q] /\ loc'[q] = loc[q]
Others(p) == \A q \in Procs \ {p} : Same(q)
Moved(p, to, l) == pc'[p] = to /\ loc'[p] = l /\ Others(p)
CallsType == pc \in [Procs -> Sections] /\ loc \in [Procs -> Calls]

LEMMA BlankIs ==
  /\ Blank \in Calls /\ Blank.kind = "" /\ Blank.vault = Home /\ Blank.note = 0 /\ Blank.token = <<>>
  /\ Blank.plugin = FALSE
BY FeedAssumption DEF Blank, Calls, Kinds, Notes, Tokens

LEMMA SendersAre == Senders \subseteq Procs /\ Tool \in Procs /\ Plug \in Procs /\ Gate \in Procs
                    /\ \A s \in Stoppers : s \in Procs \ Senders
BY FeedAssumption DEF Senders, Procs

LEMMA GoMoves ==
  ASSUME CallsType, NEW p \in Procs, NEW to \in Sections, NEW l \in Calls, Go(p, to, l)
  PROVE  CallsType' /\ Moved(p, to, l)
BY DEF CallsType, Go, Moved, Others, Same

LEMMA ReturnMoves ==
  ASSUME CallsType, NEW p \in Procs, Return(p)
  PROVE  CallsType' /\ Moved(p, "idle", Blank)
BY GoMoves, BlankIs DEF Return, Sections

LEMMA TypeIs ==
  ASSUME TypeInv
  PROVE  /\ CallsType /\ clock \in Nat /\ tail \in Nat /\ Len(ring) \in Nat
         /\ \A p \in Procs : loc[p] \in Calls /\ pc[p] \in Sections
BY FeedAssumption DEF TypeInv, CallsType, Notes

\* The next write's number.
LEMMA NextNumber ==
  ASSUME TypeInv, clock < MaxWrites
  PROVE  clock + 1 \in Notes \ {0} /\ 0 \in Notes
BY FeedAssumption DEF TypeInv, Notes

LEMMA Logged ==
  ASSUME TypeInv, NEW v \in Vaults, NEW own \in BOOLEAN, Log(v, own)
  PROVE  /\ log' \in Seq([vault : Vaults, plugin : BOOLEAN]) /\ Len(log') = clock + 1
         /\ log'[clock + 1] = [vault |-> v, plugin |-> own]
         /\ \A n \in 1 .. clock : log'[n] = log[n]
<1> DEFINE e == [vault |-> v, plugin |-> own]
<1>1. e \in [vault : Vaults, plugin : BOOLEAN] /\ log' = Append(log, e)
  BY DEF Log
<1> HIDE DEF e
<1>2. log \in Seq([vault : Vaults, plugin : BOOLEAN]) /\ Len(log) = clock
  BY DEF TypeInv
<1>3. log'[clock + 1] = e /\ \A n \in 1 .. clock : log'[n] = log[n]
  BY <1>1, <1>2
<1> QED BY <1>1, <1>2, <1>3 DEF e

LEMMA ToolWriteIs ==
  ASSUME TypeInv, ToolWrite
  PROVE  /\ TypeInv' /\ clock' = clock + 1 /\ Log(active, FALSE)
         /\ \E n \in {0, clock'} : \E l \in Calls :
              /\ Put(active, n) /\ pc[Tool] = "idle" /\ Moved(Tool, "publish", l)
              /\ l.vault = active /\ l.note = n /\ l.plugin = FALSE
<1>1. PICK n \in {0, clock'} :
        /\ Put(active, n) /\ Log(active, FALSE)
        /\ Go(Tool, "publish", [Blank EXCEPT !.vault = active, !.note = n])
  BY DEF ToolWrite
<1>2. /\ clock' = clock + 1 /\ pc[Tool] = "idle" /\ clock < MaxWrites
      /\ UNCHANGED <<active, bus, signal, plugin, mine, raced, troubles>>
  BY DEF ToolWrite
<1>3. n \in Notes /\ clock' \in Notes /\ active \in Vaults
  BY <1>1, <1>2, NextNumber DEF TypeInv
<1> DEFINE l == [Blank EXCEPT !.vault = active, !.note = n]
<1>4. l \in Calls /\ l.vault = active /\ l.note = n /\ l.plugin = FALSE
  BY <1>3, BlankIs DEF Calls
<1> HIDE DEF l
<1>5. CallsType' /\ Moved(Tool, "publish", l)
  BY <1>1, <1>4, TypeIs, SendersAre, GoMoves DEF l, Sections
<1>6. /\ log' \in Seq([vault : Vaults, plugin : BOOLEAN]) /\ Len(log') = clock + 1
  BY <1>1, <1>3, Logged
<1>7. TypeInv'
  BY <1>1, <1>2, <1>3, <1>5, <1>6 DEF TypeInv, CallsType, Put, bus, plugin, mine
<1> QED BY <1>1, <1>2, <1>4, <1>5, <1>7

LEMMA EditIs ==
  ASSUME TypeInv, NEW v \in Vaults, EditOutside(v)
  PROVE  /\ TypeInv' /\ clock' = clock + 1 /\ Log(v, FALSE) /\ pc' = pc /\ loc' = loc
         /\ \E n \in {0, clock'} : notes' = [notes EXCEPT ![v] = n]
<1>1. PICK n \in {0, clock'} : notes' = [notes EXCEPT ![v] = n]
  BY DEF EditOutside
<1>2. /\ clock' = clock + 1 /\ troubles' = troubles + 1 /\ clock < MaxWrites /\ Log(v, FALSE)
      /\ UNCHANGED <<known, active, bus, signal, pc, loc, plugin, mine>>
  BY DEF EditOutside
<1>3. n \in Notes /\ clock' \in Notes
  BY <1>1, <1>2, NextNumber
<1>4. /\ log' \in Seq([vault : Vaults, plugin : BOOLEAN]) /\ Len(log') = clock + 1
  BY <1>2, Logged
<1>5. TypeInv'
  BY <1>1, <1>2, <1>3, <1>4 DEF TypeInv, bus, plugin, mine
<1> QED BY <1>1, <1>2, <1>5

LEMMA SweepIs ==
  ASSUME TypeInv, NEW v \in Vaults, Sweep(v)
  PROVE  /\ TypeInv' /\ pc[Gate] = "idle"
         /\ \E l \in Calls : /\ Moved(Gate, "publish", l) /\ l.vault = v /\ l.note = notes[v] /\ l.plugin = FALSE
<1> DEFINE l == [Blank EXCEPT !.vault = v, !.note = notes[v]]
<1>1. /\ known' = [known EXCEPT ![v] = notes[v]] /\ Go(Gate, "publish", l) /\ pc[Gate] = "idle"
      /\ UNCHANGED <<notes, active, log, bus, signal, plugin, mine, raced, clock, troubles>>
  BY DEF Sweep, Only, bounds
<1>2. l \in Calls /\ l.vault = v /\ l.note = notes[v] /\ l.plugin = FALSE
  BY BlankIs DEF Calls, TypeInv
<1> HIDE DEF l
<1>3. CallsType' /\ Moved(Gate, "publish", l)
  BY <1>1, <1>2, TypeIs, SendersAre, GoMoves DEF Sections
<1>4. TypeInv'
  BY <1>1, <1>3 DEF TypeInv, CallsType, bus, plugin, mine
<1> QED BY <1>1, <1>2, <1>3, <1>4

LEMMA SwitchIs == ASSUME TypeInv, NEW v \in Vaults, SetActiveVault(v) PROVE TypeInv' /\ pc' = pc /\ loc' = loc
BY DEF SetActiveVault, TypeInv, bus, plugin, mine

\* A step of the plugin's tool that changes only its record.
LEMMA PlugMoves ==
  ASSUME TypeInv, NEW to \in Sections, NEW l \in Calls, Go(Plug, to, l),
         UNCHANGED <<world, log, bus, signal, plugin, mine, bounds>>
  PROVE  TypeInv' /\ Moved(Plug, to, l)
<1>1. CallsType' /\ Moved(Plug, to, l)
  BY TypeIs, SendersAre, GoMoves
<1> QED BY <1>1 DEF TypeInv, CallsType, world, bus, plugin, mine, bounds

LEMMA AskIs ==
  ASSUME TypeInv, NEW kind \in {"read", "create", "write"}, Ask(kind)
  PROVE  /\ TypeInv' /\ pc[Plug] = "idle"
         /\ \E l \in Calls : /\ Moved(Plug, "resolve", l) /\ l.kind = kind /\ l.token = held /\ l.plugin
<1> DEFINE l == [Blank EXCEPT !.kind = kind, !.asked = active, !.token = held, !.plugin = TRUE]
<1>1. l \in Calls /\ l.kind = kind /\ l.token = held /\ l.plugin
  BY BlankIs DEF Calls, TypeInv, Kinds
<1>2. Go(Plug, "resolve", l) /\ pc[Plug] = "idle" /\ UNCHANGED <<world, log, bus, signal, plugin, mine, bounds>>
  BY DEF Ask, Only
<1> HIDE DEF l
<1> QED BY <1>1, <1>2, PlugMoves DEF Sections

LEMMA ResolveIs ==
  ASSUME TypeInv, Resolve
  PROVE  /\ TypeInv' /\ pc[Plug] = "resolve"
         /\ \E l \in Calls : /\ Moved(Plug, IF loc[Plug].kind = "read" THEN "load" ELSE "land", l)
                             /\ l.kind = loc[Plug].kind /\ l.token = loc[Plug].token /\ l.plugin = loc[Plug].plugin
<1> DEFINE l == [loc[Plug] EXCEPT !.vault = active]
           to == IF loc[Plug].kind = "read" THEN "load" ELSE "land"
<1>1. l \in Calls /\ l.kind = loc[Plug].kind /\ l.token = loc[Plug].token /\ l.plugin = loc[Plug].plugin
  BY TypeIs, SendersAre DEF Calls, TypeInv
<1>2. /\ Go(Plug, to, l) /\ pc[Plug] = "resolve"
      /\ UNCHANGED <<world, log, bus, signal, plugin, mine, bounds>>
  BY DEF Resolve, Only
<1> HIDE DEF l
<1>3. to \in Sections
  BY DEF Sections
<1> QED BY <1>1, <1>2, <1>3, PlugMoves

\* The fields of a call that a later section of it keeps.
Kept(l, k) == l.kind = k.kind /\ l.vault = k.vault /\ l.note = k.note /\ l.token = k.token /\ l.plugin = k.plugin

LEMMA LoadNoteIs ==
  ASSUME TypeInv, LoadNote
  PROVE  /\ TypeInv' /\ pc[Plug] = "load"
         /\ \/ Moved(Plug, "idle", Blank)
            \/ \E l \in Calls : /\ Moved(Plug, "token", l) /\ l.kind = loc[Plug].kind
                                /\ l.token = loc[Plug].token /\ l.plugin = loc[Plug].plugin
<1> DEFINE v == loc[Plug].vault
           l == [loc[Plug] EXCEPT !.note = notes[v]]
<1>1. l \in Calls /\ l.kind = loc[Plug].kind /\ l.token = loc[Plug].token /\ l.plugin = loc[Plug].plugin
  BY TypeIs, SendersAre DEF Calls, TypeInv
<1>2. /\ IF notes[v] = 0 THEN Return(Plug) ELSE Go(Plug, "token", l)
      /\ pc[Plug] = "load" /\ UNCHANGED <<world, log, bus, signal, plugin, mine, bounds>>
  BY DEF LoadNote, Only
<1> HIDE DEF l, v
<1>3. CASE notes[v] = 0
  <2>1. TypeInv' /\ Moved(Plug, "idle", Blank)
    BY <1>2, <1>3, PlugMoves, BlankIs DEF Return, Sections
  <2> QED BY <2>1, <1>2
<1>4. CASE notes[v] # 0
  <2>1. TypeInv' /\ Moved(Plug, "token", l)
    BY <1>1, <1>2, <1>4, PlugMoves DEF Sections
  <2> QED BY <2>1, <1>1, <1>2
<1> QED BY <1>3, <1>4

LEMMA LandIs ==
  ASSUME TypeInv, Land
  PROVE  /\ TypeInv' /\ pc[Plug] = "land"
         /\ \/ Moved(Plug, "idle", Blank) /\ UNCHANGED <<notes, known, log, seen, raced, clock>>
            \/ LET v == loc[Plug].vault IN
               /\ Allowed(loc[Plug]) /\ clock' = clock + 1 /\ clock' \in Notes /\ Put(v, clock') /\ Log(v, TRUE)
               /\ seen' = seen \cup {clock'}
               /\ raced' = raced \cup (IF notes[v] \notin seen \cup {0} THEN {"overwrote"} ELSE {})
               /\ \E l \in Calls : /\ Moved(Plug, "readback", l) /\ l.kind = loc[Plug].kind /\ l.vault = v
                                   /\ l.note = clock' /\ l.token = loc[Plug].token
                                   /\ l.plugin = loc[Plug].plugin
<1> DEFINE k == loc[Plug]
           v == k.vault
<1>0. k \in Calls /\ v \in Vaults
  BY TypeIs, SendersAre DEF Calls
<1>1. pc[Plug] = "land" /\ UNCHANGED <<active, bus, signal, held, mine, troubles>>
  BY DEF Land
<1>2. CASE ~Allowed(k)
  <2>1. Return(Plug) /\ UNCHANGED <<notes, known, log, seen, raced, clock>>
    BY <1>2 DEF Land
  <2>2. TypeInv' /\ Moved(Plug, "idle", Blank)
    BY <1>1, <2>1, PlugMoves, BlankIs DEF Return, Sections, world, plugin, bounds
  <2> QED BY <1>1, <2>1, <2>2
<1>3. CASE Allowed(k)
  <2> DEFINE l == [k EXCEPT !.note = clock']
  <2>1. /\ clock < MaxWrites /\ clock' = clock + 1 /\ Put(v, clock') /\ Log(v, TRUE)
        /\ seen' = seen \cup {clock'} /\ Go(Plug, "readback", l)
        /\ raced' = raced \cup (IF notes[v] \notin seen \cup {0} THEN {"overwrote"} ELSE {})
    BY <1>3 DEF Land
  <2>2. clock' \in Notes
    BY <2>1, NextNumber
  <2>3. /\ l \in Calls /\ l.kind = k.kind /\ l.vault = v /\ l.note = clock' /\ l.token = k.token
        /\ l.plugin = k.plugin
    BY <1>0, <2>2 DEF Calls
  <2> HIDE DEF l, k, v
  <2>4. CallsType' /\ Moved(Plug, "readback", l)
    BY <2>1, <2>3, TypeIs, SendersAre, GoMoves DEF Sections
  <2>5. log' \in Seq([vault : Vaults, plugin : BOOLEAN]) /\ Len(log') = clock + 1
    BY <1>0, <2>1, Logged
  <2>6. TypeInv'
    BY <1>0, <1>1, <2>1, <2>2, <2>4, <2>5 DEF TypeInv, CallsType, Put, bus, mine
  <2> USE DEF k, v
  <2> QED BY <1>1, <1>3, <2>1, <2>2, <2>3, <2>4, <2>6
<1> QED BY <1>2, <1>3

LEMMA ReadBackIs ==
  ASSUME TypeInv, ReadBack
  PROVE  /\ TypeInv' /\ pc[Plug] = "readback"
         /\ LET v == loc[Plug].vault IN
            /\ raced' = raced \cup (IF notes[v] # loc[Plug].note THEN {"readback"} ELSE {})
            /\ \/ Moved(Plug, "idle", Blank) /\ notes[v] = 0
               \/ \E l \in Calls : /\ Moved(Plug, "token", l) /\ l.kind = loc[Plug].kind /\ l.vault = v
                                   /\ l.note = loc[Plug].note /\ l.token = <<"", notes[v]>>
                                   /\ l.plugin = loc[Plug].plugin
<1> DEFINE k == loc[Plug]
           v == k.vault
           l == [k EXCEPT !.token = <<"", notes[v]>>]
<1>0. k \in Calls /\ v \in Vaults /\ notes[v] \in Notes
  BY TypeIs, SendersAre DEF Calls, TypeInv
<1>1. <<"", notes[v]>> \in Tokens
  BY <1>0 DEF Tokens
<1>2. /\ l \in Calls /\ l.kind = k.kind /\ l.vault = v /\ l.note = k.note /\ l.token = <<"", notes[v]>>
      /\ l.plugin = k.plugin
  BY <1>0, <1>1 DEF Calls
<1>3. /\ raced' = raced \cup (IF notes[v] # k.note THEN {"readback"} ELSE {})
      /\ IF notes[v] = 0 THEN Return(Plug) ELSE Go(Plug, "token", l)
      /\ pc[Plug] = "readback" /\ UNCHANGED <<world, log, bus, signal, plugin, mine, bounds>>
  BY DEF ReadBack, Only
<1> HIDE DEF l
<1>4. CASE notes[v] = 0
  <2>1. TypeInv' /\ Moved(Plug, "idle", Blank)
    BY <1>3, <1>4, PlugMoves, BlankIs DEF Return, Sections
  <2> QED BY <2>1, <1>3, <1>4
<1>5. CASE notes[v] # 0
  <2>1. TypeInv' /\ Moved(Plug, "token", l)
    BY <1>2, <1>3, <1>5, PlugMoves DEF Sections
  <2> QED BY <2>1, <1>2, <1>3
<1> QED BY <1>4, <1>5

LEMMA TokenIs ==
  ASSUME TypeInv, PlaceInv, Token
  PROVE  /\ TypeInv' /\ pc[Plug] = "token"
         /\ \/ /\ loc[Plug].kind = "read" /\ Moved(Plug, "idle", Blank)
               /\ held' = <<Backend(active), loc[Plug].note>> /\ seen' = seen \cup {loc[Plug].note}
            \/ /\ loc[Plug].kind # "read" /\ UNCHANGED plugin /\ loc[Plug].token # <<>>
               /\ \E l \in Calls : /\ Moved(Plug, "publish", l) /\ l.kind = loc[Plug].kind
                                   /\ l.vault = loc[Plug].vault /\ l.note = loc[Plug].note
                                   /\ l.token = <<Backend(active), loc[Plug].token[2]>>
                                   /\ l.plugin = loc[Plug].plugin
<1> DEFINE k == loc[Plug]
<1>0. k \in Calls /\ k.note \in Notes /\ k.token \in Tokens
  BY TypeIs, SendersAre DEF Calls
<1>1. pc[Plug] = "token" /\ UNCHANGED <<world, log, bus, signal, mine, raced, bounds>>
  BY DEF Token, Only
<1>2. Backend(active) \in {"", "direct", "git"}
  BY DEF Backend
<1>3. CASE k.kind = "read"
  <2>1. held' = <<Backend(active), k.note>> /\ seen' = seen \cup {k.note} /\ Return(Plug)
    BY <1>3 DEF Token
  <2>2. held' \in Tokens /\ seen' \subseteq Notes
    BY <1>0, <1>2, <2>1 DEF Tokens, TypeInv
  <2>3. CallsType' /\ Moved(Plug, "idle", Blank)
    BY <2>1, ReturnMoves, TypeIs, SendersAre
  <2>4. TypeInv'
    BY <1>1, <2>2, <2>3 DEF TypeInv, CallsType, world, bus, mine, bounds
  <2> QED BY <1>1, <1>3, <2>1, <2>3, <2>4
<1>4. CASE k.kind # "read"
  <2> DEFINE t == <<Backend(active), k.token[2]>>
             l == [k EXCEPT !.token = t]
  <2>1. Go(Plug, "publish", l) /\ UNCHANGED plugin
    BY <1>4 DEF Token
  <2>2. k.token # <<>>
    BY <1>1, <1>4 DEF PlaceInv
  <2>3. t \in Tokens
    BY <1>0, <1>2, <2>2 DEF Tokens
  <2> HIDE DEF t
  <2>4. /\ l \in Calls /\ l.kind = k.kind /\ l.vault = k.vault /\ l.note = k.note /\ l.token = t
        /\ l.plugin = k.plugin
    BY <1>0, <2>3 DEF Calls
  <2> HIDE DEF l
  <2>5. TypeInv' /\ Moved(Plug, "publish", l)
    BY <1>1, <2>1, <2>4, PlugMoves DEF Sections
  <2> QED BY <1>1, <1>4, <2>1, <2>2, <2>4, <2>5 DEF t
<1> QED BY <1>3, <1>4

LEMMA TimeoutIs ==
  ASSUME TypeInv, Timeout
  PROVE  TypeInv' /\ Moved(Plug, "idle", Blank)
<1>1. /\ Return(Plug) /\ troubles' = troubles + 1
      /\ UNCHANGED <<world, log, bus, signal, plugin, mine, clock>>
  BY DEF Timeout
<1>2. CallsType' /\ Moved(Plug, "idle", Blank)
  BY <1>1, ReturnMoves, TypeIs, SendersAre
<1> QED BY <1>1, <1>2 DEF TypeInv, CallsType, world, bus, plugin, mine

\* A call that has ended.
LEMMA ToldIs ==
  ASSUME TypeInv, NEW p \in Senders, Told(p)
  PROVE  /\ CallsType' /\ Moved(p, "idle", Blank) /\ held' \in Tokens /\ seen' = seen
         /\ held' = held \/ (p = Plug /\ held' = loc[Plug].token)
<1>1. loc[p].token \in Tokens
  BY TypeIs, SendersAre DEF Calls
<1>2. CallsType' /\ Moved(p, "idle", Blank)
  BY ReturnMoves, TypeIs, SendersAre DEF Told
<1> QED BY <1>1, <1>2 DEF Told, plugin, TypeInv

LEMMA NumberIs ==
  ASSUME TypeInv, NEW p \in Senders, Number(p)
  PROVE  /\ TypeInv' /\ pc[p] = "publish" /\ mutex = Free /\ ring' = ring /\ seen' = seen
         /\ \/ /\ closed /\ Moved(p, "idle", Blank) /\ UNCHANGED <<tail, mutex>>
               /\ held' = held \/ (p = Plug /\ held' = loc[Plug].token)
            \/ /\ ~closed /\ tail' = tail + 1 /\ mutex' = p /\ held' = held
               /\ \E l \in Calls : Moved(p, "send", l) /\ l.seq = tail + 1 /\ Kept(l, loc[p])
<1>1. /\ pc[p] = "publish" /\ mutex = Free
      /\ UNCHANGED <<world, log, epoch, ring, closed, signal, mine, raced, bounds>>
  BY DEF Number, Only
<1>2. CASE closed
  <2>1. Told(p) /\ UNCHANGED <<tail, mutex>>
    BY <1>2 DEF Number
  <2>2. /\ CallsType' /\ Moved(p, "idle", Blank) /\ held' \in Tokens /\ seen' = seen
        /\ held' = held \/ (p = Plug /\ held' = loc[Plug].token)
    BY <2>1, ToldIs
  <2>3. TypeInv'
    BY <1>1, <2>1, <2>2 DEF TypeInv, CallsType, world, mine, bounds
  <2> QED BY <1>1, <1>2, <2>1, <2>2, <2>3
<1>3. CASE ~closed
  <2> DEFINE k == loc[p]
             l == [k EXCEPT !.seq = tail + 1]
  <2>1. tail' = tail + 1 /\ mutex' = p /\ Go(p, "send", [k EXCEPT !.seq = tail']) /\ UNCHANGED plugin
    BY <1>3 DEF Number
  <2>2. k \in Calls /\ tail + 1 \in Nat
    BY TypeIs, SendersAre
  <2>3. l \in Calls /\ l.seq = tail + 1 /\ Kept(l, k)
    BY <2>2 DEF Calls, Kept
  <2>4. Go(p, "send", l)
    BY <2>1
  <2> HIDE DEF l, k
  <2>5. CallsType' /\ Moved(p, "send", l)
    BY <2>3, <2>4, GoMoves, TypeIs, SendersAre DEF Sections
  <2>6. TypeInv'
    BY <1>1, <2>1, <2>2, <2>5 DEF TypeInv, CallsType, world, plugin, mine, bounds
  <2> USE DEF k
  <2> QED BY <1>1, <1>3, <2>1, <2>3, <2>5, <2>6 DEF plugin
<1> QED BY <1>2, <1>3

\* The ring after a send: one more at its end, and at its limit one less in front.
Pushed(r, e, next) ==
  next = IF Len(Append(r, e)) > Capacity THEN Tail(Append(r, e)) ELSE Append(r, e)
Shifted(r, e, next) ==
  \E drop \in {0, 1} : /\ Len(next) = Len(r) + 1 - drop /\ next[Len(next)] = e
                       /\ \A i \in 1 .. Len(r) - drop : next[i] = r[i + drop]
LEMMA RingIs ==
  ASSUME NEW r \in Seq(Events), NEW e \in Events, Len(r) <= Capacity, NEW next,
         Pushed(r, e, next)
  PROVE  next \in Seq(Events) /\ Len(next) <= Capacity /\ Shifted(r, e, next)
<1> DEFINE all == Append(r, e)
<1>0. next = IF Len(all) > Capacity THEN Tail(all) ELSE all
  BY DEF Pushed
<1>1. /\ all \in Seq(Events) /\ Len(all) = Len(r) + 1 /\ all[Len(r) + 1] = e
      /\ \A i \in 1 .. Len(r) : all[i] = r[i]
  OBVIOUS
<1>2. Len(r) \in Nat /\ Capacity \in Nat \ {0}
  BY FeedAssumption
<1> HIDE DEF all
<1>3. CASE Len(all) > Capacity
  <2>1. next = Tail(all) /\ Len(r) = Capacity
    BY <1>0, <1>1, <1>2, <1>3
  <2>2. /\ next \in Seq(Events) /\ Len(next) = Len(r)
        /\ \A i \in 1 .. Len(r) : next[i] = all[i + 1]
    BY <1>1, <1>2, <2>1
  <2>3. next[Len(next)] = e
    BY <1>1, <1>2, <2>1, <2>2
  <2>4. \A i \in 1 .. Len(r) - 1 : next[i] = r[i + 1]
    BY <1>1, <1>2, <2>2
  <2>5. Len(next) = Len(r) + 1 - 1 /\ Len(next) <= Capacity
    BY <1>2, <2>1, <2>2
  <2> QED BY <2>2, <2>3, <2>4, <2>5 DEF Shifted
<1>4. CASE ~(Len(all) > Capacity)
  <2>1. next = all
    BY <1>0, <1>4
  <2>2. Len(next) = Len(r) + 1 - 0 /\ Len(next) <= Capacity
    BY <1>1, <1>2, <1>4, <2>1
  <2>3. \A i \in 1 .. Len(r) - 0 : next[i] = r[i + 0]
    BY <1>1, <1>2, <2>1
  <2>4. next \in Seq(Events) /\ next[Len(next)] = e
    BY <1>1, <1>2, <2>1
  <2> QED BY <2>2, <2>3, <2>4 DEF Shifted
<1> QED BY <1>3, <1>4

LEMMA SendIs ==
  ASSUME TypeInv, NEW p \in Senders, Send(p)
  PROVE  /\ TypeInv' /\ pc[p] = "send" /\ Moved(p, "idle", Blank) /\ mutex' = Free /\ seen' = seen
         /\ held' = held \/ (p = Plug /\ held' = loc[Plug].token)
         /\ \E e \in Events :
              /\ Shifted(ring, e, ring')
              /\ e.seq = loc[p].seq /\ e.vault = loc[p].vault /\ e.plugin = loc[p].plugin /\ e.note = loc[p].note
<1> DEFINE k == loc[p]
           e == Envelope(k)
<1>1. k \in Calls
  BY TypeIs, SendersAre
<1>2. e \in Events /\ e.seq = k.seq /\ e.vault = k.vault /\ e.plugin = k.plugin /\ e.note = k.note
  BY <1>1 DEF Envelope, Events, Calls
<1>3. /\ ring' = LET all == Append(ring, e) IN IF Len(all) > Capacity THEN Tail(all) ELSE all
      /\ pc[p] = "send" /\ mutex' = Free /\ Told(p)
      /\ UNCHANGED <<world, log, epoch, tail, closed, signal, mine, raced, bounds>>
  BY DEF Send, Only
<1>4. ring \in Seq(Events) /\ Len(ring) <= Capacity
  BY DEF TypeInv
<1> HIDE DEF e, k
<1>5. ring' \in Seq(Events) /\ Len(ring') <= Capacity /\ Shifted(ring, e, ring')
  <2>1. Pushed(ring, e, ring') /\ e \in Events
    BY <1>2, <1>3 DEF Pushed
  <2> QED BY <1>4, <2>1, RingIs
<1>6. /\ CallsType' /\ Moved(p, "idle", Blank) /\ held' \in Tokens /\ seen' = seen
      /\ held' = held \/ (p = Plug /\ held' = loc[Plug].token)
  BY <1>3, ToldIs
<1>7. TypeInv'
  BY <1>3, <1>5, <1>6 DEF TypeInv, CallsType, world, mine, bounds
<1> USE DEF k
<1> QED BY <1>2, <1>3, <1>5, <1>6, <1>7

\* The worker's steps.
Unmoved == UNCHANGED <<world, log, bus, signal, pc, loc, plugin, bounds>>
LEMMA WorkMoves ==
  ASSUME TypeInv, Unmoved, worker' \in Workers, cursor' \in Nat
  PROVE  TypeInv'
BY DEF TypeInv, Unmoved, world, bus, plugin, bounds

LEMMA StartIs ==
  ASSUME TypeInv, Start
  PROVE  /\ TypeInv' /\ Unmoved /\ raced' = raced /\ cursor' = cursor /\ worker.at = "start" /\ worker'.at = "loop"
         /\ worker'.due = (cursor # epoch) /\ worker'.next = worker.next
         /\ worker'.mirror = worker.mirror /\ worker'.last = worker.last
<1> DEFINE w == [worker EXCEPT !.at = "loop", !.due = cursor # epoch]
<1>1. worker' = w /\ Unmoved /\ raced' = raced /\ cursor' = cursor /\ worker.at = "start"
  BY DEF Start, Work, Unmoved
<1>2. worker \in Workers /\ cursor \in Nat
  BY DEF TypeInv
<1>3. /\ w \in Workers /\ w.at = "loop" /\ w.due = (cursor # epoch) /\ w.next = worker.next
      /\ w.mirror = worker.mirror /\ w.last = worker.last
  BY <1>2 DEF Workers
<1> HIDE DEF w
<1> QED BY <1>1, <1>2, <1>3, WorkMoves

LEMMA SentIs ==
  ASSUME TypeInv, LockInv
  PROVE  /\ Sent \in Nat /\ Oldest \in Nat \ {0} /\ Oldest = Sent - Len(ring) + 1 /\ Len(ring) \in Nat
         /\ Len(ring) <= Sent /\ worker.next \in Nat /\ worker.next <= Sent /\ Sent <= tail
<1>1. tail \in Nat /\ Len(ring) \in Nat /\ worker.next \in Nat
  BY DEF TypeInv, Workers
<1>2. Sent \in Nat /\ Sent <= tail
  BY <1>1 DEF LockInv, Sent
<1>3. Len(ring) <= Sent /\ worker.next <= Sent
  BY DEF LockInv
<1> QED BY <1>1, <1>2, <1>3 DEF Oldest

LEMMA RecvIs ==
  ASSUME TypeInv, LockInv, Recv
  PROVE  /\ TypeInv' /\ Unmoved /\ raced' = raced /\ cursor' = cursor /\ worker.at = "loop" /\ worker'.at = "loop"
         /\ worker'.mirror = worker.mirror /\ worker.next < Sent
         /\ \/ /\ worker.next + 1 < Oldest /\ worker'.next = Oldest - 1 /\ worker'.due
               /\ worker'.last = worker.last
            \/ /\ ~(worker.next + 1 < Oldest) /\ worker'.next = worker.next + 1 /\ worker'.last = epoch
               /\ worker'.due = (ring[worker.next + 2 - Oldest].vault = Home)
<1>1. worker \in Workers /\ cursor \in Nat /\ epoch \in Nat
  BY DEF TypeInv
<1>2. worker.at = "loop" /\ worker.next < Sent /\ cursor' = cursor
  BY DEF Recv
<1>3. CASE worker.next + 1 < Oldest
  <2> DEFINE n == Oldest - 1
             w == [worker EXCEPT !.next = n, !.due = TRUE]
  <2>1. worker' = w /\ Unmoved /\ raced' = raced
    BY <1>3 DEF Recv, Work, Unmoved
  <2>2. n \in Nat
    BY SentIs
  <2> HIDE DEF n
  <2>3. /\ w \in Workers /\ w.at = worker.at /\ w.due = TRUE /\ w.next = n
        /\ w.mirror = worker.mirror /\ w.last = worker.last
    BY <1>1, <2>2 DEF Workers
  <2> HIDE DEF w
  <2> QED BY <1>1, <1>2, <1>3, <2>1, <2>3, WorkMoves DEF n
<1>4. CASE ~(worker.next + 1 < Oldest)
  <2> DEFINE d == ring[worker.next + 2 - Oldest].vault = Home
             n == worker.next + 1
             w == [worker EXCEPT !.next = n, !.due = d, !.last = epoch]
  <2>1. worker' = w /\ Unmoved /\ raced' = raced
    BY <1>4 DEF Recv, Work, Unmoved
  <2>2. d \in BOOLEAN /\ n \in Nat
    BY <1>1 DEF Workers
  <2> HIDE DEF d, n
  <2>3. /\ w \in Workers /\ w.at = worker.at /\ w.due = d /\ w.next = n
        /\ w.mirror = worker.mirror /\ w.last = epoch
    BY <1>1, <2>2 DEF Workers
  <2> HIDE DEF w
  <2>4. TypeInv'
    BY <1>1, <1>2, <2>1, <2>3, WorkMoves
  <2> QED BY <1>1, <1>2, <1>4, <2>1, <2>3, <2>4 DEF d, n
<1> QED BY <1>3, <1>4

LEMMA ReReadCheckIs ==
  ASSUME TypeInv, ReReadCheck
  PROVE  /\ TypeInv' /\ Unmoved /\ raced' = raced /\ cursor' = cursor /\ worker.at = "loop" /\ worker'.at = "read"
         /\ worker'.next = worker.next /\ worker'.mirror = worker.mirror /\ worker'.last = worker.last
<1> DEFINE w == [worker EXCEPT !.at = "read"]
<1>1. worker' = w /\ Unmoved /\ raced' = raced /\ cursor' = cursor /\ worker.at = "loop"
  BY DEF ReReadCheck, Work, Unmoved
<1>2. worker \in Workers /\ cursor \in Nat
  BY DEF TypeInv
<1>3. /\ w \in Workers /\ w.at = "read" /\ w.next = worker.next
      /\ w.mirror = worker.mirror /\ w.last = worker.last
  BY <1>2 DEF Workers
<1> HIDE DEF w
<1> QED BY <1>1, <1>2, <1>3, WorkMoves

LEMMA ReReadIs ==
  ASSUME TypeInv, ReRead
  PROVE  /\ TypeInv' /\ Unmoved /\ cursor' = cursor /\ worker.at = "read" /\ worker'.at = "put"
         /\ worker'.next = worker.next /\ worker'.mirror = notes[active] /\ worker'.last = worker.last
         /\ raced' = raced \cup (IF active # Home THEN {"elsewhere"} ELSE {})
<1> DEFINE w == [worker EXCEPT !.at = "put", !.due = FALSE, !.mirror = notes[active]]
<1>1. /\ worker' = w /\ Unmoved /\ cursor' = cursor /\ worker.at = "read"
      /\ raced' = raced \cup (IF active # Home THEN {"elsewhere"} ELSE {})
  BY DEF ReRead, Unmoved
<1>2. worker \in Workers /\ cursor \in Nat /\ notes[active] \in Notes
  BY DEF TypeInv
<1>3. /\ w \in Workers /\ w.at = "put" /\ w.next = worker.next
      /\ w.mirror = notes[active] /\ w.last = worker.last
  BY <1>2 DEF Workers
<1> HIDE DEF w
<1> QED BY <1>1, <1>2, <1>3, WorkMoves

LEMMA PutTempIs ==
  ASSUME TypeInv, PutTemp
  PROVE  /\ TypeInv' /\ Unmoved /\ raced' = raced /\ cursor' = cursor /\ worker.at = "put" /\ worker'.at = "rename"
         /\ worker'.due = worker.due
         /\ worker'.next = worker.next /\ worker'.mirror = worker.mirror /\ worker'.last = worker.last
<1> DEFINE temp == CHOOSE name \in Temps : name \notin files
           w == [worker EXCEPT !.at = "rename", !.temp = temp]
<1>1. worker' = w /\ Unmoved /\ raced' = raced /\ cursor' = cursor /\ worker.at = "put"
  BY DEF PutTemp, Work, Unmoved
<1>2. worker \in Workers /\ cursor \in Nat
  BY DEF TypeInv
<1>3. temp \in Temps
  BY DEF PutTemp
<1> HIDE DEF temp
<1>4. /\ w \in Workers /\ w.at = "rename" /\ w.next = worker.next /\ w.due = worker.due
      /\ w.mirror = worker.mirror /\ w.last = worker.last
  BY <1>2, <1>3 DEF Workers
<1> HIDE DEF w
<1> QED BY <1>1, <1>2, <1>4, WorkMoves

LEMMA PutRenameIs ==
  ASSUME TypeInv, PutRename
  PROVE  /\ TypeInv' /\ Unmoved /\ raced' = raced /\ cursor' = worker.last /\ worker.at = "rename" /\ worker'.at = "loop"
         /\ worker'.due = worker.due
         /\ worker'.next = worker.next /\ worker'.mirror = worker.mirror /\ worker'.last = worker.last
<1> DEFINE w == [worker EXCEPT !.at = "loop"]
<1>1. worker' = w /\ Unmoved /\ raced' = raced /\ cursor' = worker.last /\ worker.at = "rename"
  BY DEF PutRename, Work, Unmoved
<1>2. worker \in Workers
  BY DEF TypeInv
<1>3. /\ w \in Workers /\ w.at = "loop" /\ w.next = worker.next /\ w.due = worker.due
      /\ w.mirror = worker.mirror /\ w.last = worker.last /\ worker.last \in Nat
  BY <1>2 DEF Workers
<1> HIDE DEF w
<1> QED BY <1>1, <1>2, <1>3, WorkMoves

LEMMA StopWorkerIs ==
  ASSUME TypeInv, StopWorker
  PROVE  /\ TypeInv' /\ Unmoved /\ raced' = raced /\ cursor' = cursor /\ worker'.at = "stopped"
         /\ worker'.next = worker.next /\ worker'.mirror = worker.mirror /\ worker'.last = worker.last
<1> DEFINE w == [worker EXCEPT !.at = "stopped"]
<1>1. worker' = w /\ Unmoved /\ raced' = raced /\ cursor' = cursor
  BY DEF StopWorker, Work, Unmoved
<1>2. worker \in Workers /\ cursor \in Nat
  BY DEF TypeInv
<1>3. /\ w \in Workers /\ w.at = "stopped" /\ w.next = worker.next
      /\ w.mirror = worker.mirror /\ w.last = worker.last
  BY <1>2 DEF Workers
<1> HIDE DEF w
<1> QED BY <1>1, <1>2, <1>3, WorkMoves

\* Whoever shuts the server down.
StopStep(s) == Stop(s) \/ Stopped(s) \/ Close(s)
LEMMA StopIs ==
  ASSUME TypeInv, NEW s \in Stoppers, StopStep(s)
  PROVE  /\ TypeInv' /\ UNCHANGED <<world, log, epoch, tail, ring, mutex, plugin, mine, raced, bounds>>
         /\ closed' \in {closed, TRUE}
         /\ \E to \in {"await", "close", "done"} : Moved(s, to, loc[s])
<1>1. PICK to \in {"await", "close", "done"} : Go(s, to, loc[s])
  BY DEF StopStep, Stop, Stopped, Close
<1>2. /\ UNCHANGED <<world, log, epoch, tail, ring, mutex, plugin, mine, raced, bounds>>
      /\ closed' \in {closed, TRUE} /\ signal' \in {signal, TRUE}
  BY DEF StopStep, Stop, Stopped, Close, Only, bus
<1>3. CallsType' /\ Moved(s, to, loc[s])
  BY <1>1, GoMoves, TypeIs, SendersAre DEF Sections
<1>4. TypeInv'
  BY <1>2, <1>3 DEF TypeInv, CallsType, world, plugin, mine, bounds
<1> QED BY <1>2, <1>3, <1>4

LEMMA RestartIs ==
  ASSUME TypeInv, Restart
  PROVE  /\ TypeInv' /\ \A p \in Procs : pc'[p] = "idle" /\ loc'[p] = Blank
         /\ worker'.at = "start" /\ worker'.next = 0 /\ worker'.last = 0
         /\ UNCHANGED <<notes, active, log, seen, cursor, raced, clock>>
         /\ known' = notes /\ epoch' = epoch + 1 /\ tail' = 0 /\ ring' = <<>> /\ mutex' = Free /\ held' = <<>>
<1> DEFINE w == [Started(0) EXCEPT !.mirror = worker.mirror]
<1>1. /\ UNCHANGED <<notes, active, log, seen, cursor, raced, clock>>
      /\ known' = notes /\ epoch' = epoch + 1 /\ tail' = 0 /\ ring' = <<>> /\ mutex' = Free /\ held' = <<>>
      /\ closed' = FALSE /\ signal' = FALSE /\ troubles' = troubles + 1
      /\ pc' = [p \in Procs |-> "idle"] /\ loc' = [p \in Procs |-> Blank] /\ worker' = w
  BY DEF Restart
<1>2. worker.mirror \in Notes
  BY DEF TypeInv, Workers
<1>3. w \in Workers /\ w.at = "start" /\ w.next = 0 /\ w.last = 0
  BY <1>2 DEF Workers, Started, NoCursor
<1> HIDE DEF w
<1>4. CallsType' /\ \A p \in Procs : pc'[p] = "idle" /\ loc'[p] = Blank
  <2>1. CallsType'
    BY <1>1, BlankIs DEF CallsType, Sections
  <2> QED BY <1>1, <2>1
<1>5. ring' \in Seq(Events) /\ Len(ring') <= Capacity
  BY <1>1, FeedAssumption
<1>6. held' \in Tokens
  BY <1>1 DEF Tokens
<1>7. /\ epoch' \in Nat \ {0} /\ tail' \in Nat /\ troubles' \in Nat
  BY <1>1 DEF TypeInv
<1>8. TypeInv'
  BY <1>1, <1>3, <1>4, <1>5, <1>6, <1>7 DEF TypeInv, CallsType
<1> QED BY <1>1, <1>3, <1>4, <1>8

-----------------------------------------------------------------------------
(* Who is where.                                                           *)

\* Whoever is not the plugin's tool, and has moved.
LEMMA PlaceOthers ==
  ASSUME TypeInv, PlaceInv, NEW p \in Procs, NEW to, NEW l, Moved(p, to, l),
         \/ p \in {Tool, Gate} /\ to \in {"idle", "publish", "send"}
         \/ p \in Stoppers /\ to \in {"await", "close", "done"}
  PROVE  PlaceInv'
BY SendersAre, FeedAssumption DEF PlaceInv, Moved, Others, Same, Senders

LEMMA PlacePlug ==
  ASSUME TypeInv, PlaceInv, NEW to, NEW l \in Calls, Moved(Plug, to, l),
         to \notin {"await", "close", "done"},
         to = "load" => l.kind = "read",
         to \in {"land", "readback", "publish", "send"} => l.kind # "read",
         to # "idle" => l.plugin,
         to = "readback" => l.note # 0,
         to = "token" /\ l.kind # "read" => l.token # <<>>
  PROVE  PlaceInv'
BY SendersAre, FeedAssumption DEF PlaceInv, Moved, Others, Same, Senders

LEMMA PlaceSame == ASSUME PlaceInv, UNCHANGED <<pc, loc>> PROVE PlaceInv'
BY DEF PlaceInv

\* Whatever a sender sends or numbers, it stays in its place.
LEMMA PlacePublish ==
  ASSUME TypeInv, PlaceInv, NEW p \in Senders, Number(p) \/ Send(p)
  PROVE  PlaceInv'
<1>1. p \in Procs /\ loc[p] \in Calls /\ p \in {Tool, Plug, Gate}
  BY TypeIs, SendersAre DEF Senders
<1>2. CASE Moved(p, "idle", Blank)
  <2>1. CASE p = Plug
    BY <1>2, <2>1, PlacePlug, BlankIs
  <2>2. CASE p # Plug
    BY <1>1, <1>2, <2>2, PlaceOthers
  <2> QED BY <2>1, <2>2
<1>3. CASE pc[p] = "publish" /\ \E l \in Calls : Moved(p, "send", l) /\ Kept(l, loc[p])
  <2>1. PICK l \in Calls : Moved(p, "send", l) /\ Kept(l, loc[p])
    BY <1>3
  <2>2. CASE p = Plug
    <3>1. l.kind # "read" /\ l.plugin
      BY <1>3, <2>1, <2>2 DEF PlaceInv, Kept
    <3> QED BY <2>1, <2>2, <3>1, PlacePlug
  <2>3. CASE p # Plug
    BY <1>1, <2>1, <2>3, PlaceOthers
  <2> QED BY <2>2, <2>3
<1>4. CASE Number(p)
  BY <1>2, <1>3, <1>4, NumberIs
<1>5. CASE Send(p)
  BY <1>2, <1>5, SendIs
<1> QED BY <1>4, <1>5

LEMMA PlaceCalls ==
  ASSUME TypeInv, PlaceInv, Calling \/ Timeout \/ \E kind \in {"read", "create", "write"} : Ask(kind)
  PROVE  PlaceInv'
<1>0. clock + 1 # 0
  BY TypeIs
<1> USE PlacePlug, BlankIs
<1>1. ASSUME NEW kind \in {"read", "create", "write"}, Ask(kind) PROVE PlaceInv'
  <2>1. PICK l \in Calls : Moved(Plug, "resolve", l) /\ l.plugin
    BY <1>1, AskIs
  <2> QED BY <2>1
<1>2. CASE Resolve
  <2> DEFINE to == IF loc[Plug].kind = "read" THEN "load" ELSE "land"
  <2>1. PICK l \in Calls : Moved(Plug, to, l) /\ l.kind = loc[Plug].kind /\ l.plugin = loc[Plug].plugin
    BY <1>2, ResolveIs
  <2>2. loc[Plug].plugin
    BY <1>2, ResolveIs DEF PlaceInv
  <2> QED BY <2>1, <2>2
<1>3. CASE LoadNote
  <2>1. pc[Plug] = "load" /\ loc[Plug].kind = "read" /\ loc[Plug].plugin
    BY <1>3, LoadNoteIs DEF PlaceInv
  <2>2. CASE Moved(Plug, "idle", Blank)
    BY <2>2
  <2>3. CASE \E l \in Calls : Moved(Plug, "token", l) /\ l.kind = loc[Plug].kind /\ l.plugin = loc[Plug].plugin
    <3>1. PICK l \in Calls : Moved(Plug, "token", l) /\ l.kind = loc[Plug].kind /\ l.plugin = loc[Plug].plugin
      BY <2>3
    <3> QED BY <2>1, <3>1
  <2> QED BY <1>3, <2>2, <2>3, LoadNoteIs
<1>4. CASE Land
  <2>1. pc[Plug] = "land" /\ loc[Plug].kind # "read" /\ loc[Plug].plugin
    BY <1>4, LandIs DEF PlaceInv
  <2>2. CASE Moved(Plug, "idle", Blank)
    BY <2>2
  <2>3. CASE /\ clock' = clock + 1
             /\ \E l \in Calls : /\ Moved(Plug, "readback", l) /\ l.kind = loc[Plug].kind
                                 /\ l.note = clock' /\ l.plugin = loc[Plug].plugin
    <3>1. PICK l \in Calls : /\ Moved(Plug, "readback", l) /\ l.kind = loc[Plug].kind
                             /\ l.note = clock' /\ l.plugin = loc[Plug].plugin
      BY <2>3
    <3>3. l.note # 0
      BY <2>3, <3>1, <1>0
    <3> QED BY <2>1, <3>1, <3>3
  <2> QED BY <1>4, <2>2, <2>3, LandIs
<1>5. CASE ReadBack
  <2>1. pc[Plug] = "readback" /\ loc[Plug].plugin
    BY <1>5, ReadBackIs DEF PlaceInv
  <2>2. CASE Moved(Plug, "idle", Blank)
    BY <2>2
  <2> DEFINE v == loc[Plug].vault
  <2>3. CASE \E l \in Calls : Moved(Plug, "token", l) /\ l.token = <<"", notes[v]>> /\ l.plugin = loc[Plug].plugin
    <3>1. PICK l \in Calls : Moved(Plug, "token", l) /\ l.token = <<"", notes[v]>> /\ l.plugin = loc[Plug].plugin
      BY <2>3
    <3>2. <<"", notes[v]>> # <<>>
      OBVIOUS
    <3>3. l.token # <<>>
      BY <3>1, <3>2
    <3> QED BY <2>1, <3>1, <3>3
  <2> QED BY <1>5, <2>2, <2>3, ReadBackIs
<1>6. CASE Token
  <2>1. pc[Plug] = "token" /\ loc[Plug].plugin
    BY <1>6, TokenIs DEF PlaceInv
  <2>2. CASE Moved(Plug, "idle", Blank)
    BY <2>2
  <2>3. CASE \E l \in Calls : Moved(Plug, "publish", l) /\ l.kind # "read" /\ l.plugin = loc[Plug].plugin
    <3>1. PICK l \in Calls : Moved(Plug, "publish", l) /\ l.kind # "read" /\ l.plugin = loc[Plug].plugin
      BY <2>3
    <3> QED BY <2>1, <3>1
  <2> QED BY <1>6, <2>2, <2>3, TokenIs
<1>7. CASE Timeout
  BY <1>7, TimeoutIs
<1> QED BY <1>1, <1>2, <1>3, <1>4, <1>5, <1>6, <1>7 DEF Calling

-----------------------------------------------------------------------------
(* The bus.                                                                *)

\* A step that neither numbers nor sends.
LEMMA BusSame ==
  ASSUME BusInv, UNCHANGED <<tail, ring, mutex, worker>>,
         \A q \in Senders : Same(q) \/ (pc[q] # "send" /\ pc'[q] # "send")
  PROVE  BusInv'
<1>1. Sent' = Sent /\ Oldest' = Oldest
  BY DEF Sent, Oldest
<1>2. LockInv'
  BY <1>1 DEF BusInv, LockInv, Same
<1>3. FeedInOrder'
  BY <1>1 DEF BusInv, FeedInOrder
<1> QED BY <1>2, <1>3 DEF BusInv

LEMMA BusNumber ==
  ASSUME TypeInv, BusInv, NEW p \in Senders, Number(p)
  PROVE  BusInv'
<1>1. /\ pc[p] = "publish" /\ mutex = Free /\ ring' = ring /\ worker' = worker /\ Free \notin Senders
      /\ p \in Procs /\ Senders \subseteq Procs
  BY NumberIs, FeedAssumption, SendersAre DEF Number, Only, mine, Senders
<1>2. CASE Moved(p, "idle", Blank) /\ UNCHANGED <<tail, mutex>>
  BY <1>1, <1>2, BusSame DEF Moved, Others
<1>3. CASE tail' = tail + 1 /\ mutex' = p /\ \E l \in Calls : Moved(p, "send", l) /\ l.seq = tail + 1
  <2>1. PICK l \in Calls : Moved(p, "send", l) /\ l.seq = tail + 1
    BY <1>3
  <2>2. tail \in Nat /\ Sent = tail /\ Sent' = tail
    BY <1>1, <1>3, TypeIs DEF Sent
  <2>3. Oldest' = Oldest
    BY <1>1, <2>2 DEF Oldest
  <2>4. \A q \in Senders : pc[q] # "send"
    BY <1>1 DEF BusInv, LockInv
  <2>5. \A q \in Senders : pc'[q] = "send" <=> q = p
    BY <1>1, <2>1, <2>4 DEF Moved, Others, Same
  <2>6. \A q \in Senders : pc'[q] = "send" => loc'[q].seq = tail'
    BY <1>3, <2>1, <2>5 DEF Moved
  <2>7. LockInv'
    BY <1>1, <1>3, <2>2, <2>5, <2>6 DEF BusInv, LockInv
  <2>8. FeedInOrder'
    BY <1>1, <2>3 DEF BusInv, FeedInOrder
  <2> QED BY <2>7, <2>8 DEF BusInv
<1> QED BY <1>2, <1>3, NumberIs

\* A number that was taken is the next one to be sent.
LEMMA SendNumbers ==
  ASSUME TypeInv, BusInv, NEW p \in Senders, Send(p)
  PROVE  /\ mutex = p /\ loc[p].seq = tail /\ Sent = tail - 1 /\ Sent' = tail /\ tail' = tail /\ tail > 0
         /\ worker' = worker /\ mutex' = Free
<1>1. pc[p] = "send" /\ mutex' = Free /\ tail' = tail /\ worker' = worker
  BY DEF Send, Only, mine
<1>2. mutex = p /\ loc[p].seq = tail /\ p # Free
  BY <1>1, FeedAssumption DEF BusInv, LockInv, Senders
<1>3. tail > 0
  BY <1>2 DEF BusInv, LockInv
<1> QED BY <1>1, <1>2, <1>3 DEF Sent

LEMMA BusSend ==
  ASSUME TypeInv, BusInv, NEW p \in Senders, Send(p)
  PROVE  BusInv'
<1>1. /\ mutex = p /\ loc[p].seq = tail /\ Sent = tail - 1 /\ Sent' = tail /\ tail' = tail /\ tail > 0
      /\ worker' = worker /\ mutex' = Free
  BY SendNumbers
<1>2. PICK e \in Events : Shifted(ring, e, ring') /\ e.seq = tail
  BY <1>1, SendIs
<1>3. PICK drop \in {0, 1} : /\ Len(ring') = Len(ring) + 1 - drop /\ ring'[Len(ring')] = e
                             /\ \A i \in 1 .. Len(ring) - drop : ring'[i] = ring[i + drop]
  BY <1>2 DEF Shifted
<1>4. ring \in Seq(Events) /\ ring' \in Seq(Events) /\ tail \in Nat /\ Len(ring) \in Nat /\ Len(ring') \in Nat
  BY SendIs, TypeIs DEF TypeInv
<1>5. \A q \in Senders : pc'[q] # "send"
  BY <1>1, SendIs, SendersAre DEF Moved, Others, Same, BusInv, LockInv
<1>6. LockInv'
  <2>1. worker.next \in Nat /\ worker.next <= Sent /\ Len(ring) <= Sent
    BY DEF TypeInv, Workers, BusInv, LockInv
  <2>2. Len(ring') <= Sent' /\ worker'.next <= Sent'
    BY <1>1, <1>3, <1>4, <2>1
  <2> QED BY <1>1, <1>5, <2>2, FeedAssumption DEF LockInv, Senders
<1>7. ASSUME NEW i \in DOMAIN ring' PROVE ring'[i].seq = Oldest' + i - 1
  <2>1. i \in 1 .. Len(ring') /\ Oldest' = tail - Len(ring') + 1 /\ Oldest = tail - 1 - Len(ring) + 1
    BY <1>1, <1>4 DEF Oldest
  <2>2. CASE i = Len(ring')
    BY <1>2, <1>3, <1>4, <2>1, <2>2
  <2>3. CASE i # Len(ring')
    <3>1. i \in 1 .. Len(ring) - drop /\ i + drop \in 1 .. Len(ring)
      BY <1>3, <1>4, <2>1, <2>3
    <3>2. ring'[i] = ring[i + drop] /\ i + drop \in DOMAIN ring
      BY <1>3, <1>4, <3>1
    <3>3. ring[i + drop].seq = Oldest + (i + drop) - 1
      BY <3>2 DEF BusInv, FeedInOrder
    <3>4. Oldest + (i + drop) - 1 = Oldest' + i - 1
      <4>1. Len(ring') = Len(ring) + 1 - drop /\ drop \in Int /\ i \in Int
        BY <1>3, <1>4, <2>1
      <4> QED BY <1>4, <2>1, <4>1
    <3> QED BY <3>2, <3>3, <3>4
  <2> QED BY <2>2, <2>3
<1>8. FeedInOrder'
  BY <1>7 DEF FeedInOrder
<1> QED BY <1>6, <1>8 DEF BusInv

\* A step of the worker's: it never gets ahead of what was sent.
LEMMA BusWork ==
  ASSUME TypeInv, BusInv, Working
  PROVE  BusInv'
<1>1. BusInv /\ LockInv /\ Sent \in Nat /\ Oldest \in Nat /\ Oldest - 1 <= Sent /\ worker.next \in Nat
  BY SentIs DEF BusInv
<1>2. Unmoved /\ worker'.next <= Sent
  <2>1. CASE worker'.next = worker.next
    BY <1>1, <2>1, StartIs, RecvIs, ReReadCheckIs, ReReadIs, PutTempIs, PutRenameIs, StopWorkerIs DEF Working, LockInv
  <2>2. CASE Recv
    BY <1>1, <2>2, RecvIs
  <2>3. CASE ~Recv
    BY <2>1, <2>3, StartIs, ReReadCheckIs, ReReadIs, PutTempIs, PutRenameIs, StopWorkerIs DEF Working
  <2> QED BY <2>2, <2>3
<1>3. Sent' = Sent /\ Oldest' = Oldest /\ UNCHANGED <<tail, ring, mutex, pc, loc>>
  BY <1>2 DEF Sent, Oldest, Unmoved, bus
<1>4. LockInv'
  BY <1>1, <1>2, <1>3 DEF LockInv
<1>5. FeedInOrder'
  BY <1>1, <1>3 DEF BusInv, FeedInOrder
<1> QED BY <1>4, <1>5 DEF BusInv

LEMMA BusRestart == ASSUME TypeInv, Restart PROVE BusInv'
<1>1. /\ tail' = 0 /\ ring' = <<>> /\ mutex' = Free /\ worker'.next = 0 /\ \A p \in Procs : pc'[p] = "idle"
  BY RestartIs
<1>2. Sent' = 0 /\ DOMAIN ring' = {} /\ Len(ring') = 0
  BY <1>1 DEF Sent
<1> QED BY <1>1, <1>2, SendersAre, FeedAssumption DEF BusInv, LockInv, FeedInOrder, Senders

-----------------------------------------------------------------------------
(* What is announced.                                                      *)

Stays(q) == Announces(q)' => /\ Announces(q) /\ loc'[q].vault = loc[q].vault
                             /\ loc'[q].note = loc[q].note /\ loc'[q].plugin = loc[q].plugin
\* An announcement that is due stays due, but for what the plugin's tool does and for a send.
StaysDue(q) == Announces(q) /\ pc[q] # "send" => Announces(q)'

LEMMA SameStays == ASSUME NEW q, Same(q) PROVE Stays(q) /\ (Announces(q) => Announces(q)')
BY DEF Same, Stays, Announces

LEMMA OthersStay ==
  ASSUME NEW p, NEW to, NEW l, Moved(p, to, l), Stays(p)
  PROVE  /\ \A q \in Senders : Stays(q)
         /\ \A q \in Senders \ {p} : Same(q)
BY SameStays, SendersAre DEF Moved, Others

\* The plugin's steps: none announces what was not to be announced.
LEMMA CallsStay ==
  ASSUME TypeInv, PlaceInv, \/ Resolve \/ LoadNote \/ ReadBack \/ Token \/ Timeout
                            \/ \E kind \in {"read", "create", "write"} : Ask(kind)
  PROVE  (\A q \in Senders : Stays(q)) /\ (\A q \in Senders \ {Plug} : Same(q))
<1> USE OthersStay, BlankIs
<1>0. ASSUME Moved(Plug, "idle", Blank)
      PROVE  (\A q \in Senders : Stays(q)) /\ (\A q \in Senders \ {Plug} : Same(q))
  <2>1. Stays(Plug)
    BY <1>0 DEF Stays, Announces, Moved
  <2> QED BY <1>0, <2>1
<1>1. ASSUME NEW kind \in {"read", "create", "write"}, Ask(kind)
      PROVE  (\A q \in Senders : Stays(q)) /\ (\A q \in Senders \ {Plug} : Same(q))
  <2>1. PICK l \in Calls : Moved(Plug, "resolve", l)
    BY <1>1, AskIs
  <2>2. Stays(Plug)
    BY <2>1 DEF Stays, Announces, Moved
  <2> QED BY <2>1, <2>2
<1>2. CASE Resolve
  <2> DEFINE to == IF loc[Plug].kind = "read" THEN "load" ELSE "land"
  <2>1. PICK l \in Calls : Moved(Plug, to, l)
    BY <1>2, ResolveIs
  <2>2. Stays(Plug)
    BY <2>1 DEF Stays, Announces, Moved
  <2> QED BY <2>1, <2>2
<1>3. CASE LoadNote
  <2>1. loc[Plug].kind = "read"
    BY <1>3, LoadNoteIs DEF PlaceInv
  <2>2. CASE \E l \in Calls : Moved(Plug, "token", l) /\ l.kind = loc[Plug].kind
    <3>1. PICK l \in Calls : Moved(Plug, "token", l) /\ l.kind = loc[Plug].kind
      BY <2>2
    <3>2. Stays(Plug)
      BY <2>1, <3>1 DEF Stays, Announces, Moved
    <3> QED BY <3>1, <3>2
  <2> QED BY <1>0, <1>3, <2>2, LoadNoteIs
<1>4. CASE ReadBack
  <2>1. pc[Plug] = "readback" /\ loc[Plug].kind # "read"
    BY <1>4, ReadBackIs DEF PlaceInv
  <2>2. CASE \E l \in Calls : /\ Moved(Plug, "token", l) /\ l.vault = loc[Plug].vault
                              /\ l.note = loc[Plug].note /\ l.plugin = loc[Plug].plugin
    <3>1. PICK l \in Calls : /\ Moved(Plug, "token", l) /\ l.vault = loc[Plug].vault
                             /\ l.note = loc[Plug].note /\ l.plugin = loc[Plug].plugin
      BY <2>2
    <3>2. Stays(Plug)
      BY <2>1, <3>1 DEF Stays, Announces, Moved
    <3> QED BY <3>1, <3>2
  <2> QED BY <1>0, <1>4, <2>2, ReadBackIs
<1>5. CASE Token
  <2>2. CASE /\ pc[Plug] = "token" /\ loc[Plug].kind # "read"
             /\ \E l \in Calls : /\ Moved(Plug, "publish", l) /\ l.vault = loc[Plug].vault
                                 /\ l.note = loc[Plug].note /\ l.plugin = loc[Plug].plugin
    <3>1. PICK l \in Calls : /\ Moved(Plug, "publish", l) /\ l.vault = loc[Plug].vault
                             /\ l.note = loc[Plug].note /\ l.plugin = loc[Plug].plugin
      BY <2>2
    <3>2. Stays(Plug)
      BY <2>2, <3>1 DEF Stays, Announces, Moved
    <3> QED BY <3>1, <3>2
  <2> QED BY <1>0, <1>5, <2>2, TokenIs
<1>6. CASE Timeout
  BY <1>0, <1>6, TimeoutIs
<1> QED BY <1>1, <1>2, <1>3, <1>4, <1>5, <1>6

LEMMA NumberStays ==
  ASSUME TypeInv, NEW p \in Senders, Number(p)
  PROVE  (\A q \in Senders : Stays(q)) /\ (\A q \in Senders \ {p} : Same(q))
<1>1. pc[p] = "publish"
  BY NumberIs
<1>2. CASE Moved(p, "idle", Blank)
  <2>1. Stays(p)
    BY <1>2, BlankIs DEF Stays, Announces, Moved
  <2> QED BY <1>2, <2>1, OthersStay
<1>3. CASE \E l \in Calls : Moved(p, "send", l) /\ Kept(l, loc[p])
  <2>1. PICK l \in Calls : Moved(p, "send", l) /\ Kept(l, loc[p])
    BY <1>3
  <2>2. Stays(p)
    BY <1>1, <2>1 DEF Stays, Announces, Moved, Kept
  <2> QED BY <2>1, <2>2, OthersStay
<1> QED BY <1>2, <1>3, NumberIs

LEMMA SendStays ==
  ASSUME TypeInv, NEW p \in Senders, Send(p)
  PROVE  (\A q \in Senders : Stays(q)) /\ (\A q \in Senders \ {p} : Same(q))
<1>1. Moved(p, "idle", Blank)
  BY SendIs
<1>2. Stays(p)
  BY <1>1, BlankIs DEF Stays, Announces, Moved
<1> QED BY <1>1, <1>2, OthersStay

\* A refused landing, and the steps of the rest of the server.
LEMMA RefusedStays ==
  ASSUME TypeInv, Land, Moved(Plug, "idle", Blank)
  PROVE  (\A q \in Senders : Stays(q)) /\ (\A q \in Senders \ {Plug} : Same(q))
<1>1. Stays(Plug)
  BY BlankIs DEF Stays, Announces, Moved
<1> QED BY <1>1, OthersStay

LEMMA StoppersStay ==
  ASSUME TypeInv, NEW s \in Stoppers, StopStep(s)
  PROVE  \A q \in Senders : Same(q)
BY StopIs, SendersAre DEF Moved, Others

-----------------------------------------------------------------------------
(* Events are true.                                                        *)

NoteOf(q) == loc[q].note
\* An entry of the history stays what it was.
LEMMA WroteStays ==
  ASSUME TypeInv, NEW v0 \in Vaults, NEW own0 \in BOOLEAN, Log(v0, own0), clock' = clock + 1,
         NEW n \in Notes, NEW v, NEW own, Wrote(n, v, own)
  PROVE  Wrote(n, v, own)'
<1>1. \A m \in 1 .. clock : log'[m] = log[m]
  BY Logged
<1>2. clock \in Nat /\ n \in Nat
  BY TypeIs DEF Notes
<1>3. ASSUME n # 0 PROVE n <= clock' /\ log'[n] = [vault |-> v, plugin |-> own]
  <2>1. n <= clock /\ log[n] = [vault |-> v, plugin |-> own] /\ n \in 1 .. clock
    BY <1>2, <1>3 DEF Wrote
  <2>2. log'[n] = log[n]
    BY <1>1, <2>1
  <2>3. n <= clock'
    BY <1>2, <2>1
  <2> QED BY <2>1, <2>2, <2>3
<1> QED BY <1>3 DEF Wrote

LEMMA TruthSame ==
  ASSUME TruthInv, UNCHANGED <<notes, known, log, clock, ring>>, \A q \in Senders : Stays(q)
  PROVE  TruthInv'
<1>1. ASSUME NEW q \in Senders, Announces(q)' PROVE Wrote(loc[q].note, loc[q].vault, loc[q].plugin)'
  <2>1. /\ Announces(q) /\ loc'[q].vault = loc[q].vault
        /\ loc'[q].note = loc[q].note /\ loc'[q].plugin = loc[q].plugin
    BY <1>1 DEF Stays
  <2>2. Wrote(loc[q].note, loc[q].vault, loc[q].plugin)
    BY <2>1 DEF TruthInv
  <2> QED BY <2>1, <2>2 DEF Wrote
<1>2. \A i \in DOMAIN ring' : Wrote(ring[i].note, ring[i].vault, ring[i].plugin)'
  BY DEF TruthInv, Wrote
<1>3. /\ \A v \in Vaults : notes'[v] # 0 => notes'[v] <= clock' /\ log'[notes'[v]].vault = v
      /\ \A v \in Vaults : known'[v] <= clock'
      /\ \A v \in Vaults : notes'[v] # known'[v] /\ notes'[v] # 0 => ~log'[notes'[v]].plugin
  BY DEF TruthInv
<1> QED BY <1>1, <1>2, <1>3 DEF TruthInv

LEMMA TruthWrite ==
  ASSUME TypeInv, TruthInv, NEW v0 \in Vaults, NEW own0 \in BOOLEAN, Log(v0, own0), clock' = clock + 1,
         NEW n \in {0, clock + 1}, notes' = [notes EXCEPT ![v0] = n],
         \/ known' = known /\ ~own0
         \/ known' = [known EXCEPT ![v0] = n],
         ring' = ring,
         \A q \in Senders : Stays(q) \/ (loc'[q].vault = v0 /\ loc'[q].note = n /\ loc'[q].plugin = own0)
  PROVE  TruthInv'
<1>1. /\ notes \in [Vaults -> Notes] /\ known \in [Vaults -> Notes] /\ clock \in Nat /\ Notes \subseteq Nat
      /\ ring \in Seq(Events)
  BY TypeIs DEF TypeInv, Notes
<1>2. log'[clock + 1] = [vault |-> v0, plugin |-> own0] /\ \A m \in 1 .. clock : log'[m] = log[m]
  BY Logged
<1>3. Wrote(n, v0, own0)'
  BY <1>1, <1>2 DEF Wrote
<1>4. ASSUME NEW v \in Vaults
      PROVE  /\ notes'[v] # 0 => notes'[v] <= clock' /\ log'[notes'[v]].vault = v
             /\ known'[v] <= clock'
             /\ notes'[v] # known'[v] /\ notes'[v] # 0 => ~log'[notes'[v]].plugin
  <2>1. CASE v = v0
    <3>1. notes'[v] = n /\ known'[v] \in {known[v], n} /\ (known'[v] = n \/ ~own0)
      BY <1>1, <2>1
    <3>2. known[v] \in Nat /\ known[v] <= clock
      BY <1>1 DEF TruthInv
    <3>3. known'[v] <= clock' /\ n <= clock'
      BY <1>1, <3>1, <3>2
    <3>4. n # 0 => log'[n].vault = v /\ log'[n].plugin = own0
      BY <1>2, <2>1
    <3> QED BY <3>1, <3>3, <3>4
  <2>2. CASE v # v0
    <3>1. notes'[v] = notes[v] /\ known'[v] = known[v] /\ notes[v] \in Nat /\ known[v] \in Nat
      BY <1>1, <2>2
    <3>2. known[v] <= clock'
      BY <1>1, <3>1 DEF TruthInv
    <3>3. CASE notes[v] = 0
      BY <3>1, <3>2, <3>3
    <3>4. CASE notes[v] # 0
      <4>1. notes[v] <= clock /\ log[notes[v]].vault = v /\ notes[v] \in 1 .. clock
        BY <1>1, <3>1, <3>4 DEF TruthInv
      <4>2. log'[notes[v]] = log[notes[v]] /\ notes[v] <= clock'
        BY <1>1, <1>2, <3>1, <4>1
      <4>3. notes[v] # known[v] => ~log[notes[v]].plugin
        BY <3>4 DEF TruthInv
      <4> QED BY <3>1, <3>2, <4>1, <4>2, <4>3
    <3> QED BY <3>3, <3>4
  <2> QED BY <2>1, <2>2
<1>5. ASSUME NEW q \in Senders, Announces(q)' PROVE Wrote(loc[q].note, loc[q].vault, loc[q].plugin)'
  <2>1. CASE loc'[q].vault = v0 /\ loc'[q].note = n /\ loc'[q].plugin = own0
    BY <1>3, <2>1 DEF Wrote
  <2>2. CASE Stays(q)
    <3>1. /\ Announces(q) /\ loc'[q].vault = loc[q].vault
          /\ loc'[q].note = loc[q].note /\ loc'[q].plugin = loc[q].plugin
      BY <1>5, <2>2 DEF Stays
    <3>2. Wrote(loc[q].note, loc[q].vault, loc[q].plugin)
      BY <3>1 DEF TruthInv
    <3>3. loc[q].note \in Notes
      BY TypeIs, SendersAre DEF Calls
    <3> DEFINE k == loc[q].note
               w == loc[q].vault
               o == loc[q].plugin
    <3> HIDE DEF k, w, o
    <3>4. ASSUME NEW k1, NEW w1, NEW o1, k1 \in Notes, Wrote(k1, w1, o1) PROVE Wrote(k1, w1, o1)'
      BY <3>4, WroteStays
    <3>5. ASSUME NEW k1, NEW w1, NEW o1, Wrote(k1, w1, o1)',
                 loc'[q].note = k1, loc'[q].vault = w1, loc'[q].plugin = o1
          PROVE  Wrote(loc[q].note, loc[q].vault, loc[q].plugin)'
      BY <3>5 DEF Wrote
    <3> QED BY <3>1, <3>2, <3>3, <3>4, <3>5
  <2> QED BY <1>5, <2>1, <2>2
<1>6. ASSUME NEW i \in DOMAIN ring' PROVE Wrote(ring[i].note, ring[i].vault, ring[i].plugin)'
  <2>1. i \in DOMAIN ring /\ ring[i] \in Events
    BY <1>1, <1>6
  <2>2. ring[i].note \in Notes /\ Wrote(ring[i].note, ring[i].vault, ring[i].plugin)
    BY <2>1 DEF TruthInv, Events
  <2>3. ASSUME NEW k1, NEW w1, NEW o1, k1 \in Notes, Wrote(k1, w1, o1) PROVE Wrote(k1, w1, o1)'
    BY <2>3, WroteStays
  <2>4. ASSUME NEW k1, NEW w1, NEW o1, Wrote(k1, w1, o1)',
               ring'[i].note = k1, ring'[i].vault = w1, ring'[i].plugin = o1
        PROVE  Wrote(ring[i].note, ring[i].vault, ring[i].plugin)'
    BY <2>4 DEF Wrote
  <2> QED BY <2>2, <2>3, <2>4
<1> QED BY <1>4, <1>5, <1>6 DEF TruthInv

LEMMA TruthWrites ==
  ASSUME TypeInv, PlaceInv, TruthInv, ToolWrite \/ Land \/ \E v \in Vaults : EditOutside(v)
  PROVE  TruthInv'
<1>1. CASE ToolWrite
  <2>1. clock' = clock + 1 /\ Log(active, FALSE) /\ ring' = ring /\ active \in Vaults
    BY <1>1, ToolWriteIs DEF ToolWrite, bus, TypeInv
  <2>2. PICK n \in {0, clock'}, l \in Calls : /\ Put(active, n) /\ Moved(Tool, "publish", l)
                                              /\ l.vault = active /\ l.note = n /\ l.plugin = FALSE
    BY <1>1, ToolWriteIs
  <2>3. /\ \A q \in Senders : Stays(q) \/ (loc'[q].vault = active /\ loc'[q].note = n /\ loc'[q].plugin = FALSE)
    BY <2>2, SameStays, SendersAre DEF Moved, Others
  <2>4. notes' = [notes EXCEPT ![active] = n] /\ known' = [known EXCEPT ![active] = n] /\ n \in {0, clock + 1}
    BY <2>1, <2>2 DEF Put
  <2> QED BY <2>1, <2>3, <2>4, TruthWrite
<1>2. CASE Land
  <2>1. CASE Moved(Plug, "idle", Blank) /\ UNCHANGED <<notes, known, log, clock>>
    <3>1. ring' = ring
      BY <1>2 DEF Land, bus
    <3> QED BY <1>2, <2>1, <3>1, RefusedStays, TruthSame
  <2> DEFINE v == loc[Plug].vault
  <2>2. CASE /\ clock' = clock + 1 /\ Put(v, clock') /\ Log(v, TRUE)
             /\ \E l \in Calls : /\ Moved(Plug, "readback", l) /\ l.vault = v
                                 /\ l.note = clock' /\ l.plugin = loc[Plug].plugin
    <3>1. PICK l \in Calls : /\ Moved(Plug, "readback", l) /\ l.vault = v
                             /\ l.note = clock' /\ l.plugin = loc[Plug].plugin
      BY <2>2
    <3>2. v \in Vaults /\ l.plugin \in BOOLEAN /\ ring' = ring
      BY <1>2, TypeIs, SendersAre DEF Calls, Land, bus
    <3>3. l.plugin = TRUE
      BY <1>2, <3>1, <3>2, LandIs DEF PlaceInv
    <3>4. \A q \in Senders : Stays(q) \/ (loc'[q].vault = v /\ loc'[q].note = clock + 1 /\ loc'[q].plugin = TRUE)
      BY <2>2, <3>1, <3>3, SameStays, SendersAre DEF Moved, Others
    <3>5. /\ notes' = [notes EXCEPT ![v] = clock + 1] /\ known' = [known EXCEPT ![v] = clock + 1]
          /\ clock' = clock + 1 /\ Log(v, TRUE)
      BY <2>2 DEF Put
    <3> HIDE DEF v
    <3> QED BY <3>2, <3>4, <3>5, TruthWrite
  <2> QED BY <1>2, <2>1, <2>2, LandIs
<1>3. ASSUME NEW v \in Vaults, EditOutside(v) PROVE TruthInv'
  <2>1. clock' = clock + 1 /\ Log(v, FALSE) /\ pc' = pc /\ loc' = loc /\ ring' = ring /\ known' = known
    BY <1>3, EditIs DEF EditOutside, bus
  <2>2. PICK n \in {0, clock'} : notes' = [notes EXCEPT ![v] = n]
    BY <1>3, EditIs
  <2>3. \A q \in Senders : Stays(q)
    BY <2>1, SameStays DEF Same
  <2> QED BY <2>1, <2>2, <2>3, TruthWrite
<1> QED BY <1>1, <1>2, <1>3

LEMMA TruthSweep ==
  ASSUME TypeInv, TruthInv, NEW v0 \in Vaults, Sweep(v0)
  PROVE  TruthInv'
<1>1. PICK l \in Calls : /\ Moved(Gate, "publish", l) /\ l.vault = v0 /\ l.note = notes[v0] /\ l.plugin = FALSE
  BY SweepIs
<1>2. /\ UNCHANGED <<notes, log, ring, clock>> /\ known' = [known EXCEPT ![v0] = notes[v0]]
      /\ notes[v0] # known[v0]
  BY DEF Sweep, Only, bus, bounds
<1>3. /\ notes \in [Vaults -> Notes] /\ known \in [Vaults -> Notes] /\ clock \in Nat /\ Notes \subseteq Nat
      /\ log \in Seq([vault : Vaults, plugin : BOOLEAN]) /\ Len(log) = clock
  BY TypeIs DEF TypeInv, Notes
<1>4. Wrote(notes[v0], v0, FALSE)
  <2>1. CASE notes[v0] = 0
    BY <2>1 DEF Wrote
  <2>2. CASE notes[v0] # 0
    <3>1. notes[v0] <= clock /\ log[notes[v0]].vault = v0 /\ ~log[notes[v0]].plugin
      BY <1>2, <2>2 DEF TruthInv
    <3> DEFINE n == notes[v0]
    <3>2. n \in 1 .. clock
      <4>1. n \in Nat /\ n # 0 /\ n <= clock /\ clock \in Nat
        BY <1>3, <2>2, <3>1
      <4> HIDE DEF n
      <4> QED BY <4>1
    <3>3. log[n] \in [vault : Vaults, plugin : BOOLEAN]
      <4> HIDE DEF n
      <4> DEFINE S == [vault : Vaults, plugin : BOOLEAN]
      <4>1. log \in Seq(S) /\ Len(log) = clock
        BY <1>3
      <4> HIDE DEF S
      <4>2. log[n] \in S
        BY <3>2, <4>1
      <4> QED BY <4>2 DEF S
    <3> DEFINE e == log[notes[v0]]
    <3> HIDE DEF e
    <3>4. e \in [vault : Vaults, plugin : BOOLEAN] /\ e.vault = v0 /\ ~e.plugin
      BY <3>1, <3>3 DEF e
    <3>5. e = [vault |-> v0, plugin |-> FALSE]
      BY <3>4
    <3> QED BY <3>1, <3>5 DEF Wrote, e
  <2> QED BY <2>1, <2>2
<1>5. ASSUME NEW q \in Senders, Announces(q)' PROVE Wrote(loc[q].note, loc[q].vault, loc[q].plugin)'
  <2>1. CASE q = Gate
    BY <1>1, <1>2, <1>4, <2>1 DEF Wrote, Moved
  <2>2. CASE q # Gate
    <3>1. Same(q) /\ Announces(q)
      BY <1>1, <1>5, <2>2, SameStays, SendersAre DEF Moved, Others, Stays
    <3> QED BY <1>2, <3>1 DEF Wrote, TruthInv, Same
  <2> QED BY <2>1, <2>2
<1>6. \A i \in DOMAIN ring' : Wrote(ring[i].note, ring[i].vault, ring[i].plugin)'
  BY <1>2 DEF TruthInv, Wrote
<1>7. ASSUME NEW v \in Vaults
      PROVE  /\ notes'[v] # 0 => notes'[v] <= clock' /\ log'[notes'[v]].vault = v
             /\ known'[v] <= clock'
             /\ notes'[v] # known'[v] /\ notes'[v] # 0 => ~log'[notes'[v]].plugin
  <2>1. notes'[v] # 0 => notes'[v] <= clock' /\ log'[notes'[v]].vault = v
    BY <1>2 DEF TruthInv
  <2>2. CASE v = v0
    <3>1. known'[v] = notes'[v] /\ notes'[v] \in Nat
      BY <1>2, <1>3, <2>2
    <3> QED BY <1>2, <1>3, <2>1, <3>1
  <2>3. CASE v # v0
    <3>1. known'[v] = known[v]
      BY <1>2, <1>3, <2>3
    <3> QED BY <1>2, <2>1, <3>1 DEF TruthInv
  <2> QED BY <2>2, <2>3
<1> QED BY <1>5, <1>6, <1>7 DEF TruthInv

LEMMA TruthSend ==
  ASSUME TypeInv, TruthInv, NEW p \in Senders, Send(p)
  PROVE  TruthInv'
<1>1. pc[p] = "send" /\ UNCHANGED <<notes, known, log, clock>>
  BY DEF Send, Only, world, bounds
<1>2. PICK e \in Events :
        /\ Shifted(ring, e, ring') /\ e.vault = loc[p].vault /\ e.plugin = loc[p].plugin /\ e.note = loc[p].note
  BY SendIs
<1>3. PICK drop \in {0, 1} : /\ Len(ring') = Len(ring) + 1 - drop /\ ring'[Len(ring')] = e
                             /\ \A i \in 1 .. Len(ring) - drop : ring'[i] = ring[i + drop]
  BY <1>2 DEF Shifted
<1>4. ring \in Seq(Events) /\ ring' \in Seq(Events) /\ Len(ring) \in Nat /\ Len(ring') \in Nat
  BY SendIs DEF TypeInv
<1>5. Wrote(e.note, e.vault, e.plugin)
  BY <1>1, <1>2 DEF TruthInv, Announces
<1>6. ASSUME NEW i \in DOMAIN ring' PROVE Wrote(ring[i].note, ring[i].vault, ring[i].plugin)'
  <2>1. CASE i = Len(ring')
    BY <1>1, <1>3, <1>5, <2>1 DEF Wrote
  <2>2. CASE i # Len(ring')
    <3>1. i \in 1 .. Len(ring) - drop /\ i + drop \in DOMAIN ring
      BY <1>3, <1>4, <1>6, <2>2
    <3>2. ring'[i] = ring[i + drop]
      BY <1>3, <3>1
    <3> QED BY <1>1, <3>1, <3>2 DEF TruthInv, Wrote
  <2> QED BY <2>1, <2>2
<1>7. ASSUME NEW q \in Senders, Announces(q)' PROVE Wrote(loc[q].note, loc[q].vault, loc[q].plugin)'
  BY <1>1, <1>7, SendStays DEF Stays, TruthInv, Wrote
<1>8. /\ \A v \in Vaults : notes'[v] # 0 => notes'[v] <= clock' /\ log'[notes'[v]].vault = v
      /\ \A v \in Vaults : known'[v] <= clock'
      /\ \A v \in Vaults : notes'[v] # known'[v] /\ notes'[v] # 0 => ~log'[notes'[v]].plugin
  BY <1>1 DEF TruthInv
<1> QED BY <1>6, <1>7, <1>8 DEF TruthInv

LEMMA TruthRestart == ASSUME TypeInv, TruthInv, Restart PROVE TruthInv'
<1>1. /\ UNCHANGED <<notes, log, clock>> /\ known' = notes /\ ring' = <<>>
      /\ \A p \in Procs : pc'[p] = "idle"
  BY RestartIs
<1>2. \A q \in Senders : ~Announces(q)'
  BY <1>1, SendersAre DEF Announces
<1>3. \A v \in Vaults : notes[v] \in Nat /\ (notes[v] # 0 => notes[v] <= clock) /\ clock \in Nat
  BY TypeIs DEF TypeInv, TruthInv, Notes
<1>4. \A v \in Vaults : known'[v] <= clock'
  BY <1>1, <1>3
<1>5. DOMAIN ring' = {}
  BY <1>1
<1> QED BY <1>1, <1>2, <1>4, <1>5 DEF TruthInv

-----------------------------------------------------------------------------
(* What the plugin has been shown.                                         *)

LEMMA SeenStep ==
  ASSUME SeenInv, seen \subseteq seen', raced \subseteq raced', Stays(Plug),
         "readback" \notin raced' =>
           ( Showed(held) /\ Showed(loc[Plug].token) /\ "overwrote" \notin raced
             => Showed(held)' /\ Showed(loc[Plug].token)' /\ "overwrote" \notin raced' )
  PROVE  SeenInv'
<1>1. Announces(Plug)' => loc'[Plug].note \in seen'
  BY DEF SeenInv, Stays
<1>2. "readback" \notin raced' => Showed(held)' /\ Showed(loc[Plug].token)' /\ "overwrote" \notin raced'
  BY DEF SeenInv
<1> QED BY <1>1, <1>2 DEF SeenInv

LEMMA SeenSame ==
  ASSUME SeenInv, UNCHANGED <<seen, held>>, Same(Plug), raced \subseteq raced',
         raced' \subseteq raced \cup {"readback", "elsewhere", "unseen", "untold"}
  PROVE  SeenInv'
<1>1. Stays(Plug) /\ loc'[Plug] = loc[Plug]
  BY SameStays DEF Same
<1> QED BY <1>1, SeenStep DEF Showed

\* A call that ends: the token it leaves is one it had.
LEMMA SeenTold ==
  ASSUME SeenInv, seen' = seen, raced' = raced, Moved(Plug, "idle", Blank),
         held' = held \/ held' = loc[Plug].token
  PROVE  SeenInv'
<1>1. Stays(Plug) /\ loc'[Plug].token = <<>>
  BY BlankIs DEF Stays, Announces, Moved
<1>2. Showed(held) /\ Showed(loc[Plug].token) => Showed(held)' /\ Showed(loc[Plug].token)'
  BY <1>1 DEF Showed
<1> QED BY <1>1, <1>2, SeenStep

LEMMA SeenPublish ==
  ASSUME TypeInv, SeenInv, NEW p \in Senders, Number(p) \/ Send(p)
  PROVE  SeenInv'
<1>1. seen' = seen /\ raced' = raced
  BY NumberIs, SendIs DEF Number, Send
<1>2. CASE Moved(p, "idle", Blank) /\ (held' = held \/ (p = Plug /\ held' = loc[Plug].token))
  <2>1. CASE p = Plug
    BY <1>1, <1>2, <2>1, SeenTold
  <2>2. CASE p # Plug
    <3>1. Same(Plug) /\ held' = held
      BY <1>2, <2>2, SendersAre DEF Moved, Others
    <3> QED BY <1>1, <3>1, SeenSame
  <2> QED BY <2>1, <2>2
<1>3. CASE Number(p) /\ held' = held /\ \E l \in Calls : Moved(p, "send", l) /\ Kept(l, loc[p])
  <2>1. CASE p = Plug
    <3>1. Stays(Plug)
      BY <1>3, <2>1, NumberStays
    <3>2. loc'[Plug].token = loc[Plug].token
      BY <1>3, <2>1 DEF Moved, Kept
    <3>3. Showed(held) /\ Showed(loc[Plug].token) => Showed(held)' /\ Showed(loc[Plug].token)'
      BY <1>1, <1>3, <3>2 DEF Showed
    <3> QED BY <1>1, <3>1, <3>3, SeenStep
  <2>2. CASE p # Plug
    <3>1. Same(Plug)
      BY <1>3, <2>2, SendersAre DEF Moved, Others
    <3> QED BY <1>1, <1>3, <3>1, SeenSame
  <2> QED BY <2>1, <2>2
<1>4. CASE Number(p)
  BY <1>2, <1>3, <1>4, NumberIs
<1>5. CASE Send(p)
  BY <1>2, <1>5, SendIs
<1> QED BY <1>4, <1>5

LEMMA SeenLand ==
  ASSUME TypeInv, PlaceInv, SeenInv, Land
  PROVE  SeenInv'
<1>1. held' = held
  BY DEF Land
<1>2. CASE Moved(Plug, "idle", Blank) /\ UNCHANGED <<seen, raced>>
  BY <1>1, <1>2, SeenTold
<1> DEFINE v == loc[Plug].vault
<1>3. CASE /\ Allowed(loc[Plug]) /\ clock' = clock + 1
           /\ seen' = seen \cup {clock'}
           /\ raced' = raced \cup (IF notes[v] \notin seen \cup {0} THEN {"overwrote"} ELSE {})
           /\ \E l \in Calls : /\ Moved(Plug, "readback", l) /\ l.note = clock' /\ l.token = loc[Plug].token
  <2>1. loc'[Plug].note = clock' /\ loc'[Plug].token = loc[Plug].token
    BY <1>3 DEF Moved
  <2>2. Showed(loc[Plug].token) => notes[v] \in seen \cup {0}
    <3>1. CASE loc[Plug].kind = "create"
      BY <1>3, <3>1 DEF Allowed
    <3>2. CASE loc[Plug].kind # "create"
      <4>1. loc[Plug].token = <<Backend(v), notes[v]>>
        BY <1>3, <3>2 DEF Allowed
      <4>2. <<Backend(v), notes[v]>> # <<>> /\ <<Backend(v), notes[v]>>[2] = notes[v]
        OBVIOUS
      <4> QED BY <4>1, <4>2 DEF Showed
    <3> QED BY <3>1, <3>2
  <2>3. "readback" \notin raced' => "readback" \notin raced
    BY <1>3
  <2>4. ASSUME "readback" \notin raced' PROVE Showed(held)' /\ Showed(loc[Plug].token)' /\ "overwrote" \notin raced'
    <3>1. Showed(held) /\ Showed(loc[Plug].token) /\ "overwrote" \notin raced
      BY <2>3, <2>4 DEF SeenInv
    <3>2. raced' = raced
      BY <1>3, <2>2, <3>1
    <3>3. Showed(held)' /\ Showed(loc[Plug].token)'
      BY <1>1, <1>3, <2>1, <3>1 DEF Showed
    <3> QED BY <3>1, <3>2, <3>3
  <2> QED BY <1>3, <2>1, <2>4 DEF SeenInv
<1> QED BY <1>2, <1>3, LandIs

LEMMA SeenReadBack ==
  ASSUME TypeInv, PlaceInv, SeenInv, ReadBack
  PROVE  SeenInv'
<1> DEFINE v == loc[Plug].vault
<1>1. UNCHANGED <<held, seen>> /\ Stays(Plug)
  BY CallsStay, SendersAre DEF ReadBack, plugin, Senders
<1>2. /\ pc[Plug] = "readback" /\ loc[Plug].note \in seen
      /\ raced' = raced \cup (IF notes[v] # loc[Plug].note THEN {"readback"} ELSE {})
  BY ReadBackIs DEF PlaceInv, SeenInv, Announces
<1>3. CASE Moved(Plug, "idle", Blank)
  <2>1. loc'[Plug].token = <<>>
    BY <1>3, BlankIs DEF Moved
  <2>2. Showed(held) => Showed(held)' /\ Showed(loc[Plug].token)'
    BY <1>1, <2>1 DEF Showed
  <2> QED BY <1>1, <1>2, <2>2, SeenStep
<1>4. CASE \E l \in Calls : Moved(Plug, "token", l) /\ l.token = <<"", notes[v]>>
  <2>1. loc'[Plug].token = <<"", notes[v]>>
    BY <1>4 DEF Moved
  <2>2. loc'[Plug].token[2] = notes[v]
    <3>1. <<"", notes[v]>>[2] = notes[v]
      OBVIOUS
    <3> QED BY <2>1, <3>1
  <2>3. "readback" \notin raced' => notes[v] \in seen
    BY <1>2
  <2>4. "readback" \notin raced' => Showed(loc[Plug].token)'
    BY <1>1, <2>2, <2>3 DEF Showed
  <2>5. Showed(held) => Showed(held)'
    BY <1>1 DEF Showed
  <2> QED BY <1>1, <1>2, <2>4, <2>5, SeenStep
<1> QED BY <1>3, <1>4, ReadBackIs

LEMMA SeenToken ==
  ASSUME TypeInv, PlaceInv, SeenInv, Token
  PROVE  SeenInv'
<1>1. raced' = raced /\ Stays(Plug)
  BY CallsStay, SendersAre DEF Token, Senders
<1>2. CASE /\ Moved(Plug, "idle", Blank)
           /\ held' = <<Backend(active), loc[Plug].note>> /\ seen' = seen \cup {loc[Plug].note}
  <2>1. loc'[Plug].token = <<>> /\ held'[2] = loc[Plug].note
    BY <1>2, BlankIs DEF Moved
  <2>2. Showed(held)' /\ Showed(loc[Plug].token)'
    BY <1>2, <2>1 DEF Showed
  <2> QED BY <1>1, <1>2, <2>2, SeenStep
<1>3. CASE /\ UNCHANGED plugin /\ loc[Plug].token # <<>>
           /\ \E l \in Calls : /\ Moved(Plug, "publish", l) /\ l.token = <<Backend(active), loc[Plug].token[2]>>
  <2>1. loc'[Plug].token = <<Backend(active), loc[Plug].token[2]>> /\ UNCHANGED <<held, seen>>
    BY <1>3 DEF Moved, plugin
  <2>2. loc'[Plug].token[2] = loc[Plug].token[2]
    BY <2>1
  <2>3. Showed(loc[Plug].token) => Showed(loc[Plug].token)'
    BY <1>3, <2>1, <2>2 DEF Showed
  <2>4. Showed(held) => Showed(held)'
    BY <2>1 DEF Showed
  <2> QED BY <1>1, <2>1, <2>3, <2>4, SeenStep
<1> QED BY <1>2, <1>3, TokenIs

LEMMA SeenCalls ==
  ASSUME TypeInv, PlaceInv, SeenInv,
         Calling \/ Timeout \/ \E kind \in {"read", "create", "write"} : Ask(kind)
  PROVE  SeenInv'
<1>1. ASSUME NEW kind \in {"read", "create", "write"}, Ask(kind) PROVE SeenInv'
  <2>1. UNCHANGED <<held, seen, raced>> /\ Stays(Plug)
    BY <1>1, CallsStay, SendersAre DEF Ask, plugin, Senders
  <2>2. loc'[Plug].token = held
    BY <1>1, AskIs DEF Moved
  <2>3. Showed(held) => Showed(held)' /\ Showed(loc[Plug].token)'
    BY <2>1, <2>2 DEF Showed
  <2> QED BY <2>1, <2>3, SeenStep
<1>2. CASE Resolve
  <2>1. UNCHANGED <<held, seen>> /\ Stays(Plug) /\ loc'[Plug].token = loc[Plug].token
    BY <1>2, CallsStay, ResolveIs, SendersAre DEF Resolve, plugin, Moved, Senders
  <2>2. raced' = raced \cup (IF active # loc[Plug].asked THEN {"elsewhere"} ELSE {})
    BY <1>2 DEF Resolve
  <2>3. Showed(held) /\ Showed(loc[Plug].token) => Showed(held)' /\ Showed(loc[Plug].token)'
    BY <2>1 DEF Showed
  <2> QED BY <2>1, <2>2, <2>3, SeenStep
<1>3. CASE LoadNote
  <2>1. UNCHANGED <<held, seen, raced>> /\ Stays(Plug)
    BY <1>3, CallsStay, SendersAre DEF LoadNote, plugin, Senders
  <2>2. loc'[Plug].token = <<>> \/ loc'[Plug].token = loc[Plug].token
    BY <1>3, LoadNoteIs, BlankIs DEF Moved
  <2>3. Showed(held) /\ Showed(loc[Plug].token) => Showed(held)' /\ Showed(loc[Plug].token)'
    BY <2>1, <2>2 DEF Showed
  <2> QED BY <2>1, <2>3, SeenStep
<1>4. CASE Timeout
  <2>1. /\ UNCHANGED <<held, seen>> /\ Stays(Plug) /\ Moved(Plug, "idle", Blank)
        /\ raced' = raced \cup (IF pc[Plug] \in {"readback", "token"} /\ loc[Plug].kind # "read"
                                THEN {"untold"} ELSE {})
    BY <1>4, CallsStay, TimeoutIs, SendersAre DEF Timeout, plugin, Senders
  <2>2. loc'[Plug].token = <<>>
    BY <2>1, BlankIs DEF Moved
  <2>3. Showed(held) => Showed(held)' /\ Showed(loc[Plug].token)'
    BY <2>1, <2>2 DEF Showed
  <2> QED BY <2>1, <2>3, SeenStep
<1> QED BY <1>1, <1>2, <1>3, <1>4, SeenLand, SeenReadBack, SeenToken DEF Calling

LEMMA SeenRestart == ASSUME TypeInv, SeenInv, Restart PROVE SeenInv'
<1>1. /\ UNCHANGED <<seen, raced>> /\ held' = <<>> /\ pc'[Plug] = "idle" /\ loc'[Plug] = Blank
  BY RestartIs, SendersAre
<1>2. Stays(Plug) /\ loc'[Plug].token = <<>>
  BY <1>1, BlankIs DEF Stays, Announces
<1>3. Showed(held)' /\ Showed(loc[Plug].token)'
  BY <1>1, <1>2 DEF Showed
<1> QED BY <1>1, <1>2, <1>3, SeenStep

-----------------------------------------------------------------------------
(* The worker's position.                                                  *)

LEMMA StartWork ==
  ASSUME TypeInv, BusInv, StartInv, Working
  PROVE  StartInv'
<1>1. LockInv /\ cursor \in Nat /\ epoch \in Nat /\ worker.last \in Nat
  BY DEF TypeInv, Workers, BusInv
<1>2. epoch' = epoch
  BY StartIs, RecvIs, ReReadCheckIs, ReReadIs, PutTempIs, PutRenameIs, StopWorkerIs, <1>1
     DEF Working, Unmoved, bus
<1>3. worker'.at # "start" /\ cursor' \in {cursor, worker.last} /\ worker'.last \in {worker.last, epoch}
  <2>1. CASE Start \/ Recv \/ ReReadCheck \/ ReRead
    BY <1>1, <2>1, StartIs, RecvIs, ReReadCheckIs, ReReadIs
  <2>2. CASE PutTemp \/ PutRename \/ StopWorker
    BY <2>2, PutTempIs, PutRenameIs, StopWorkerIs
  <2> QED BY <2>1, <2>2 DEF Working
<1>4. cursor' <= epoch' /\ worker'.last <= epoch'
  BY <1>1, <1>2, <1>3 DEF StartInv
<1> QED BY <1>3, <1>4 DEF StartInv

LEMMA StartRestart == ASSUME TypeInv, StartInv, Restart PROVE StartInv'
<1>1. worker'.last = 0 /\ cursor' = cursor /\ epoch' = epoch + 1
  BY RestartIs
<1>2. cursor \in Nat /\ epoch \in Nat /\ cursor <= epoch
  BY DEF TypeInv, StartInv
<1> QED BY <1>1, <1>2 DEF StartInv

-----------------------------------------------------------------------------
(* The mirror.                                                             *)

Late == worker.mirror # notes[Home]
Trusted == raced \cap {"untold", "elsewhere", "unseen"} = {} /\ ~closed
\* What a step must show: what was to come has come, or is still to come.
Pending == Looks \/ Lags \/ Coming \/ Announced \/ Unswept

LEMMA MirrorIs == MirrorInv <=> (Trusted => (worker.mirror = notes[Home] \/ Pending))
BY DEF MirrorInv, Trusted, Pending

LEMMA TrustedStays ==
  ASSUME raced \subseteq raced', closed' = closed \/ closed' = TRUE, Trusted'
  PROVE  Trusted
BY DEF Trusted

\* A step that leaves the notes, the bus and the worker alone.
LEMMA MirrorSame ==
  ASSUME MirrorInv, UNCHANGED <<notes, known, ring, tail, mutex, worker>>,
         raced \subseteq raced', closed' = closed \/ closed' = TRUE,
         Trusted' /\ Announced => Announced'
  PROVE  MirrorInv'
<1>1. SUFFICES ASSUME Trusted' PROVE worker'.mirror = notes'[Home] \/ Pending'
  BY DEF MirrorInv, Trusted, Pending
<1>2. Trusted
  BY <1>1, TrustedStays
<1>3. worker.mirror = notes[Home] \/ Pending
  BY <1>2, MirrorIs
<1>4. Sent' = Sent /\ Oldest' = Oldest
  BY DEF Sent, Oldest
<1>5. (Looks => Looks') /\ (Lags => Lags') /\ (Unswept => Unswept')
  BY <1>4 DEF Looks, Lags, Unswept
<1>6. Coming => Coming'
  BY DEF Coming
<1> QED BY <1>1, <1>3, <1>5, <1>6 DEF Pending

\* One process moves, and what it was to announce it still does.
LEMMA AnnouncedStays ==
  ASSUME notes'[Home] = notes[Home], NEW p, \A q \in Senders \ {p} : Same(q),
         Announces(p) /\ loc[p].vault = Home /\ (pc[p] = "readback" => loc[p].note = notes[Home]) =>
           Announces(p)' /\ loc'[p].vault = Home /\ pc'[p] # "readback",
         Announced
  PROVE  Announced'
<1>1. PICK q \in Senders : Announces(q) /\ loc[q].vault = Home /\ (pc[q] = "readback" => loc[q].note = notes[Home])
  BY DEF Announced
<1>2. CASE q = p
  <2>1. Announces(p)' /\ loc'[p].vault = Home /\ pc'[p] # "readback"
    BY <1>1, <1>2
  <2> QED BY <1>2, <2>1 DEF Announced
<1>3. CASE q # p
  <2>1. Same(q) /\ Announces(q)'
    BY <1>1, <1>3, SameStays
  <2>2. loc'[q].vault = Home /\ (pc'[q] = "readback" => loc'[q].note = notes'[Home])
    BY <1>1, <2>1 DEF Same
  <2> QED BY <2>1, <2>2 DEF Announced
<1> QED BY <1>2, <1>3

\* One that had nothing to announce moves.
LEMMA OthersAnnounce ==
  ASSUME notes'[Home] = notes[Home], NEW p, \A q \in Senders \ {p} : Same(q), ~Announces(p), Announced
  PROVE  Announced'
BY AnnouncedStays

LEMMA MirrorCalls ==
  ASSUME TypeInv, PlaceInv, MirrorInv,
         \/ Resolve \/ LoadNote \/ ReadBack \/ Token \/ Timeout
         \/ \E kind \in {"read", "create", "write"} : Ask(kind)
  PROVE  MirrorInv'
<1>1. \A q \in Senders \ {Plug} : Same(q)
  BY CallsStay
<1>2. /\ UNCHANGED <<notes, known, ring, tail, mutex, worker, closed>> /\ raced \subseteq raced'
  BY DEF Resolve, LoadNote, ReadBack, Token, Timeout, Ask, world, bus, mine
<1>3. ASSUME Trusted', Announced PROVE Announced'
  <2>1. CASE ~Announces(Plug)
    BY <1>1, <1>2, <1>3, <2>1, OthersAnnounce
  <2>2. CASE Announces(Plug)
    <3>1. pc[Plug] \in {"readback", "token", "publish", "send"} /\ (pc[Plug] = "token" => loc[Plug].kind # "read")
      BY <2>2 DEF Announces
    <3>2. CASE ReadBack
      <4> DEFINE v == loc[Plug].vault
      <4>1. pc[Plug] = "readback" /\ loc[Plug].kind # "read" /\ loc[Plug].note # 0
        BY <3>2, ReadBackIs DEF PlaceInv
      <4>2. CASE Moved(Plug, "idle", Blank) /\ notes[v] = 0
        BY <1>1, <1>2, <1>3, <4>1, <4>2, AnnouncedStays
      <4>3. CASE \E l \in Calls : Moved(Plug, "token", l) /\ l.kind = loc[Plug].kind /\ l.vault = v
        <5>1. Announces(Plug)' /\ loc'[Plug].vault = loc[Plug].vault /\ pc'[Plug] # "readback"
          BY <4>1, <4>3 DEF Moved, Announces
        <5> QED BY <1>1, <1>2, <1>3, <5>1, AnnouncedStays
      <4> QED BY <3>2, <4>2, <4>3, ReadBackIs
    <3>3. CASE Token
      <4>1. loc[Plug].kind # "read" /\ \E l \in Calls : Moved(Plug, "publish", l) /\ l.vault = loc[Plug].vault
        BY <3>1, <3>3, TokenIs
      <4>2. Announces(Plug)' /\ loc'[Plug].vault = loc[Plug].vault /\ pc'[Plug] # "readback"
        BY <4>1 DEF Moved, Announces
      <4> QED BY <1>1, <1>2, <1>3, <4>2, AnnouncedStays
    <3>4. CASE Timeout
      <4>1. /\ pc[Plug] \in {"readback", "token"}
            /\ raced' = raced \cup (IF pc[Plug] \in {"readback", "token"} /\ loc[Plug].kind # "read"
                                    THEN {"untold"} ELSE {})
        BY <3>1, <3>4 DEF Timeout
      <4>2. loc[Plug].kind # "read"
        BY <3>1, <4>1 DEF PlaceInv
      <4> QED BY <1>3, <4>1, <4>2 DEF Trusted
    <3>5. CASE Resolve \/ LoadNote \/ \E kind \in {"read", "create", "write"} : Ask(kind)
      BY <3>1, <3>5 DEF Resolve, LoadNote, Ask, Only
    <3> QED BY <3>2, <3>3, <3>4, <3>5
  <2> QED BY <2>1, <2>2
<1> QED BY <1>2, <1>3, MirrorSame

LEMMA MirrorNumber ==
  ASSUME TypeInv, BusInv, MirrorInv, NEW p \in Senders, Number(p)
  PROVE  MirrorInv'
<1>1. /\ pc[p] = "publish" /\ mutex = Free
      /\ UNCHANGED <<notes, known, ring, worker, closed, raced>> /\ \A q \in Senders \ {p} : Same(q)
  BY NumberIs, NumberStays DEF Number, Only, world, mine
<1>2. CASE closed
  BY <1>1, <1>2 DEF MirrorInv
<1>3. CASE ~closed
  <2>1. tail' = tail + 1 /\ mutex' = p /\ \E l \in Calls : Moved(p, "send", l) /\ Kept(l, loc[p])
    BY <1>3, NumberIs
  <2>2. Announces(p)' /\ loc'[p].vault = loc[p].vault /\ pc'[p] # "readback"
    BY <2>1 DEF Moved, Kept, Announces
  <2>3. Announced => Announced'
    BY <1>1, <2>2, AnnouncedStays
  <2>4. Sent' = Sent /\ Oldest' = Oldest
    <3>1. p # Free /\ tail \in Nat
      BY TypeIs, FeedAssumption DEF Senders
    <3>2. Sent = tail /\ Sent' = tail + 1 - 1
      BY <1>1, <2>1, <3>1 DEF Sent
    <3>3. Sent' = Sent
      BY <3>1, <3>2
    <3> QED BY <1>1, <3>3 DEF Oldest
  <2>5. /\ (Looks => Looks') /\ (Lags => Lags') /\ (Unswept => Unswept') /\ (Coming => Coming')
        /\ Trusted' = Trusted
    BY <1>1, <2>4 DEF Looks, Lags, Unswept, Coming, Trusted
  <2> QED BY <1>1, <2>3, <2>5, MirrorIs DEF Pending, MirrorInv, Trusted
<1> QED BY <1>2, <1>3

LEMMA MirrorSend ==
  ASSUME TypeInv, BusInv, MirrorInv, NEW p \in Senders, Send(p)
  PROVE  MirrorInv'
<1>1. /\ loc[p].seq = tail /\ Sent = tail - 1 /\ Sent' = tail /\ worker' = worker
      /\ UNCHANGED <<notes, known, closed, raced>> /\ \A q \in Senders \ {p} : Same(q)
  BY SendNumbers, SendStays DEF Send, world
<1>2. PICK e \in Events : Shifted(ring, e, ring') /\ e.seq = tail /\ e.vault = loc[p].vault
  BY <1>1, SendIs
<1>3. PICK drop \in {0, 1} : /\ Len(ring') = Len(ring) + 1 - drop /\ ring'[Len(ring')] = e
                             /\ \A i \in 1 .. Len(ring) - drop : ring'[i] = ring[i + drop]
  BY <1>2 DEF Shifted
<1>4. /\ ring \in Seq(Events) /\ ring' \in Seq(Events) /\ tail \in Nat /\ Len(ring) \in Nat /\ Len(ring') \in Nat
      /\ worker.next \in Nat /\ worker.next <= Sent /\ drop \in {0, 1} /\ Oldest \in Nat \ {0}
  BY SendIs, SentIs DEF TypeInv, BusInv
<1>5. Oldest' = Oldest + drop
  BY <1>1, <1>3, <1>4 DEF Oldest
<1>6. (Looks => Looks') /\ (Unswept => Unswept') /\ Trusted' = Trusted
  BY <1>1 DEF Looks, Unswept, Trusted
<1>7. Lags => Lags'
  BY <1>1, <1>4, <1>5 DEF Lags
<1>8. ASSUME Announced PROVE Announced' \/ Coming'
  <2>1. CASE loc[p].vault = Home
    <3>1. Len(ring') \in DOMAIN ring'
      <4>1. 1 <= Len(ring')
        <5>1. CASE Len(ring) = 0
          BY <1>2, <1>3, <1>4, <5>1, FeedAssumption, SendIs DEF Send
        <5>2. CASE Len(ring) # 0
          BY <1>3, <1>4, <5>2
        <5> QED BY <5>1, <5>2
      <4> QED BY <1>4, <4>1
    <3>2. ring'[Len(ring')].seq > worker'.next /\ ring'[Len(ring')].vault = Home
      BY <1>1, <1>2, <1>3, <1>4, <2>1
    <3> QED BY <3>1, <3>2 DEF Coming
  <2>2. CASE loc[p].vault # Home
    BY <1>1, <1>8, <2>2, AnnouncedStays
  <2> QED BY <2>1, <2>2
<1>9. ASSUME Coming PROVE Coming' \/ Lags'
  <2>1. PICK i \in DOMAIN ring : ring[i].seq > worker.next /\ ring[i].vault = Home
    BY <1>9 DEF Coming
  <2>2. i \in 1 .. Len(ring)
    BY <1>4, <2>1
  <2>3. CASE i = drop
    <3>1. ring[i].seq = Oldest + i - 1 /\ i = 1 /\ drop = 1
      BY <1>4, <2>2, <2>3 DEF BusInv, FeedInOrder
    <3>2. worker.next + 1 < Oldest + 1
      BY <1>4, <2>1, <3>1
    <3> QED BY <1>1, <1>5, <3>1, <3>2 DEF Lags
  <2>4. CASE i # drop
    <3>1. i - drop \in 1 .. Len(ring) - drop /\ i - drop \in 1 .. Len(ring')
      BY <1>3, <1>4, <2>2, <2>4
    <3>2. ring'[i - drop] = ring[i] /\ i - drop \in DOMAIN ring'
      BY <1>3, <1>4, <2>2, <3>1
    <3> QED BY <1>1, <2>1, <3>2 DEF Coming
  <2> QED BY <2>3, <2>4
<1> QED BY <1>1, <1>6, <1>7, <1>8, <1>9, MirrorIs DEF Pending, MirrorInv, Trusted

LEMMA MirrorWrites ==
  ASSUME TypeInv, PlaceInv, TruthInv, MirrorInv,
         ToolWrite \/ Land \/ \E v \in Vaults : EditOutside(v) \/ Sweep(v)
  PROVE  MirrorInv'
<1>0. /\ notes \in [Vaults -> Notes] /\ known \in [Vaults -> Notes] /\ Home \in Vaults
      /\ clock \in Nat /\ Notes \subseteq Nat
  BY TypeIs, FeedAssumption DEF TypeInv, Notes
<1>1. CASE ToolWrite
  <2>1. UNCHANGED <<ring, tail, mutex, worker, closed, raced>>
    BY <1>1 DEF ToolWrite, bus, mine
  <2>2. PICK n \in {0, clock'}, l \in Calls : /\ Put(active, n) /\ pc[Tool] = "idle" /\ Moved(Tool, "publish", l)
                                              /\ l.vault = active /\ l.note = n
    BY <1>1, ToolWriteIs
  <2>3. CASE active = Home
    <3>1. Tool \in Senders /\ Announces(Tool)' /\ loc'[Tool].vault = Home /\ pc'[Tool] # "readback"
      BY <2>2, <2>3 DEF Moved, Announces, Senders
    <3>2. Announced'
      BY <3>1 DEF Announced
    <3> QED BY <3>2 DEF MirrorInv
  <2>4. CASE active # Home
    <3>1. notes'[Home] = notes[Home] /\ known'[Home] = known[Home]
      BY <1>0, <2>2, <2>4 DEF Put
    <3>2. ~Announces(Tool) /\ \A q \in Senders \ {Tool} : Same(q)
      BY <2>2, SendersAre, FeedAssumption DEF Announces, Moved, Others
    <3>3. Announced => Announced'
      BY <3>1, <3>2, OthersAnnounce
    <3>4. /\ (Looks => Looks') /\ (Lags => Lags') /\ (Coming => Coming') /\ (Unswept => Unswept')
      BY <2>1, <3>1 DEF Looks, Lags, Coming, Unswept, Oldest, Sent
    <3> QED BY <2>1, <3>1, <3>3, <3>4 DEF MirrorInv
  <2> QED BY <2>3, <2>4
<1>2. CASE Land
  <2>1. UNCHANGED <<ring, tail, mutex, worker, closed>> /\ pc[Plug] = "land"
    BY <1>2, LandIs DEF Land, bus, mine
  <2>2. ~Announces(Plug) /\ raced \subseteq raced'
    BY <1>2, <2>1 DEF Announces, Land
  <2>3. CASE Moved(Plug, "idle", Blank) /\ UNCHANGED <<notes, known>>
    <3>1. Announced => Announced'
      BY <1>2, <2>2, <2>3, RefusedStays, OthersAnnounce
    <3> QED BY <2>1, <2>2, <2>3, <3>1, MirrorSame
  <2> DEFINE v == loc[Plug].vault
  <2>4. CASE Put(v, clock') /\ \E l \in Calls : Moved(Plug, "readback", l) /\ l.kind = loc[Plug].kind
                                                 /\ l.vault = v /\ l.note = clock'
    <3>1. PICK l \in Calls : Moved(Plug, "readback", l) /\ l.kind = loc[Plug].kind /\ l.vault = v /\ l.note = clock'
      BY <2>4
    <3>2. CASE v = Home
      <4>1. notes'[Home] = clock'
        BY <1>0, <2>4, <3>2 DEF Put
      <4>2. l.kind # "read"
        BY <2>1, <3>1 DEF PlaceInv
      <4>3. Plug \in Senders /\ Announces(Plug)' /\ loc'[Plug].vault = Home /\ loc'[Plug].note = notes'[Home]
        BY <3>1, <3>2, <4>1, <4>2 DEF Moved, Announces, Senders
      <4>4. Announced'
        BY <4>3 DEF Announced
      <4> QED BY <4>4 DEF MirrorInv
    <3>3. CASE v # Home
      <4>1. notes'[Home] = notes[Home] /\ known'[Home] = known[Home]
        BY <1>0, <2>4, <3>3 DEF Put
      <4>2. \A q \in Senders \ {Plug} : Same(q)
        BY <3>1, SendersAre DEF Moved, Others
      <4>3. Announced => Announced'
        BY <2>2, <4>1, <4>2, OthersAnnounce
      <4>4. /\ (Looks => Looks') /\ (Lags => Lags') /\ (Coming => Coming') /\ (Unswept => Unswept')
        BY <2>1, <4>1 DEF Looks, Lags, Coming, Unswept, Oldest, Sent
      <4> QED BY <2>1, <2>2, <4>1, <4>3, <4>4 DEF MirrorInv
    <3> QED BY <3>2, <3>3
  <2> QED BY <1>2, <2>3, <2>4, LandIs
<1>3. ASSUME NEW v \in Vaults, EditOutside(v) PROVE MirrorInv'
  <2>1. UNCHANGED <<known, ring, tail, mutex, worker, closed, pc, loc>>
    BY <1>3 DEF EditOutside, bus, mine
  <2>2. PICK n \in {0, clock'} : /\ notes' = [notes EXCEPT ![v] = n] /\ n # notes[v]
                                 /\ raced' = raced \cup (IF n = 0 /\ known[v] = 0 THEN {"unseen"} ELSE {})
    BY <1>3 DEF EditOutside
  <2>3. CASE v = Home
    <3>1. notes'[Home] = n /\ known'[Home] = known[Home] /\ known[Home] \in Nat /\ known[Home] <= clock
      BY <1>0, <2>1, <2>2, <2>3 DEF TruthInv
    <3>2. CASE n = known[Home]
      <4>1. clock' = clock + 1
        BY <1>3, EditIs
      <4>2. n = 0
        BY <1>0, <2>2, <3>1, <3>2, <4>1
      <4>3. "unseen" \in raced'
        BY <2>2, <2>3, <3>2, <4>2
      <4> QED BY <4>3 DEF MirrorInv
    <3>3. CASE n # known[Home]
      <4>1. Unswept'
        BY <3>1, <3>3 DEF Unswept
      <4> QED BY <4>1 DEF MirrorInv
    <3> QED BY <3>2, <3>3
  <2>4. CASE v # Home
    <3>1. notes'[Home] = notes[Home] /\ known'[Home] = known[Home]
      BY <1>0, <2>1, <2>2, <2>4
    <3>2. Announced => Announced'
      BY <2>1, <3>1 DEF Announced, Announces
    <3>3. /\ (Looks => Looks') /\ (Lags => Lags') /\ (Coming => Coming') /\ (Unswept => Unswept')
      BY <2>1, <3>1 DEF Looks, Lags, Coming, Unswept, Oldest, Sent
    <3> QED BY <2>1, <2>2, <3>1, <3>2, <3>3 DEF MirrorInv
  <2> QED BY <2>3, <2>4
<1>4. ASSUME NEW v \in Vaults, Sweep(v) PROVE MirrorInv'
  <2>1. /\ UNCHANGED <<notes, ring, tail, mutex, worker, closed, raced>>
        /\ known' = [known EXCEPT ![v] = notes[v]]
    BY <1>4 DEF Sweep, bus, mine
  <2>2. PICK l \in Calls : /\ pc[Gate] = "idle" /\ Moved(Gate, "publish", l) /\ l.vault = v
    BY <1>4, SweepIs
  <2>3. CASE v = Home
    <3>1. Gate \in Senders /\ Announces(Gate)' /\ loc'[Gate].vault = Home /\ pc'[Gate] # "readback"
      BY <2>2, <2>3 DEF Moved, Announces, Senders
    <3>2. Announced'
      BY <3>1 DEF Announced
    <3> QED BY <3>2 DEF MirrorInv
  <2>4. CASE v # Home
    <3>1. notes'[Home] = notes[Home] /\ known'[Home] = known[Home]
      BY <1>0, <2>1, <2>4
    <3>2. ~Announces(Gate) /\ \A q \in Senders \ {Gate} : Same(q)
      BY <2>2, SendersAre, FeedAssumption DEF Announces, Moved, Others
    <3>3. Announced => Announced'
      BY <3>1, <3>2, OthersAnnounce
    <3>4. /\ (Looks => Looks') /\ (Lags => Lags') /\ (Coming => Coming') /\ (Unswept => Unswept')
      BY <2>1, <3>1 DEF Looks, Lags, Coming, Unswept, Oldest, Sent
    <3> QED BY <2>1, <3>1, <3>3, <3>4 DEF MirrorInv
  <2> QED BY <2>3, <2>4
<1> QED BY <1>1, <1>2, <1>3, <1>4

\* A step of the worker's: it looks before it forgets that it has to.
LEMMA MirrorWork ==
  ASSUME TypeInv, BusInv, StartInv, MirrorInv, Working
  PROVE  MirrorInv'
<1>0. LockInv /\ Unmoved /\ raced \subseteq raced'
  <2>1. CASE Start \/ Recv \/ ReReadCheck \/ ReRead
    BY <2>1, StartIs, RecvIs, ReReadCheckIs, ReReadIs DEF BusInv
  <2>2. CASE PutTemp \/ PutRename \/ StopWorker
    BY <2>2, PutTempIs, PutRenameIs, StopWorkerIs DEF BusInv
  <2> QED BY <2>1, <2>2 DEF Working
<1>1. /\ UNCHANGED <<notes, known, active, ring, tail, mutex, closed, epoch, pc, loc>>
  BY <1>0 DEF Unmoved, world, bus
<1>2. Sent' = Sent /\ Oldest' = Oldest
  BY <1>1 DEF Sent, Oldest
<1>3. (Announced => Announced') /\ (Unswept => Unswept')
  BY <1>1 DEF Announced, Announces, Unswept
<1>4. CASE Looks'
  BY <1>4 DEF MirrorInv
<1>5. CASE Start
  <2>1. worker.at = "start" /\ worker'.due = (cursor # epoch)
    BY <1>5, StartIs
  <2>2. cursor < epoch /\ cursor \in Nat /\ epoch \in Nat
    BY <2>1 DEF StartInv, TypeInv
  <2>3. cursor # epoch
    BY <2>2
  <2> QED BY <2>1, <2>3, <1>4 DEF Looks
<1>6. CASE ReReadCheck \/ StopWorker
  <2>1. Looks'
    BY <1>6, ReReadCheckIs, StopWorkerIs DEF Looks
  <2> QED BY <1>4, <2>1
<1>7. CASE ReRead
  <2>1. worker'.mirror = notes[active] /\ raced' = raced \cup (IF active # Home THEN {"elsewhere"} ELSE {})
    BY <1>7, ReReadIs
  <2> QED BY <1>1, <2>1 DEF MirrorInv
<1>8. CASE PutTemp \/ PutRename
  <2>1. /\ worker'.due = worker.due /\ worker'.next = worker.next /\ worker'.mirror = worker.mirror
        /\ worker.at \in {"put", "rename"} /\ raced' = raced
    BY <1>8, PutTempIs, PutRenameIs
  <2>2. (Looks => Looks') /\ (Lags => Lags') /\ (Coming => Coming')
    BY <1>1, <1>2, <2>1 DEF Looks, Lags, Coming
  <2> QED BY <1>1, <1>3, <2>1, <2>2 DEF MirrorInv
<1>9. CASE Recv
  <2>1. /\ raced' = raced /\ worker'.mirror = worker.mirror /\ worker.at = "loop" /\ worker.next < Sent
        /\ \/ worker'.due
           \/ /\ ~(worker.next + 1 < Oldest) /\ worker'.next = worker.next + 1
              /\ worker'.due = (ring[worker.next + 2 - Oldest].vault = Home)
    BY <1>0, <1>9, RecvIs
  <2>2. ~worker.due /\ ~Looks
    BY <1>9, <2>1 DEF Recv, Looks
  <2>3. CASE worker'.due
    BY <1>4, <2>3 DEF Looks
  <2>4. CASE /\ ~worker'.due /\ ~(worker.next + 1 < Oldest) /\ worker'.next = worker.next + 1
             /\ worker'.due = (ring[worker.next + 2 - Oldest].vault = Home)
    <3>1. ~Lags
      BY <2>4 DEF Lags
    <3>2. ASSUME Coming PROVE Coming'
      <4>1. PICK i \in DOMAIN ring : ring[i].seq > worker.next /\ ring[i].vault = Home
        BY <3>2 DEF Coming
      <4>2. ring[i].seq = Oldest + i - 1 /\ i \in Nat /\ Oldest \in Nat /\ worker.next \in Nat
        <5>1. ring \in Seq(Events)
          BY DEF TypeInv
        <5> QED BY <1>0, <4>1, <5>1, SentIs DEF BusInv, FeedInOrder
      <4>3. i # worker.next + 2 - Oldest
        BY <2>4, <4>1
      <4>4. Oldest + i - 1 > worker.next
        BY <4>1, <4>2
      <4>5. Oldest + i - 1 > worker.next + 1
        BY <4>2, <4>3, <4>4
      <4> QED BY <1>1, <2>4, <4>1, <4>2, <4>5 DEF Coming
    <3> QED BY <1>1, <1>3, <2>1, <2>2, <3>1, <3>2 DEF MirrorInv
  <2> QED BY <2>1, <2>3, <2>4
<1> QED BY <1>5, <1>6, <1>7, <1>8, <1>9 DEF Working

LEMMA MirrorRestart == ASSUME TypeInv, Restart PROVE MirrorInv'
BY RestartIs DEF MirrorInv, Looks

-----------------------------------------------------------------------------
(* The invariant, and what it says.                                        *)

LEMMA InitHolds == Init => IndInv
<1> SUFFICES ASSUME Init PROVE IndInv
  OBVIOUS
<1>1. /\ notes = [v \in Vaults |-> 0] /\ known = notes /\ active = Home /\ log = <<>> /\ epoch = 1 /\ tail = 0
      /\ ring = <<>> /\ mutex = Free /\ closed = FALSE /\ signal = FALSE /\ pc = [p \in Procs |-> "idle"]
      /\ loc = [p \in Procs |-> Blank] /\ held = <<>> /\ seen = {} /\ cursor = 0 /\ raced = {}
      /\ clock = 0 /\ troubles = 0
  BY DEF Init, NoCursor
<1>2. worker = Started(0) /\ Started(0) \in Workers /\ worker.at = "start" /\ worker.next = 0 /\ worker.last = 0
  BY FeedAssumption DEF Init, Workers, Started, NoCursor, Notes
<1>3. \A p \in Procs : pc[p] = "idle" /\ loc[p] = Blank
  BY <1>1
<1>4. \A p \in Senders : ~Announces(p)
  BY <1>3, SendersAre DEF Announces
<1>5. TypeInv
  <2>1. 0 \in Notes /\ Capacity \in Nat
    BY FeedAssumption DEF Notes
  <2>2. pc \in [Procs -> Sections] /\ loc \in [Procs -> Calls]
    BY <1>1, BlankIs DEF Sections
  <2>3. ring \in Seq(Events) /\ Len(ring) <= Capacity
    BY <1>1, <2>1
  <2>4. log \in Seq([vault : Vaults, plugin : BOOLEAN]) /\ Len(log) = clock
    BY <1>1
  <2>5. held \in Tokens /\ seen \subseteq Notes
    BY <1>1 DEF Tokens
  <2>6. worker \in Workers /\ cursor \in Nat
    BY <1>1, <1>2
  <2>7. notes \in [Vaults -> Notes] /\ known \in [Vaults -> Notes] /\ active \in Vaults
    BY <1>1, <2>1, FeedAssumption
  <2>8. /\ epoch \in Nat \ {0} /\ tail \in Nat /\ clock \in Notes /\ troubles \in Nat
    BY <1>1, <2>1
  <2>9. mutex \in Senders \cup {Free} /\ closed \in BOOLEAN /\ signal \in BOOLEAN
    BY <1>1
  <2> QED BY <2>9, <2>2, <2>3, <2>4, <2>5, <2>6, <2>7, <2>8 DEF TypeInv
<1>6. PlaceInv
  BY <1>3, SendersAre DEF PlaceInv
<1>7. BusInv
  <2>1. Sent = 0 /\ DOMAIN ring = {} /\ Len(ring) = 0
    BY <1>1 DEF Sent
  <2> QED BY <1>1, <1>2, <1>3, <2>1, SendersAre, FeedAssumption DEF BusInv, LockInv, FeedInOrder, Senders
<1>8. TruthInv
  <2>1. DOMAIN ring = {} /\ \A v \in Vaults : notes[v] = 0 /\ known[v] = 0
    BY <1>1
  <2> QED BY <1>1, <1>4, <2>1 DEF TruthInv
<1>9. SeenInv
  <2>1. loc[Plug].token = <<>> /\ ~Announces(Plug)
    BY <1>3, <1>4, SendersAre, BlankIs DEF Senders
  <2> QED BY <1>1, <2>1 DEF SeenInv, Showed
<1>10. StartInv /\ MirrorInv
  BY <1>1, <1>2 DEF StartInv, MirrorInv, Looks
<1> QED BY <1>5, <1>6, <1>7, <1>8, <1>9, <1>10 DEF IndInv

LEMMA StutterKeeps == IndInv /\ UNCHANGED vars => IndInv'
<1> SUFFICES ASSUME IndInv, UNCHANGED vars PROVE IndInv'
  OBVIOUS
<1>1. UNCHANGED <<notes, known, active, log, epoch, tail, ring, mutex, closed, signal, pc, loc, held, seen,
                  worker, cursor, raced, clock, troubles>>
  BY DEF vars, world, bus, plugin, mine, bounds
<1>2. \A q : Same(q)
  BY <1>1 DEF Same
<1>3. TypeInv' /\ PlaceInv' /\ StartInv'
  BY <1>1 DEF IndInv, TypeInv, PlaceInv, StartInv
<1>4. BusInv'
  BY <1>1, <1>2, BusSame DEF IndInv
<1>5. TruthInv'
  BY <1>1, <1>2, TruthSame, SameStays DEF IndInv
<1>6. SeenInv'
  BY <1>1, <1>2, SeenSame DEF IndInv
<1>7. Announced => Announced'
  BY <1>1 DEF Announced, Announces
<1>8. MirrorInv'
  BY <1>1, <1>7, MirrorSame DEF IndInv
<1> QED BY <1>3, <1>4, <1>5, <1>6, <1>8 DEF IndInv

\* The steps, by who takes them.
Writes == ToolWrite \/ Land \/ \E v \in Vaults : EditOutside(v)
PlugCalls == \/ Resolve \/ LoadNote \/ ReadBack \/ Token \/ Timeout
             \/ \E kind \in {"read", "create", "write"} : Ask(kind)

LEMMA WritesKeep == IndInv /\ Writes => IndInv'
<1> SUFFICES ASSUME IndInv, Writes PROVE IndInv'
  OBVIOUS
<1> USE DEF IndInv
<1>0. UNCHANGED <<tail, ring, mutex, worker, cursor, epoch>>
  BY DEF Writes, ToolWrite, Land, EditOutside, bus, mine
<1>1. TruthInv' /\ MirrorInv'
  BY TruthWrites, MirrorWrites DEF Writes
<1>2. StartInv'
  BY <1>0 DEF StartInv
<1>3. CASE ToolWrite
  <2>1. PICK l \in Calls : pc[Tool] = "idle" /\ Moved(Tool, "publish", l)
    BY <1>3, ToolWriteIs
  <2>2. PlaceInv'
    BY <2>1, SendersAre, PlaceOthers
  <2>3. BusInv'
    BY <1>0, <2>1, SendersAre, BusSame DEF Moved, Others
  <2>4. Same(Plug)
    BY <2>1, SendersAre, FeedAssumption DEF Moved, Others
  <2>5. SeenInv'
    BY <1>3, <2>4, SeenSame DEF ToolWrite, plugin
  <2> QED BY <1>1, <1>2, <1>3, <2>2, <2>3, <2>5, ToolWriteIs
<1>4. CASE Land
  <2>1. PlaceInv' /\ SeenInv'
    BY <1>4, PlaceCalls, SeenCalls DEF Calling
  <2>2. /\ pc[Plug] = "land" /\ pc'[Plug] # "send" /\ Others(Plug)
    BY <1>4, LandIs DEF Moved
  <2>3. BusInv'
    BY <1>0, <2>2, SendersAre, BusSame DEF Others
  <2> QED BY <1>1, <1>2, <1>4, <2>1, <2>3, LandIs
<1>5. ASSUME NEW v \in Vaults, EditOutside(v) PROVE IndInv'
  <2>1. UNCHANGED <<pc, loc>> /\ TypeInv'
    BY <1>5, EditIs
  <2>2. \A q : Same(q)
    BY <2>1 DEF Same
  <2>3. BusInv'
    BY <1>0, <2>2, BusSame
  <2>4. SeenInv'
    BY <1>5, <2>2, SeenSame DEF EditOutside, plugin
  <2>5. PlaceInv'
    BY <2>1, PlaceSame
  <2> QED BY <1>1, <1>2, <2>1, <2>3, <2>4, <2>5
<1> QED BY <1>3, <1>4, <1>5 DEF Writes

LEMMA CallsKeep == IndInv /\ PlugCalls => IndInv'
<1> SUFFICES ASSUME IndInv, PlugCalls PROVE IndInv'
  OBVIOUS
<1> USE DEF IndInv
<1>0. UNCHANGED <<notes, known, log, tail, ring, mutex, worker, cursor, epoch, clock>>
  <2>1. CASE Resolve \/ LoadNote \/ ReadBack
    BY <2>1 DEF Resolve, LoadNote, ReadBack, Only, world, bus, mine, bounds
  <2>2. CASE Token \/ Timeout \/ \E kind \in {"read", "create", "write"} : Ask(kind)
    BY <2>2 DEF Token, Timeout, Ask, Only, world, bus, mine, bounds
  <2> QED BY <2>1, <2>2 DEF PlugCalls
<1>1. TypeInv'
  BY ResolveIs, LoadNoteIs, ReadBackIs, TokenIs, TimeoutIs, AskIs DEF PlugCalls
<1>2. PlaceInv' /\ SeenInv'
  BY PlaceCalls, SeenCalls DEF PlugCalls, Calling
<1>3. (\A q \in Senders : Stays(q)) /\ \A q \in Senders \ {Plug} : Same(q)
  BY CallsStay DEF PlugCalls
<1>4. TruthInv'
  BY <1>0, <1>3, TruthSame
<1>5. MirrorInv'
  BY MirrorCalls DEF PlugCalls
<1>6. pc[Plug] # "send" /\ pc'[Plug] # "send"
  <2>1. CASE Resolve \/ LoadNote \/ ReadBack
    BY <2>1, ResolveIs, LoadNoteIs, ReadBackIs DEF Moved
  <2>2. CASE Token
    BY <2>2, TokenIs DEF Moved
  <2>3. CASE Timeout
    BY <2>3, TimeoutIs DEF Moved, Timeout
  <2>4. ASSUME NEW kind \in {"read", "create", "write"}, Ask(kind) PROVE pc[Plug] # "send" /\ pc'[Plug] # "send"
    BY <2>4, AskIs DEF Moved
  <2> QED BY <2>1, <2>2, <2>3, <2>4 DEF PlugCalls
<1>7. BusInv'
  BY <1>0, <1>3, <1>6, BusSame
<1>8. StartInv'
  BY <1>0 DEF StartInv
<1> QED BY <1>1, <1>2, <1>4, <1>5, <1>7, <1>8

LEMMA PublishKeeps == IndInv /\ Publishing => IndInv'
<1> SUFFICES ASSUME IndInv, NEW p \in Senders, Number(p) \/ Send(p) PROVE IndInv'
  BY DEF Publishing, Senders
<1> USE DEF IndInv
<1>1. TypeInv' /\ PlaceInv' /\ SeenInv'
  BY NumberIs, SendIs, PlacePublish, SeenPublish
<1>2. BusInv' /\ MirrorInv'
  BY BusNumber, BusSend, MirrorNumber, MirrorSend
<1>3. StartInv'
  <2>1. UNCHANGED <<cursor, worker, epoch>>
    BY DEF Number, Send, mine
  <2> QED BY <2>1 DEF StartInv
<1>4. CASE Number(p)
  <2>1. UNCHANGED <<notes, known, log, clock, ring>>
    BY <1>4 DEF Number, Only, world, bounds
  <2>2. TruthInv'
    BY <1>4, <2>1, NumberStays, TruthSame
  <2> QED BY <1>1, <1>2, <1>3, <2>2
<1>5. CASE Send(p)
  BY <1>1, <1>2, <1>3, <1>5, TruthSend
<1> QED BY <1>4, <1>5

LEMMA WorkKeeps == IndInv /\ Working => IndInv'
<1> SUFFICES ASSUME IndInv, Working PROVE IndInv'
  OBVIOUS
<1> USE DEF IndInv
<1>1. TypeInv' /\ Unmoved /\ raced \subseteq raced' /\ raced' \subseteq raced \cup {"elsewhere"}
  <2>1. CASE Start \/ Recv \/ ReReadCheck \/ ReRead
    BY <2>1, StartIs, RecvIs, ReReadCheckIs, ReReadIs DEF BusInv
  <2>2. CASE PutTemp \/ PutRename \/ StopWorker
    BY <2>2, PutTempIs, PutRenameIs, StopWorkerIs
  <2> QED BY <2>1, <2>2 DEF Working
<1>2. UNCHANGED <<notes, known, log, ring, pc, loc, held, seen, clock>>
  BY <1>1 DEF Unmoved, world, bus, plugin, bounds
<1>3. \A q : Same(q)
  BY <1>2 DEF Same
<1>4. PlaceInv'
  BY <1>2, PlaceSame
<1>5. BusInv' /\ StartInv' /\ MirrorInv'
  BY BusWork, StartWork, MirrorWork
<1>6. SeenInv'
  BY <1>1, <1>2, <1>3, SeenSame
<1>7. TruthInv'
  BY <1>2, <1>3, SameStays, TruthSame
<1> QED BY <1>1, <1>4, <1>5, <1>6, <1>7

LEMMA SweepKeeps == ASSUME IndInv, NEW v \in Vaults, Sweep(v) PROVE IndInv'
<1> USE DEF IndInv
<1>1. UNCHANGED <<tail, ring, mutex, worker, cursor, epoch, held, seen, raced>>
  BY DEF Sweep, bus, mine, plugin
<1>2. PICK l \in Calls : TypeInv' /\ pc[Gate] = "idle" /\ Moved(Gate, "publish", l)
  BY SweepIs
<1>3. PlaceInv'
  BY <1>2, SendersAre, PlaceOthers
<1>4. BusInv'
  BY <1>1, <1>2, SendersAre, BusSame DEF Moved, Others
<1>5. Same(Plug)
  BY <1>2, SendersAre, FeedAssumption DEF Moved, Others
<1>6. SeenInv'
  BY <1>1, <1>5, SeenSame
<1>7. StartInv'
  BY <1>1 DEF StartInv
<1> QED BY <1>2, <1>3, <1>4, <1>6, <1>7, TruthSweep, MirrorWrites

LEMMA SwitchKeeps == ASSUME IndInv, NEW v \in Vaults, SetActiveVault(v) PROVE IndInv'
<1> USE DEF IndInv
<1>1. /\ UNCHANGED <<notes, known, log, ring, tail, mutex, closed, epoch, pc, loc, held, seen, worker, cursor,
                     raced, clock>>
  BY DEF SetActiveVault, bus, plugin, mine
<1>2. \A q : Same(q)
  BY <1>1 DEF Same
<1>3. TypeInv' /\ PlaceInv' /\ StartInv'
  BY <1>1, SwitchIs, PlaceSame DEF StartInv
<1>4. BusInv'
  BY <1>1, <1>2, BusSame
<1>5. TruthInv' /\ SeenInv'
  BY <1>1, <1>2, TruthSame, SeenSame, SameStays
<1>6. Announced => Announced'
  BY <1>1 DEF Announced, Announces
<1>7. MirrorInv'
  BY <1>1, <1>6, MirrorSame
<1> QED BY <1>3, <1>4, <1>5, <1>7

LEMMA StopKeeps == ASSUME IndInv, NEW s \in Stoppers, StopStep(s) PROVE IndInv'
<1> USE DEF IndInv
<1>1. /\ UNCHANGED <<notes, known, log, ring, tail, mutex, epoch, held, seen, worker, cursor, raced, clock>>
      /\ TypeInv' /\ (closed' = closed \/ closed' = TRUE)
  BY StopIs DEF world, plugin, mine, bounds
<1>2. PICK to \in {"await", "close", "done"} : Moved(s, to, loc[s])
  BY StopIs
<1>3. PlaceInv'
  BY <1>2, SendersAre, PlaceOthers
<1>4. \A q \in Senders : Same(q)
  BY StoppersStay
<1>5. BusInv' /\ TruthInv' /\ SeenInv'
  BY <1>1, <1>4, BusSame, TruthSame, SeenSame, SameStays DEF Senders
<1>6. StartInv'
  BY <1>1 DEF StartInv
<1>7. Announced => Announced'
  BY <1>1, <1>4, SameStays DEF Announced, Same
<1>8. MirrorInv'
  BY <1>1, <1>7, MirrorSame
<1> QED BY <1>1, <1>3, <1>5, <1>6, <1>8

LEMMA RestartKeeps == IndInv /\ Restart => IndInv'
<1> SUFFICES ASSUME IndInv, Restart PROVE IndInv'
  OBVIOUS
<1> USE DEF IndInv
<1>1. PlaceInv'
  BY RestartIs, SendersAre DEF PlaceInv
<1> QED BY <1>1, RestartIs, BusRestart, TruthRestart, SeenRestart, StartRestart, MirrorRestart

LEMMA StepKeeps == IndInv /\ [Next]_vars => IndInv'
<1> SUFFICES ASSUME IndInv, [Next]_vars PROVE IndInv'
  OBVIOUS
<1>1. CASE Writes \/ PlugCalls
  BY <1>1, WritesKeep, CallsKeep
<1>2. CASE Publishing \/ Working \/ Restart
  BY <1>2, PublishKeeps, WorkKeeps, RestartKeeps
<1>3. ASSUME NEW v \in Vaults, Sweep(v) \/ SetActiveVault(v) PROVE IndInv'
  BY <1>3, SweepKeeps, SwitchKeeps
<1>4. ASSUME NEW s \in Stoppers, StopStep(s) PROVE IndInv'
  BY <1>4, StopKeeps
<1>5. CASE UNCHANGED vars
  BY <1>5, StutterKeeps
<1> QED BY <1>1, <1>2, <1>3, <1>4, <1>5 DEF Next, Writes, PlugCalls, Calling, Stopping, StopStep

\* What is invariant of the feed, its lock, its history and the plugin's worker.
THEOREM FeedInvariant == Spec => []IndInv
BY InitHolds, StepKeeps, PTL DEF Spec

\* The invariant says what the runs check.
LEMMA SoundIs == IndInv => FeedIsSound
<1> SUFFICES ASSUME IndInv PROVE FeedIsSound
  OBVIOUS
<1> USE DEF IndInv
<1>1. ring \in Seq(Events) /\ worker \in Workers
  BY DEF TypeInv
<1>2. TypeOK
  <2>1. worker.next \in 0 .. Sent
    BY SentIs DEF BusInv
  <2>2. worker.at \in {"start", "loop", "read", "put", "rename", "stopped"} /\ worker.mirror \in Notes
    BY <1>1 DEF Workers
  <2>3. mutex \in {Free, Tool, Plug, Gate}
    BY DEF TypeInv, Senders
  <2> QED BY <2>1, <2>2, <2>3 DEF TypeOK, TypeInv
<1>3. ASSUME NEW i \in DOMAIN ring, ring[i].note # 0
      PROVE  log[ring[i].note] = [vault |-> ring[i].vault, plugin |-> ring[i].plugin]
  BY <1>3 DEF TruthInv, Wrote
<1> QED BY <1>2, <1>3 DEF FeedIsSound, EventsAreTrue, BusInv

LEMMA QuietIs == IndInv => QuietMirrorIsCurrent
<1> SUFFICES ASSUME IndInv,
                    raced \cap {"untold", "elsewhere", "unseen"} = {}, ~closed,
                    worker.at = "loop", ~worker.due, worker.next = tail, known = notes,
                    \A p \in {Tool, Plug, Gate} : pc[p] \in {"idle", "resolve", "load", "land"}
             PROVE  worker.mirror = notes[Home]
  BY DEF QuietMirrorIsCurrent
<1> USE DEF IndInv
<1>1. ~Looks /\ ~Unswept /\ ~Announced
  BY DEF Looks, Unswept, Announced, Announces, Senders
<1>2. /\ Sent <= tail /\ Oldest = Sent - Len(ring) + 1 /\ Sent \in Nat /\ Len(ring) \in Nat /\ tail \in Nat
      /\ Oldest \in Nat
  BY SentIs, TypeIs DEF BusInv
<1>3. ~Lags
  BY <1>2 DEF Lags
<1>4. ~Coming
  <2> SUFFICES ASSUME NEW i \in DOMAIN ring, ring[i].seq > worker.next PROVE FALSE
    BY DEF Coming
  <2>1. ring[i].seq = Oldest + i - 1
    BY DEF BusInv, FeedInOrder
  <2>2. i \in 1 .. Len(ring)
    BY DEF TypeInv
  <2>3. Oldest + i - 1 <= tail
    BY <1>2, <2>2
  <2>4. Oldest + i - 1 > tail
    BY <2>1
  <2>5. Oldest + i - 1 \in Int
    BY <1>2, <2>2
  <2> QED BY <1>2, <2>3, <2>4, <2>5
<1> QED BY <1>1, <1>3, <1>4 DEF MirrorInv

\* The feed as a subscriber relies on it: numbered in order, and each event true.
THEOREM FeedStaysSound == Spec => []FeedIsSound
BY FeedInvariant, SoundIs, PTL

\* The plugin replaces only notes it was shown, but for receipts of another's version.
THEOREM PluginStaysHonest == Spec => []PluginReplacesWhatItSaw
<1>1. IndInv => PluginReplacesWhatItSaw
  BY DEF IndInv, SeenInv, PluginReplacesWhatItSaw
<1> QED BY <1>1, FeedInvariant, PTL

\* When nothing is left to come, the plugin's mirror is the vault's note.
THEOREM MirrorStaysCurrent == Spec => []QuietMirrorIsCurrent
BY FeedInvariant, QuietIs, PTL
=============================================================================

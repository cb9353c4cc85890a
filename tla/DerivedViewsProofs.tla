------------------------- MODULE DerivedViewsProofs -------------------------
(***************************************************************************)
(* What a search may show, proved of DerivedViews for every number of      *)
(* clients, notes and requests.                                            *)
(*                                                                         *)
(* The argument is the same for the four indexes, the three engines and    *)
(* the index file.  A version v of a note n may be shown (Shows) if        *)
(*   - it is as new as what the manager knows, or somebody is still on the *)
(*     way to tell this index of n, and                                    *)
(*   - it is as new as what any request that is under way may expect.      *)
(* A step either keeps both, or puts a teller on the way, or lets a teller *)
(* of n pass: then the index has been dropped, marked or brought up to     *)
(* date, or one of the races the properties name has struck.               *)
(***************************************************************************)
EXTENDS DerivedViews, TLAPS

Kinds == {"", "search", "similar", "dense", "reindex", "write", "rebuild", "refresh"}
Sections == {"idle", "gate", "find", "apply", "commit", "forget", "flag", "file", "evict",
             "look", "read", "publish", "load", "ready", "rank", "stale", "stalefile",
             "scan", "store", "unmark", "swap", "clear", "finish"}

Parts == UNION {[S -> Nat] : S \in SUBSET Notes}
Engines == {NoEngine} \cup [id : 1 .. MaxCalls, of : Versions]
Requests == [id : 0 .. MaxCalls, kind : Kinds, since : Indexes, of : Parts,
             notes : SUBSET Notes, flag : BOOLEAN, told : 0 .. MaxCalls]

\* What the engines, the index and the vault are, whoever does what.
Globals ==
  /\ TypeOK
  /\ search \in Engines /\ similar \in Engines
  /\ calls \in 0 .. MaxCalls

TypeInv ==
  /\ Globals
  /\ pc \in [Procs -> Sections]
  /\ loc \in [Procs -> Requests]
  /\ answer \in Requests

-----------------------------------------------------------------------------
(* Control: which request is where.                                        *)

Telling == {"find", "apply", "commit", "forget", "flag", "file", "evict"}
Gathering == {"scan", "store", "unmark", "swap", "clear"}
Rebuilders == {"stale", "stalefile", "finish"} \cup Gathering

KindOf(section) ==
  CASE section = "idle" -> {""}
    [] section = "gate" -> {"search", "similar", "dense", "reindex", "rebuild", "refresh"}
    [] section \in Telling \ {"evict"} -> Kinds \ {""}
    [] section = "evict" -> {"write"}
    [] section = "look" -> {"search", "similar", "dense", "reindex"}
    [] section = "read" -> {"search", "similar"}
    [] section = "publish" -> {"search", "similar", "dense", "reindex"}
    [] section = "load" -> {"dense", "reindex"}
    [] section = "ready" -> {"dense", "reindex", "refresh"}
    [] section = "rank" -> {"dense"}
    [] section \in Rebuilders -> {"rebuild", "refresh"}

\* A request that is answered from an engine has expectations.
Asks(r) == r.kind \in {"search", "similar", "dense", "reindex", "refresh"}

\* What is read is read to the end before it is used.
Whole(s, r) ==
  /\ s \in {"commit", "store", "unmark", "swap", "clear"} => r.of \in Versions
  /\ s = "publish" /\ r.kind \in {"search", "similar"} => r.of \in Versions
  /\ s = "publish" => r.of \in Indexes

\* The request r of p, in section s, while the embedding engine is open or not.
Fits(p, s, r, open) ==
  /\ r.kind \in KindOf(s)
  /\ r.kind = "" => r = Blank
  /\ r.notes # {} => s \in Telling
  /\ p = Task => r.kind \in {"", "rebuild"}
  /\ r.kind = "rebuild" => p = Task
  /\ Asks(r) => r.since \in Versions
  /\ s = "look" => r.of = None
  /\ s \in {"ready", "file", "rank"} => open
  /\ Whole(s, r)

RequestInv == TypeInv /\ \A p \in Procs : Fits(p, pc[p], loc[p], dense.open)

\* One rebuild at a time holds the switch, until it ends.
Busy(p) == Rebuilds(p) /\ pc[p] # "ready"
SwitchInv ==
  /\ \A p \in Procs : Busy(p) => dense.running
  /\ \A p, q \in Procs : Busy(p) /\ Busy(q) => p = q
  /\ dense.running => dense.open
  /\ dense.running => (\E p \in Procs : Busy(p)) \/ "stuck" \in raced
  /\ \A p \in Procs : pc[p] = "unmark" => stored = loc[p].of
  /\ \A p \in Procs : pc[p] = "clear" => dense.of = loc[p].of

\* Engines are told apart by the requests that built them, and have ended.
IdsInv ==
  /\ \A p \in Procs : loc[p].id <= calls
  /\ \A p, q \in Procs : loc[p].id = loc[q].id /\ loc[p].id > 0 => p = q
  /\ \A p \in Procs : loc[p].kind \in {"search", "similar"} => loc[p].id > 0
  /\ search.id <= calls
  /\ \A p \in Procs : search.id > 0 => loc[p].id # search.id

ToldInv ==
  /\ \A p \in Procs : pc[p] \in {"apply", "commit"} =>
       /\ loc[p].told \in 1 .. calls
       /\ \A q \in Procs : loc[q].id # loc[p].told
  /\ \A p, q \in Procs : pc[p] = "commit" /\ pc[q] = "commit" /\ loc[p].told = loc[q].told => p = q

Control == RequestInv /\ SwitchInv /\ IdsInv /\ ToldInv

-----------------------------------------------------------------------------
(* What may be shown.                                                      *)

Waits(n, S) == \E p \in Procs : pc[p] \in S /\ n \in loc[p].notes
Ahead(n, v) == \A p \in Procs : Asks(loc[p]) => v >= loc[p].since[n]
Shows(n, v, S) == (v >= known[n] \/ Waits(n, S)) /\ Ahead(n, v)
Shown(of, S) == \A n \in DOMAIN of : Shows(n, of[n], S)

KnownInv == \A n \in Notes : Ahead(n, known[n])

\* The similarity engine is dropped at "forget".
ToForget == {"find", "apply", "commit", "forget"}
SimilarInv == raced \cap {"build", "untold"} = {} =>
  /\ Shown(similar.of, ToForget)
  /\ \A p \in In({"read", "publish"}) : loc[p].kind = "similar" => Shown(loc[p].of, ToForget)

\* The full-text engine is told by a commit, if it is still the one in the cache.
Teller(p, n) ==
  /\ n \in loc[p].notes
  /\ pc[p] = "find" \/ (pc[p] \in {"apply", "commit"} /\ loc[p].told = search.id)
Found(n, v) == (v >= known[n] \/ \E p \in Procs : Teller(p, n)) /\ Ahead(n, v)
Fresh(of) == \A n \in DOMAIN of : Found(n, of[n])
Reread(p, n, v) == (v >= known[n] \/ \E q \in Procs \ {p} : Teller(q, n)) /\ Ahead(n, v)
SearchInv == raced \cap {"build", "untold"} = {} =>
  /\ Fresh(search.of)
  /\ search = NoEngine => \A p \in In({"read", "publish"}) : loc[p].kind = "search" => Fresh(loc[p].of)
  /\ \A p \in In({"commit"}) : loc[p].told = search.id =>
       \A n \in loc[p].notes : Reread(p, n, loc[p].of[n])

\* The dense index is marked, in memory, at "flag".
ToFlag == ToForget \cup {"flag"}
DenseInv == raced \cap {"cold", "during", "untold"} = {} =>
  /\ dense.open /\ ~dense.stale => Shown(dense.of, ToFlag)
  /\ \A p \in In(Gathering) : Shown(loc[p].of, ToFlag)
  /\ \A p \in In({"publish"}) : loc[p].kind \in {"dense", "reindex"} /\ ~dense.open /\ ~loc[p].flag =>
       Shown(loc[p].of, ToFlag)
  /\ \A p \in In({"rank"}) : ~loc[p].flag /\ dense.of # None => Covers(dense.of, loc[p].since)

\* The file is marked at "file".
ToFile == ToFlag \cup {"file"}
StoredInv == raced \cap {"cold", "during", "untold"} = {} => marker \/ Shown(stored, ToFile)

IndInv == Control /\ KnownInv /\ SimilarInv /\ SearchInv /\ DenseInv /\ StoredInv /\ AnswersAreFresh
-----------------------------------------------------------------------------
(* Types, and where a request is.                                          *)

\* Nothing read is a part, and an index that is missing.
LEMMA NothingRead == None \in Parts /\ None \in Indexes /\ DOMAIN None = {} /\ Blank \in Requests
<1>1. DOMAIN None = {}
  BY DEF None
<1>2. None \in [{} -> Nat]
  BY DEF None
<1>3. None \in Parts
  BY <1>2 DEF Parts
<1>4. None \in Indexes
  BY DEF Indexes
<1>5. 0 \in 0 .. MaxCalls
  BY ViewsAssumption
<1> QED BY <1>1, <1>3, <1>4, <1>5 DEF Blank, Requests, Kinds

\* A whole index is one of the parts, and has every note.
LEMMA WholeIsPart == ASSUME NEW of \in Versions PROVE of \in Parts /\ of \in Indexes /\ DOMAIN of = Notes
BY DEF Versions, Parts, Indexes

\* p goes on to another section with the record l; the others stay.
Others(p) == \A q \in Procs \ {p} : pc'[q] = pc[q] /\ loc'[q] = loc[q]
Moved(p, to, l) == pc'[p] = to /\ loc'[p] = l /\ Others(p)

\* Its request is the same, but for its kind; it ends; it is past the gate.
Goes(p, to, kind) ==
  /\ pc'[p] = to /\ loc'[p].kind = kind /\ Others(p)
  /\ loc'[p].id = loc[p].id /\ loc'[p].since = loc[p].since /\ loc'[p].notes = loc[p].notes
Ends(p) == pc'[p] = "idle" /\ loc'[p] = Blank /\ Others(p)
Passes(p) ==
  /\ pc'[p] = (IF Rebuilds(p) THEN "scan" ELSE "look")
  /\ loc'[p].kind = loc[p].kind /\ loc'[p].id = loc[p].id /\ loc'[p].since = loc[p].since
  /\ loc'[p].notes = {} /\ loc'[p].of = None /\ Others(p)

LEMMA KindsOf ==
  /\ KindOf("idle") = {""}
  /\ KindOf("gate") = {"search", "similar", "dense", "reindex", "rebuild", "refresh"}
  /\ \A s \in Telling \ {"evict"} : KindOf(s) = Kinds \ {""}
  /\ KindOf("evict") = {"write"}
  /\ KindOf("look") = {"search", "similar", "dense", "reindex"}
  /\ KindOf("read") = {"search", "similar"}
  /\ KindOf("publish") = {"search", "similar", "dense", "reindex"}
  /\ KindOf("load") = {"dense", "reindex"}
  /\ KindOf("ready") = {"dense", "reindex", "refresh"}
  /\ KindOf("rank") = {"dense"}
  /\ \A s \in Rebuilders : KindOf(s) = {"rebuild", "refresh"}
BY DEF KindOf, Telling, Rebuilders, Gathering

\* The same, as the kinds of a request in a given section.
LEMMA KindIn ==
  ASSUME NEW r \in Requests, NEW s \in Sections, r.kind \in KindOf(s)
  PROVE  /\ s = "idle" => r.kind = ""
         /\ s # "idle" => r.kind # ""
         /\ s \notin Telling => r.kind # "write"
         /\ s = "evict" => r.kind = "write"
         /\ s = "look" => r.kind \in {"search", "similar", "dense", "reindex"}
         /\ s = "read" => r.kind \in {"search", "similar"}
         /\ s = "publish" => r.kind \in {"search", "similar", "dense", "reindex"}
         /\ s = "load" => r.kind \in {"dense", "reindex"}
         /\ s = "ready" => r.kind \in {"dense", "reindex", "refresh"}
         /\ s = "rank" => r.kind = "dense"
         /\ s \in Rebuilders => r.kind \in {"rebuild", "refresh"}
<1>1. s \in Telling \ {"evict"} => r.kind # ""
  <2> SUFFICES ASSUME s \in Telling \ {"evict"} PROVE r.kind # ""
    OBVIOUS
  <2>1. KindOf(s) = Kinds \ {""}
    BY KindsOf
  <2> QED BY <2>1
<1>3. s \in Rebuilders => r.kind \in {"rebuild", "refresh"}
  BY KindsOf
<1>4. s \in Telling \/ s \in Rebuilders \/ s \in
         {"idle", "gate", "look", "read", "publish", "load", "ready", "rank"}
  BY DEF Sections, Telling, Rebuilders, Gathering
<1>5. s = "evict" => r.kind = "write"
  BY KindsOf
<1> QED BY <1>1, <1>3, <1>4, <1>5, KindsOf

\* A request with a kind may be in any of the sections that tell.
LEMMA TellKinds ==
  ASSUME NEW r \in Requests, r.kind # "", NEW s \in Telling, s = "evict" => r.kind = "write"
  PROVE  r.kind \in KindOf(s) /\ s \in Sections
<1>1. r.kind \in Kinds
  BY DEF Requests
<1>2. CASE s = "evict"
  BY <1>2, KindsOf DEF Sections
<1>3. CASE s # "evict"
  <2>1. KindOf(s) = Kinds \ {""}
    BY <1>3, KindsOf
  <2> QED BY <1>1, <2>1 DEF Telling, Sections
<1> QED BY <1>2, <1>3

LEMMA BlankIs == /\ Blank.kind = "" /\ Blank.id = 0 /\ Blank.notes = {} /\ Blank.of = None
                 /\ Blank.flag = FALSE /\ Blank.told = 0
BY DEF Blank

LEMMA BlankFits == ASSUME NEW p, NEW open PROVE Fits(p, "idle", Blank, open)
<1>1. Blank.kind = "" /\ Blank.notes = {}
  BY DEF Blank
<1> QED BY <1>1, KindsOf DEF Fits, Asks, Whole

LEMMA GoMoves ==
  ASSUME TypeInv, NEW p \in Procs, NEW to \in Sections, NEW l \in Requests, Go(p, to, l)
  PROVE  /\ Moved(p, to, l)
         /\ pc' \in [Procs -> Sections] /\ loc' \in [Procs -> Requests] /\ answer' \in Requests
BY NothingRead DEF TypeInv, Go, Moved, Others

LEMMA AnswerMoves ==
  ASSUME TypeInv, NEW p \in Procs, NEW of \in Indexes, Answer(p, of)
  PROVE  /\ Moved(p, "idle", Blank)
         /\ pc' \in [Procs -> Sections] /\ loc' \in [Procs -> Requests] /\ answer' \in Requests
<1>1. of \in Parts
  BY NothingRead, WholeIsPart DEF Indexes
<1>2. [loc[p] EXCEPT !.of = of] \in Requests
  BY <1>1 DEF Requests, TypeInv
<1> QED BY <1>2, NothingRead DEF TypeInv, Answer, Moved, Others, Sections

\* A step of one request.
LEMMA GoFits ==
  ASSUME RequestInv, NEW p \in Procs, NEW to \in Sections, NEW l \in Requests, Go(p, to, l),
         Fits(p, to, l, dense'.open), dense.open => dense'.open, Globals'
  PROVE  RequestInv' /\ Moved(p, to, l)
<1>1. /\ Moved(p, to, l)
      /\ pc' \in [Procs -> Sections] /\ loc' \in [Procs -> Requests] /\ answer' \in Requests
  BY GoMoves DEF RequestInv
<1>2. ASSUME NEW q \in Procs PROVE Fits(q, pc'[q], loc'[q], dense'.open)
  <2>1. CASE q = p
    BY <2>1, <1>1 DEF Moved
  <2>2. CASE q # p
    <3>1. pc'[q] = pc[q] /\ loc'[q] = loc[q]
      BY <2>2, <1>1 DEF Moved, Others
    <3> QED BY <3>1 DEF Fits, RequestInv
  <2> QED BY <2>1, <2>2
<1> QED BY <1>1, <1>2 DEF RequestInv, TypeInv, Moved, Ends

LEMMA AnswerFits ==
  ASSUME RequestInv, NEW p \in Procs, NEW of \in Indexes, Answer(p, of), UNCHANGED dense, Globals'
  PROVE  RequestInv' /\ Ends(p)
<1>1. /\ Moved(p, "idle", Blank)
      /\ pc' \in [Procs -> Sections] /\ loc' \in [Procs -> Requests] /\ answer' \in Requests
  BY AnswerMoves DEF RequestInv
<1>2. ASSUME NEW q \in Procs PROVE Fits(q, pc'[q], loc'[q], dense'.open)
  <2>1. CASE q = p
    BY <2>1, <1>1, BlankFits DEF Moved
  <2>2. CASE q # p
    <3>1. pc'[q] = pc[q] /\ loc'[q] = loc[q]
      BY <2>2, <1>1 DEF Moved, Others
    <3> QED BY <3>1 DEF Fits, RequestInv
  <2> QED BY <2>1, <2>2
<1> QED BY <1>1, <1>2 DEF RequestInv, TypeInv, Moved, Ends

LEMMA ReturnFits ==
  ASSUME RequestInv, NEW p \in Procs, Return(p), dense.open => dense'.open, Globals'
  PROVE  RequestInv' /\ Ends(p)
<1>1. "idle" \in Sections /\ Go(p, "idle", Blank)
  BY DEF Return, Sections
<1>2. RequestInv' /\ Moved(p, "idle", Blank)
  BY <1>1, GoFits, BlankFits, NothingRead
<1> QED BY <1>2 DEF Moved, Ends

-----------------------------------------------------------------------------
(* Types and sections: one lemma per action.                               *)

Races == {"build", "cold", "during", "untold", "stuck"}
LEMMA BuiltIsRace == \A kind : Built(kind) \subseteq Races
BY DEF Built, Races

LEMMA GlobalsStay ==
  ASSUME Globals, UNCHANGED <<vault, dense, index>>, gate' \in Procs \cup {Nobody},
         raced' \subseteq Races, calls' \in 0 .. MaxCalls,
         search' \in Engines, similar' \in Engines
  PROVE  Globals'
<1>1. Engines \subseteq [id : 0 .. MaxCalls, of : Indexes]
  <2>1. NoEngine \in [id : 0 .. MaxCalls, of : Indexes]
    BY NothingRead, ViewsAssumption DEF NoEngine
  <2> QED BY <2>1 DEF Engines, Indexes
<1> QED BY <1>1 DEF Globals, TypeOK, vault, index, Races

LEMMA NoEngineIsEngine == NoEngine \in Engines
BY DEF Engines

LEMMA SettledType == TypeInv => Settled \in Versions
BY DEF TypeInv, Globals, TypeOK, Settled, Versions

LEMMA CallFits ==
  ASSUME RequestInv, NEW c \in Clients, NEW kind \in {"search", "similar", "dense", "reindex"},
         Call(c, kind)
  PROVE  /\ RequestInv'
         /\ Others(c) /\ pc'[c] = "gate" /\ loc'[c].id = calls' /\ loc'[c].kind = kind
         /\ loc'[c].since = Settled /\ loc'[c].notes = {}
<1> DEFINE l == [Blank EXCEPT !.id = calls', !.kind = kind, !.since = Settled]
<1>1. calls' \in 0 .. MaxCalls
  BY ViewsAssumption DEF Call, RequestInv, TypeInv, Globals
<1>2. l \in Requests /\ l.kind = kind /\ l.notes = {} /\ l.since = Settled /\ l.id = calls'
  BY <1>1, SettledType, NothingRead DEF RequestInv, Requests, Blank, Kinds, Indexes
<1> HIDE DEF l
<1>3. Fits(c, "gate", l, dense'.open)
  BY <1>2, KindsOf, SettledType, ViewsAssumption DEF Fits, Whole, RequestInv
<1>4. Globals'
  BY <1>1, GlobalsStay DEF Call, RequestInv, TypeInv, Globals, TypeOK, lazy, Races
<1>5. Go(c, "gate", l) /\ UNCHANGED dense
  BY DEF Call, l
<1> QED BY <1>2, <1>3, <1>4, <1>5, GoFits DEF Moved, Procs, Sections

LEMMA WriteFits ==
  ASSUME RequestInv, NEW c \in Clients, NEW n \in Notes, Write(c, n)
  PROVE  /\ RequestInv'
         /\ Others(c) /\ pc'[c] = "find" /\ loc'[c].id = calls' /\ loc'[c].kind = "write"
         /\ loc'[c].notes = {n}
<1> DEFINE l == [Blank EXCEPT !.id = calls', !.kind = "write", !.notes = {n}]
<1>1. calls' \in 0 .. MaxCalls
  BY ViewsAssumption DEF Write, RequestInv, TypeInv, Globals
<1>2. l \in Requests /\ l.kind = "write" /\ l.id = calls' /\ l.notes = {n}
  BY <1>1, NothingRead DEF Requests, Blank, Kinds
<1> HIDE DEF l
<1>3. Fits(c, "find", l, dense'.open)
  <2>1. l.kind \in KindOf("find") /\ "find" \in Telling
    BY <1>2, TellKinds DEF Telling
  <2>2. c # Task
    BY ViewsAssumption
  <2> QED BY <1>2, <2>1, <2>2 DEF Fits, Whole, Asks
<1>4. disk' \in Versions /\ known' \in Versions /\ \A m \in Notes : known'[m] <= disk'[m]
  BY DEF Write, RequestInv, TypeInv, Globals, TypeOK, Versions
<1>5. Globals'
  BY <1>1, <1>4 DEF Write, RequestInv, TypeInv, Globals, TypeOK, lazy, index
<1>6. Go(c, "find", l) /\ UNCHANGED dense
  BY DEF Write, l
<1> QED BY <1>2, <1>3, <1>5, <1>6, GoFits DEF Moved, Procs, Sections

LEMMA EditFits == ASSUME RequestInv, NEW n \in Notes, EditOutside(n) PROVE RequestInv'
<1>1. disk' \in Versions /\ \A m \in Notes : known'[m] <= disk'[m]
  BY DEF EditOutside, RequestInv, TypeInv, Globals, TypeOK, Versions
<1>2. TypeInv'
  BY <1>1, NothingRead DEF EditOutside, RequestInv, TypeInv, Globals, TypeOK, lazy, index
<1> QED BY <1>2 DEF EditOutside, RequestInv

\* Past the gate.
LEMMA PastFits ==
  ASSUME RequestInv, NEW p \in Procs, PastGate(p), UNCHANGED dense, Globals', loc[p].kind # "",
         loc[p].kind # "write"
  PROVE  RequestInv' /\ Passes(p)
<1> DEFINE l == [loc[p] EXCEPT !.notes = {}, !.of = None]
           to == IF Rebuilds(p) THEN "scan" ELSE "look"
<1>0. loc[p] \in Requests /\ Fits(p, pc[p], loc[p], dense.open)
  BY DEF RequestInv, TypeInv
<1>1. /\ l \in Requests /\ l.kind = loc[p].kind /\ l.since = loc[p].since /\ l.id = loc[p].id
      /\ l.notes = {} /\ l.of = None
  BY <1>0, NothingRead DEF Requests
<1> HIDE DEF l
<1>2. l.kind \in KindOf(to) /\ to \in {"scan", "look"}
  <2>1. CASE Rebuilds(p)
    BY <1>1, <2>1, KindsOf DEF Rebuilds, Rebuilders, Gathering
  <2>2. CASE ~Rebuilds(p)
    BY <1>0, <1>1, <2>2, KindsOf DEF Requests, Kinds, Rebuilds
  <2> QED BY <2>1, <2>2
<1>3. Fits(p, to, l, dense'.open)
  BY <1>0, <1>1, <1>2 DEF Fits, Whole, Asks
<1>4. Go(p, to, l)
  BY DEF PastGate, l
<1>5. to \in Sections
  BY <1>2 DEF Sections
<1> HIDE DEF to
<1> QED BY <1>1, <1>3, <1>4, <1>5, GoFits DEF Moved, Passes, to

LEMMA SkipSweepFits ==
  ASSUME RequestInv, NEW p \in Procs, SkipSweep(p)
  PROVE  RequestInv' /\ Passes(p)
<1>1. pc[p] = "gate" /\ PastGate(p) /\ UNCHANGED dense
  BY DEF SkipSweep, Only
<1>2. Globals'
  BY GlobalsStay DEF SkipSweep, Only, RequestInv, TypeInv, Globals, TypeOK, lazy, bounds, Races
<1>3. loc[p].kind # "" /\ loc[p].kind # "write"
  <2>1. loc[p].kind \in KindOf("gate") /\ loc[p] \in Requests
    BY <1>1 DEF RequestInv, TypeInv, Fits
  <2>2. "gate" \in Sections \ Telling /\ "gate" # "idle"
    BY DEF Sections, Telling
  <2> QED BY <2>1, <2>2, KindIn
<1> QED BY <1>1, <1>2, <1>3, PastFits

LEMMA SweepFits ==
  ASSUME RequestInv, NEW p \in Procs, Sweep(p)
  PROVE  /\ RequestInv'
         /\ \/ known' = known /\ Passes(p)
            \/ /\ pc'[p] = "find" /\ loc'[p].kind = loc[p].kind /\ loc'[p].id = loc[p].id
               /\ loc'[p].since = loc[p].since /\ loc'[p].notes = Changed /\ Others(p)
<1>1. pc[p] = "gate" /\ UNCHANGED dense /\ known' = disk
  BY DEF Sweep, Only
<1>2. Globals'
  <2>1. gate' \in Procs \cup {Nobody}
    BY DEF Sweep, RequestInv, TypeInv, Globals, TypeOK
  <2>2. UNCHANGED <<disk, lazy, index, raced, calls>>
    BY DEF Sweep, Only, bounds
  <2> QED BY <1>1, <2>1, <2>2 DEF RequestInv, TypeInv, Globals, TypeOK, lazy, index, Versions
<1>3. loc[p].kind # "" /\ loc[p].kind # "write"
  <2>1. loc[p].kind \in KindOf("gate") /\ loc[p] \in Requests
    BY <1>1 DEF RequestInv, TypeInv, Fits
  <2>2. "gate" \in Sections \ Telling /\ "gate" # "idle"
    BY DEF Sections, Telling
  <2> QED BY <2>1, <2>2, KindIn
<1>4. CASE Changed = {}
  <2>1. known' = known
    BY <1>1, <1>4 DEF Changed, RequestInv, TypeInv, Globals, TypeOK, Versions
  <2>2. PastGate(p)
    BY <1>4 DEF Sweep
  <2> QED BY <1>1, <1>2, <1>3, <2>1, <2>2, PastFits
<1>5. CASE Changed # {}
  <2> DEFINE l == [loc[p] EXCEPT !.notes = Changed]
  <2>1. loc[p] \in Requests /\ Fits(p, pc[p], loc[p], dense.open)
    BY DEF RequestInv, TypeInv
  <2>2. /\ l \in Requests /\ l.kind = loc[p].kind /\ l.since = loc[p].since
        /\ l.id = loc[p].id /\ l.notes = Changed
    BY <2>1 DEF Requests, Changed
  <2>3. Go(p, "find", l)
    BY <1>5 DEF Sweep
  <2> HIDE DEF l
  <2>4. l.kind \in KindOf("find") /\ "find" \in Telling /\ "find" \in Sections
    BY <1>3, <2>2, TellKinds DEF Telling
  <2>5. Fits(p, "find", l, dense'.open)
    BY <1>3, <2>1, <2>2, <2>4 DEF Fits, Whole, Asks
  <2> QED BY <1>1, <1>2, <2>2, <2>3, <2>4, <2>5, GoFits DEF Moved
<1> QED BY <1>4, <1>5

\* A step within the telling that changes what has been read, or nothing.
LEMMA TellFits ==
  ASSUME RequestInv, NEW p \in Procs, NEW to \in Telling, NEW l \in Requests, Go(p, to, l),
         pc[p] \in Telling, l.kind = loc[p].kind, l.since = loc[p].since, l.notes = loc[p].notes, l.id = loc[p].id,
         to = "evict" => l.kind = "write", to = "file" => dense'.open, to = "commit" => l.of \in Versions,
         dense.open => dense'.open, Globals'
  PROVE  RequestInv' /\ Goes(p, to, loc[p].kind) /\ loc'[p] = l
<1>1. loc[p] \in Requests /\ Fits(p, pc[p], loc[p], dense.open)
  BY DEF RequestInv, TypeInv
<1>2. loc[p].kind # ""
  <2>1. pc[p] # "idle" /\ pc[p] \in Sections /\ loc[p].kind \in KindOf(pc[p])
    BY <1>1 DEF Telling, Sections, Fits
  <2> QED BY <1>1, <2>1, KindIn
<1>3. l.kind \in KindOf(to) /\ to \in Sections
  BY <1>2, TellKinds
<1>4. Fits(p, to, l, dense'.open)
  BY <1>1, <1>2, <1>3 DEF Fits, Whole, Telling, Asks
<1> QED BY <1>3, <1>4, GoFits DEF Moved, Goes

LEMMA RequestIs == ASSUME RequestInv, NEW p \in Procs
  PROVE  loc[p] \in Requests /\ pc[p] \in Sections /\ loc[p].kind \in KindOf(pc[p])
         /\ Fits(p, pc[p], loc[p], dense.open)
BY DEF RequestInv, TypeInv, Fits

LEMMA FindFits ==
  ASSUME RequestInv, NEW p \in Procs, Find(p)
  PROVE  /\ RequestInv'
         /\ \/ search = NoEngine /\ Goes(p, "forget", loc[p].kind)
            \/ search # NoEngine /\ Goes(p, "apply", loc[p].kind) /\ loc'[p].told = search.id
<1>1. pc[p] = "find" /\ UNCHANGED dense
  BY DEF Find, Only
<1>2. Globals'
  <2>1. raced' \subseteq Races
    BY BuiltIsRace DEF Find, RequestInv, TypeInv, Globals, TypeOK, Races
  <2> QED BY <2>1, GlobalsStay DEF Find, Only, RequestInv, TypeInv, Globals, TypeOK, lazy, bounds
<1>3. CASE search = NoEngine
  <2>1. Go(p, "forget", loc[p])
    BY <1>3 DEF Find
  <2> QED BY <1>1, <1>2, <1>3, <2>1, RequestIs, TellFits DEF Telling
<1>4. CASE search # NoEngine
  <2> DEFINE l == [loc[p] EXCEPT !.told = search.id]
  <2>1. Go(p, "apply", l)
    BY <1>4 DEF Find
  <2>2. /\ l \in Requests /\ l.kind = loc[p].kind /\ l.since = loc[p].since /\ l.told = search.id
        /\ l.id = loc[p].id /\ l.notes = loc[p].notes
    BY RequestIs DEF Requests, RequestInv, TypeInv, Globals, TypeOK
  <2> HIDE DEF l
  <2> QED BY <1>1, <1>2, <1>4, <2>1, <2>2, TellFits DEF Telling
<1> QED BY <1>3, <1>4

\* Somebody is committing to the engine that p is to tell.
Contended(p) == \E q \in In({"commit"}) : loc[q].told = loc[p].told

LEMMA ApplyFits ==
  ASSUME RequestInv, NEW p \in Procs, Apply(p)
  PROVE  /\ RequestInv'
         /\ \/ Contended(p) /\ Goes(p, "forget", loc[p].kind)
            \/ /\ ~Contended(p) /\ Goes(p, "commit", loc[p].kind)
               /\ loc'[p].of = disk /\ loc'[p].told = loc[p].told
<1>1. pc[p] = "apply" /\ UNCHANGED <<vault, similar, dense, index, gate, calls>>
  BY DEF Apply, Only, bounds
<1>2. CASE Contended(p)
  <2>1. Go(p, "forget", loc[p]) /\ search' = NoEngine /\ raced' \subseteq Races
    BY <1>2, BuiltIsRace DEF Apply, Contended, RequestInv, TypeInv, Globals, TypeOK, Races
  <2>2. Globals'
    BY <1>1, <2>1, GlobalsStay, NoEngineIsEngine DEF RequestInv, TypeInv, Globals, TypeOK
  <2> QED BY <1>1, <1>2, <2>1, <2>2, RequestIs, TellFits DEF Telling
<1>3. CASE ~Contended(p)
  <2> DEFINE l == [loc[p] EXCEPT !.of = disk]
  <2>1. Go(p, "commit", l) /\ UNCHANGED <<search, raced>>
    BY <1>3 DEF Apply, Contended
  <2>2. Globals' /\ disk \in Versions
    BY <1>1, <2>1, GlobalsStay DEF RequestInv, TypeInv, Globals, TypeOK, Races
  <2>3. /\ l \in Requests /\ l.kind = loc[p].kind /\ l.since = loc[p].since /\ l.told = loc[p].told
        /\ l.id = loc[p].id /\ l.notes = loc[p].notes /\ l.of = disk
    BY <2>2, RequestIs, WholeIsPart DEF Requests
  <2> HIDE DEF l
  <2> QED BY <1>1, <1>3, <2>1, <2>2, <2>3, TellFits DEF Telling
<1> QED BY <1>2, <1>3

\* What a commit makes of the engine it was told to change.
Committed(p) == [n \in Notes |-> IF n \in loc[p].notes THEN loc[p].of[n] ELSE search.of[n]]

LEMMA CommitFits ==
  ASSUME RequestInv, NEW p \in Procs, Commit(p), loc[p].told > 0
  PROVE  /\ RequestInv' /\ Goes(p, "forget", loc[p].kind)
         /\ search.id # loc[p].told => search' = search
         /\ search.id = loc[p].told =>
              search # NoEngine /\ search'.id = search.id /\ search'.of = Committed(p)
<1>1. pc[p] = "commit" /\ UNCHANGED <<vault, similar, dense, index, gate, calls, raced>>
  BY DEF Commit, Only, bounds
<1>2. loc[p] \in Requests /\ loc[p].of \in Versions
  BY <1>1, RequestIs DEF Fits, Whole
<1>3. /\ search' \in Engines
      /\ search.id # loc[p].told => search' = search
      /\ search.id = loc[p].told =>
           search # NoEngine /\ search'.id = search.id /\ search'.of = Committed(p)
  <2>1. CASE search.id # loc[p].told
    BY <2>1 DEF Commit, RequestInv, TypeInv, Globals
  <2>2. CASE search.id = loc[p].told
    <3>1. search.id > 0 /\ search \in Engines
      BY <2>2 DEF RequestInv, TypeInv, Globals
    <3>2. search # NoEngine /\ search \in [id : 1 .. MaxCalls, of : Versions]
      BY <3>1 DEF Engines, NoEngine
    <3>3. search' = [search EXCEPT !.of = Committed(p)]
      BY <2>2 DEF Commit, Committed
    <3>4. Committed(p) \in Versions
      BY <1>2, <3>2 DEF Committed, Versions
    <3>5. search' \in [id : 1 .. MaxCalls, of : Versions] /\ search'.id = search.id /\ search'.of = Committed(p)
      BY <3>2, <3>3, <3>4
    <3> QED BY <2>2, <3>2, <3>5 DEF Engines
  <2> QED BY <2>1, <2>2
<1>4. Globals'
  BY <1>1, <1>3, GlobalsStay DEF RequestInv, TypeInv, Globals, TypeOK, Races
<1> DEFINE l == [loc[p] EXCEPT !.of = None]
<1>5. Go(p, "forget", l)
  BY DEF Commit
<1>6. /\ l \in Requests /\ l.kind = loc[p].kind /\ l.since = loc[p].since
      /\ l.id = loc[p].id /\ l.notes = loc[p].notes
  BY <1>2, NothingRead DEF Requests
<1> HIDE DEF l
<1> QED BY <1>1, <1>3, <1>4, <1>5, <1>6, TellFits DEF Telling

LEMMA ForgetFits ==
  ASSUME RequestInv, NEW p \in Procs, Forget(p)
  PROVE  RequestInv' /\ Goes(p, "flag", loc[p].kind)
<1>1. pc[p] = "forget" /\ UNCHANGED dense /\ Go(p, "flag", loc[p])
  BY DEF Forget, Only
<1>2. Globals'
  <2>1. raced' \subseteq Races
    BY BuiltIsRace DEF Forget, RequestInv, TypeInv, Globals, TypeOK, Races
  <2> QED BY <2>1, GlobalsStay, NoEngineIsEngine
          DEF Forget, Only, RequestInv, TypeInv, Globals, TypeOK, lazy, bounds
<1> QED BY <1>1, <1>2, RequestIs, TellFits DEF Telling

LEMMA EvictFits ==
  ASSUME RequestInv, NEW p \in Procs, Evict(p)
  PROVE  RequestInv' /\ Goes(p, "flag", loc[p].kind)
<1>1. pc[p] = "evict" /\ UNCHANGED dense /\ Go(p, "flag", loc[p])
  BY DEF Evict, Only
<1>2. Globals'
  <2>1. raced' \subseteq Races
    BY BuiltIsRace DEF Evict, RequestInv, TypeInv, Globals, TypeOK, Races
  <2> QED BY <2>1, GlobalsStay, NoEngineIsEngine
          DEF Evict, Only, RequestInv, TypeInv, Globals, TypeOK, lazy, bounds
<1> QED BY <1>1, <1>2, RequestIs, TellFits DEF Telling

\* Told: another round, the end, or past the gate.
Leaves(p) == Goes(p, "evict", loc[p].kind) \/ Ends(p) \/ Passes(p)

LEMMA ToldFits ==
  ASSUME RequestInv, NEW p \in Procs, Told(p), pc[p] \in Telling, UNCHANGED dense,
         gate' \in Procs \cup {Nobody} => Globals'
  PROVE  RequestInv' /\ Leaves(p)
<1>1. loc[p].kind # ""
  <2>1. pc[p] # "idle"
    BY DEF Telling
  <2> QED BY <2>1, RequestIs, KindIn
<1>2. CASE loc[p].kind = "write" /\ ~loc[p].flag
  <2> DEFINE l == [loc[p] EXCEPT !.flag = TRUE]
  <2>1. Go(p, "evict", l) /\ UNCHANGED gate
    BY <1>2 DEF Told
  <2>2. /\ l \in Requests /\ l.kind = loc[p].kind /\ l.since = loc[p].since
        /\ l.id = loc[p].id /\ l.notes = loc[p].notes
    BY RequestIs DEF Requests
  <2> HIDE DEF l
  <2>3. Globals'
    BY <2>1 DEF RequestInv, TypeInv, Globals, TypeOK
  <2> QED BY <1>2, <2>1, <2>2, <2>3, TellFits DEF Telling, Leaves
<1>3. CASE loc[p].kind = "write" /\ loc[p].flag
  <2>1. Return(p) /\ UNCHANGED gate
    BY <1>3 DEF Told
  <2>2. Globals'
    BY <2>1 DEF RequestInv, TypeInv, Globals, TypeOK
  <2> QED BY <2>1, <2>2, ReturnFits DEF Leaves
<1>4. CASE loc[p].kind # "write"
  <2>1. PastGate(p) /\ gate' = Nobody
    BY <1>4 DEF Told
  <2> QED BY <1>1, <1>4, <2>1, PastFits DEF Leaves
<1> QED BY <1>2, <1>3, <1>4

LEMMA MarkFits ==
  ASSUME RequestInv, NEW p \in Procs, Mark(p)
  PROVE  /\ RequestInv'
         /\ \/ dense.open /\ Goes(p, "file", loc[p].kind) /\ dense' = [dense EXCEPT !.stale = TRUE]
            \/ ~dense.open /\ Leaves(p) /\ dense' = dense
<1>1. pc[p] = "flag" /\ UNCHANGED <<vault, lazy, index, calls>>
  BY DEF Mark, Only, bounds
<1>2. raced' \subseteq Races
  BY DEF Mark, RequestInv, TypeInv, Globals, TypeOK, Races
<1>3. CASE dense.open
  <2>1. Go(p, "file", loc[p]) /\ dense' = [dense EXCEPT !.stale = TRUE] /\ UNCHANGED gate
    BY <1>3 DEF Mark
  <2>2. dense' \in [open : BOOLEAN, of : Indexes, stale : BOOLEAN, running : BOOLEAN] /\ dense'.open
    BY <1>3, <2>1 DEF RequestInv, TypeInv, Globals, TypeOK
  <2>3. Globals'
    BY <1>1, <1>2, <2>1, <2>2 DEF RequestInv, TypeInv, Globals, TypeOK, vault, lazy, index, Races
  <2> QED BY <1>1, <1>3, <2>1, <2>2, <2>3, RequestIs, TellFits DEF Telling
<1>4. CASE ~dense.open
  <2>1. Told(p) /\ UNCHANGED dense
    BY <1>4 DEF Mark
  <2>2. gate' \in Procs \cup {Nobody} => Globals'
    BY <1>1, <1>2, <2>1, GlobalsStay DEF RequestInv, TypeInv, Globals, lazy
  <2> QED BY <1>1, <1>4, <2>1, <2>2, ToldFits DEF Telling
<1> QED BY <1>3, <1>4

LEMMA MarkFileFits ==
  ASSUME RequestInv, NEW p \in Procs, MarkFile(p)
  PROVE  RequestInv' /\ Leaves(p)
<1>1. /\ pc[p] = "file" /\ UNCHANGED <<vault, lazy, dense, stored, raced, calls>>
      /\ marker' = TRUE /\ Told(p)
  BY DEF MarkFile, Only, bounds
<1>2. gate' \in Procs \cup {Nobody} => Globals'
  BY <1>1 DEF RequestInv, TypeInv, Globals, TypeOK, vault, lazy
<1> QED BY <1>1, <1>2, ToldFits DEF Telling

\* A step of a request that tells nothing.
LEMMA ServeFits ==
  ASSUME RequestInv, NEW p \in Procs, NEW to \in Sections \ {"look"}, NEW l \in Requests, Go(p, to, l),
         pc[p] \notin Telling, pc[p] # "idle", to \notin Telling, l.kind \in KindOf(to),
         l.kind = loc[p].kind \/ {l.kind, loc[p].kind} \subseteq {"dense", "refresh"},
         l.since = loc[p].since, l.notes = loc[p].notes, l.id = loc[p].id,
         to \in {"ready", "rank"} => dense'.open, Whole(to, l), dense.open => dense'.open, Globals'
  PROVE  RequestInv' /\ Goes(p, to, l.kind) /\ loc'[p] = l
<1>1. loc[p] \in Requests /\ Fits(p, pc[p], loc[p], dense.open) /\ loc[p].kind # "" /\ loc[p].notes = {}
  BY RequestIs, KindIn DEF Fits
<1>2. l.kind # "" /\ (Asks(l) => Asks(loc[p])) /\ (l.kind = "rebuild" <=> loc[p].kind = "rebuild")
  BY <1>1 DEF Asks
<1>3. p = Task => l.kind = "rebuild"
  BY <1>1, <1>2 DEF Fits
<1>4. Fits(p, to, l, dense'.open)
  BY <1>1, <1>2, <1>3 DEF Fits, Telling
<1> QED BY <1>4, GoFits DEF Moved, Goes

LEMMA SameGlobals == ASSUME Globals, UNCHANGED <<vault, lazy, dense, index, gate, raced, calls>>
                     PROVE  Globals'
BY GlobalsStay DEF Globals, TypeOK, lazy, Races

LEMMA Serving == /\ {"look", "read", "publish", "load", "ready", "rank"} \subseteq Sections \ (Telling \cup {"idle"})
                 /\ Rebuilders \subseteq Sections \ (Telling \cup {"idle", "look", "ready", "rank"})
BY DEF Sections, Telling, Rebuilders, Gathering

\* What a request is answered from, and what a search may see of an engine.
LEMMA LookFits ==
  ASSUME RequestInv, NEW p \in Procs, Look(p)
  PROVE  /\ RequestInv'
         /\ \/ loc[p].kind = "search" /\ search # NoEngine /\ Ends(p) /\ Answer(p, search.of)
            \/ loc[p].kind = "similar" /\ similar # NoEngine /\ Ends(p) /\ Answer(p, similar.of)
            \/ \E to \in {"read", "ready", "load"} :
                 Goes(p, to, loc[p].kind) /\ loc'[p] = loc[p] /\ answer' = Blank
         /\ pc'[p] = "read" /\ loc[p].kind = "search" => search = NoEngine
<1>1. pc[p] = "look" /\ UNCHANGED <<vault, lazy, dense, index, gate, raced, calls>>
  BY DEF Look, Only, bounds
<1>2. Globals'
  BY <1>1, SameGlobals DEF RequestInv, TypeInv
<1>3. /\ loc[p] \in Requests /\ loc[p].kind \in {"search", "similar", "dense", "reindex"}
      /\ loc[p].of = None /\ pc[p] \in Sections \ (Telling \cup {"idle"})
  BY <1>1, RequestIs, KindIn, Serving DEF Fits
<1>4. search.of \in Indexes /\ similar.of \in Indexes /\ UNCHANGED dense
  BY <1>1 DEF RequestInv, TypeInv, Globals, TypeOK
<1>5. CASE loc[p].kind = "search" /\ search # NoEngine
  <2>1. Answer(p, search.of)
    BY <1>5 DEF Look
  <2>2. RequestInv' /\ Ends(p)
    BY <2>1, <1>2, <1>4, AnswerFits
  <2> QED BY <2>1, <2>2, <1>5 DEF Ends
<1>6. CASE loc[p].kind = "similar" /\ similar # NoEngine
  <2>1. Answer(p, similar.of)
    BY <1>6 DEF Look
  <2>2. RequestInv' /\ Ends(p)
    BY <2>1, <1>2, <1>4, AnswerFits
  <2> QED BY <2>1, <2>2, <1>6 DEF Ends
<1>7. CASE \/ loc[p].kind = "search" /\ search = NoEngine
           \/ loc[p].kind = "similar" /\ similar = NoEngine
  <2>1. Go(p, "read", loc[p])
    BY <1>7 DEF Look
  <2>2. loc[p].kind \in KindOf("read") /\ Whole("read", loc[p])
    BY <1>7, KindsOf DEF Whole
  <2>3. RequestInv' /\ Goes(p, "read", loc[p].kind) /\ loc'[p] = loc[p]
    BY <2>1, <2>2, <1>1, <1>2, <1>3, <1>4, Serving, ServeFits
  <2> QED BY <2>1, <2>3, <1>7 DEF Go
<1>8. CASE loc[p].kind \in {"dense", "reindex"}
  <2> DEFINE to == IF dense.open THEN "ready" ELSE "load"
  <2>1. Go(p, to, loc[p]) /\ to \in {"ready", "load"} /\ (to = "ready" => dense.open)
    BY <1>8 DEF Look
  <2> HIDE DEF to
  <2>2. loc[p].kind \in KindOf(to) /\ Whole(to, loc[p])
    BY <1>8, <2>1, KindsOf DEF Whole
  <2>3. RequestInv' /\ Goes(p, to, loc[p].kind) /\ loc'[p] = loc[p]
    BY <2>1, <2>2, <1>1, <1>2, <1>3, <1>4, Serving, ServeFits
  <2> QED BY <2>1, <2>3, <1>8 DEF Goes, Go
<1> QED BY <1>3, <1>5, <1>6, <1>7, <1>8

\* One more note is read.
LEMMA ReadFits ==
  ASSUME RequestInv, NEW p \in Procs, NEW from \in {"read", "scan"}, NEW to \in {"publish", "store"},
         from = "read" => to = "publish", from = "scan" => to = "store", Read(p, from, to)
  PROVE  /\ RequestInv'
         /\ \E s \in {from, to} : Goes(p, s, loc[p].kind)
         /\ \E n \in Notes : loc'[p].of = [m \in DOMAIN loc[p].of \cup {n} |-> IF m = n THEN disk[n] ELSE loc[p].of[m]]
<1>1. /\ pc[p] = from /\ from \in Sections \ (Telling \cup {"idle", "look"})
      /\ UNCHANGED <<vault, lazy, dense, index, gate, raced, calls>>
  BY DEF Read, Only, bounds, Sections, Telling
<1>2. Globals'
  BY <1>1, SameGlobals DEF RequestInv, TypeInv
<1>3. loc[p] \in Requests /\ loc[p].kind \in KindOf(from)
  BY <1>1, RequestIs
<1>4. PICK n \in Notes \ DOMAIN loc[p].of :
        Go(p, IF DOMAIN loc[p].of \cup {n} = Notes THEN to ELSE from, ReadNote(p, n))
  BY DEF Read
<1> DEFINE of == [m \in DOMAIN loc[p].of \cup {n} |-> IF m = n THEN disk[n] ELSE loc[p].of[m]]
           l == ReadNote(p, n)
           s == IF DOMAIN loc[p].of \cup {n} = Notes THEN to ELSE from
<1>5. of \in Parts /\ (s = to => of \in Versions)
  <2>1. PICK S \in SUBSET Notes : loc[p].of \in [S -> Nat]
    BY <1>3 DEF Requests, Parts
  <2>2. of \in [S \cup {n} -> Nat] /\ DOMAIN loc[p].of = S
    BY <2>1 DEF RequestInv, TypeInv, Globals, TypeOK, Versions
  <2>3. of \in Parts
    BY <2>2 DEF Parts
  <2>4. s = to => S \cup {n} = Notes
    BY <2>2
  <2> QED BY <2>2, <2>3, <2>4 DEF Versions
<1>6. l = [loc[p] EXCEPT !.of = of]
  BY DEF ReadNote
<1>7. /\ l \in Requests /\ l.kind = loc[p].kind /\ l.since = loc[p].since
      /\ l.id = loc[p].id /\ l.notes = loc[p].notes /\ l.of = of
  BY <1>3, <1>5, <1>6 DEF Requests
<1>8. s \in {from, to} /\ s \in Sections \ (Telling \cup {"idle", "look", "ready"})
  BY DEF Sections, Telling
<1>9. l.kind \in KindOf(s)
  <2>1. CASE from = "read"
    BY <2>1, <1>3, <1>7, <1>8, KindsOf
  <2>2. CASE from = "scan"
    BY <2>2, <1>3, <1>7, <1>8, KindsOf DEF Rebuilders, Gathering
  <2> QED BY <2>1, <2>2
<1>10. Whole(s, l)
  BY <1>5, <1>7, <1>8 DEF Whole, Indexes
<1> HIDE DEF l, s
<1>11. RequestInv' /\ Goes(p, s, l.kind) /\ loc'[p] = l
  BY <1>1, <1>2, <1>4, <1>7, <1>8, <1>9, <1>10, ServeFits DEF l, s
<1> QED BY <1>7, <1>8, <1>11

LEMMA PublishSearchFits ==
  ASSUME RequestInv, NEW p \in Procs, PublishSearch(p), loc[p].id > 0
  PROVE  /\ RequestInv' /\ Ends(p)
         /\ \/ search # NoEngine /\ search' = search /\ Answer(p, search.of)
            \/ search = NoEngine /\ search'.id = loc[p].id /\ search'.of = loc[p].of /\ Answer(p, loc[p].of)
<1>1. /\ pc[p] = "publish" /\ loc[p].kind = "search" /\ loc[p].of \in Versions /\ loc[p] \in Requests
      /\ UNCHANGED <<vault, similar, dense, index, gate, raced, calls>>
  BY RequestIs DEF PublishSearch, Only, bounds, Fits, Whole
<1>2. CASE search # NoEngine
  <2>1. Answer(p, search.of) /\ UNCHANGED search
    BY <1>2 DEF PublishSearch
  <2>2. search.of \in Indexes /\ Globals'
    BY <1>1, <2>1, SameGlobals DEF RequestInv, TypeInv, Globals, TypeOK, lazy
  <2> QED BY <1>1, <1>2, <2>1, <2>2, AnswerFits
<1>3. CASE search = NoEngine
  <2>1. Answer(p, loc[p].of) /\ search' = [id |-> loc[p].id, of |-> loc[p].of]
    BY <1>3 DEF PublishSearch
  <2>2. search' \in Engines
    BY <1>1, <2>1 DEF Engines, Requests
  <2>3. Globals' /\ loc[p].of \in Indexes
    BY <1>1, <2>2, GlobalsStay DEF RequestInv, TypeInv, Globals, TypeOK, Races, Indexes
  <2> QED BY <1>1, <1>3, <2>1, <2>3, AnswerFits
<1> QED BY <1>2, <1>3

LEMMA PublishSimilarFits ==
  ASSUME RequestInv, NEW p \in Procs, PublishSimilar(p), loc[p].id > 0
  PROVE  /\ RequestInv' /\ Ends(p)
         /\ similar'.of = loc[p].of /\ Answer(p, loc[p].of)
<1>1. /\ pc[p] = "publish" /\ loc[p].kind = "similar" /\ loc[p].of \in Versions /\ loc[p] \in Requests
      /\ UNCHANGED <<vault, search, dense, index, gate, raced, calls>>
  BY RequestIs DEF PublishSimilar, Only, bounds, Fits, Whole
<1>2. Answer(p, loc[p].of) /\ similar' = [id |-> loc[p].id, of |-> loc[p].of]
  BY DEF PublishSimilar
<1>3. similar' \in Engines
  BY <1>1, <1>2 DEF Engines, Requests
<1>4. Globals' /\ loc[p].of \in Indexes
  BY <1>1, <1>3, GlobalsStay DEF RequestInv, TypeInv, Globals, TypeOK, Races, Indexes
<1> QED BY <1>1, <1>2, <1>4, AnswerFits

LEMMA LoadFits ==
  ASSUME RequestInv, NEW p \in Procs, Load(p)
  PROVE  /\ RequestInv' /\ Goes(p, "publish", loc[p].kind) /\ loc[p].kind \in {"dense", "reindex"}
         /\ loc'[p].flag = marker /\ loc'[p].of = stored
<1>1. pc[p] = "load" /\ UNCHANGED <<vault, lazy, dense, index, gate, raced, calls>>
  BY DEF Load, Only, bounds
<1>2. Globals' /\ stored \in Indexes /\ marker \in BOOLEAN
  BY <1>1, SameGlobals DEF RequestInv, TypeInv, Globals, TypeOK
<1>3. loc[p] \in Requests /\ loc[p].kind \in {"dense", "reindex"} /\ stored \in Parts
  BY <1>1, <1>2, RequestIs, KindIn, NothingRead, WholeIsPart DEF Indexes
<1> DEFINE l == [loc[p] EXCEPT !.flag = marker, !.of = stored]
<1>4. Go(p, "publish", l)
  BY DEF Load
<1>5. /\ l \in Requests /\ l.kind = loc[p].kind /\ l.since = loc[p].since
      /\ l.id = loc[p].id /\ l.notes = loc[p].notes /\ l.flag = marker /\ l.of = stored
  BY <1>2, <1>3 DEF Requests
<1> HIDE DEF l
<1>6. l.kind \in KindOf("publish") /\ Whole("publish", l)
  BY <1>2, <1>3, <1>5, KindsOf DEF Whole
<1> QED BY <1>1, <1>2, <1>3, <1>4, <1>5, <1>6, Serving, ServeFits

LEMMA PublishDenseFits ==
  ASSUME RequestInv, NEW p \in Procs, PublishDense(p)
  PROVE  /\ RequestInv' /\ Goes(p, "ready", loc[p].kind)
         /\ dense.open => dense' = dense
         /\ ~dense.open => dense' = [open |-> TRUE, of |-> loc[p].of, stale |-> loc[p].flag, running |-> FALSE]
<1>1. /\ pc[p] = "publish" /\ loc[p].kind \in {"dense", "reindex"}
      /\ UNCHANGED <<vault, lazy, index, gate, raced, calls>>
  BY DEF PublishDense, Only, bounds
<1>2. loc[p] \in Requests /\ loc[p].of \in Indexes
  BY <1>1, RequestIs DEF Fits, Whole
<1>3. /\ dense.open => dense' = dense
      /\ ~dense.open => dense' = [open |-> TRUE, of |-> loc[p].of, stale |-> loc[p].flag, running |-> FALSE]
  BY DEF PublishDense
<1>4. dense' \in [open : BOOLEAN, of : Indexes, stale : BOOLEAN, running : BOOLEAN] /\ dense'.open
  <2>1. CASE dense.open
    BY <1>3, <2>1 DEF RequestInv, TypeInv, Globals, TypeOK
  <2>2. CASE ~dense.open
    <3>1. loc[p].flag \in BOOLEAN
      BY <1>2 DEF Requests
    <3>2. /\ [open |-> TRUE, of |-> loc[p].of, stale |-> loc[p].flag, running |-> FALSE]
                \in [open : BOOLEAN, of : Indexes, stale : BOOLEAN, running : BOOLEAN]
          /\ [open |-> TRUE, of |-> loc[p].of, stale |-> loc[p].flag, running |-> FALSE].open
      BY <1>2, <3>1
    <3> QED BY <1>3, <2>2, <3>2
  <2> QED BY <2>1, <2>2
<1>5. Globals'
  BY <1>1, <1>4 DEF RequestInv, TypeInv, Globals, TypeOK, vault, lazy, index
<1> DEFINE l == [loc[p] EXCEPT !.of = None, !.flag = FALSE]
<1>6. Go(p, "ready", l)
  BY DEF PublishDense
<1>7. /\ l \in Requests /\ l.kind = loc[p].kind /\ l.since = loc[p].since
      /\ l.id = loc[p].id /\ l.notes = loc[p].notes
  BY <1>2, NothingRead DEF Requests
<1> HIDE DEF l
<1>8. l.kind \in KindOf("ready") /\ Whole("ready", l)
  BY <1>1, <1>7, KindsOf DEF Whole
<1> QED BY <1>1, <1>3, <1>4, <1>5, <1>6, <1>7, <1>8, Serving, ServeFits

LEMMA RefreshFits ==
  ASSUME RequestInv, NEW p \in Procs, Refresh(p)
  PROVE  RequestInv' /\ Goes(p, "stale", "refresh") /\ dense' = [dense EXCEPT !.running = TRUE]
<1>1. /\ pc[p] = "ready" /\ loc[p].kind = "dense" /\ dense' = [dense EXCEPT !.running = TRUE]
      /\ UNCHANGED <<vault, lazy, index, gate, raced, calls>>
  BY DEF Refresh, Only, bounds
<1>2. /\ dense' \in [open : BOOLEAN, of : Indexes, stale : BOOLEAN, running : BOOLEAN]
      /\ dense'.open = dense.open
  BY <1>1 DEF RequestInv, TypeInv, Globals, TypeOK
<1>3. Globals'
  BY <1>1, <1>2 DEF RequestInv, TypeInv, Globals, TypeOK, vault, lazy, index
<1> DEFINE l == [loc[p] EXCEPT !.kind = "refresh"]
<1>4. Go(p, "stale", l)
  BY DEF Refresh
<1>5. /\ l \in Requests /\ l.kind = "refresh" /\ l.since = loc[p].since
      /\ l.id = loc[p].id /\ l.notes = loc[p].notes
  BY RequestIs DEF Requests, Kinds
<1> HIDE DEF l
<1>6. l.kind \in KindOf("stale") /\ Whole("stale", l) /\ "stale" \in Rebuilders
  BY <1>5, KindsOf DEF Whole, Rebuilders
<1> QED BY <1>1, <1>2, <1>3, <1>4, <1>5, <1>6, Serving, ServeFits

LEMMA ReadFlagFits ==
  ASSUME RequestInv, NEW p \in Procs, ReadFlag(p)
  PROVE  /\ RequestInv' /\ Goes(p, "rank", "dense") /\ loc'[p].flag = dense.stale
         /\ loc[p].kind \in {"dense", "refresh"}
<1>1. /\ pc[p] = "ready" /\ loc[p].kind \in {"dense", "refresh"}
      /\ UNCHANGED <<vault, lazy, dense, index, gate, raced, calls>>
  BY DEF ReadFlag, Only, bounds
<1>2. Globals' /\ dense.stale \in BOOLEAN
  BY <1>1, SameGlobals DEF RequestInv, TypeInv, Globals, TypeOK
<1> DEFINE l == [loc[p] EXCEPT !.kind = "dense", !.flag = dense.stale]
<1>3. Go(p, "rank", l)
  BY DEF ReadFlag
<1>4. /\ l \in Requests /\ l.kind = "dense" /\ l.since = loc[p].since
      /\ l.id = loc[p].id /\ l.notes = loc[p].notes /\ l.flag = dense.stale
  BY <1>2, RequestIs DEF Requests, Kinds
<1> HIDE DEF l
<1>5. l.kind \in KindOf("rank") /\ Whole("rank", l) /\ dense.open
  <2>1. dense.open
    BY <1>1, RequestIs DEF Fits
  <2> QED BY <1>4, <2>1, KindsOf DEF Whole
<1> QED BY <1>1, <1>2, <1>3, <1>4, <1>5, Serving, ServeFits

LEMMA RankFits ==
  ASSUME RequestInv, NEW p \in Procs, Rank(p)
  PROVE  /\ RequestInv' /\ Ends(p)
         /\ answer' = Blank \/ (dense.of # None /\ Answer(p, dense.of))
<1>1. pc[p] = "rank" /\ UNCHANGED <<vault, lazy, dense, index, gate, raced, calls>>
  BY DEF Rank, Only, bounds
<1>2. Globals' /\ dense.of \in Indexes
  BY <1>1, SameGlobals DEF RequestInv, TypeInv, Globals, TypeOK
<1>3. CASE dense.of = None
  <2>1. Return(p)
    BY <1>3 DEF Rank
  <2> QED BY <1>1, <1>2, <2>1, ReturnFits DEF Return, Go
<1>4. CASE dense.of # None
  <2>1. Answer(p, dense.of)
    BY <1>4 DEF Rank
  <2> QED BY <1>1, <1>2, <1>4, <2>1, AnswerFits
<1> QED BY <1>3, <1>4

\* A step of a rebuild that reads nothing.
LEMMA RebuildFits ==
  ASSUME RequestInv, NEW p \in Procs, NEW to \in Rebuilders, Go(p, to, loc[p]), pc[p] \in Rebuilders,
         Whole(pc[p], loc[p]) => Whole(to, loc[p]), dense.open => dense'.open, Globals'
  PROVE  RequestInv' /\ Goes(p, to, loc[p].kind) /\ loc'[p] = loc[p]
<1>1. loc[p] \in Requests /\ loc[p].kind \in {"refresh", "rebuild"} /\ Whole(pc[p], loc[p])
  BY RequestIs, KindIn DEF Fits
<1>2. loc[p].kind \in KindOf(to)
  <2>1. KindOf(to) = {"rebuild", "refresh"}
    BY KindsOf
  <2> QED BY <1>1, <2>1
<1> QED BY <1>1, <1>2, Serving, ServeFits

\* The dense engine changes, and stays open.
LEMMA DenseChanges ==
  ASSUME Globals, UNCHANGED <<vault, lazy, index, gate, raced, calls>>,
         dense' \in [open : BOOLEAN, of : Indexes, stale : BOOLEAN, running : BOOLEAN]
  PROVE  Globals'
BY DEF Globals, TypeOK, vault, lazy, index

LEMMA StaleFits ==
  ASSUME RequestInv, NEW p \in Procs, Stale(p)
  PROVE  /\ RequestInv' /\ Goes(p, "stalefile", loc[p].kind)
         /\ dense' = [dense EXCEPT !.stale = TRUE]
<1>1. /\ pc[p] = "stale" /\ dense' = [dense EXCEPT !.stale = TRUE] /\ Go(p, "stalefile", loc[p])
      /\ UNCHANGED <<vault, lazy, index, gate, raced, calls>>
  BY DEF Stale, Only, bounds
<1>2. /\ dense' \in [open : BOOLEAN, of : Indexes, stale : BOOLEAN, running : BOOLEAN]
      /\ dense'.open = dense.open
  BY <1>1 DEF RequestInv, TypeInv, Globals, TypeOK
<1>3. Globals'
  BY <1>1, <1>2, DenseChanges DEF RequestInv, TypeInv
<1> QED BY <1>1, <1>2, <1>3, RebuildFits DEF Rebuilders, Whole

LEMMA StaleFileFits ==
  ASSUME RequestInv, NEW p \in Procs, StaleFile(p)
  PROVE  RequestInv' /\ Goes(p, "gate", loc[p].kind)
<1>1. /\ pc[p] = "stalefile" /\ Go(p, "gate", loc[p]) /\ marker' = TRUE
      /\ UNCHANGED <<vault, lazy, dense, stored, gate, raced, calls>>
  BY DEF StaleFile, Only, bounds
<1>2. Globals'
  BY <1>1 DEF RequestInv, TypeInv, Globals, TypeOK, vault, lazy
<1>3. loc[p] \in Requests /\ loc[p].kind \in {"refresh", "rebuild"}
  BY <1>1, RequestIs, KindIn DEF Rebuilders
<1>4. loc[p].kind \in KindOf("gate") /\ Whole("gate", loc[p]) /\ "gate" \in Sections \ (Telling \cup {"look"})
  BY <1>3, KindsOf DEF Whole, Sections, Telling
<1> QED BY <1>1, <1>2, <1>3, <1>4, ServeFits DEF Telling

LEMMA StoreFits ==
  ASSUME RequestInv, NEW p \in Procs, Store(p)
  PROVE  RequestInv' /\ Goes(p, "unmark", loc[p].kind) /\ loc'[p] = loc[p]
<1>1. /\ pc[p] = "store" /\ Go(p, "unmark", loc[p]) /\ stored' = loc[p].of
      /\ UNCHANGED <<vault, lazy, dense, marker, gate, raced, calls>>
  BY DEF Store, Only, bounds
<1>2. loc[p].of \in Indexes
  BY <1>1, RequestIs DEF Fits, Whole, Indexes
<1>3. Globals'
  BY <1>1, <1>2 DEF RequestInv, TypeInv, Globals, TypeOK, vault, lazy
<1> QED BY <1>1, <1>3, RebuildFits DEF Rebuilders, Gathering, Whole

LEMMA UnmarkFits ==
  ASSUME RequestInv, NEW p \in Procs, Unmark(p)
  PROVE  RequestInv' /\ Goes(p, "swap", loc[p].kind) /\ loc'[p] = loc[p]
<1>1. /\ pc[p] = "unmark" /\ Go(p, "swap", loc[p]) /\ marker' = FALSE
      /\ UNCHANGED <<vault, lazy, dense, stored, gate, raced, calls>>
  BY DEF Unmark, Only, bounds
<1>2. Globals'
  BY <1>1 DEF RequestInv, TypeInv, Globals, TypeOK, vault, lazy
<1> QED BY <1>1, <1>2, RebuildFits DEF Rebuilders, Gathering, Whole

LEMMA SwapFits ==
  ASSUME RequestInv, NEW p \in Procs, Swap(p)
  PROVE  /\ RequestInv' /\ Goes(p, "clear", loc[p].kind) /\ loc'[p] = loc[p]
         /\ dense' = [dense EXCEPT !.of = loc[p].of]
<1>1. /\ pc[p] = "swap" /\ dense' = [dense EXCEPT !.of = loc[p].of] /\ Go(p, "clear", loc[p])
      /\ UNCHANGED <<vault, lazy, index, gate, raced, calls>>
  BY DEF Swap, Only, bounds
<1>2. loc[p].of \in Indexes
  BY <1>1, RequestIs DEF Fits, Whole, Indexes
<1>3. /\ dense' \in [open : BOOLEAN, of : Indexes, stale : BOOLEAN, running : BOOLEAN]
      /\ dense'.open = dense.open
  BY <1>1, <1>2 DEF RequestInv, TypeInv, Globals, TypeOK
<1>4. Globals'
  BY <1>1, <1>3, DenseChanges DEF RequestInv, TypeInv
<1> QED BY <1>1, <1>3, <1>4, RebuildFits DEF Rebuilders, Gathering, Whole

LEMMA ClearFits ==
  ASSUME RequestInv, NEW p \in Procs, Clear(p)
  PROVE  /\ RequestInv' /\ Goes(p, "finish", loc[p].kind)
         /\ dense' = [dense EXCEPT !.stale = FALSE]
<1>1. /\ pc[p] = "clear" /\ dense' = [dense EXCEPT !.stale = FALSE] /\ Go(p, "finish", loc[p])
      /\ UNCHANGED <<vault, lazy, index, gate, raced, calls>>
  BY DEF Clear, Only, bounds
<1>2. /\ dense' \in [open : BOOLEAN, of : Indexes, stale : BOOLEAN, running : BOOLEAN]
      /\ dense'.open = dense.open
  BY <1>1 DEF RequestInv, TypeInv, Globals, TypeOK
<1>3. Globals'
  BY <1>1, <1>2, DenseChanges DEF RequestInv, TypeInv
<1> QED BY <1>1, <1>2, <1>3, RebuildFits DEF Rebuilders, Gathering, Whole

LEMMA EmbedFailsFits ==
  ASSUME RequestInv, NEW p \in Procs, EmbedFails(p)
  PROVE  RequestInv' /\ Goes(p, "finish", loc[p].kind)
<1>1. /\ pc[p] = "store" /\ Go(p, "finish", loc[p])
      /\ UNCHANGED <<vault, lazy, dense, index, gate, raced, calls>>
  BY DEF EmbedFails
<1>2. Globals'
  BY <1>1, SameGlobals DEF RequestInv, TypeInv
<1> QED BY <1>1, <1>2, RebuildFits DEF Rebuilders, Gathering, Whole

\* The task is idle when no rebuild is on (SwitchInv), and then it is handed one.
LEMMA StartFits ==
  ASSUME RequestInv, NEW p \in Procs, StartReindex(p)
  PROVE  /\ RequestInv' /\ p # Task
         /\ \/ dense.running /\ dense' = dense /\ Ends(p)
            \/ /\ ~dense.running /\ dense' = [dense EXCEPT !.running = TRUE]
               /\ pc'[p] = "idle" /\ loc'[p] = Blank
               /\ pc'[Task] = "stale" /\ loc'[Task].kind = "rebuild" /\ loc'[Task].id = 0 /\ loc'[Task].notes = {}
               /\ \A q \in Procs \ {p, Task} : pc'[q] = pc[q] /\ loc'[q] = loc[q]
<1>1. /\ pc[p] = "ready" /\ loc[p].kind = "reindex"
      /\ UNCHANGED <<vault, lazy, index, gate, raced, calls>>
  BY DEF StartReindex, Only, bounds
<1>2. p # Task /\ Task \in Procs
  BY <1>1, RequestIs DEF Fits, Procs
<1>3. CASE dense.running
  <2>1. Return(p) /\ dense' = dense
    BY <1>3 DEF StartReindex
  <2>2. Globals'
    BY <1>1, <2>1, SameGlobals DEF RequestInv, TypeInv
  <2> QED BY <1>2, <1>3, <2>1, <2>2, ReturnFits
<1>4. CASE ~dense.running
  <2> DEFINE l == [Blank EXCEPT !.kind = "rebuild"]
  <2>1. /\ dense' = [dense EXCEPT !.running = TRUE]
        /\ pc' = [pc EXCEPT ![p] = "idle", ![Task] = "stale"]
        /\ loc' = [loc EXCEPT ![p] = Blank, ![Task] = l]
        /\ answer' = Blank
    BY <1>4 DEF StartReindex
  <2>2. /\ l \in Requests /\ l.kind = "rebuild" /\ l.id = 0 /\ l.notes = {}
    BY NothingRead DEF Requests, Blank, Kinds
  <2> HIDE DEF l
  <2>3. /\ dense' \in [open : BOOLEAN, of : Indexes, stale : BOOLEAN, running : BOOLEAN]
        /\ dense'.open = dense.open
    BY <2>1 DEF RequestInv, TypeInv, Globals, TypeOK
  <2>4. Globals'
    BY <1>1, <2>3, DenseChanges DEF RequestInv, TypeInv
  <2>5. /\ pc'[p] = "idle" /\ loc'[p] = Blank /\ pc'[Task] = "stale" /\ loc'[Task] = l
        /\ \A q \in Procs \ {p, Task} : pc'[q] = pc[q] /\ loc'[q] = loc[q]
    BY <1>2, <2>1 DEF RequestInv, TypeInv
  <2>6. pc' \in [Procs -> Sections] /\ loc' \in [Procs -> Requests]
    BY <1>2, <2>1, <2>2, NothingRead DEF RequestInv, TypeInv, Sections
  <2>7. TypeInv'
    BY <2>1, <2>4, <2>6, NothingRead DEF TypeInv
  <2>8. Fits(Task, "stale", l, dense'.open)
    <3>1. "stale" \in Rebuilders
      BY DEF Rebuilders
    <3>2. l.kind \in KindOf("stale")
      BY <2>2, <3>1, KindsOf
    <3> QED BY <2>2, <3>2 DEF Fits, Whole, Asks
  <2>9. \A q \in Procs : Fits(q, pc'[q], loc'[q], dense'.open)
    BY <2>3, <2>5, <2>8, BlankFits DEF RequestInv
  <2> QED BY <1>2, <1>4, <2>1, <2>2, <2>5, <2>7, <2>9 DEF RequestInv
<1> QED BY <1>3, <1>4

LEMMA FinishFits ==
  ASSUME RequestInv, NEW p \in Procs, Finish(p), dense.open
  PROVE  /\ RequestInv'
         /\ dense' = [dense EXCEPT !.running = FALSE]
         /\ Ends(p) \/ Goes(p, "ready", loc[p].kind)
<1>1. /\ pc[p] = "finish" /\ dense' = [dense EXCEPT !.running = FALSE]
      /\ UNCHANGED <<vault, lazy, index, gate, raced, calls>>
  BY DEF Finish, Only, bounds
<1>2. /\ dense' \in [open : BOOLEAN, of : Indexes, stale : BOOLEAN, running : BOOLEAN]
      /\ dense'.open
  BY <1>1 DEF RequestInv, TypeInv, Globals, TypeOK
<1>3. Globals'
  BY <1>1, <1>2, DenseChanges DEF RequestInv, TypeInv
<1>4. CASE p = Task
  <2>1. Return(p)
    BY <1>4 DEF Finish
  <2> QED BY <1>1, <1>2, <1>3, <2>1, ReturnFits
<1>5. CASE p # Task
  <2> DEFINE l == [loc[p] EXCEPT !.of = None]
  <2>1. Go(p, "ready", l)
    BY <1>5 DEF Finish
  <2>2. loc[p] \in Requests /\ loc[p].kind = "refresh"
    BY <1>1, <1>5, RequestIs, KindIn DEF Rebuilders, Fits
  <2>3. /\ l \in Requests /\ l.kind = loc[p].kind /\ l.since = loc[p].since
        /\ l.id = loc[p].id /\ l.notes = loc[p].notes
    BY <2>2, NothingRead DEF Requests
  <2> HIDE DEF l
  <2>4. l.kind \in KindOf("ready") /\ Whole("ready", l) /\ "finish" \notin Telling
    BY <2>2, <2>3, KindsOf DEF Whole, Telling
  <2> QED BY <1>1, <1>2, <1>3, <2>1, <2>3, <2>4, Serving, ServeFits
<1> QED BY <1>4, <1>5

LEMMA DropFits ==
  ASSUME RequestInv, NEW c \in Clients, Drop(c)
  PROVE  RequestInv' /\ Ends(c)
<1>1. /\ c \in Procs /\ Return(c) /\ UNCHANGED <<vault, lazy, dense, index, calls>>
      /\ gate' \in {gate, Nobody} /\ raced' \subseteq raced \cup {"untold", "stuck"}
  BY DEF Drop, Procs
<1>2. Globals'
  BY <1>1, GlobalsStay DEF RequestInv, TypeInv, Globals, TypeOK, lazy, Races
<1> QED BY <1>1, <1>2, ReturnFits

LEMMA CrashFits == ASSUME RequestInv, Crash PROVE RequestInv'
<1>1. /\ pc' = [p \in Procs |-> "idle"] /\ loc' = [p \in Procs |-> Blank] /\ answer' = Blank
      /\ known' = disk /\ search' = NoEngine /\ similar' = NoEngine /\ dense' = Closed
      /\ gate' = Nobody /\ raced' \subseteq raced \cup {"untold"}
      /\ UNCHANGED <<disk, index, calls>>
  BY DEF Crash
<1>2. Closed \in [open : BOOLEAN, of : Indexes, stale : BOOLEAN, running : BOOLEAN]
  BY NothingRead DEF Closed
<1>3. NoEngine \in [id : 0 .. MaxCalls, of : Indexes]
  BY NothingRead, ViewsAssumption DEF NoEngine
<1>4. Globals'
  BY <1>1, <1>2, <1>3, NoEngineIsEngine DEF RequestInv, TypeInv, Globals, TypeOK, index, Versions
<1>5. TypeInv'
  BY <1>1, <1>4, NothingRead DEF TypeInv, Sections
<1>6. \A q \in Procs : Fits(q, pc'[q], loc'[q], dense'.open)
  BY <1>1, BlankFits
<1> QED BY <1>5, <1>6 DEF RequestInv

LEMMA InitFits == Init => RequestInv
<1> SUFFICES ASSUME Init PROVE RequestInv
  OBVIOUS
<1>1. /\ pc = [p \in Procs |-> "idle"] /\ loc = [p \in Procs |-> Blank] /\ answer = Blank
      /\ disk = [n \in Notes |-> 1] /\ known = disk /\ search = NoEngine /\ similar = NoEngine /\ dense = Closed
      /\ gate = Nobody /\ raced = {} /\ stored \in {None, disk} /\ marker = FALSE /\ calls = 0
  BY DEF Init
<1>2. Closed \in [open : BOOLEAN, of : Indexes, stale : BOOLEAN, running : BOOLEAN]
  BY NothingRead DEF Closed
<1>3. NoEngine \in [id : 0 .. MaxCalls, of : Indexes]
  BY NothingRead, ViewsAssumption DEF NoEngine
<1>4. Globals
  <2>1. disk \in Versions /\ known \in Versions /\ \A n \in Notes : known[n] <= disk[n]
    BY <1>1 DEF Versions
  <2>2. stored \in Indexes
    BY <1>1, <2>1 DEF Indexes
  <2>3. TypeOK
    BY <1>1, <1>2, <1>3, <2>1, <2>2 DEF TypeOK
  <2>4. calls \in 0 .. MaxCalls
    BY <1>1, ViewsAssumption
  <2> QED BY <1>1, <2>3, <2>4, NoEngineIsEngine DEF Globals
<1>5. TypeInv
  BY <1>1, <1>4, NothingRead DEF TypeInv, Sections
<1>6. \A q \in Procs : Fits(q, pc[q], loc[q], dense.open)
  BY <1>1, BlankFits
<1> QED BY <1>5, <1>6 DEF RequestInv

-----------------------------------------------------------------------------
(* The switch of the rebuilds.                                             *)

\* A section of a rebuild is that of a busy one.
LEMMA RebuildersAreBusy ==
  ASSUME RequestInv, NEW p \in Procs, pc[p] \in Rebuilders
  PROVE  Busy(p)
<1>1. loc[p].kind \in {"refresh", "rebuild"}
  BY RequestIs, KindIn
<1>2. pc[p] # "ready"
  BY DEF Rebuilders, Gathering
<1> QED BY <1>1, <1>2 DEF Busy, Rebuilds

\* A step that has nothing to do with the switch.
LEMMA SwitchStays ==
  ASSUME RequestInv, SwitchInv, NEW p \in Procs, Others(p), Busy(p)' <=> Busy(p),
         dense'.running = dense.running, dense.open => dense'.open /\ dense'.of = dense.of,
         raced \subseteq raced', stored' = stored, pc'[p] \notin {"unmark", "clear"}
  PROVE  SwitchInv'
<1>1. \A q \in Procs : Busy(q)' <=> Busy(q)
  <2> SUFFICES ASSUME NEW q \in Procs, q # p PROVE Busy(q)' <=> Busy(q)
    OBVIOUS
  <2> QED BY DEF Others, Busy, Rebuilds
<1>2. \A q \in Procs : pc[q] = "clear" => dense.open
  BY RebuildersAreBusy DEF SwitchInv, Rebuilders, Gathering
<1>3. \A q \in Procs : pc'[q] = "unmark" => stored' = loc'[q].of
  BY DEF SwitchInv, Others
<1>4. \A q \in Procs : pc'[q] = "clear" => dense'.of = loc'[q].of
  BY <1>2 DEF SwitchInv, Others
<1>5. dense'.running => dense'.open
  BY DEF SwitchInv
<1>6. dense'.running => (\E q \in Procs : Busy(q)') \/ "stuck" \in raced'
  BY <1>1 DEF SwitchInv
<1> QED BY <1>1, <1>3, <1>4, <1>5, <1>6 DEF SwitchInv

\* The step of a request that stays what it is, in other sections.
LEMMA GoesStays ==
  ASSUME RequestInv, SwitchInv, NEW p \in Procs, NEW to, Goes(p, to, loc[p].kind), pc[p] # "ready", to # "ready",
         dense'.running = dense.running, dense.open => dense'.open /\ dense'.of = dense.of,
         raced \subseteq raced', stored' = stored, to \notin {"unmark", "clear"}
  PROVE  SwitchInv'
<1>1. Busy(p)' <=> Busy(p)
  BY DEF Goes, Busy, Rebuilds
<1> QED BY <1>1, SwitchStays DEF Goes

\* The step that ends a request which is no rebuild.
LEMMA EndsStays ==
  ASSUME RequestInv, SwitchInv, NEW p \in Procs, Ends(p), ~Busy(p),
         dense'.running = dense.running, dense.open => dense'.open /\ dense'.of = dense.of,
         raced \subseteq raced', stored' = stored
  PROVE  SwitchInv'
<1>1. loc'[p].kind = ""
  BY BlankIs DEF Ends
<1>2. ~Busy(p)'
  BY <1>1 DEF Busy, Rebuilds
<1> QED BY <1>2, SwitchStays DEF Ends

LEMMA PassesStays ==
  ASSUME RequestInv, SwitchInv, NEW p \in Procs, Passes(p), pc[p] # "ready", UNCHANGED <<dense, stored>>,
         raced \subseteq raced'
  PROVE  SwitchInv'
<1>1. Busy(p)' <=> Busy(p)
  BY DEF Passes, Busy, Rebuilds
<1> QED BY <1>1, SwitchStays DEF Passes

LEMMA LeavesStays ==
  ASSUME RequestInv, SwitchInv, NEW p \in Procs, Leaves(p), pc[p] \in Telling, UNCHANGED <<dense, stored>>,
         raced \subseteq raced', Ends(p) => ~Rebuilds(p)
  PROVE  SwitchInv'
<1>1. pc[p] # "ready"
  BY DEF Telling
<1> QED BY <1>1, GoesStays, EndsStays, PassesStays DEF Leaves, Busy

LEMMA TellSwitch ==
  ASSUME RequestInv, SwitchInv, NEW p \in Procs, Find(p) \/ Apply(p) \/ Forget(p) \/ Evict(p)
  PROVE  SwitchInv'
<1>1. /\ UNCHANGED <<dense, stored>> /\ raced \subseteq raced'
      /\ pc[p] # "ready"
  BY DEF Find, Apply, Forget, Evict, Only, index
<1>2. \E to \in {"forget", "apply", "commit", "flag"} : Goes(p, to, loc[p].kind)
  BY FindFits, ApplyFits, ForgetFits, EvictFits
<1> QED BY <1>1, <1>2, GoesStays

LEMMA CommitSwitch ==
  ASSUME RequestInv, SwitchInv, NEW p \in Procs, Commit(p), loc[p].told > 0
  PROVE  SwitchInv'
<1>1. UNCHANGED <<dense, stored, raced>> /\ pc[p] # "ready"
  BY DEF Commit, Only, index
<1> QED BY <1>1, CommitFits, GoesStays

\* Only a write ends when it is told.
LEMMA ToldEnds == ASSUME NEW p, Told(p), Ends(p), RequestInv, p \in Procs PROVE ~Rebuilds(p)
<1> SUFFICES ASSUME Rebuilds(p) PROVE FALSE
  OBVIOUS
<1>1. loc[p].kind # "write" /\ loc[p].kind # ""
  BY DEF Rebuilds
<1>2. PastGate(p)
  BY <1>1 DEF Told
<1>3. pc'[p] = "scan"
  BY <1>2 DEF PastGate, Go, RequestInv, TypeInv
<1> QED BY <1>3 DEF Ends

LEMMA MarkSwitch ==
  ASSUME RequestInv, SwitchInv, NEW p \in Procs, Mark(p) \/ MarkFile(p)
  PROVE  SwitchInv'
<1>1. CASE MarkFile(p)
  <2>1. UNCHANGED <<dense, stored, raced>> /\ Told(p) /\ pc[p] \in Telling
    BY <1>1 DEF MarkFile, Only, Telling
  <2> QED BY <1>1, <2>1, MarkFileFits, ToldEnds, LeavesStays
<1>2. CASE Mark(p) /\ dense.open
  <2>1. stored' = stored /\ raced \subseteq raced' /\ pc[p] # "ready"
    BY <1>2 DEF Mark, Only, index
  <2>2. dense' = [dense EXCEPT !.stale = TRUE] /\ Goes(p, "file", loc[p].kind)
    BY <1>2, MarkFits
  <2>3. dense'.running = dense.running /\ dense'.open = dense.open /\ dense'.of = dense.of
    BY <2>2 DEF RequestInv, TypeInv, Globals, TypeOK
  <2> QED BY <2>1, <2>2, <2>3, GoesStays
<1>3. CASE Mark(p) /\ ~dense.open
  <2>1. UNCHANGED <<dense, stored>> /\ raced \subseteq raced' /\ Told(p) /\ pc[p] \in Telling
    BY <1>3 DEF Mark, Only, index, Telling
  <2> QED BY <1>3, <2>1, MarkFits, ToldEnds, LeavesStays
<1> QED BY <1>1, <1>2, <1>3

LEMMA GateSwitch ==
  ASSUME RequestInv, SwitchInv, NEW p \in Procs, SkipSweep(p) \/ Sweep(p)
  PROVE  SwitchInv'
<1>1. UNCHANGED <<dense, stored, raced>> /\ pc[p] # "ready"
  BY DEF SkipSweep, Sweep, Only, index
<1>2. CASE Passes(p)
  BY <1>1, <1>2, PassesStays
<1>3. CASE pc'[p] = "find" /\ loc'[p].kind = loc[p].kind /\ Others(p)
  <2>1. Busy(p)' <=> Busy(p)
    BY <1>1, <1>3 DEF Busy, Rebuilds
  <2> QED BY <1>1, <1>3, <2>1, SwitchStays
<1> QED BY <1>2, <1>3, SkipSweepFits, SweepFits

LEMMA ServeSwitch ==
  ASSUME RequestInv, SwitchInv, NEW p \in Procs,
         Look(p) \/ Build(p) \/ Load(p) \/ PublishDense(p) \/ Scan(p)
  PROVE  SwitchInv'
<1>1. stored' = stored /\ raced' = raced /\ pc[p] # "ready"
  BY DEF Look, Build, Read, Load, PublishDense, Scan, Only, index
<1>2. CASE Look(p)
  <2>1. dense' = dense /\ ~Rebuilds(p)
    BY <1>2, RequestIs, KindIn DEF Look, Only, Rebuilds
  <2>2. CASE Ends(p)
    BY <1>1, <2>1, <2>2, EndsStays DEF Busy
  <2>3. CASE \E to \in {"read", "ready", "load"} : Goes(p, to, loc[p].kind)
    <3>1. Busy(p)' <=> Busy(p)
      BY <2>1, <2>3 DEF Goes, Busy, Rebuilds
    <3> QED BY <1>1, <2>1, <2>3, <3>1, SwitchStays DEF Goes
  <2> QED BY <1>2, <2>2, <2>3, LookFits
<1>3. CASE Build(p) \/ Scan(p)
  <2>1. dense' = dense
    BY <1>3 DEF Build, Scan, Read
  <2>2. \E s \in {"read", "publish", "scan", "store"} : Goes(p, s, loc[p].kind)
    BY <1>3, ReadFits DEF Build, Scan
  <2> QED BY <1>1, <2>1, <2>2, GoesStays
<1>4. CASE Load(p)
  <2>1. dense' = dense
    BY <1>4 DEF Load
  <2> QED BY <1>1, <1>4, <2>1, LoadFits, GoesStays
<1>5. CASE PublishDense(p)
  <2>1. ~Rebuilds(p) /\ Goes(p, "ready", loc[p].kind)
    BY <1>5, PublishDenseFits DEF PublishDense, Rebuilds
  <2>2. dense'.running = dense.running /\ (dense.open => dense' = dense)
    <3>1. CASE dense.open
      BY <1>5, <3>1, PublishDenseFits
    <3>2. CASE ~dense.open
      <4>1. dense.running = FALSE
        BY <3>2 DEF SwitchInv, RequestInv, TypeInv, Globals, TypeOK
      <4>2. dense'.running = FALSE
        BY <1>5, <3>2, PublishDenseFits
      <4> QED BY <3>2, <4>1, <4>2
    <3> QED BY <3>1, <3>2
  <2>3. Busy(p)' <=> Busy(p)
    BY <2>1 DEF Goes, Busy, Rebuilds
  <2> QED BY <1>1, <2>1, <2>2, <2>3, SwitchStays DEF Goes
<1> QED BY <1>2, <1>3, <1>4, <1>5

LEMMA AnswerSwitch ==
  ASSUME RequestInv, SwitchInv, NEW p \in Procs,
         ReadFlag(p) \/ Rank(p) \/ ((PublishSearch(p) \/ PublishSimilar(p)) /\ loc[p].id > 0)
  PROVE  SwitchInv'
<1>1. UNCHANGED <<dense, stored, raced>> /\ ~Busy(p)
  BY RequestIs, KindIn DEF ReadFlag, Rank, PublishSearch, PublishSimilar, Only, index, Busy, Rebuilds
<1>2. CASE ReadFlag(p)
  <2>1. Goes(p, "rank", "dense")
    BY <1>2, ReadFlagFits
  <2>2. ~Busy(p)'
    BY <2>1 DEF Goes, Busy, Rebuilds
  <2> QED BY <1>1, <2>1, <2>2, SwitchStays DEF Goes
<1>3. CASE Ends(p)
  BY <1>1, <1>3, EndsStays
<1> QED BY <1>2, <1>3, RankFits, PublishSearchFits, PublishSimilarFits

\* A rebuild begins: the switch was off.
LEMMA BeginSwitch ==
  ASSUME RequestInv, SwitchInv, NEW p \in Procs, StartReindex(p) \/ Refresh(p)
  PROVE  SwitchInv'
<1>1. stored' = stored /\ raced' = raced /\ pc[p] = "ready" /\ dense.open
  <2>1. pc[p] = "ready"
    BY DEF StartReindex, Refresh, Only
  <2> QED BY <2>1, RequestIs DEF StartReindex, Refresh, index, Fits
<1>2. CASE dense.running /\ StartReindex(p)
  <2>1. dense' = dense /\ Ends(p)
    BY <1>2, StartFits
  <2>2. ~Busy(p)
    BY <1>1 DEF Busy
  <2> QED BY <1>1, <2>1, <2>2, EndsStays
<1>3. CASE ~dense.running
  <2>1. \A q \in Procs : ~Busy(q) /\ pc[q] \notin {"unmark", "clear"}
    BY <1>3, RebuildersAreBusy DEF SwitchInv, Rebuilders, Gathering
  <2>2. /\ dense' = [dense EXCEPT !.running = TRUE]
        /\ \E b \in Procs : /\ pc'[b] = "stale" /\ loc'[b].kind \in {"rebuild", "refresh"}
                            /\ \A q \in Procs \ {b} : ~Busy(q)' /\ pc'[q] \notin {"unmark", "clear"}
    <3>1. CASE Refresh(p)
      BY <2>1, <3>1, RefreshFits DEF Goes, Others, Busy, Rebuilds
    <3>2. CASE StartReindex(p)
      <4>1. /\ dense' = [dense EXCEPT !.running = TRUE] /\ p # Task
            /\ pc'[p] = "idle" /\ loc'[p] = Blank /\ pc'[Task] = "stale" /\ loc'[Task].kind = "rebuild"
            /\ \A q \in Procs \ {p, Task} : pc'[q] = pc[q] /\ loc'[q] = loc[q]
        BY <1>3, <3>2, StartFits
      <4>2. loc'[p].kind = ""
        BY <4>1, BlankIs
      <4>3. \A q \in Procs \ {Task} : ~Busy(q)' /\ pc'[q] \notin {"unmark", "clear"}
        BY <2>1, <4>1, <4>2 DEF Busy, Rebuilds
      <4> QED BY <4>1, <4>3 DEF Procs
    <3> QED BY <3>1, <3>2
  <2>3. dense'.running = TRUE /\ dense'.open = dense.open
    BY <2>2 DEF RequestInv, TypeInv, Globals, TypeOK
  <2>4. PICK b \in Procs : /\ pc'[b] = "stale" /\ loc'[b].kind \in {"rebuild", "refresh"}
                           /\ \A q \in Procs \ {b} : ~Busy(q)' /\ pc'[q] \notin {"unmark", "clear"}
    BY <2>2
  <2>5. Busy(b)'
    BY <2>4 DEF Busy, Rebuilds
  <2> QED BY <1>1, <2>3, <2>4, <2>5 DEF SwitchInv
<1>4. CASE Refresh(p)
  BY <1>3, <1>4 DEF Refresh
<1> QED BY <1>2, <1>3, <1>4

\* A rebuild goes on.
LEMMA RebuildSwitch ==
  ASSUME RequestInv, SwitchInv, NEW p \in Procs,
         Stale(p) \/ StaleFile(p) \/ Unmark(p) \/ Clear(p) \/ EmbedFails(p)
  PROVE  SwitchInv'
<1>1. /\ stored' = stored /\ raced' = raced /\ pc[p] # "ready"
      /\ Goes(p, "stalefile", loc[p].kind) \/ Goes(p, "gate", loc[p].kind)
         \/ Goes(p, "swap", loc[p].kind) \/ Goes(p, "finish", loc[p].kind)
  BY StaleFits, StaleFileFits, UnmarkFits, ClearFits, EmbedFailsFits
     DEF Stale, StaleFile, Unmark, Clear, EmbedFails, Only, index
<1>2. dense'.running = dense.running /\ dense'.open = dense.open /\ dense'.of = dense.of
  BY StaleFits, ClearFits DEF StaleFile, Unmark, EmbedFails, RequestInv, TypeInv, Globals, TypeOK
<1> QED BY <1>1, <1>2, GoesStays

LEMMA StoreSwitch ==
  ASSUME RequestInv, SwitchInv, NEW p \in Procs, Store(p) \/ Swap(p)
  PROVE  SwitchInv'
<1>1. pc[p] \in Gathering /\ pc[p] \in Rebuilders /\ raced' = raced /\ pc[p] # "ready"
  BY DEF Store, Swap, Only, Gathering, Rebuilders
<1>2. /\ Others(p) /\ loc'[p] = loc[p]
      /\ Store(p) => pc'[p] = "unmark" /\ stored' = loc[p].of /\ dense' = dense
      /\ Swap(p) => pc'[p] = "clear" /\ stored' = stored /\ dense' = [dense EXCEPT !.of = loc[p].of]
  BY StoreFits, SwapFits DEF Goes, Store, Swap, index
<1>3. /\ dense'.running = dense.running /\ dense'.open = dense.open
      /\ Swap(p) => dense'.of = loc[p].of
  BY <1>2 DEF RequestInv, TypeInv, Globals, TypeOK
<1>4. Busy(p) /\ \A q \in Procs \ {p} : ~Busy(q) /\ pc[q] \notin {"unmark", "clear"}
  BY <1>1, RebuildersAreBusy DEF SwitchInv, Rebuilders, Gathering
<1>5. Busy(p)' /\ \A q \in Procs \ {p} : ~Busy(q)' /\ pc'[q] \notin {"unmark", "clear"}
  BY <1>2, <1>4 DEF Busy, Rebuilds, Others
<1> QED BY <1>2, <1>3, <1>4, <1>5 DEF SwitchInv

LEMMA FinishSwitch ==
  ASSUME RequestInv, SwitchInv, NEW p \in Procs, Finish(p)
  PROVE  SwitchInv' /\ dense.open
<1>1. pc[p] = "finish" /\ stored' = stored /\ raced' = raced
  BY DEF Finish, Only, index
<1>2. Busy(p) /\ dense.open
  BY <1>1, RebuildersAreBusy DEF SwitchInv, Rebuilders
<1>3. dense' = [dense EXCEPT !.running = FALSE] /\ (Ends(p) \/ Goes(p, "ready", loc[p].kind))
  BY <1>2, FinishFits
<1>4. dense'.running = FALSE
  BY <1>3 DEF RequestInv, TypeInv, Globals, TypeOK
<1>5. \A q \in Procs \ {p} : ~Busy(q) /\ pc[q] \notin {"unmark", "clear"}
  BY <1>2, RebuildersAreBusy DEF SwitchInv, Rebuilders, Gathering
<1>6. \A q \in Procs \ {p} : ~Busy(q)' /\ pc'[q] \notin {"unmark", "clear"}
  BY <1>3, <1>5 DEF Ends, Goes, Others, Busy, Rebuilds
<1>7. ~Busy(p)' /\ pc'[p] \notin {"unmark", "clear"}
  <2>1. CASE Ends(p)
    <3>1. loc'[p].kind = ""
      BY <2>1, BlankIs DEF Ends
    <3> QED BY <2>1, <3>1 DEF Ends, Busy, Rebuilds
  <2>2. CASE Goes(p, "ready", loc[p].kind)
    BY <2>2 DEF Goes, Busy
  <2> QED BY <1>3, <2>1, <2>2
<1> QED BY <1>2, <1>4, <1>6, <1>7 DEF SwitchInv

\* A dropped rebuild leaves the switch on: it is the one there was.
LEMMA DropSwitch ==
  ASSUME RequestInv, SwitchInv, NEW c \in Clients, Drop(c)
  PROVE  SwitchInv'
<1>1. /\ c \in Procs /\ Ends(c) /\ UNCHANGED <<dense, stored>> /\ raced \subseteq raced'
      /\ Rebuilds(c) => "stuck" \in raced'
  BY DropFits DEF Drop, Procs, index
<1>2. loc'[c].kind = ""
  BY <1>1, BlankIs DEF Ends
<1>3. CASE Busy(c)
  <2>1. "stuck" \in raced'
    BY <1>1, <1>3 DEF Busy
  <2>2. \A q \in Procs : Busy(q)' => Busy(q)
    BY <1>1, <1>2 DEF Ends, Others, Busy, Rebuilds
  <2>3. \A q \in Procs : pc'[q] \in {"unmark", "clear"} => pc[q] = pc'[q] /\ loc[q] = loc'[q]
    BY <1>1 DEF Ends, Others
  <2> QED BY <1>1, <2>1, <2>2, <2>3 DEF SwitchInv
<1>4. CASE ~Busy(c)
  BY <1>1, <1>4, EndsStays
<1> QED BY <1>3, <1>4

LEMMA CallSwitch ==
  ASSUME RequestInv, SwitchInv, NEW c \in Clients,
         (\E kind \in {"search", "similar", "dense", "reindex"} : Call(c, kind)) \/ \E n \in Notes : Write(c, n)
  PROVE  SwitchInv'
<1>1. /\ c \in Procs /\ UNCHANGED <<dense, stored, raced>> /\ pc[c] = "idle"
      /\ Others(c) /\ pc'[c] \in {"gate", "find"} /\ loc'[c].kind \in {"search", "similar", "dense", "reindex", "write"}
  BY CallFits, WriteFits DEF Call, Write, Procs, index
<1>2. ~Busy(c)
  BY <1>1, RequestIs, KindIn DEF Busy, Rebuilds
<1>3. ~Busy(c)'
  BY <1>1 DEF Busy, Rebuilds
<1> QED BY <1>1, <1>2, <1>3, SwitchStays

LEMMA CrashSwitch == ASSUME RequestInv, SwitchInv, Crash PROVE SwitchInv'
<1>1. /\ pc' = [p \in Procs |-> "idle"] /\ loc' = [p \in Procs |-> Blank] /\ dense' = Closed
  BY DEF Crash
<1>2. \A q \in Procs : pc'[q] = "idle" /\ loc'[q].kind = ""
  BY <1>1 DEF Blank
<1>3. dense'.running = FALSE
  BY <1>1 DEF Closed
<1> QED BY <1>2, <1>3 DEF SwitchInv, Busy, Rebuilds

LEMMA InitSwitch == Init => SwitchInv
<1> SUFFICES ASSUME Init PROVE SwitchInv
  OBVIOUS
<1>1. \A q \in Procs : pc[q] = "idle" /\ loc[q].kind = ""
  BY DEF Init, Blank
<1>2. dense.running = FALSE
  BY DEF Init, Closed
<1> QED BY <1>1, <1>2 DEF SwitchInv, Busy, Rebuilds

-----------------------------------------------------------------------------
(* Engines are told apart.                                                 *)

\* The request of p is what it was, or has ended.
Abides(p) ==
  \/ /\ loc'[p].id = loc[p].id /\ loc'[p].since = loc[p].since
     /\ loc'[p].kind = loc[p].kind \/ {loc'[p].kind, loc[p].kind} \subseteq {"dense", "refresh"}
  \/ loc'[p].id = 0 /\ loc'[p].kind = ""

LEMMA GoesAbides ==
  ASSUME NEW p \in Procs, NEW to, NEW kind, Goes(p, to, kind),
         kind = loc[p].kind \/ {kind, loc[p].kind} \subseteq {"dense", "refresh"}
  PROVE  Others(p) /\ Abides(p)
BY DEF Goes, Abides

LEMMA EndsAbides == ASSUME NEW p \in Procs, Ends(p) PROVE Others(p) /\ Abides(p)
BY BlankIs DEF Ends, Abides

LEMMA PassesAbides == ASSUME NEW p \in Procs, Passes(p) PROVE Others(p) /\ Abides(p)
BY DEF Passes, Abides

LEMMA LeavesAbides == ASSUME NEW p \in Procs, Leaves(p) PROVE Others(p) /\ Abides(p)
BY GoesAbides, EndsAbides, PassesAbides DEF Leaves

\* The steps of one request, but for its call.
OwnStep(p) ==
  \/ Tell(p)
  \/ Serve(p) /\ ~StartReindex(p)
  \/ Rebuild(p)
  \/ EmbedFails(p)
  \/ p \in Clients /\ Drop(p)

LEMMA TellAbides ==
  ASSUME Control, NEW p \in Procs, Tell(p)
  PROVE  /\ RequestInv' /\ Others(p) /\ Abides(p)
         /\ pc'[p] \in {"apply", "commit"} => Find(p) \/ Apply(p)
<1>0. RequestInv
  BY DEF Control
<1>1. CASE SkipSweep(p) \/ Sweep(p)
  <2>1. CASE Passes(p)
    BY <1>0, <1>1, <2>1, SkipSweepFits, SweepFits, PassesAbides DEF Passes
  <2>2. CASE ~Passes(p)
    BY <1>0, <1>1, <2>2, SkipSweepFits, SweepFits DEF Abides
  <2> QED BY <2>1, <2>2
<1>2. CASE Find(p) \/ Apply(p)
  <2>1. RequestInv' /\ \E to \in {"forget", "apply", "commit"} : Goes(p, to, loc[p].kind)
    BY <1>0, <1>2, FindFits, ApplyFits
  <2> QED BY <1>2, <2>1, GoesAbides DEF Goes, Ends, Passes, Leaves
<1>3. CASE Commit(p)
  <2>1. loc[p].told > 0
    <3>1. pc[p] = "commit" /\ calls \in Nat
      BY <1>3, <1>0, ViewsAssumption DEF Commit, Only, RequestInv, TypeInv, Globals
    <3> QED BY <3>1 DEF Control, ToldInv
  <2>2. RequestInv' /\ Goes(p, "forget", loc[p].kind)
    BY <1>0, <1>3, <2>1, CommitFits
  <2> QED BY <2>2, GoesAbides DEF Goes, Ends, Passes, Leaves
<1>4. CASE Forget(p) \/ Evict(p)
  <2>1. RequestInv' /\ Goes(p, "flag", loc[p].kind)
    BY <1>0, <1>4, ForgetFits, EvictFits
  <2> QED BY <2>1, GoesAbides DEF Goes, Ends, Passes, Leaves
<1>5. CASE Mark(p) \/ MarkFile(p)
  <2>1. RequestInv' /\ (Goes(p, "file", loc[p].kind) \/ Leaves(p))
    BY <1>0, <1>5, MarkFits, MarkFileFits
  <2> QED BY <2>1, GoesAbides, LeavesAbides DEF Goes, Ends, Passes, Leaves
<1> QED BY <1>1, <1>2, <1>3, <1>4, <1>5 DEF Tell

LEMMA PublishersHaveIds ==
  ASSUME Control, NEW p \in Procs, PublishSearch(p) \/ PublishSimilar(p)
  PROVE  loc[p].id > 0
BY DEF Control, IdsInv, PublishSearch, PublishSimilar

LEMMA ServeAbides ==
  ASSUME Control, NEW p \in Procs, Serve(p), ~StartReindex(p)
  PROVE  RequestInv' /\ Others(p) /\ Abides(p) /\ pc'[p] \notin Telling
<1>0. RequestInv
  BY DEF Control
<1>1. CASE Look(p)
  <2>1. RequestInv' /\ (Ends(p) \/ \E to \in {"read", "ready", "load"} : Goes(p, to, loc[p].kind))
    BY <1>0, <1>1, LookFits
  <2> QED BY <2>1, EndsAbides, GoesAbides DEF Goes, Ends, Telling
<1>2. CASE Build(p)
  <2>1. RequestInv' /\ \E s \in {"read", "publish"} : Goes(p, s, loc[p].kind)
    BY <1>0, <1>2, ReadFits DEF Build
  <2> QED BY <2>1, GoesAbides DEF Goes, Ends, Telling
<1>3. CASE PublishSearch(p) \/ PublishSimilar(p) \/ Rank(p)
  <2>1. RequestInv' /\ Ends(p)
    BY <1>0, <1>3, PublishersHaveIds, PublishSearchFits, PublishSimilarFits, RankFits
  <2> QED BY <2>1, EndsAbides DEF Goes, Ends, Telling
<1>4. CASE Load(p) \/ PublishDense(p)
  <2>1. RequestInv' /\ \E to \in {"publish", "ready"} : Goes(p, to, loc[p].kind)
    BY <1>0, <1>4, LoadFits, PublishDenseFits
  <2> QED BY <2>1, GoesAbides DEF Goes, Ends, Telling
<1>5. CASE Refresh(p)
  <2>1. RequestInv' /\ Goes(p, "stale", "refresh") /\ loc[p].kind = "dense"
    BY <1>0, <1>5, RefreshFits DEF Refresh
  <2> QED BY <2>1, GoesAbides DEF Goes, Ends, Telling
<1>6. CASE ReadFlag(p)
  <2>1. RequestInv' /\ Goes(p, "rank", "dense") /\ loc[p].kind \in {"dense", "refresh"}
    BY <1>0, <1>6, ReadFlagFits
  <2> QED BY <2>1, GoesAbides DEF Goes, Ends, Telling
<1> QED BY <1>1, <1>2, <1>3, <1>4, <1>5, <1>6 DEF Serve

LEMMA RebuildAbides ==
  ASSUME Control, NEW p \in Procs, Rebuild(p) \/ EmbedFails(p)
  PROVE  RequestInv' /\ Others(p) /\ Abides(p) /\ pc'[p] \notin Telling
<1>0. RequestInv /\ SwitchInv
  BY DEF Control
<1>1. CASE Stale(p) \/ StaleFile(p) \/ Store(p)
  <2>1. RequestInv' /\ \E to \in {"stalefile", "gate", "unmark"} : Goes(p, to, loc[p].kind)
    BY <1>0, <1>1, StaleFits, StaleFileFits, StoreFits
  <2> QED BY <2>1, GoesAbides DEF Goes, Ends, Telling
<1>2. CASE Unmark(p) \/ Swap(p) \/ Clear(p) \/ EmbedFails(p)
  <2>1. RequestInv' /\ \E to \in {"swap", "clear", "finish"} : Goes(p, to, loc[p].kind)
    BY <1>0, <1>2, UnmarkFits, SwapFits, ClearFits, EmbedFailsFits
  <2> QED BY <2>1, GoesAbides DEF Goes, Ends, Telling
<1>3. CASE Scan(p)
  <2>1. RequestInv' /\ \E s \in {"scan", "store"} : Goes(p, s, loc[p].kind)
    BY <1>0, <1>3, ReadFits DEF Scan
  <2> QED BY <2>1, GoesAbides DEF Goes, Ends, Telling
<1>4. CASE Finish(p)
  <2>1. RequestInv' /\ (Ends(p) \/ Goes(p, "ready", loc[p].kind))
    BY <1>0, <1>4, FinishSwitch, FinishFits
  <2> QED BY <2>1, EndsAbides, GoesAbides DEF Goes, Ends, Telling
<1> QED BY <1>1, <1>2, <1>3, <1>4 DEF Rebuild

LEMMA OwnAbides ==
  ASSUME Control, NEW p \in Procs, OwnStep(p)
  PROVE  /\ RequestInv' /\ Others(p) /\ Abides(p) /\ calls' = calls
         /\ pc'[p] \in {"apply", "commit"} => Find(p) \/ Apply(p)
<1>1. calls' = calls
  <2>1. CASE Tell(p)
    BY <2>1 DEF Tell, SkipSweep, Sweep, Find, Apply, Commit, Forget, Mark, MarkFile, Evict, Only, bounds
  <2>2. CASE Serve(p) /\ ~StartReindex(p)
    BY <2>2 DEF Serve, Look, Build, Read, PublishSearch, PublishSimilar, Load, PublishDense, Refresh,
                ReadFlag, Rank, Only, bounds
  <2>3. CASE Rebuild(p)
    BY <2>3 DEF Rebuild, Stale, StaleFile, Scan, Read, Store, Unmark, Swap, Clear, Finish, Only, bounds
  <2>4. CASE EmbedFails(p) \/ Drop(p)
    BY <2>4 DEF EmbedFails, Drop
  <2> QED BY <2>1, <2>2, <2>3, <2>4 DEF OwnStep
<1>2. CASE Drop(p) /\ p \in Clients
  BY <1>1, <1>2, DropFits, EndsAbides DEF Control, Ends
<1> QED BY <1>1, <1>2, TellAbides, ServeAbides, RebuildAbides DEF OwnStep, Telling

LEMMA IdsStay ==
  ASSUME RequestInv, IdsInv, NEW p \in Procs, Others(p), Abides(p), calls' = calls,
         search'.id = search.id \/ search'.id = 0
  PROVE  IdsInv'
<1>1. calls \in Nat /\ \A q \in Procs : loc[q].id \in Nat
  BY ViewsAssumption DEF RequestInv, TypeInv, Globals, Requests
<1>2. \A q \in Procs : Abides(q)
  BY DEF Others, Abides
<1>3. \A q \in Procs : loc'[q].id = loc[q].id \/ loc'[q].id = 0
  BY <1>2 DEF Abides
<1>4. ASSUME NEW q \in Procs, loc'[q].kind \in {"search", "similar"} PROVE loc'[q].id > 0
  <2>1. loc'[q].id = loc[q].id /\ loc'[q].kind = loc[q].kind
    BY <1>2, <1>4 DEF Abides
  <2> QED BY <1>4, <2>1 DEF IdsInv
<1> QED BY <1>1, <1>3, <1>4 DEF IdsInv

LEMMA ToldStays ==
  ASSUME RequestInv, IdsInv, ToldInv, NEW p \in Procs, Others(p), calls' = calls,
         loc'[p].id = loc[p].id \/ loc'[p].id = 0, pc'[p] \notin {"apply", "commit"}
  PROVE  ToldInv'
<1>1. calls \in Nat /\ \A q \in Procs : pc[q] \in {"apply", "commit"} => loc[q].told > 0
  BY ViewsAssumption DEF RequestInv, TypeInv, Globals, ToldInv
<1>2. \A q \in Procs : pc'[q] \in {"apply", "commit"} => q # p /\ pc[q] = pc'[q] /\ loc'[q] = loc[q]
  BY DEF Others
<1>3. \A q \in Procs : loc'[q].id = loc[q].id \/ loc'[q].id = 0
  BY DEF Others
<1> QED BY <1>1, <1>2, <1>3 DEF ToldInv

LEMMA OwnIds ==
  ASSUME Control, NEW p \in Procs, OwnStep(p)
  PROVE  IdsInv'
<1>0. RequestInv /\ IdsInv
  BY DEF Control
<1>1. Others(p) /\ Abides(p) /\ calls' = calls
  BY OwnAbides
<1>2. CASE PublishSearch(p) /\ search = NoEngine
  <2>1. Ends(p) /\ search'.id = loc[p].id
    BY <1>0, <1>2, PublishersHaveIds, PublishSearchFits
  <2>2. loc'[p].id = 0 /\ \A q \in Procs \ {p} : loc'[q] = loc[q]
    BY <2>1, BlankIs DEF Ends, Others
  <2>3. loc[p].id > 0 /\ loc[p].id <= calls /\ calls \in Nat /\ \A q \in Procs : loc[q].id \in Nat
    BY <1>0, <1>2, PublishersHaveIds, ViewsAssumption DEF IdsInv, RequestInv, TypeInv, Globals, Requests
  <2>4. loc'[p].kind = ""
    BY <2>1, BlankIs DEF Ends
  <2>5. \A q \in Procs : loc'[q].id <= calls' /\ loc'[q].id # loc[p].id
    <3>1. loc'[p].id <= calls' /\ loc'[p].id # loc[p].id
      BY <1>1, <2>2, <2>3
    <3>2. ASSUME NEW q \in Procs, q # p PROVE loc'[q].id <= calls' /\ loc'[q].id # loc[p].id
      <4>1. loc[q].id # loc[p].id /\ loc[q].id <= calls
        BY <1>0, <2>3, <3>2 DEF IdsInv
      <4> QED BY <1>1, <2>2, <3>2, <4>1
    <3> QED BY <3>1, <3>2
  <2>6. \A q, r \in Procs : loc'[q].id = loc'[r].id /\ loc'[q].id > 0 => q = r
    BY <1>0, <2>2 DEF IdsInv
  <2>7. \A q \in Procs : loc'[q].kind \in {"search", "similar"} => loc'[q].id > 0
    BY <1>0, <2>2, <2>4 DEF IdsInv
  <2> QED BY <1>1, <2>1, <2>3, <2>5, <2>6, <2>7 DEF IdsInv
<1>3. CASE ~(PublishSearch(p) /\ search = NoEngine)
  <2>1. search'.id = search.id \/ search'.id = 0
    <3>1. CASE PublishSearch(p)
      BY <1>3, <3>1 DEF PublishSearch
    <3>2. CASE Commit(p)
      <4>1. loc[p].told > 0
        BY <3>2, ViewsAssumption DEF Commit, Only, Control, ToldInv, RequestInv, TypeInv, Globals
      <4> QED BY <1>0, <3>2, <4>1, CommitFits
    <3>3. CASE Apply(p)
      <4>1. search' \in {search, NoEngine}
        BY <3>3 DEF Apply
      <4> QED BY <4>1 DEF NoEngine
    <3>4. CASE Evict(p)
      BY <3>4 DEF Evict, NoEngine
    <3>5. CASE SkipSweep(p) \/ Sweep(p) \/ Find(p) \/ Forget(p) \/ Mark(p) \/ MarkFile(p)
      BY <3>5 DEF SkipSweep, Sweep, Find, Forget, Mark, MarkFile, lazy
    <3>6. CASE Serve(p) /\ ~StartReindex(p) /\ ~PublishSearch(p)
      BY <3>6 DEF Serve, Look, Build, Read, PublishSimilar, Load, PublishDense, Refresh, ReadFlag, Rank, lazy
    <3>7. CASE Rebuild(p) \/ EmbedFails(p) \/ Drop(p)
      BY <3>7 DEF Rebuild, Stale, StaleFile, Scan, Read, Store, Unmark, Swap, Clear, Finish, EmbedFails, Drop, lazy
    <3> QED BY <3>1, <3>2, <3>3, <3>4, <3>5, <3>6, <3>7 DEF OwnStep, Tell
  <2> QED BY <1>0, <1>1, <2>1, IdsStay
<1> QED BY <1>2, <1>3

LEMMA OwnTold ==
  ASSUME Control, NEW p \in Procs, OwnStep(p)
  PROVE  ToldInv'
<1>0. RequestInv /\ IdsInv /\ ToldInv
  BY DEF Control
<1>1. Others(p) /\ (loc'[p].id = loc[p].id \/ loc'[p].id = 0) /\ calls' = calls
  BY OwnAbides DEF Abides
<1>2. CASE pc'[p] = "apply"
  <2>0. Find(p)
    <3>1. CASE Apply(p)
      BY <1>0, <1>2, <3>1, ApplyFits DEF Goes
    <3> QED BY <1>2, <3>1, OwnAbides
  <2>1. search # NoEngine /\ loc'[p].told = search.id /\ loc'[p].id = loc[p].id
    BY <1>0, <1>2, <2>0, FindFits DEF Goes
  <2>2. search.id > 0 /\ search.id <= calls /\ \A q \in Procs : loc[q].id # search.id
    BY <1>0, <2>1 DEF IdsInv, RequestInv, TypeInv, Globals, Engines
  <2>3. search.id \in Nat
    BY <1>0 DEF RequestInv, TypeInv, Globals, TypeOK
  <2>4. loc'[p].told \in 1 .. calls' /\ \A q \in Procs : loc'[q].id # loc'[p].told
    BY <1>0, <1>1, <2>1, <2>2, <2>3, ViewsAssumption DEF Others, RequestInv, TypeInv, Globals
  <2>5. ASSUME NEW q \in Procs, q # p, pc'[q] \in {"apply", "commit"}
        PROVE  loc'[q].told \in 1 .. calls' /\ \A r \in Procs : loc'[r].id # loc'[q].told
    <3>1. pc[q] \in {"apply", "commit"} /\ loc'[q] = loc[q]
      BY <1>1, <2>5 DEF Others
    <3> QED BY <1>0, <1>1, <2>1, <3>1 DEF Others, ToldInv
  <2>6. \A q \in Procs : pc'[q] = "commit" => q # p /\ pc[q] = "commit" /\ loc'[q] = loc[q]
    BY <1>1, <1>2 DEF Others
  <2> QED BY <1>0, <2>4, <2>5, <2>6 DEF ToldInv
<1>3. CASE pc'[p] = "commit"
  <2>0. Apply(p)
    <3>1. CASE Find(p)
      BY <1>0, <1>3, <3>1, FindFits DEF Goes
    <3> QED BY <1>3, <3>1, OwnAbides
  <2>1. pc[p] = "apply" /\ loc'[p].told = loc[p].told /\ ~Contended(p) /\ loc'[p].id = loc[p].id
    BY <1>0, <1>3, <2>0, ApplyFits DEF Goes, Apply, Only
  <2>2. \A q \in Procs : pc[q] = "commit" => loc[q].told # loc[p].told
    BY <2>1 DEF Contended, In
  <2> QED BY <1>0, <1>1, <1>3, <2>1, <2>2 DEF ToldInv, Others
<1>4. CASE pc'[p] \notin {"apply", "commit"}
  BY <1>0, <1>1, <1>4, ToldStays
<1> QED BY <1>2, <1>3, <1>4

LEMMA OwnSwitch ==
  ASSUME Control, NEW p \in Procs, OwnStep(p)
  PROVE  SwitchInv'
<1>0. RequestInv /\ SwitchInv
  BY DEF Control
<1>1. CASE Tell(p)
  <2>1. Commit(p) => loc[p].told > 0
    BY ViewsAssumption DEF Commit, Only, Control, ToldInv, RequestInv, TypeInv, Globals
  <2> QED BY <1>0, <1>1, <2>1, TellSwitch, CommitSwitch, MarkSwitch, GateSwitch DEF Tell
<1>2. CASE Serve(p) /\ ~StartReindex(p)
  BY <1>0, <1>2, ServeSwitch, AnswerSwitch, BeginSwitch, PublishersHaveIds DEF Serve
<1>3. CASE Rebuild(p) \/ EmbedFails(p)
  BY <1>0, <1>3, ServeSwitch, RebuildSwitch, StoreSwitch, FinishSwitch DEF Rebuild
<1>4. CASE Drop(p) /\ p \in Clients
  BY <1>0, <1>4, DropSwitch
<1> QED BY <1>1, <1>2, <1>3, <1>4 DEF OwnStep

LEMMA StartControl ==
  ASSUME Control, NEW p \in Procs, StartReindex(p)
  PROVE  Control'
<1>0. RequestInv /\ SwitchInv /\ IdsInv /\ ToldInv
  BY DEF Control
<1>1. RequestInv' /\ SwitchInv' /\ p # Task
  BY <1>0, StartFits, BeginSwitch
<1>2. search' = search /\ calls' = calls
  BY DEF StartReindex, Only, lazy, bounds
<1>3. /\ \A q \in Procs : loc'[q].id = loc[q].id \/ loc'[q].id = 0
      /\ \A q \in Procs : loc'[q].kind \in {"search", "similar"} => loc'[q] = loc[q]
      /\ \A q \in Procs : pc'[q] \in {"apply", "commit"} => pc'[q] = pc[q] /\ loc'[q] = loc[q]
  <2>1. CASE Ends(p)
    BY <2>1, BlankIs DEF Ends, Others
  <2>2. CASE /\ pc'[p] = "idle" /\ loc'[p] = Blank
             /\ pc'[Task] = "stale" /\ loc'[Task].kind = "rebuild" /\ loc'[Task].id = 0
             /\ \A q \in Procs \ {p, Task} : pc'[q] = pc[q] /\ loc'[q] = loc[q]
    BY <2>2, BlankIs
  <2> QED BY <1>0, <2>1, <2>2, StartFits
<1>4. calls \in Nat /\ \A q \in Procs : loc[q].id \in Nat
  BY <1>0, ViewsAssumption DEF RequestInv, TypeInv, Globals, Requests
<1>5. IdsInv'
  BY <1>0, <1>2, <1>3, <1>4 DEF IdsInv
<1>6. \A q \in Procs : pc[q] \in {"apply", "commit"} => loc[q].told > 0
  BY <1>0, <1>4 DEF ToldInv
<1>7. ToldInv'
  BY <1>0, <1>2, <1>3, <1>4, <1>6 DEF ToldInv
<1> QED BY <1>1, <1>5, <1>7 DEF Control

\* A request comes in: its number is new.
LEMMA CallControl ==
  ASSUME Control, NEW c \in Clients,
         (\E kind \in {"search", "similar", "dense", "reindex"} : Call(c, kind)) \/ \E n \in Notes : Write(c, n)
  PROVE  Control'
<1>0. RequestInv /\ SwitchInv /\ IdsInv /\ ToldInv /\ c \in Procs
  BY DEF Control, Procs
<1>1. RequestInv' /\ SwitchInv'
  BY <1>0, CallFits, WriteFits, CallSwitch
<1>2. Others(c) /\ loc'[c].id = calls' /\ pc'[c] \in {"gate", "find"} /\ calls' = calls + 1 /\ search' = search
  BY <1>0, CallFits, WriteFits DEF Call, Write, lazy
<1>3. calls \in Nat /\ search.id \in Nat /\ \A q \in Procs : loc[q].id \in Nat
  BY <1>0, ViewsAssumption DEF RequestInv, TypeInv, Globals, TypeOK, Requests
<1>4. \A q \in Procs \ {c} : loc'[q] = loc[q] /\ loc[q].id < loc'[c].id
  BY <1>0, <1>2, <1>3 DEF IdsInv, Others
<1>5. IdsInv'
  <2>1. \A q \in Procs : loc'[q].id <= calls'
    BY <1>2, <1>3, <1>4
  <2>2. \A q, r \in Procs : loc'[q].id = loc'[r].id /\ loc'[q].id > 0 => q = r
    BY <1>0, <1>3, <1>4 DEF IdsInv
  <2>3. \A q \in Procs : loc'[q].kind \in {"search", "similar"} => loc'[q].id > 0
    BY <1>0, <1>2, <1>3, <1>4 DEF IdsInv
  <2>4. search'.id <= calls'
    BY <1>0, <1>2, <1>3 DEF IdsInv
  <2>5. \A q \in Procs : search'.id > 0 => loc'[q].id # search'.id
    BY <1>0, <1>2, <1>3, <1>4 DEF IdsInv
  <2> QED BY <2>1, <2>2, <2>3, <2>4, <2>5 DEF IdsInv
<1>6. \A q \in Procs : pc'[q] \in {"apply", "commit"} => q # c /\ pc'[q] = pc[q] /\ loc'[q] = loc[q]
  BY <1>2 DEF Others
<1>7. ToldInv'
  <2>1. ASSUME NEW q \in Procs, pc'[q] \in {"apply", "commit"}
        PROVE  loc'[q].told \in 1 .. calls' /\ \A r \in Procs : loc'[r].id # loc'[q].told
    <3>1. pc[q] \in {"apply", "commit"} /\ loc'[q] = loc[q]
      BY <1>6, <2>1
    <3>2. loc[q].told \in 1 .. calls /\ \A r \in Procs : loc[r].id # loc[q].told
      BY <1>0, <3>1 DEF ToldInv
    <3> QED BY <1>2, <1>3, <1>4, <3>1, <3>2
  <2> QED BY <1>0, <1>6, <2>1 DEF ToldInv
<1> QED BY <1>1, <1>5, <1>7 DEF Control

LEMMA CrashControl == ASSUME Control, Crash PROVE Control'
<1>0. RequestInv' /\ SwitchInv'
  BY CrashFits, CrashSwitch DEF Control
<1>1. calls' = calls
  BY DEF Crash
<1>2. 0 <= calls' /\ ~(0 > 0)
  BY <1>1, ViewsAssumption DEF Control, RequestInv, TypeInv, Globals
<1>3. /\ \A q \in Procs : loc'[q].id = 0 /\ loc'[q].kind = "" /\ pc'[q] = "idle"
      /\ search'.id = 0
  BY BlankIs DEF Crash, NoEngine
<1>4. IdsInv'
  <2>1. \A q \in Procs : loc'[q].id <= calls' /\ ~(loc'[q].id > 0)
    BY <1>2, <1>3, Zenon
  <2>2. search'.id <= calls' /\ ~(search'.id > 0)
    BY <1>2, <1>3, Zenon
  <2>3. \A q \in Procs : loc'[q].kind \notin {"search", "similar"}
    BY <1>3
  <2> QED BY <2>1, <2>2, <2>3 DEF IdsInv
<1>5. ToldInv'
  BY <1>3 DEF ToldInv
<1> QED BY <1>0, <1>4, <1>5 DEF Control

LEMMA InitControl == Init => Control
<1> SUFFICES ASSUME Init PROVE Control
  OBVIOUS
<1>1. RequestInv /\ SwitchInv
  BY InitFits, InitSwitch
<1>2. calls = 0
  BY DEF Init
<1>3. 0 <= calls /\ ~(0 > 0)
  BY <1>2
<1>4. /\ \A q \in Procs : loc[q].id = 0 /\ loc[q].kind = "" /\ pc[q] = "idle"
      /\ search.id = 0
  BY BlankIs DEF Init, NoEngine
<1>5. IdsInv
  <2>1. \A q \in Procs : loc[q].id <= calls /\ ~(loc[q].id > 0)
    BY <1>3, <1>4, Zenon
  <2>2. search.id <= calls /\ ~(search.id > 0)
    BY <1>3, <1>4, Zenon
  <2>3. \A q \in Procs : loc[q].kind \notin {"search", "similar"}
    BY <1>4
  <2> QED BY <2>1, <2>2, <2>3 DEF IdsInv
<1>6. ToldInv
  BY <1>4 DEF ToldInv
<1> QED BY <1>1, <1>5, <1>6 DEF Control

\* The actions of Next: a call, a save by somebody else, a step of a request, a crash.
LEMMA NextCases ==
  ASSUME Next
  PROVE  \/ \E c \in Clients : \/ \E kind \in {"search", "similar", "dense", "reindex"} : Call(c, kind)
                               \/ \E n \in Notes : Write(c, n)
         \/ \E n \in Notes : EditOutside(n)
         \/ \E p \in Procs : OwnStep(p) \/ StartReindex(p)
         \/ Crash
<1>1. ASSUME NEW c \in Clients, Search(c) \/ Similar(c) \/ Dense(c) \/ Reindex(c) \/ Drop(c) \/ \E n \in Notes : Write(c, n)
      PROVE  \/ \E kind \in {"search", "similar", "dense", "reindex"} : Call(c, kind)
             \/ \E n \in Notes : Write(c, n)
             \/ c \in Procs /\ OwnStep(c)
  BY <1>1 DEF Search, Similar, Dense, Reindex, OwnStep, Procs
<1>2. ASSUME NEW p \in Procs, Step(p) \/ EmbedFails(p) PROVE OwnStep(p) \/ StartReindex(p)
  BY <1>2 DEF Step, OwnStep
<1> QED BY <1>1, <1>2 DEF Next

LEMMA NextControl == Control /\ [Next]_vars => Control'
<1> SUFFICES ASSUME Control, [Next]_vars PROVE Control'
  OBVIOUS
<1>0. RequestInv
  BY DEF Control
<1>1. CASE UNCHANGED vars
  <2>1. UNCHANGED <<vault, lazy, dense, index, gate, pc, loc, answer, raced, calls>>
    BY <1>1 DEF vars, bounds
  <2>2. RequestInv'
    BY <2>1, <1>0, SameGlobals DEF RequestInv, TypeInv
  <2>3. SwitchInv' /\ IdsInv' /\ ToldInv'
    BY <2>1 DEF Control, SwitchInv, IdsInv, ToldInv, Busy, Rebuilds, lazy, index
  <2> QED BY <2>2, <2>3 DEF Control
<1>2. ASSUME NEW n \in Notes, EditOutside(n) PROVE Control'
  <2>1. RequestInv'
    BY <1>0, <1>2, EditFits
  <2>2. SwitchInv' /\ IdsInv' /\ ToldInv'
    BY <1>2 DEF EditOutside, Control, SwitchInv, IdsInv, ToldInv, Busy, Rebuilds, lazy, index
  <2> QED BY <2>1, <2>2 DEF Control
<1>3. ASSUME NEW p \in Procs, OwnStep(p) PROVE Control'
  BY <1>3, OwnAbides, OwnSwitch, OwnIds, OwnTold DEF Control
<1> QED BY <1>1, <1>2, <1>3, CallControl, StartControl, CrashControl, NextCases

-----------------------------------------------------------------------------
(* What a step does to what may be shown.                                  *)

Pending(n) == \E p \in Procs : n \in loc[p].notes

\* While no rebuild is on, the task of start_reindex does nothing.
LEMMA TaskIsIdle ==
  ASSUME Control, ~dense.running
  PROVE  pc[Task] = "idle" /\ loc[Task].notes = {}
<1>1. Task \in Procs /\ RequestInv /\ SwitchInv
  BY DEF Procs, Control
<1>2. ~Busy(Task) /\ loc[Task] \in Requests /\ pc[Task] \in Sections /\ loc[Task].kind \in KindOf(pc[Task])
  BY <1>1, RequestIs DEF SwitchInv
<1>3. loc[Task].kind \in {"", "rebuild"} /\ (loc[Task].kind = "" => loc[Task] = Blank)
  BY <1>1, RequestIs DEF Fits
<1>4. loc[Task].kind # "rebuild"
  <2> SUFFICES ASSUME loc[Task].kind = "rebuild" PROVE FALSE
    OBVIOUS
  <2>1. pc[Task] = "ready"
    BY <1>2 DEF Busy, Rebuilds
  <2> QED BY <1>2, <2>1, KindIn
<1> QED BY <1>2, <1>3, <1>4, KindIn, BlankIs

LEMMA CommittersTell == ASSUME Control, NEW p \in Procs, Commit(p) PROVE loc[p].told > 0
BY ViewsAssumption DEF Commit, Only, Control, ToldInv, RequestInv, TypeInv, Globals

LEMMA RacesStay == ASSUME Next PROVE raced \subseteq raced'
<1>1. ASSUME NEW p \in Procs, OwnStep(p) PROVE raced \subseteq raced'
  <2>1. CASE Tell(p)
    BY <2>1 DEF Tell, SkipSweep, Sweep, Find, Apply, Commit, Forget, Mark, MarkFile, Evict
  <2>2. CASE Serve(p) /\ ~StartReindex(p)
    BY <2>2 DEF Serve, Look, Build, Read, PublishSearch, PublishSimilar, Load, PublishDense, Refresh,
                ReadFlag, Rank
  <2>3. CASE Rebuild(p)
    BY <2>3 DEF Rebuild, Stale, StaleFile, Scan, Read, Store, Unmark, Swap, Clear, Finish
  <2>4. CASE EmbedFails(p) \/ Drop(p)
    BY <2>4 DEF EmbedFails, Drop
  <2> QED BY <1>1, <2>1, <2>2, <2>3, <2>4 DEF OwnStep
<1> QED BY <1>1, NextCases DEF Call, Write, EditOutside, StartReindex, Crash

\* What requests may expect: only a new one expects more, and no more than Settled.
LEMMA SinceStep ==
  ASSUME Control, Next, NEW r \in Procs, Asks(loc'[r])
  PROVE  (Asks(loc[r]) /\ loc'[r].since = loc[r].since) \/ loc'[r].since = Settled
<1>0. RequestInv
  BY DEF Control
<1>1. ASSUME NEW p \in Procs, OwnStep(p) PROVE Asks(loc[r]) /\ loc'[r].since = loc[r].since
  <2>1. Others(p) /\ Abides(p)
    BY <1>1, OwnAbides
  <2> QED BY <2>1 DEF Others, Abides, Asks
<1>2. ASSUME NEW c \in Clients, NEW kind \in {"search", "similar", "dense", "reindex"}, Call(c, kind)
      PROVE  (Asks(loc[r]) /\ loc'[r].since = loc[r].since) \/ loc'[r].since = Settled
  BY <1>0, <1>2, CallFits DEF Others
<1>3. ASSUME NEW c \in Clients, NEW n \in Notes, Write(c, n)
      PROVE  Asks(loc[r]) /\ loc'[r].since = loc[r].since
  BY <1>0, <1>3, WriteFits DEF Others, Asks
<1>4. ASSUME NEW p \in Procs, StartReindex(p)
      PROVE  Asks(loc[r]) /\ loc'[r].since = loc[r].since
  BY <1>0, <1>4, StartFits, BlankIs DEF Ends, Others, Asks
<1>5. ASSUME Crash PROVE FALSE
  BY <1>5, BlankIs DEF Crash, Asks
<1>6. ASSUME NEW n \in Notes, EditOutside(n) PROVE Asks(loc[r]) /\ loc'[r].since = loc[r].since
  BY <1>6 DEF EditOutside
<1> QED BY <1>1, <1>2, <1>3, <1>4, <1>5, <1>6, NextCases

\* What the manager knows: it learns of a note, and that is told.
LEMMA KnownStep ==
  ASSUME Control, Next, NEW n \in Notes
  PROVE  /\ known'[n] >= known[n]
         /\ known'[n] = known[n] \/ Waits(n, {"find"})' \/ "untold" \in raced'
<1>0. /\ RequestInv
      /\ disk \in Versions /\ known \in Versions /\ known[n] <= disk[n] /\ disk[n] \in Nat /\ known[n] \in Nat
  BY DEF Control, RequestInv, TypeInv, Globals, TypeOK, Versions
<1>1. ASSUME NEW p \in Procs, Sweep(p)
      PROVE  known'[n] >= known[n] /\ (known'[n] = known[n] \/ Waits(n, {"find"})')
  <2>1. known' = disk
    BY <1>1 DEF Sweep
  <2>2. CASE n \in Changed
    <3>1. pc'[p] = "find" /\ loc'[p].notes = Changed
      <4>1. known' # known
        BY <2>1, <2>2 DEF Changed
      <4> QED BY <1>0, <1>1, <4>1, SweepFits
    <3> QED BY <1>0, <2>1, <2>2, <3>1 DEF Waits
  <2>3. CASE n \notin Changed
    BY <1>0, <2>1, <2>3 DEF Changed
  <2> QED BY <2>2, <2>3
<1>2. ASSUME NEW p \in Procs, OwnStep(p), ~Sweep(p) PROVE known' = known
  <2>1. CASE Tell(p)
    BY <1>2, <2>1 DEF Tell, SkipSweep, Find, Apply, Commit, Forget, Mark, MarkFile, Evict, vault
  <2>2. CASE Serve(p) /\ ~StartReindex(p)
    BY <2>2 DEF Serve, Look, Build, Read, PublishSearch, PublishSimilar, Load, PublishDense, Refresh,
                ReadFlag, Rank, vault
  <2>3. CASE Rebuild(p)
    BY <2>3 DEF Rebuild, Stale, StaleFile, Scan, Read, Store, Unmark, Swap, Clear, Finish, vault
  <2>4. CASE EmbedFails(p) \/ Drop(p)
    BY <2>4 DEF EmbedFails, Drop, vault
  <2> QED BY <1>2, <2>1, <2>2, <2>3, <2>4 DEF OwnStep
<1>3. ASSUME NEW c \in Clients, NEW m \in Notes, Write(c, m)
      PROVE  known'[n] >= known[n] /\ (known'[n] = known[n] \/ Waits(n, {"find"})')
  <2>1. disk' = [disk EXCEPT ![m] = @ + 1] /\ known' = [known EXCEPT ![m] = disk'[m]] /\ c \in Procs
    BY <1>3 DEF Write, Procs
  <2>2. CASE n = m
    <3>1. pc'[c] = "find" /\ loc'[c].notes = {n}
      BY <1>0, <1>3, <2>2, WriteFits
    <3>2. known'[n] = disk[n] + 1
      BY <1>0, <2>1, <2>2 DEF Versions
    <3> QED BY <1>0, <2>1, <3>1, <3>2 DEF Waits
  <2>3. CASE n # m
    BY <1>0, <2>1, <2>3 DEF Versions
  <2> QED BY <2>2, <2>3
<1>4. ASSUME Crash PROVE known'[n] >= known[n] /\ (known'[n] = known[n] \/ "untold" \in raced')
  <2>1. known' = disk /\ (Changed # {} => "untold" \in raced')
    BY <1>4 DEF Crash
  <2> QED BY <1>0, <2>1 DEF Changed
<1>5. ASSUME known' = known PROVE known'[n] >= known[n] /\ known'[n] = known[n]
  BY <1>0, <1>5
<1> QED BY <1>1, <1>2, <1>3, <1>4, <1>5, NextCases DEF Call, EditOutside, StartReindex, vault

LEMMA AheadStep ==
  ASSUME Control, Next, NEW n \in Notes, NEW v \in Nat, Ahead(n, v), v >= known[n] \/ Pending(n)
  PROVE  Ahead(n, v)'
<1> SUFFICES ASSUME NEW r \in Procs, Asks(loc'[r]) PROVE v >= loc'[r].since[n]
  BY DEF Ahead
<1>1. CASE Asks(loc[r]) /\ loc'[r].since = loc[r].since
  BY <1>1 DEF Ahead
<1>2. CASE loc'[r].since = Settled
  <2>1. Settled[n] = IF Pending(n) THEN 0 ELSE known[n]
    BY DEF Settled, Pending
  <2> QED BY <1>2, <2>1
<1> QED BY <1>1, <1>2, SinceStep

LEMMA WaitsPends == ASSUME NEW n, NEW S, Waits(n, S) PROVE Pending(n)
BY DEF Waits, Pending

LEMMA ShowsStep ==
  ASSUME Control, Next, NEW n \in Notes, NEW v \in Nat, NEW S, "find" \in S, Shows(n, v, S),
         Waits(n, S) => Waits(n, S)', "untold" \notin raced'
  PROVE  Shows(n, v, S)'
<1>1. Ahead(n, v)'
  BY AheadStep, WaitsPends DEF Shows
<1>2. Waits(n, {"find"})' => Waits(n, S)'
  BY DEF Waits
<1>3. known'[n] = known[n] \/ Waits(n, S)'
  BY KnownStep, <1>2
<1> QED BY <1>1, <1>3 DEF Shows

LEMMA KnownKeeps == ASSUME Control, KnownInv, Next PROVE KnownInv'
<1> SUFFICES ASSUME NEW n \in Notes PROVE Ahead(n, known[n])'
  BY DEF KnownInv
<1>1. known[n] \in Nat /\ known'[n] >= known[n] /\ known'[n] \in Nat /\ RequestInv'
  BY KnownStep, NextControl DEF Control, RequestInv, TypeInv, Globals, TypeOK, Versions
<1>2. ASSUME NEW v, v = known[n] PROVE Ahead(n, v)'
  BY <1>1, <1>2, AheadStep DEF KnownInv
<1>3. \A r \in Procs : Asks(loc'[r]) => loc'[r].since \in Versions
  BY <1>1 DEF RequestInv, Fits
<1>4. ASSUME NEW r \in Procs, Asks(loc'[r]) PROVE known'[n] >= loc'[r].since[n]
  <2>1. known[n] >= loc'[r].since[n]
    BY <1>2, <1>4 DEF Ahead
  <2>2. loc'[r].since[n] \in Nat
    BY <1>3, <1>4 DEF Versions
  <2> QED BY <1>1, <2>1, <2>2
<1> QED BY <1>4 DEF Ahead

LEMMA DiskShows ==
  ASSUME Control, KnownInv, NEW n \in Notes
  PROVE  disk[n] \in Nat /\ disk[n] >= known[n] /\ Ahead(n, disk[n])
<1>1. disk[n] \in Nat /\ known[n] \in Nat /\ disk[n] >= known[n]
  BY DEF Control, RequestInv, TypeInv, Globals, TypeOK, Versions
<1>2. ASSUME NEW r \in Procs, Asks(loc[r]) PROVE disk[n] >= loc[r].since[n]
  <2>1. known[n] >= loc[r].since[n]
    BY <1>2 DEF KnownInv, Ahead
  <2>2. loc[r].since[n] \in Nat
    BY <1>2 DEF Control, RequestInv, Fits, Versions
  <2> QED BY <1>1, <2>1, <2>2
<1> QED BY <1>1, <1>2 DEF Ahead

-----------------------------------------------------------------------------
(* Who is on the way to tell, and who reads.                               *)

\* Past the gate of requests, a step is one of the server's or the rebuild's.
Between(p) == pc[p] \notin Telling \cup {"idle"}
LEMMA ServeSections ==
  ASSUME NEW p, Serve(p) \/ Rebuild(p) \/ EmbedFails(p) \/ SkipSweep(p) \/ Sweep(p)
  PROVE  Between(p)
<1>1. CASE Serve(p)
  BY <1>1 DEF Serve, Look, Build, Read, PublishSearch, PublishSimilar, Load, PublishDense, StartReindex,
              Refresh, ReadFlag, Rank, Only, Between, Telling
<1>2. CASE Rebuild(p)
  BY <1>2 DEF Rebuild, Stale, StaleFile, Scan, Read, Store, Unmark, Swap, Clear, Finish, Only, Between, Telling
<1>3. CASE EmbedFails(p) \/ SkipSweep(p) \/ Sweep(p)
  BY <1>3 DEF EmbedFails, SkipSweep, Sweep, Only, Between, Telling
<1> QED BY <1>1, <1>2, <1>3

LEMMA IdleRest == ASSUME NEW p, OwnStep(p) PROVE pc[p] # "idle"
<1>1. CASE Tell(p)
  BY <1>1 DEF Tell, SkipSweep, Sweep, Find, Apply, Commit, Forget, Mark, MarkFile, Evict, Only
<1> QED BY <1>1, ServeSections DEF OwnStep, Drop, Between

\* The steps of other requests.
LEMMA OthersStay ==
  ASSUME Control, Next, NEW q \in Procs, pc[q] # "idle"
  PROVE  \/ pc'[q] = pc[q] /\ loc'[q] = loc[q]
         \/ OwnStep(q) \/ StartReindex(q) \/ Crash
<1>0. RequestInv
  BY DEF Control
<1>1. ASSUME NEW c \in Clients, (\E kind \in {"search", "similar", "dense", "reindex"} : Call(c, kind))
                                \/ \E n \in Notes : Write(c, n)
      PROVE  pc'[q] = pc[q] /\ loc'[q] = loc[q]
  <2>1. Others(c) /\ pc[c] = "idle"
    BY <1>0, <1>1, CallFits, WriteFits DEF Call, Write
  <2> QED BY <2>1 DEF Others
<1>2. ASSUME NEW n \in Notes, EditOutside(n) PROVE pc'[q] = pc[q] /\ loc'[q] = loc[q]
  BY <1>2 DEF EditOutside
<1>3. ASSUME NEW p \in Procs, OwnStep(p) PROVE p = q \/ (pc'[q] = pc[q] /\ loc'[q] = loc[q])
  BY <1>3, OwnAbides DEF Others
<1>4. ASSUME NEW p \in Procs, StartReindex(p) PROVE p = q \/ (pc'[q] = pc[q] /\ loc'[q] = loc[q])
  <2>1. CASE dense.running
    BY <1>0, <1>4, <2>1, StartFits DEF Ends, Others
  <2>2. CASE ~dense.running
    BY <1>0, <1>4, <2>2, StartFits, TaskIsIdle
  <2> QED BY <2>1, <2>2
<1> QED BY <1>1, <1>2, <1>3, <1>4, NextCases

LEMMA TellerSteps ==
  ASSUME Control, Next, NEW q \in Procs, pc[q] \in Telling, loc[q].notes # {}, "untold" \notin raced'
  PROVE  \/ pc'[q] = pc[q] /\ loc'[q] = loc[q]
         \/ Find(q) \/ Apply(q) \/ Commit(q) \/ Forget(q) \/ Evict(q) \/ Mark(q) \/ MarkFile(q)
<1>1. pc[q] # "idle" /\ ~Between(q)
  BY DEF Telling, Between
<1>2. ~Drop(q) /\ ~Crash
  BY DEF Drop, Crash
<1>3. ~StartReindex(q)
  BY <1>1, ServeSections DEF Serve
<1> QED BY <1>1, <1>2, <1>3, OthersStay, ServeSections DEF OwnStep, Tell

\* A note waits for the similarity engine until it is dropped, ...
LEMMA ForgetWaits ==
  ASSUME Control, Next, NEW n \in Notes, Waits(n, ToForget), "untold" \notin raced',
         \A q \in Procs : ~Forget(q)
  PROVE  Waits(n, ToForget)'
<1>0. RequestInv
  BY DEF Control
<1>1. PICK q \in Procs : pc[q] \in ToForget /\ n \in loc[q].notes
  BY DEF Waits
<1>2. \/ pc'[q] = pc[q] /\ loc'[q] = loc[q]
      \/ Find(q) \/ Apply(q) \/ Commit(q)
  <2>1. ~Evict(q) /\ ~Mark(q) /\ ~MarkFile(q)
    BY <1>1 DEF ToForget, Evict, Mark, MarkFile, Only
  <2> QED BY <1>1, <2>1, TellerSteps DEF ToForget, Telling
<1>3. CASE Find(q) \/ Apply(q)
  BY <1>0, <1>1, <1>3, FindFits, ApplyFits DEF Goes, Waits, ToForget
<1>4. CASE Commit(q)
  BY <1>0, <1>1, <1>4, CommitFits, CommittersTell DEF Goes, Waits, ToForget
<1> QED BY <1>1, <1>2, <1>3, <1>4 DEF Waits

\* ... for the flag until it is set, or there is none to set, ...
LEMMA FlagWaits ==
  ASSUME Control, Next, NEW n \in Notes, Waits(n, ToFlag), "untold" \notin raced',
         \A q \in Procs : ~Mark(q)
  PROVE  Waits(n, ToFlag)'
<1>0. RequestInv
  BY DEF Control
<1>1. PICK q \in Procs : pc[q] \in ToFlag /\ n \in loc[q].notes
  BY DEF Waits
<1>2. \/ pc'[q] = pc[q] /\ loc'[q] = loc[q]
      \/ Find(q) \/ Apply(q) \/ Commit(q) \/ Forget(q)
  <2>1. ~Evict(q) /\ ~MarkFile(q)
    BY <1>1 DEF ToFlag, ToForget, Evict, MarkFile, Only
  <2> QED BY <1>1, <2>1, TellerSteps DEF ToFlag, ToForget, Telling
<1>3. CASE Find(q) \/ Apply(q) \/ Forget(q)
  BY <1>0, <1>1, <1>3, FindFits, ApplyFits, ForgetFits DEF Goes, Waits, ToFlag, ToForget
<1>4. CASE Commit(q)
  BY <1>0, <1>1, <1>4, CommitFits, CommittersTell DEF Goes, Waits, ToFlag, ToForget
<1> QED BY <1>1, <1>2, <1>3, <1>4 DEF Waits

\* ... and for the file until it is marked, or nothing is open that could be.
LEMMA FileWaits ==
  ASSUME Control, Next, NEW n \in Notes, Waits(n, ToFile), "untold" \notin raced',
         \A q \in Procs : ~MarkFile(q) /\ ~(Mark(q) /\ ~dense.open)
  PROVE  Waits(n, ToFile)'
<1>0. RequestInv
  BY DEF Control
<1>1. PICK q \in Procs : pc[q] \in ToFile /\ n \in loc[q].notes
  BY DEF Waits
<1>2. \/ pc'[q] = pc[q] /\ loc'[q] = loc[q]
      \/ Find(q) \/ Apply(q) \/ Commit(q) \/ Forget(q) \/ Mark(q)
  <2>1. ~Evict(q)
    BY <1>1 DEF ToFile, ToFlag, ToForget, Evict, Only
  <2> QED BY <1>1, <2>1, TellerSteps DEF ToFile, ToFlag, ToForget, Telling
<1>3. CASE Find(q) \/ Apply(q) \/ Forget(q)
  BY <1>0, <1>1, <1>3, FindFits, ApplyFits, ForgetFits DEF Goes, Waits, ToFile, ToFlag, ToForget
<1>4. CASE Commit(q)
  BY <1>0, <1>1, <1>4, CommitFits, CommittersTell DEF Goes, Waits, ToFile, ToFlag, ToForget
<1>5. CASE Mark(q)
  BY <1>0, <1>1, <1>5, MarkFits DEF Goes, Waits, ToFile
<1> QED BY <1>1, <1>2, <1>3, <1>4, <1>5 DEF Waits

\* Who reads notes into an index of its own.
Builder(p) == pc[p] \in {"read", "publish"} /\ loc[p].kind \in {"search", "similar"}
Reading(p) == Builder(p) \/ pc[p] \in Gathering

\* Its step changes nothing but what it has read ...
ReadsOn(p) ==
  /\ Reading(p) /\ loc'[p].kind = loc[p].kind /\ (Builder(p)' <=> Builder(p))
  /\ \/ loc'[p].of = loc[p].of
     \/ /\ disk' = disk /\ known' = known
        /\ \E n \in Notes : loc'[p].of = [m \in DOMAIN loc[p].of \cup {n} |->
                                            IF m = n THEN disk[n] ELSE loc[p].of[m]]
\* ... or begins.
ReadsFirst(p) == loc'[p].of = None /\ (Builder(p)' /\ loc'[p].kind = "search" => search' = NoEngine /\ Look(p))

LEMMA SameReader ==
  ASSUME NEW p, Reading(p)', pc'[p] = pc[p], loc'[p] = loc[p]
  PROVE  ReadsOn(p)
BY DEF Reading, Builder, ReadsOn

\* One more note, for an engine or for the embedding index.
LEMMA ReadersRead ==
  ASSUME RequestInv, NEW p \in Procs, Build(p) \/ Scan(p)
  PROVE  ReadsOn(p)
<1>1. disk' = disk /\ known' = known
  BY DEF Build, Scan, Read, vault
<1>2. CASE Build(p)
  <2>1. pc[p] = "read" /\ loc[p].kind \in {"search", "similar"}
    BY <1>2, RequestIs, KindIn DEF Build, Read, Only
  <2>2. /\ \E s \in {"read", "publish"} : Goes(p, s, loc[p].kind)
        /\ \E n \in Notes : loc'[p].of = [m \in DOMAIN loc[p].of \cup {n} |->
                                            IF m = n THEN disk[n] ELSE loc[p].of[m]]
    BY <1>2, ReadFits DEF Build
  <2> QED BY <1>1, <2>1, <2>2 DEF Goes, ReadsOn, Reading, Builder
<1>3. CASE Scan(p)
  <2>1. pc[p] = "scan"
    BY <1>3 DEF Scan, Read, Only
  <2>2. /\ \E s \in {"scan", "store"} : Goes(p, s, loc[p].kind)
        /\ \E n \in Notes : loc'[p].of = [m \in DOMAIN loc[p].of \cup {n} |->
                                            IF m = n THEN disk[n] ELSE loc[p].of[m]]
    BY <1>3, ReadFits DEF Scan
  <2> QED BY <1>1, <2>1, <2>2 DEF Goes, ReadsOn, Reading, Builder, Gathering
<1> QED BY <1>2, <1>3

\* Whoever tells may pass the gate, and begin.
LEMMA TellersBegin ==
  ASSUME Control, NEW p \in Procs, Tell(p), Reading(p)'
  PROVE  ReadsFirst(p)
<1>0. RequestInv
  BY DEF Control
<1>1. CASE SkipSweep(p) \/ Sweep(p) \/ Mark(p) \/ MarkFile(p)
  <2>1. \/ Passes(p) \/ Ends(p)
        \/ pc'[p] \in {"find", "file", "evict"}
    BY <1>0, <1>1, SkipSweepFits, SweepFits, MarkFits, MarkFileFits DEF Leaves, Goes
  <2> QED BY <2>1 DEF Passes, Ends, Reading, Builder, ReadsFirst, Gathering
<1>2. CASE Find(p) \/ Apply(p) \/ Forget(p) \/ Evict(p)
  <2>1. pc'[p] \in {"forget", "apply", "commit", "flag"}
    BY <1>0, <1>2, FindFits, ApplyFits, ForgetFits, EvictFits DEF Goes
  <2> QED BY <2>1 DEF Reading, Builder, Gathering
<1>3. CASE Commit(p)
  <2>1. pc'[p] = "forget"
    BY <1>0, <1>3, CommitFits, CommittersTell DEF Goes
  <2> QED BY <2>1 DEF Reading, Builder, Gathering
<1> QED BY <1>1, <1>2, <1>3 DEF Tell

LEMMA ServersRead ==
  ASSUME Control, NEW p \in Procs, Serve(p), ~StartReindex(p), Reading(p)'
  PROVE  ReadsOn(p) \/ ReadsFirst(p)
<1>0. RequestInv
  BY DEF Control
<1>1. CASE Look(p)
  <2>1. pc[p] = "look" /\ loc[p].of = None /\ lazy' = lazy
    BY <1>0, <1>1, RequestIs DEF Look, Only, Fits
  <2>2. /\ Ends(p) \/ \E to \in {"read", "ready", "load"} : Goes(p, to, loc[p].kind) /\ loc'[p] = loc[p]
        /\ pc'[p] = "read" /\ loc[p].kind = "search" => search = NoEngine
    BY <1>0, <1>1, LookFits
  <2>3. pc'[p] = "read" /\ loc'[p] = loc[p]
    BY <2>2 DEF Ends, Goes, Reading, Builder, Gathering
  <2> QED BY <1>1, <2>1, <2>2, <2>3 DEF ReadsFirst, lazy
<1>2. CASE Build(p)
  BY <1>0, <1>2, ReadersRead
<1>3. CASE PublishSearch(p) \/ PublishSimilar(p) \/ Rank(p)
  <2>1. Ends(p)
    BY <1>0, <1>3, PublishersHaveIds, PublishSearchFits, PublishSimilarFits, RankFits
  <2> QED BY <2>1 DEF Ends, Reading, Builder, Gathering
<1>4. CASE Load(p)
  <2>1. Goes(p, "publish", loc[p].kind) /\ loc[p].kind \in {"dense", "reindex"}
    BY <1>0, <1>4, LoadFits
  <2> QED BY <2>1 DEF Goes, Reading, Builder, Gathering
<1>5. CASE PublishDense(p) \/ Refresh(p) \/ ReadFlag(p)
  <2>1. pc'[p] \in {"ready", "stale", "rank"}
    BY <1>0, <1>5, PublishDenseFits, RefreshFits, ReadFlagFits DEF Goes
  <2> QED BY <2>1 DEF Reading, Builder, Gathering
<1> QED BY <1>1, <1>2, <1>3, <1>4, <1>5 DEF Serve

LEMMA RebuildersRead ==
  ASSUME Control, NEW p \in Procs, Rebuild(p) \/ EmbedFails(p), Reading(p)'
  PROVE  ReadsOn(p)
<1>0. RequestInv /\ SwitchInv
  BY DEF Control
<1>1. CASE Stale(p) \/ StaleFile(p) \/ EmbedFails(p) \/ Clear(p)
  <2>1. pc'[p] \in {"stalefile", "gate", "finish"}
    BY <1>0, <1>1, StaleFits, StaleFileFits, EmbedFailsFits, ClearFits DEF Goes
  <2> QED BY <2>1 DEF Reading, Builder, Gathering
<1>2. CASE Store(p) \/ Unmark(p) \/ Swap(p)
  <2>1. pc[p] \in Gathering /\ pc[p] \notin {"read", "publish"}
    BY <1>2 DEF Store, Unmark, Swap, Only, Gathering
  <2>2. pc'[p] \in {"unmark", "swap", "clear"} /\ loc'[p] = loc[p]
    BY <1>0, <1>2, StoreFits, UnmarkFits, SwapFits DEF Goes
  <2> QED BY <2>1, <2>2 DEF Reading, Builder, ReadsOn
<1>3. CASE Finish(p)
  <2>1. Ends(p) \/ Goes(p, "ready", loc[p].kind)
    BY <1>0, <1>3, FinishSwitch, FinishFits
  <2> QED BY <2>1 DEF Ends, Goes, Reading, Builder, Gathering
<1>4. CASE Scan(p)
  BY <1>0, <1>4, ReadersRead
<1> QED BY <1>1, <1>2, <1>3, <1>4 DEF Rebuild

LEMMA IdleSteps ==
  ASSUME Control, Next, NEW p \in Procs, pc[p] = "idle"
  PROVE  pc'[p] \in {"idle", "gate", "find", "stale"}
<1>0. RequestInv
  BY DEF Control
<1>1. ASSUME NEW c \in Clients, (\E kind \in {"search", "similar", "dense", "reindex"} : Call(c, kind))
                                \/ \E n \in Notes : Write(c, n)
      PROVE  pc'[p] \in {"idle", "gate", "find"}
  <2>1. Others(c) /\ pc'[c] \in {"gate", "find"}
    BY <1>0, <1>1, CallFits, WriteFits
  <2> QED BY <2>1 DEF Others
<1>2. ASSUME NEW n \in Notes, EditOutside(n) PROVE pc'[p] = pc[p]
  BY <1>2 DEF EditOutside
<1>3. ASSUME NEW q \in Procs, OwnStep(q) PROVE pc'[p] = pc[p]
  <2>1. q # p
    BY <1>3, IdleRest
  <2> QED BY <1>3, <2>1, OwnAbides DEF Others
<1>4. ASSUME NEW q \in Procs, StartReindex(q) PROVE pc'[p] \in {"idle", "stale"}
  BY <1>0, <1>4, StartFits DEF Ends, Others
<1>5. ASSUME Crash PROVE pc'[p] = "idle"
  BY <1>5 DEF Crash
<1> QED BY <1>1, <1>2, <1>3, <1>4, <1>5, NextCases

LEMMA ReaderSteps ==
  ASSUME Control, Next, NEW p \in Procs, Reading(p)'
  PROVE  ReadsOn(p) \/ ReadsFirst(p)
<1>0. RequestInv /\ RequestInv'
  BY NextControl DEF Control
<1>1. CASE pc[p] = "idle"
  BY <1>1, IdleSteps DEF Reading, Builder, Gathering
<1>2. CASE pc[p] # "idle"
  <2>1. ASSUME StartReindex(p) PROVE pc'[p] = "idle"
    BY <1>0, <2>1, StartFits DEF Ends
  <2>2. ASSUME Crash PROVE pc'[p] = "idle"
    BY <2>2 DEF Crash
  <2>3. ASSUME Drop(p), p \in Clients PROVE pc'[p] = "idle"
    BY <1>0, <2>3, DropFits DEF Ends
  <2>4. pc'[p] # "idle"
    BY DEF Reading, Builder, Gathering
  <2>5. ~StartReindex(p) /\ ~Crash /\ ~(p \in Clients /\ Drop(p))
    BY <2>1, <2>2, <2>3, <2>4
  <2> QED BY <1>2, <2>5, OthersStay, SameReader, TellersBegin, ServersRead, RebuildersRead DEF OwnStep
<1> QED BY <1>1, <1>2

-----------------------------------------------------------------------------
(* The similarity engine.                                                  *)

\* A value that may be shown to the tellers in S still may after this step.
Keeps(n, v, S) == Shows(n, v, S) => Shows(n, v, S)'

LEMMA ShowsStays ==
  ASSUME Control, Next, NEW n \in Notes, NEW v \in Nat, NEW S, "find" \in S,
         Waits(n, S) => Waits(n, S)', "untold" \notin raced'
  PROVE  Keeps(n, v, S)
BY ShowsStep DEF Keeps

LEMMA PartsAre == ASSUME NEW of \in Parts PROVE DOMAIN of \subseteq Notes /\ \A n \in DOMAIN of : of[n] \in Nat
BY DEF Parts

LEMMA EnginesAre ==
  ASSUME Control
  PROVE  search.of \in Parts /\ similar.of \in Parts /\ dense.of \in Parts /\ stored \in Parts
<1>1. search.of \in Indexes /\ similar.of \in Indexes /\ dense.of \in Indexes /\ stored \in Indexes
  BY DEF Control, RequestInv, TypeInv, Globals, TypeOK
<1> QED BY <1>1, WholeIsPart, NothingRead DEF Indexes

LEMMA SameShown ==
  ASSUME NEW of \in Parts, NEW S, \A n \in Notes : \A v \in Nat : Keeps(n, v, S), Shown(of, S)
  PROVE  Shown(of, S)'
BY PartsAre DEF Shown, Keeps

\* What is read may be shown.
LEMMA ReadShown ==
  ASSUME Control, KnownInv, Next, NEW p \in Procs, ReadsOn(p) \/ ReadsFirst(p), NEW S,
         \A n \in Notes : \A v \in Nat : Keeps(n, v, S),
         Reading(p) => Shown(loc[p].of, S)
  PROVE  Shown(loc[p].of, S)'
<1>0. loc[p].of \in Parts
  BY RequestIs DEF Control, Requests
<1>1. CASE loc'[p].of = None
  BY <1>1, NothingRead DEF Shown
<1>2. CASE Reading(p) /\ loc'[p].of = loc[p].of
  <2>1. Shown(loc[p].of, S)
    BY <1>2
  <2>2. ASSUME NEW of \in Parts, Shown(of, S), loc'[p].of = of PROVE Shown(loc[p].of, S)'
    BY <2>2, SameShown DEF Shown
  <2> QED BY <1>0, <1>2, <2>1, <2>2
<1>3. CASE /\ Reading(p)
           /\ \E n \in Notes : loc'[p].of = [m \in DOMAIN loc[p].of \cup {n} |->
                                               IF m = n THEN disk[n] ELSE loc[p].of[m]]
  <2>1. PICK n \in Notes : loc'[p].of = [m \in DOMAIN loc[p].of \cup {n} |->
                                           IF m = n THEN disk[n] ELSE loc[p].of[m]]
    BY <1>3
  <2>2. disk[n] \in Nat /\ Shows(n, disk[n], S)
    BY DiskShows DEF Shows
  <2>3. ASSUME NEW m \in DOMAIN loc'[p].of, NEW v, v = loc'[p].of[m] PROVE Shows(m, v, S)'
    <3>1. m \in DOMAIN loc[p].of \cup {n} /\ v = IF m = n THEN disk[n] ELSE loc[p].of[m]
      BY <2>1, <2>3
    <3>2. m \in Notes /\ v \in Nat /\ Shows(m, v, S)
      BY <1>0, <1>3, <2>2, <3>1, PartsAre DEF Shown
    <3> QED BY <3>2 DEF Keeps
  <2> QED BY <2>3 DEF Shown
<1> QED BY <1>1, <1>2, <1>3 DEF ReadsOn, ReadsFirst

\* The engine itself is dropped, replaced by one that was built, or stays.
LEMMA SimilarSteps ==
  ASSUME Control, Next
  PROVE  \/ similar' = similar
         \/ similar' = NoEngine
         \/ \E p \in Procs : Builder(p) /\ loc[p].kind = "similar" /\ similar'.of = loc[p].of
<1>1. ASSUME NEW p \in Procs, OwnStep(p)
      PROVE  \/ similar' = similar \/ similar' = NoEngine
             \/ Builder(p) /\ loc[p].kind = "similar" /\ similar'.of = loc[p].of
  <2>1. CASE Tell(p)
    BY <2>1 DEF Tell, SkipSweep, Sweep, Find, Apply, Commit, Forget, Mark, MarkFile, Evict, lazy
  <2>2. CASE Serve(p) /\ ~StartReindex(p) /\ ~PublishSimilar(p)
    BY <2>2 DEF Serve, Look, Build, Read, PublishSearch, Load, PublishDense, Refresh, ReadFlag, Rank, lazy
  <2>3. CASE PublishSimilar(p)
    BY <2>3 DEF PublishSimilar, Only, Builder
  <2>4. CASE Rebuild(p)
    BY <2>4 DEF Rebuild, Stale, StaleFile, Scan, Read, Store, Unmark, Swap, Clear, Finish, lazy
  <2>5. CASE EmbedFails(p) \/ Drop(p)
    BY <2>5 DEF EmbedFails, Drop, lazy
  <2> QED BY <1>1, <2>1, <2>2, <2>3, <2>4, <2>5 DEF OwnStep
<1> QED BY <1>1, NextCases DEF Call, Write, EditOutside, StartReindex, Crash, lazy

LEMMA SimilarKeeps ==
  ASSUME Control, KnownInv, SimilarInv, Next
  PROVE  SimilarInv'
<1> SUFFICES ASSUME raced' \cap {"build", "untold"} = {}
             PROVE  /\ Shown(similar.of, ToForget)'
                    /\ \A p \in Procs : (Builder(p) /\ loc[p].kind = "similar")' => Shown(loc[p].of, ToForget)'
  BY DEF SimilarInv, In, Builder
<1>1. /\ Shown(similar.of, ToForget)
      /\ \A p \in Procs : Builder(p) /\ loc[p].kind = "similar" => Shown(loc[p].of, ToForget)
  BY RacesStay DEF SimilarInv, In, Builder
<1>2. CASE \E q \in Procs : Forget(q)
  <2>1. PICK q \in Procs : Forget(q)
    BY <1>2
  <2>2. similar' = NoEngine /\ Built("similar") = {}
    BY <2>1 DEF Forget, Built
  <2>3. Shown(similar.of, ToForget)'
    BY <2>2, NothingRead DEF Shown, NoEngine
  <2>4. \A p \in Procs : ~(Builder(p) /\ loc[p].kind = "similar")
    BY <2>2 DEF Built, In, Builder
  <2>5. Others(q) /\ pc'[q] = "flag"
    BY <2>1, ForgetFits DEF Control, Goes
  <2>6. \A p \in Procs : ~(Builder(p) /\ loc[p].kind = "similar")'
    BY <2>4, <2>5 DEF Others, Builder
  <2> QED BY <2>3, <2>6
<1>3. CASE \A q \in Procs : ~Forget(q)
  <2>1. \A n \in Notes : \A v \in Nat : Keeps(n, v, ToForget)
    BY <1>3, ForgetWaits, ShowsStays DEF ToForget
  <2>2. Shown(similar.of, ToForget)'
    <3>1. ASSUME NEW of \in Parts, Shown(of, ToForget), similar'.of = of PROVE Shown(similar.of, ToForget)'
      BY <2>1, <3>1, SameShown DEF Shown
    <3>2. CASE similar'.of = None
      BY <3>2, NothingRead DEF Shown
    <3> QED BY <1>1, <3>1, <3>2, SimilarSteps, EnginesAre, RequestIs DEF Control, Requests, NoEngine
  <2>3. ASSUME NEW p \in Procs, (Builder(p) /\ loc[p].kind = "similar")'
        PROVE  Shown(loc[p].of, ToForget)'
    <3>1. ReadsOn(p) \/ ReadsFirst(p)
      BY <2>3, ReaderSteps DEF Reading
    <3>2. CASE ReadsFirst(p)
      BY <3>2, NothingRead DEF ReadsFirst, Shown
    <3>3. CASE ReadsOn(p)
      <4>1. Shown(loc[p].of, ToForget)
        BY <1>1, <2>3, <3>3 DEF ReadsOn
      <4> QED BY <2>1, <3>3, <4>1, ReadShown
    <3> QED BY <3>1, <3>2, <3>3
  <2> QED BY <2>2, <2>3
<1> QED BY <1>2, <1>3

-----------------------------------------------------------------------------
(* The embedding engine and its index file.                                *)

LEMMA GatherersRebuild ==
  ASSUME Control, NEW p \in Procs, pc[p] \in Gathering
  PROVE  Rebuilds(p) /\ dense.running /\ dense.open
<1>1. Busy(p)
  BY RebuildersAreBusy DEF Control, Rebuilders
<1> QED BY <1>1 DEF Control, SwitchInv, Busy

\* Nobody ranks, marks or rebuilds while the engine is closed.
LEMMA ClosedIsQuiet ==
  ASSUME Control, ~dense.open, NEW p \in Procs
  PROVE  pc[p] \notin Gathering \cup {"ready", "file", "rank"}
<1>1. pc[p] \notin {"ready", "file", "rank"}
  BY RequestIs DEF Control, Fits
<1> QED BY <1>1, GatherersRebuild

LEMMA ShownMeans ==
  ASSUME NEW of \in Versions, NEW S, Shown(of, S), NEW p \in Procs, Asks(loc[p])
  PROVE  Covers(of, loc[p].since)
BY WholeIsPart DEF Shown, Shows, Ahead, Covers

\* What the step makes of the engine: it stays, or it is marked, opened, ...
LEMMA DenseSteps ==
  ASSUME Control, Next
  PROVE  \/ dense'.open = dense.open /\ dense'.of = dense.of /\ dense'.stale = dense.stale
         \/ Crash /\ dense' = Closed
         \/ dense'.open /\ dense'.stale /\ dense'.of = dense.of
         \/ \E p \in Procs : PublishDense(p) /\ ~dense.open
         \/ \E p \in Procs : Swap(p) \/ Clear(p)
<1>0. /\ RequestInv
      /\ dense \in [open : BOOLEAN, of : Indexes, stale : BOOLEAN, running : BOOLEAN]
  BY DEF Control, RequestInv, TypeInv, Globals, TypeOK
<1>1. ASSUME NEW p \in Procs, Tell(p)
      PROVE  dense' = dense \/ (dense'.open /\ dense'.stale /\ dense'.of = dense.of)
  <2>1. CASE Mark(p)
    BY <1>0, <2>1, MarkFits
  <2>2. CASE ~Mark(p)
    BY <1>1, <2>2 DEF Tell, SkipSweep, Sweep, Find, Apply, Commit, Forget, MarkFile, Evict
  <2> QED BY <2>1, <2>2
<1>2. ASSUME NEW p \in Procs, Serve(p), ~PublishDense(p)
      PROVE  dense'.open = dense.open /\ dense'.of = dense.of /\ dense'.stale = dense.stale
  <2>1. CASE Refresh(p) \/ StartReindex(p)
    BY <1>0, <2>1, RefreshFits, StartFits
  <2>2. CASE ~Refresh(p) /\ ~StartReindex(p)
    BY <1>2, <2>2 DEF Serve, Look, Build, Read, PublishSearch, PublishSimilar, Load, ReadFlag, Rank
  <2> QED BY <2>1, <2>2
<1>3. ASSUME NEW p \in Procs, PublishDense(p), dense.open PROVE dense' = dense
  BY <1>0, <1>3, PublishDenseFits
<1>4. ASSUME NEW p \in Procs, Rebuild(p), ~Swap(p), ~Clear(p)
      PROVE  \/ dense'.open = dense.open /\ dense'.of = dense.of /\ dense'.stale = dense.stale
             \/ dense'.open /\ dense'.stale /\ dense'.of = dense.of
  <2>1. CASE Stale(p)
    <3>1. dense.open
      <4>1. Busy(p)
        BY <1>0, <2>1, RebuildersAreBusy DEF Stale, Only, Rebuilders
      <4> QED BY <4>1 DEF Control, SwitchInv
    <3> QED BY <1>0, <2>1, <3>1, StaleFits
  <2>2. CASE Finish(p)
    BY <1>0, <2>2, FinishSwitch, FinishFits DEF Control
  <2>3. CASE ~Stale(p) /\ ~Finish(p)
    BY <1>4, <2>3 DEF Rebuild, StaleFile, Scan, Read, Store, Unmark
  <2> QED BY <2>1, <2>2, <2>3
<1>5. ASSUME NEW p \in Procs, EmbedFails(p) \/ Drop(p) PROVE dense' = dense
  BY <1>5 DEF EmbedFails, Drop
<1>6. ASSUME NEW p \in Procs, OwnStep(p) \/ StartReindex(p), ~Swap(p), ~Clear(p), dense.open \/ ~PublishDense(p)
      PROVE  \/ dense'.open = dense.open /\ dense'.of = dense.of /\ dense'.stale = dense.stale
             \/ dense'.open /\ dense'.stale /\ dense'.of = dense.of
  BY <1>1, <1>2, <1>3, <1>4, <1>5, <1>6 DEF OwnStep, Serve
<1>7. CASE \E p \in Procs : OwnStep(p) \/ StartReindex(p)
  BY <1>6, <1>7
<1>8. CASE ~\E p \in Procs : OwnStep(p) \/ StartReindex(p)
  BY <1>8, NextCases DEF Call, Write, EditOutside, Crash
<1> QED BY <1>7, <1>8

\* A mark of the open engine, while no rebuild is under way.
LEMMA MarkKeeps ==
  ASSUME Control, KnownInv, DenseInv, NEW q \in Procs, Mark(q), dense.open,
         raced' \cap {"cold", "during", "untold"} = {}
  PROVE  DenseInv'
<1>0. RequestInv
  BY DEF Control
<1>1. Goes(q, "file", loc[q].kind) /\ dense' = [dense EXCEPT !.stale = TRUE]
  BY <1>0, MarkFits
<1>2. dense'.open /\ dense'.stale /\ dense'.of = dense.of
  BY <1>1 DEF Control, RequestInv, TypeInv, Globals, TypeOK
<1>3. ~Rebuilding /\ raced \subseteq raced'
  BY DEF Mark
<1>4. ASSUME NEW p \in Procs PROVE pc'[p] \notin Gathering
  <2>1. pc[p] \notin Gathering
    BY <1>3, GatherersRebuild DEF Rebuilding
  <2> QED BY <1>1, <2>1 DEF Goes, Others, Gathering
<1>5. ASSUME NEW p \in Procs, pc'[p] = "rank", ~loc'[p].flag, dense'.of # None
      PROVE  Covers(dense.of, loc[p].since)'
  <2>1. pc[p] = "rank" /\ loc'[p] = loc[p]
    BY <1>1, <1>5 DEF Goes, Others
  <2> QED BY <1>2, <1>3, <1>5, <2>1 DEF DenseInv, In, Covers
<1> QED BY <1>2, <1>4, <1>5 DEF DenseInv, In

\* What is opened is shown as it was loaded.
LEMMA DenseOpened ==
  ASSUME Control, KnownInv, Next, DenseInv, \A n \in Notes : \A v \in Nat : Keeps(n, v, ToFlag),
         raced' \cap {"cold", "during", "untold"} = {}, dense'.open, ~dense'.stale
  PROVE  Shown(dense.of, ToFlag)'
<1>0. RequestInv /\ raced \cap {"cold", "during", "untold"} = {} /\ dense.of \in Parts
  BY RacesStay, EnginesAre DEF Control
<1>a. ASSUME NEW of \in Parts, Shown(of, ToFlag), dense'.of = of PROVE Shown(dense.of, ToFlag)'
  BY <1>a, SameShown DEF Shown
<1>1. CASE dense'.open = dense.open /\ dense'.of = dense.of /\ dense'.stale = dense.stale
  BY <1>0, <1>1, <1>a DEF DenseInv
<1>2. CASE dense' = Closed
  BY <1>2 DEF Closed
<1>3. CASE \E p \in Procs : PublishDense(p) /\ ~dense.open
  <2>1. PICK p \in Procs : PublishDense(p) /\ ~dense.open
    BY <1>3
  <2>2. dense'.of = loc[p].of /\ dense'.stale = loc[p].flag
    BY <1>0, <2>1, PublishDenseFits
  <2>3. pc[p] = "publish" /\ loc[p].kind \in {"dense", "reindex"} /\ loc[p].of \in Parts
    BY <1>0, <2>1, RequestIs DEF PublishDense, Only, Requests
  <2>4. Shown(loc[p].of, ToFlag)
    BY <1>0, <2>1, <2>2, <2>3 DEF DenseInv, In
  <2> QED BY <1>a, <2>2, <2>3, <2>4
<1>4. CASE \E p \in Procs : Swap(p) \/ Clear(p)
  <2>1. PICK p \in Procs : Swap(p) \/ Clear(p)
    BY <1>4
  <2>2. pc[p] \in Gathering /\ loc[p].of \in Parts
    BY <1>0, <2>1, RequestIs DEF Swap, Clear, Only, Gathering, Requests
  <2>3. dense'.of = loc[p].of
    <3>1. CASE Swap(p)
      BY <1>0, <3>1, SwapFits DEF RequestInv, TypeInv, Globals, TypeOK
    <3>2. CASE Clear(p)
      <4>1. dense'.of = dense.of
        BY <1>0, <3>2, ClearFits DEF RequestInv, TypeInv, Globals, TypeOK
      <4>2. dense.of = loc[p].of
        BY <3>2 DEF Clear, Only, Control, SwitchInv
      <4> QED BY <4>1, <4>2
    <3> QED BY <2>1, <3>1, <3>2
  <2>4. Shown(loc[p].of, ToFlag)
    BY <1>0, <2>2 DEF DenseInv, In
  <2> QED BY <1>a, <2>2, <2>3, <2>4
<1> QED BY <1>1, <1>2, <1>3, <1>4, DenseSteps

LEMMA OpenStays == ASSUME Control, Next, dense.open PROVE dense'.open \/ Crash
<1>1. ASSUME NEW p \in Procs, Swap(p) \/ Clear(p) PROVE dense'.open
  BY <1>1, SwapFits, ClearFits DEF Control, RequestInv, TypeInv, Globals, TypeOK
<1> QED BY <1>1, DenseSteps

\* Who gets to "publish" and to "rank".
LEMMA Arrivals ==
  ASSUME Control, Next, NEW p \in Procs, pc'[p] \in {"publish", "rank"}
  PROVE  \/ pc'[p] = pc[p] /\ loc'[p] = loc[p]
         \/ Load(p) \/ ReadFlag(p)
         \/ pc'[p] = "publish" /\ loc'[p].kind \in {"search", "similar"}
<1>0. RequestInv
  BY DEF Control
<1>1. CASE Tell(p)
  <2>1. pc'[p] \notin {"publish", "rank"}
    <3>1. CASE SkipSweep(p) \/ Sweep(p) \/ Mark(p) \/ MarkFile(p)
      BY <1>0, <3>1, SkipSweepFits, SweepFits, MarkFits, MarkFileFits DEF Leaves, Goes, Passes, Ends
    <3>2. CASE Find(p) \/ Apply(p) \/ Forget(p) \/ Evict(p)
      BY <1>0, <3>2, FindFits, ApplyFits, ForgetFits, EvictFits DEF Goes
    <3>3. CASE Commit(p)
      BY <1>0, <3>3, CommitFits, CommittersTell DEF Goes
    <3> QED BY <1>1, <3>1, <3>2, <3>3 DEF Tell
  <2> QED BY <2>1
<1>2. CASE Serve(p) /\ ~StartReindex(p)
  <2>1. CASE Build(p)
    <3>1. loc[p].kind \in {"search", "similar"}
      BY <2>1, <1>0, RequestIs, KindIn DEF Build, Read, Only
    <3>2. \E s \in {"read", "publish"} : Goes(p, s, loc[p].kind)
      BY <2>1, <1>0, ReadFits DEF Build
    <3> QED BY <3>1, <3>2 DEF Goes
  <2>2. CASE Look(p) \/ PublishSearch(p) \/ PublishSimilar(p) \/ Rank(p)
    BY <1>0, <2>2, LookFits, PublishersHaveIds, PublishSearchFits, PublishSimilarFits, RankFits DEF Ends, Goes
  <2>3. CASE PublishDense(p) \/ Refresh(p)
    BY <1>0, <2>3, PublishDenseFits, RefreshFits DEF Goes
  <2> QED BY <1>2, <2>1, <2>2, <2>3 DEF Serve
<1>3. CASE Rebuild(p) \/ EmbedFails(p)
  <2>1. CASE Stale(p) \/ StaleFile(p) \/ Store(p) \/ Unmark(p)
    BY <1>0, <2>1, StaleFits, StaleFileFits, StoreFits, UnmarkFits DEF Goes
  <2>2. CASE Swap(p) \/ Clear(p) \/ EmbedFails(p)
    BY <1>0, <2>2, SwapFits, ClearFits, EmbedFailsFits DEF Goes
  <2>3. CASE Scan(p)
    BY <1>0, <2>3, ReadFits DEF Scan, Goes
  <2>4. CASE Finish(p)
    BY <1>0, <2>4, FinishSwitch, FinishFits DEF Control, Ends, Goes
  <2> QED BY <1>3, <2>1, <2>2, <2>3, <2>4 DEF Rebuild
<1>4. ~Crash /\ ~StartReindex(p) /\ ~(p \in Clients /\ Drop(p))
  <2>1. ASSUME StartReindex(p) PROVE pc'[p] = "idle"
    BY <1>0, <2>1, StartFits DEF Ends
  <2>2. ASSUME Crash PROVE pc'[p] = "idle"
    BY <2>2 DEF Crash
  <2>3. ASSUME Drop(p), p \in Clients PROVE pc'[p] = "idle"
    BY <1>0, <2>3, DropFits DEF Ends
  <2> QED BY <2>1, <2>2, <2>3
<1> QED BY <1>1, <1>2, <1>3, <1>4, IdleSteps, OthersStay DEF OwnStep

\* A mark that finds no engine finds no index either.
LEMMA MarkClosed ==
  ASSUME Control, Control', Next, DenseInv, NEW q \in Procs, Mark(q), ~dense.open,
         raced' \cap {"cold", "during", "untold"} = {}
  PROVE  DenseInv'
<1>1. dense' = dense /\ ~Opening /\ Leaves(q) /\ raced \subseteq raced'
  BY MarkFits DEF Control, Mark
<1>2. \A p \in Procs : pc'[p] \notin Gathering \cup {"rank"}
  <2> SUFFICES ASSUME NEW p \in Procs PROVE pc'[p] \notin Gathering \cup {"rank"}
    OBVIOUS
  <2>1. /\ ~dense'.open /\ (pc'[p] = "rank" => dense'.open)
        /\ loc'[p] \in Requests /\ pc'[p] \in Sections /\ loc'[p].kind \in KindOf(pc'[p])
    BY <1>1 DEF Control, RequestInv, TypeInv, Fits
  <2>2. ASSUME pc'[p] \in Gathering PROVE loc'[p].kind \in {"rebuild", "refresh"} /\ pc'[p] # "ready"
    BY <2>1, <2>2, KindIn DEF Rebuilders, Gathering
  <2>3. pc'[p] \in Gathering => Busy(p)'
    BY <2>2 DEF Busy, Rebuilds
  <2> QED BY <2>1, <2>3 DEF Control, SwitchInv
<1>3. \A p \in Procs : ~(pc'[p] = "publish" /\ loc'[p].kind \in {"dense", "reindex"})
  <2>1. \A p \in Procs : ~(pc[p] = "publish" /\ loc[p].kind \in {"dense", "reindex"})
    BY <1>1 DEF Opening, In
  <2>2. Others(q) /\ pc'[q] # "publish"
    BY <1>1 DEF Leaves, Goes, Ends, Passes
  <2> QED BY <2>1, <2>2 DEF Others
<1> QED BY <1>1, <1>2, <1>3 DEF DenseInv, In

\* The other steps.
LEMMA DenseRest ==
  ASSUME Control, KnownInv, Next, DenseInv, StoredInv, \A q \in Procs : ~Mark(q),
         raced' \cap {"cold", "during", "untold"} = {}
  PROVE  DenseInv'
<1>0. RequestInv /\ raced \cap {"cold", "during", "untold"} = {}
  BY RacesStay DEF Control
<1>1. \A n \in Notes : \A v \in Nat : Keeps(n, v, ToFlag)
  BY FlagWaits, ShowsStays DEF ToFlag, ToForget
<1>2. dense'.open /\ ~dense'.stale => Shown(dense.of, ToFlag)'
  BY <1>1, DenseOpened
<1>3. ASSUME NEW p \in Procs, pc'[p] \in Gathering PROVE Shown(loc[p].of, ToFlag)'
  <2>1. ReadsOn(p) \/ ReadsFirst(p)
    BY <1>3, ReaderSteps DEF Reading
  <2>2. CASE ReadsFirst(p)
    BY <2>2, NothingRead DEF ReadsFirst, Shown
  <2>3. CASE ReadsOn(p)
    <3>1. pc[p] \in Gathering
      BY <1>3, <2>3 DEF ReadsOn, Reading, Builder, Gathering
    <3>2. Shown(loc[p].of, ToFlag)
      BY <1>0, <3>1 DEF DenseInv, In
    <3> QED BY <1>1, <2>3, <3>2, ReadShown
  <2> QED BY <2>1, <2>2, <2>3
<1>4. ASSUME NEW p \in Procs, pc'[p] = "publish", loc'[p].kind \in {"dense", "reindex"},
             ~dense'.open, ~loc'[p].flag
      PROVE  Shown(loc[p].of, ToFlag)'
  <2>0. pc[p] # "idle"
    BY <1>4, IdleSteps
  <2>1. ~dense.open
    <3>1. CASE Crash
      BY <1>4, <3>1 DEF Crash
    <3> QED BY <1>4, <3>1, OpenStays
  <2>2. CASE pc'[p] = pc[p] /\ loc'[p] = loc[p]
    <3>1. Shown(loc[p].of, ToFlag) /\ loc[p].of \in Parts
      BY <1>0, <1>4, <2>1, <2>2, RequestIs DEF DenseInv, In, Requests
    <3>2. ASSUME NEW of \in Parts, Shown(of, ToFlag), loc'[p].of = of PROVE Shown(loc[p].of, ToFlag)'
      BY <1>1, <3>2, SameShown DEF Shown
    <3> QED BY <2>2, <3>1, <3>2
  <2>3. CASE Load(p)
    <3>1. loc'[p].flag = marker /\ loc'[p].of = stored
      BY <1>0, <2>3, LoadFits
    <3>2. Shown(stored, ToFile) /\ stored \in Parts
      BY <1>0, <1>4, <3>1, EnginesAre DEF StoredInv
    <3>3. \A n : Waits(n, ToFile) => Waits(n, ToFlag)
      BY <2>1, ClosedIsQuiet DEF Waits, ToFile
    <3>4. Shown(stored, ToFlag)
      BY <3>2, <3>3 DEF Shown, Shows
    <3>5. ASSUME NEW of \in Parts, Shown(of, ToFlag), loc'[p].of = of PROVE Shown(loc[p].of, ToFlag)'
      BY <1>1, <3>5, SameShown DEF Shown
    <3> QED BY <3>1, <3>2, <3>4, <3>5
  <2>4. ~ReadFlag(p)
    BY <1>0, <1>4, ReadFlagFits DEF Goes
  <2> QED BY <1>4, <2>2, <2>3, <2>4, Arrivals
<1>5. ASSUME NEW p \in Procs, pc'[p] = "rank", ~loc'[p].flag, dense'.of # None
      PROVE  Covers(dense.of, loc[p].since)'
  <2>1. CASE ReadFlag(p)
    <3>1. /\ loc'[p].flag = dense.stale /\ loc[p].kind \in {"dense", "refresh"} /\ loc'[p].since = loc[p].since
          /\ dense' = dense
      BY <1>0, <2>1, ReadFlagFits DEF Goes, ReadFlag
    <3>2. dense.open
      BY <1>0, <2>1, RequestIs DEF ReadFlag, Only, Fits
    <3>3. Shown(dense.of, ToFlag) /\ dense.of \in Versions
      BY <1>0, <1>5, <3>1, <3>2 DEF DenseInv, RequestInv, TypeInv, Globals, TypeOK, Indexes
    <3>4. Covers(dense.of, loc[p].since)
      BY <3>1, <3>3, ShownMeans DEF Asks
    <3> QED BY <3>1, <3>4 DEF Covers
  <2>2. CASE pc'[p] = pc[p] /\ loc'[p] = loc[p]
    <3>0. dense.open /\ Asks(loc[p])
      <4>1. pc[p] = "rank" /\ loc[p] \in Requests /\ pc[p] \in Sections /\ loc[p].kind \in KindOf(pc[p])
        BY <1>0, <1>5, <2>2, RequestIs
      <4>2. loc[p].kind = "dense"
        BY <4>1, KindIn
      <4>3. dense.open
        BY <1>0, <4>1, RequestIs DEF Fits
      <4> QED BY <4>2, <4>3 DEF Asks
    <3>1. CASE dense'.of = dense.of
      BY <1>0, <1>5, <2>2, <3>1 DEF DenseInv, In, Covers
    <3>2. CASE \E q \in Procs : Swap(q) \/ Clear(q)
      <4>1. PICK q \in Procs : Swap(q) \/ Clear(q)
        BY <3>2
      <4>2. CASE Clear(q)
        <5>1. dense'.of = dense.of
          BY <1>0, <4>2, ClearFits DEF RequestInv, TypeInv, Globals, TypeOK
        <5> QED BY <3>1, <5>1
      <4>3. CASE Swap(q)
        <5>1. pc[q] = "swap" /\ pc[q] \in Gathering
          BY <4>3 DEF Swap, Only, Gathering
        <5>2. dense'.of = loc[q].of
          BY <1>0, <4>3, SwapFits DEF RequestInv, TypeInv, Globals, TypeOK
        <5>3. loc[q].of \in Versions /\ Shown(loc[q].of, ToFlag)
          BY <1>0, <5>1, RequestIs DEF Fits, Whole, DenseInv, In
        <5>4. Covers(loc[q].of, loc[p].since)
          BY <3>0, <5>3, ShownMeans
        <5> QED BY <2>2, <5>2, <5>4 DEF Covers
      <4> QED BY <4>1, <4>2, <4>3
    <3>3. CASE dense' = Closed
      BY <1>5, <3>3 DEF Closed
    <3> QED BY <3>0, <3>1, <3>2, <3>3, DenseSteps
  <2>3. ~Load(p)
    BY <1>0, <1>5, LoadFits DEF Goes
  <2> QED BY <1>5, <2>1, <2>2, <2>3, Arrivals
<1> QED BY <1>2, <1>3, <1>4, <1>5 DEF DenseInv, In

LEMMA DenseKeeps ==
  ASSUME Control, KnownInv, Next, DenseInv, StoredInv
  PROVE  DenseInv'
<1> SUFFICES ASSUME raced' \cap {"cold", "during", "untold"} = {} PROVE DenseInv'
  BY DEF DenseInv
<1> QED BY MarkKeeps, MarkClosed, DenseRest, NextControl

\* The index file changes when a rebuild stores what it has read.
LEMMA StoredSteps ==
  ASSUME Control, Next
  PROVE  \/ marker'
         \/ stored' = stored /\ marker' = marker
         \/ \E p \in Procs : pc[p] \in Gathering /\ stored' = loc[p].of
<1>0. RequestInv
  BY DEF Control
<1>1. ASSUME NEW p \in Procs, OwnStep(p)
      PROVE  \/ marker' \/ (stored' = stored /\ marker' = marker)
             \/ pc[p] \in Gathering /\ stored' = loc[p].of
  <2>1. CASE Tell(p)
    BY <2>1 DEF Tell, SkipSweep, Sweep, Find, Apply, Commit, Forget, Mark, MarkFile, Evict, index
  <2>2. CASE Serve(p) /\ ~StartReindex(p)
    BY <2>2 DEF Serve, Look, Build, Read, PublishSearch, PublishSimilar, Load, PublishDense, Refresh,
                ReadFlag, Rank, index
  <2>3. CASE Rebuild(p) /\ ~Unmark(p)
    BY <2>3 DEF Rebuild, Stale, StaleFile, Scan, Read, Store, Swap, Clear, Finish, index, Only, Gathering
  <2>4. CASE Unmark(p)
    BY <2>4 DEF Unmark, Only, Gathering, Control, SwitchInv
  <2>5. CASE EmbedFails(p) \/ Drop(p)
    BY <2>5 DEF EmbedFails, Drop, index
  <2> QED BY <1>1, <2>1, <2>2, <2>3, <2>4, <2>5 DEF OwnStep
<1> QED BY <1>1, NextCases DEF Call, Write, EditOutside, StartReindex, Crash, index

LEMMA StoredKeeps ==
  ASSUME Control, KnownInv, DenseInv, StoredInv, Next
  PROVE  StoredInv'
<1> SUFFICES ASSUME raced' \cap {"cold", "during", "untold"} = {}, ~marker' PROVE Shown(stored, ToFile)'
  BY DEF StoredInv
<1>0. RequestInv /\ raced \cap {"cold", "during", "untold"} = {}
  BY RacesStay DEF Control
<1>1. CASE \E q \in Procs : MarkFile(q) \/ (Mark(q) /\ ~dense.open)
  <2>1. PICK q \in Procs : MarkFile(q) \/ (Mark(q) /\ ~dense.open)
    BY <1>1
  <2>2. ~MarkFile(q)
    BY DEF MarkFile
  <2>3. stored = None /\ stored' = stored
    BY <2>1, <2>2 DEF Mark, index
  <2> QED BY <2>3, NothingRead DEF Shown
<1>2. CASE \A q \in Procs : ~MarkFile(q) /\ ~(Mark(q) /\ ~dense.open)
  <2>1. \A n \in Notes : \A v \in Nat : Keeps(n, v, ToFile)
    BY <1>2, FileWaits, ShowsStays DEF ToFile, ToFlag, ToForget
  <2>2. ASSUME NEW of \in Parts, Shown(of, ToFile), stored' = of PROVE Shown(stored, ToFile)'
    BY <2>1, <2>2, SameShown DEF Shown
  <2>3. CASE stored' = stored /\ marker' = marker
    <3>1. Shown(stored, ToFile) /\ stored \in Parts
      BY <1>0, <2>3, EnginesAre DEF StoredInv
    <3> QED BY <2>2, <2>3, <3>1
  <2>4. CASE \E p \in Procs : pc[p] \in Gathering /\ stored' = loc[p].of
    <3>1. PICK p \in Procs : pc[p] \in Gathering /\ stored' = loc[p].of
      BY <2>4
    <3>2. Shown(loc[p].of, ToFlag) /\ loc[p].of \in Parts
      BY <1>0, <3>1, RequestIs DEF DenseInv, In, Requests
    <3>3. Shown(loc[p].of, ToFile)
      BY <3>2 DEF Shown, Shows, Waits, ToFile
    <3> QED BY <2>2, <3>1, <3>2, <3>3
  <2> QED BY <2>3, <2>4, StoredSteps
<1> QED BY <1>1, <1>2

-----------------------------------------------------------------------------
(* The full-text engine.                                                   *)

LEMMA TellersStay ==
  ASSUME Control, Next, NEW q \in Procs, NEW n \in Notes, Teller(q, n), "untold" \notin raced',
         search'.id = search.id \/ pc[q] = "find",
         ~(Find(q) /\ search = NoEngine), ~(Apply(q) /\ Contended(q)), ~Commit(q)
  PROVE  Teller(q, n)'
<1>0. RequestInv
  BY DEF Control
<1>1. pc[q] \in {"find", "apply", "commit"} /\ n \in loc[q].notes
  BY DEF Teller
<1>2. (pc'[q] = pc[q] /\ loc'[q] = loc[q]) \/ Find(q) \/ Apply(q)
  <2>1. ~Forget(q) /\ ~Evict(q) /\ ~Mark(q) /\ ~MarkFile(q)
    BY <1>1 DEF Forget, Evict, Mark, MarkFile, Only
  <2> QED BY <1>1, <2>1, TellerSteps DEF Telling
<1>3. CASE pc'[q] = pc[q] /\ loc'[q] = loc[q]
  BY <1>3 DEF Teller
<1>4. CASE Find(q)
  <2>1. search' = search /\ Goes(q, "apply", loc[q].kind) /\ loc'[q].told = search.id
    BY <1>0, <1>4, FindFits DEF Find, lazy
  <2> QED BY <1>1, <2>1 DEF Goes, Teller
<1>5. CASE Apply(q)
  <2>1. pc[q] = "apply" /\ Goes(q, "commit", loc[q].kind) /\ loc'[q].told = loc[q].told
    BY <1>0, <1>5, ApplyFits DEF Apply, Only
  <2> QED BY <1>1, <2>1 DEF Goes, Teller
<1> QED BY <1>2, <1>3, <1>4, <1>5

LEMMA FoundStep ==
  ASSUME Control, Next, NEW n \in Notes, NEW v \in Nat, Found(n, v), "untold" \notin raced',
         \A q \in Procs : Teller(q, n) => Teller(q, n)'
  PROVE  Found(n, v)'
<1>1. (\E q \in Procs : Teller(q, n)) => Pending(n)
  BY DEF Teller, Pending
<1>2. Ahead(n, v)'
  BY <1>1, AheadStep DEF Found
<1>3. Waits(n, {"find"})' => \E q \in Procs : Teller(q, n)'
  BY DEF Waits, Teller
<1>4. known'[n] = known[n] \/ \E q \in Procs : Teller(q, n)'
  BY <1>3, KnownStep
<1> QED BY <1>2, <1>4 DEF Found

\* The same of a note that p has read, and writes into the engine next.
LEMMA RereadStep ==
  ASSUME Control, Next, NEW p \in Procs, pc'[p] # "find", NEW n \in Notes, NEW v \in Nat, Reread(p, n, v),
         "untold" \notin raced', \A q \in Procs : Teller(q, n) => Teller(q, n)'
  PROVE  Reread(p, n, v)'
<1>1. (\E q \in Procs : Teller(q, n)) => Pending(n)
  BY DEF Teller, Pending
<1>2. Ahead(n, v)'
  BY <1>1, AheadStep DEF Reread
<1>3. Waits(n, {"find"})' => \E q \in Procs \ {p} : Teller(q, n)'
  BY DEF Waits, Teller
<1>4. known'[n] = known[n] \/ \E q \in Procs \ {p} : Teller(q, n)'
  BY <1>3, KnownStep
<1> QED BY <1>2, <1>4 DEF Reread

LEMMA SameFresh ==
  ASSUME NEW of \in Parts, Fresh(of), \A n \in Notes : \A v \in Nat : Found(n, v) => Found(n, v)'
  PROVE  Fresh(of)'
BY PartsAre DEF Fresh

LEMMA ReadFresh ==
  ASSUME Control, KnownInv, Next, NEW p \in Procs, ReadsOn(p) \/ ReadsFirst(p),
         \A n \in Notes : \A v \in Nat : Found(n, v) => Found(n, v)',
         ReadsOn(p) => Fresh(loc[p].of)
  PROVE  Fresh(loc[p].of)'
<1>0. loc[p].of \in Parts
  BY RequestIs DEF Control, Requests
<1>1. CASE loc'[p].of = None
  BY <1>1, NothingRead DEF Fresh
<1>2. CASE ReadsOn(p) /\ loc'[p].of = loc[p].of
  <2>1. ASSUME NEW of \in Parts, Fresh(of), loc'[p].of = of PROVE Fresh(loc[p].of)'
    BY <2>1, SameFresh DEF Fresh
  <2> QED BY <1>0, <1>2, <2>1
<1>3. CASE /\ ReadsOn(p)
           /\ \E n \in Notes : loc'[p].of = [m \in DOMAIN loc[p].of \cup {n} |->
                                               IF m = n THEN disk[n] ELSE loc[p].of[m]]
  <2>1. PICK n \in Notes : loc'[p].of = [m \in DOMAIN loc[p].of \cup {n} |->
                                           IF m = n THEN disk[n] ELSE loc[p].of[m]]
    BY <1>3
  <2>2. disk[n] \in Nat /\ Found(n, disk[n])
    BY DiskShows DEF Found
  <2>3. ASSUME NEW m \in DOMAIN loc'[p].of, NEW v, v = loc'[p].of[m] PROVE Found(m, v)'
    <3>1. m \in DOMAIN loc[p].of \cup {n} /\ v = IF m = n THEN disk[n] ELSE loc[p].of[m]
      BY <2>1, <2>3
    <3>2. m \in Notes /\ v \in Nat /\ Found(m, v)
      BY <1>0, <1>3, <2>2, <3>1, PartsAre DEF Fresh
    <3> QED BY <3>2
  <2> QED BY <2>3 DEF Fresh
<1> QED BY <1>1, <1>2, <1>3 DEF ReadsOn, ReadsFirst

\* Without an engine, and without anybody who builds one, there is nothing to show.
Unbuilt == \A p \in Procs : ~(Builder(p) /\ loc[p].kind = "search")
LEMMA NothingShown ==
  ASSUME search' = NoEngine, Unbuilt', ToldInv'
  PROVE  SearchInv'
<1>1. Fresh(search.of)'
  BY NothingRead DEF Fresh, NoEngine
<1>2. \A p \in Procs : pc'[p] = "commit" => loc'[p].told # search'.id
  BY DEF ToldInv, NoEngine
<1> QED BY <1>1, <1>2 DEF SearchInv, Unbuilt, Builder, In

\* The engine is dropped, or a note is told to none: who builds is recorded.
Drops(q) == Evict(q) \/ (Apply(q) /\ Contended(q)) \/ (Find(q) /\ search = NoEngine)
LEMMA DropShowsNothing ==
  ASSUME Control, Control', NEW q \in Procs, Drops(q), "build" \notin raced'
  PROVE  SearchInv'
<1>0. RequestInv
  BY DEF Control
<1>1. search' = NoEngine /\ Built("search") = {}
  BY DEF Drops, Evict, Apply, Contended, Find, Built, lazy
<1>2. Others(q) /\ pc'[q] \in {"flag", "forget"}
  BY <1>0, EvictFits, ApplyFits, FindFits DEF Drops, Goes
<1>3. Unbuilt
  BY <1>1 DEF Built, Unbuilt, Builder, In
<1>4. Unbuilt'
  BY <1>2, <1>3 DEF Unbuilt, Others, Builder
<1> QED BY <1>1, <1>4, NothingShown DEF Control

LEMMA CrashShowsNothing == ASSUME Control', Crash PROVE SearchInv'
<1>1. search' = NoEngine /\ \A p \in Procs : pc'[p] = "idle"
  BY DEF Crash
<1> QED BY <1>1, NothingShown DEF Control, Unbuilt, Builder

\* A commit: the notes it has read, the other notes as they were.
LEMMA CommitShows ==
  ASSUME Control, Control', Next, SearchInv, NEW q \in Procs, Commit(q), loc[q].told = search.id,
         raced' \cap {"build", "untold"} = {}
  PROVE  SearchInv'
<1>0. RequestInv /\ raced \cap {"build", "untold"} = {} /\ pc[q] = "commit"
  BY RacesStay DEF Control, Commit, Only
<1>1. /\ Goes(q, "forget", loc[q].kind) /\ search # NoEngine
      /\ search'.id = search.id /\ search'.of = Committed(q)
  BY <1>0, CommitFits, CommittersTell
<1>2. known' = known
  BY DEF Commit, vault
<1>3. ASSUME NEW p \in Procs \ {q}, NEW n \in Notes, Teller(p, n) PROVE Teller(p, n)'
  BY <1>1, <1>3 DEF Goes, Others, Teller
<1>4. ASSUME NEW n \in Notes, NEW v \in Nat, Reread(q, n, v) PROVE Found(n, v)'
  <2>1. (\E p \in Procs \ {q} : Teller(p, n)) => Pending(n)
    BY DEF Teller, Pending
  <2>2. Ahead(n, v)'
    BY <1>4, <2>1, AheadStep DEF Reread
  <2> QED BY <1>2, <1>3, <1>4, <2>2 DEF Reread, Found
<1>5. search.of \in Versions /\ loc[q].of \in Versions
  BY <1>0, <1>1, RequestIs DEF Fits, Whole, RequestInv, TypeInv, Globals, Engines
<1>6. ASSUME NEW n \in Notes, NEW v, v = Committed(q)[n] PROVE Found(n, v)'
  <2>1. CASE n \in loc[q].notes
    <3>1. v = loc[q].of[n] /\ v \in Nat
      BY <1>5, <1>6, <2>1 DEF Committed, Versions
    <3>2. Reread(q, n, loc[q].of[n])
      BY <1>0, <2>1 DEF SearchInv, In
    <3> QED BY <1>4, <3>1, <3>2
  <2>2. CASE n \notin loc[q].notes
    <3>1. v = search.of[n] /\ v \in Nat
      BY <1>5, <1>6, <2>2 DEF Committed, Versions
    <3>2. Found(n, v)
      BY <1>0, <1>5, <3>1, WholeIsPart DEF SearchInv, Fresh
    <3>3. Reread(q, n, v)
      BY <2>2, <3>2 DEF Found, Reread, Teller
    <3> QED BY <1>4, <3>1, <3>3
  <2> QED BY <2>1, <2>2
<1>7. Fresh(search.of)'
  BY <1>1, <1>6 DEF Fresh, Committed
<1>8. search' # NoEngine
  <2>1. search.id \in Nat \ {0}
    <3>1. loc[q].told > 0 /\ loc[q].told \in Nat
      BY <1>0, CommittersTell, RequestIs, ViewsAssumption DEF Requests
    <3> QED BY <3>1
  <2> QED BY <1>1, <2>1 DEF NoEngine
<1>9. ASSUME NEW p \in Procs, pc'[p] = "commit", loc'[p].told = search'.id PROVE FALSE
  <2>1. p # q /\ pc[p] = "commit" /\ loc[p].told = loc[q].told
    BY <1>1, <1>9 DEF Goes, Others
  <2> QED BY <1>0, <2>1 DEF Control, ToldInv
<1> QED BY <1>7, <1>8, <1>9 DEF SearchInv, In

\* The first to publish.
LEMMA PublishShows ==
  ASSUME Control, Control', Next, SearchInv, NEW q \in Procs, PublishSearch(q), search = NoEngine,
         raced' \cap {"build", "untold"} = {}
  PROVE  SearchInv'
<1>0. RequestInv /\ raced \cap {"build", "untold"} = {} /\ loc[q].id > 0
  BY RacesStay, PublishersHaveIds DEF Control
<1>1. Ends(q) /\ search'.id = loc[q].id /\ search'.of = loc[q].of
  BY <1>0, PublishSearchFits
<1>2. Fresh(loc[q].of) /\ loc[q].of \in Parts /\ loc[q].id \in Nat
  BY <1>0, RequestIs, ViewsAssumption DEF SearchInv, In, PublishSearch, Only, Requests
<1>3. \A p \in Procs : \A n \in Notes : Teller(p, n) => pc[p] = "find" /\ n \in loc[p].notes
  <2>1. \A p \in Procs : pc[p] \in {"apply", "commit"} => loc[p].told # search.id
    BY DEF Control, ToldInv, NoEngine
  <2> QED BY <2>1 DEF Teller
<1>4. ASSUME NEW p \in Procs, NEW n \in Notes, Teller(p, n) PROVE Teller(p, n)'
  <2>1. pc[p] = "find" /\ p # q
    BY <1>3, <1>4 DEF PublishSearch, Only
  <2> QED BY <1>1, <1>3, <1>4, <2>1 DEF Ends, Others, Teller
<1>5. \A n \in Notes : \A v \in Nat : Found(n, v) => Found(n, v)'
  BY <1>4, FoundStep
<1>6. Fresh(search.of)'
  <2>1. ASSUME NEW of \in Parts, Fresh(of), search'.of = of PROVE Fresh(search.of)'
    BY <1>5, <2>1, SameFresh DEF Fresh
  <2> QED BY <1>1, <1>2, <2>1
<1>7. search' # NoEngine
  BY <1>0, <1>1, <1>2 DEF NoEngine
<1>8. ASSUME NEW p \in Procs, pc'[p] = "commit", loc'[p].told = search'.id PROVE FALSE
  <2>1. pc[p] = "commit" /\ loc[p].told = loc[q].id
    BY <1>1, <1>8 DEF Ends, Others
  <2> QED BY <2>1 DEF Control, ToldInv
<1> QED BY <1>6, <1>7, <1>8 DEF SearchInv, In

\* Who comes to commit has read the vault.
LEMMA Committers ==
  ASSUME Control, Next, NEW p \in Procs, pc'[p] = "commit"
  PROVE  \/ pc'[p] = pc[p] /\ loc'[p] = loc[p]
         \/ /\ Apply(p) /\ ~Contended(p) /\ loc'[p].of = disk /\ loc'[p].notes = loc[p].notes
            /\ known' = known
<1>0. RequestInv
  BY DEF Control
<1>1. CASE pc[p] = "idle"
  BY <1>1, IdleSteps
<1>2. CASE OwnStep(p)
  <2>1. Find(p) \/ Apply(p)
    BY <1>2, OwnAbides
  <2>2. Apply(p)
    BY <1>0, <2>1, FindFits DEF Goes
  <2> QED BY <1>0, <2>2, ApplyFits DEF Goes, Apply, vault
<1>3. ~StartReindex(p) /\ ~Crash
  <2>1. ASSUME StartReindex(p) PROVE pc'[p] = "idle"
    BY <1>0, <2>1, StartFits DEF Ends
  <2> QED BY <2>1 DEF Crash
<1> QED BY <1>1, <1>2, <1>3, OthersStay

LEMMA SearchSteps ==
  ASSUME Next, ~Crash
  PROVE  \/ search' = search
         \/ \E q \in Procs : \/ Drops(q)
                             \/ Commit(q) /\ loc[q].told = search.id
                             \/ PublishSearch(q) /\ search = NoEngine
<1>1. ASSUME NEW p \in Procs, OwnStep(p)
      PROVE  search' = search \/ Drops(p) \/ (Commit(p) /\ loc[p].told = search.id)
             \/ (PublishSearch(p) /\ search = NoEngine)
  <2>1. CASE Tell(p)
    <3>1. CASE Apply(p) \/ Commit(p) \/ Evict(p)
      BY <3>1 DEF Apply, Contended, Commit, Drops
    <3> QED BY <2>1, <3>1 DEF Tell, SkipSweep, Sweep, Find, Forget, Mark, MarkFile, lazy
  <2>2. CASE Serve(p) /\ ~StartReindex(p)
    BY <2>2 DEF Serve, Look, Build, Read, PublishSearch, PublishSimilar, Load, PublishDense, Refresh,
                ReadFlag, Rank, lazy
  <2>3. CASE Rebuild(p)
    BY <2>3 DEF Rebuild, Stale, StaleFile, Scan, Read, Store, Unmark, Swap, Clear, Finish, lazy
  <2>4. CASE EmbedFails(p) \/ Drop(p)
    BY <2>4 DEF EmbedFails, Drop, lazy
  <2> QED BY <1>1, <2>1, <2>2, <2>3, <2>4 DEF OwnStep
<1> QED BY <1>1, NextCases DEF Call, Write, EditOutside, StartReindex, lazy

LEMMA SearchRest ==
  ASSUME Control, KnownInv, Next, SearchInv, raced' \cap {"build", "untold"} = {}, search' = search,
         \A q \in Procs : ~Drops(q) /\ ~(Commit(q) /\ loc[q].told = search.id)
  PROVE  SearchInv'
<1>0. RequestInv /\ raced \cap {"build", "untold"} = {}
  BY RacesStay DEF Control
<1>1. ASSUME NEW q \in Procs, NEW n \in Notes, Teller(q, n) PROVE Teller(q, n)'
  <2>1. ~Commit(q)
    BY <1>1 DEF Commit, Only, Teller
  <2> QED BY <1>1, <2>1, TellersStay DEF Drops
<1>2. \A n \in Notes : \A v \in Nat : Found(n, v) => Found(n, v)'
  BY <1>1, FoundStep
<1>3. Fresh(search.of)'
  <2>1. ASSUME NEW of \in Parts, Fresh(of), search'.of = of PROVE Fresh(search.of)'
    BY <1>2, <2>1, SameFresh DEF Fresh
  <2> QED BY <1>0, <2>1, EnginesAre DEF SearchInv
<1>4. ASSUME search' = NoEngine, NEW p \in Procs, (Builder(p) /\ loc[p].kind = "search")'
      PROVE  Fresh(loc[p].of)'
  <2>1. ReadsOn(p) \/ ReadsFirst(p)
    BY <1>4, ReaderSteps DEF Reading
  <2>2. ReadsOn(p) => Fresh(loc[p].of)
    BY <1>0, <1>4 DEF ReadsOn, SearchInv, In, Builder
  <2> QED BY <1>2, <2>1, <2>2, ReadFresh
<1>5. ASSUME NEW p \in Procs, pc'[p] = "commit", loc'[p].told = search'.id, NEW n \in loc'[p].notes
      PROVE  Reread(p, n, loc[p].of[n])'
  <2>0. n \in Notes /\ loc'[p].of \in Versions
    BY <1>5, NextControl DEF Control, RequestInv, TypeInv, Requests, Fits, Whole
  <2>1. ASSUME NEW v \in Nat, loc'[p].of[n] = v, Reread(p, n, v) PROVE Reread(p, n, loc[p].of[n])'
    <3>1. Reread(p, n, v)'
      BY <1>1, <1>5, <2>0, <2>1, RereadStep
    <3> QED BY <2>1, <3>1 DEF Reread, Ahead
  <2>2. CASE pc'[p] = pc[p] /\ loc'[p] = loc[p]
    <3>1. Reread(p, n, loc[p].of[n]) /\ loc[p].of[n] \in Nat
      BY <1>0, <1>5, <2>0, <2>2 DEF SearchInv, In, Versions
    <3> QED BY <2>1, <2>2, <3>1
  <2>3. CASE loc'[p].of = disk
    <3>1. disk[n] \in Nat /\ Reread(p, n, disk[n])
      BY <2>0, DiskShows DEF Reread
    <3> QED BY <2>1, <2>3, <3>1
  <2> QED BY <1>5, <2>2, <2>3, Committers
<1> QED BY <1>3, <1>4, <1>5 DEF SearchInv, In, Builder

LEMMA SearchKeeps ==
  ASSUME Control, KnownInv, SearchInv, Next
  PROVE  SearchInv'
<1> SUFFICES ASSUME raced' \cap {"build", "untold"} = {} PROVE SearchInv'
  BY DEF SearchInv
<1>1. Control'
  BY NextControl
<1>2. CASE \E q \in Procs : Drops(q)
  BY <1>1, <1>2, DropShowsNothing
<1>3. CASE \E q \in Procs : Commit(q) /\ loc[q].told = search.id
  BY <1>1, <1>3, CommitShows
<1> QED BY <1>1, <1>2, <1>3, CrashShowsNothing, PublishShows, SearchRest, SearchSteps

-----------------------------------------------------------------------------
(* The answers.                                                            *)

LEMMA FreshMeans ==
  ASSUME NEW of \in Versions, Fresh(of), NEW p \in Procs, Asks(loc[p])
  PROVE  Covers(of, loc[p].since)
BY WholeIsPart DEF Fresh, Found, Ahead, Covers

\* A step answers from what its request is entitled to, or not at all.
AnswersFrom(p, of) ==
  /\ raced' = raced
  /\ answer'.kind = loc[p].kind /\ answer'.since = loc[p].since /\ answer'.flag = loc[p].flag
  /\ answer'.of = of

LEMMA AnswerIs ==
  ASSUME RequestInv, NEW p \in Procs, NEW of, Answer(p, of), raced' = raced
  PROVE  AnswersFrom(p, of)
<1>1. loc[p] \in Requests
  BY RequestIs
<1> QED BY <1>1 DEF Answer, AnswersFrom, Requests

Entitled(p, of) ==
  \/ loc[p].kind = "search" /\ search # NoEngine /\ of = search.of
  \/ loc[p].kind = "similar" /\ similar # NoEngine /\ of = similar.of
  \/ Builder(p) /\ loc[p].of = of /\ of \in Versions /\ (loc[p].kind = "search" => search = NoEngine)
  \/ pc[p] = "rank" /\ dense.of # None /\ of = dense.of

LEMMA AnswerSteps ==
  ASSUME Control, Next
  PROVE  answer' = Blank \/ \E p \in Procs : \E of \in Indexes : Entitled(p, of) /\ AnswersFrom(p, of)
<1>0. /\ RequestInv
      /\ search.of \in Indexes /\ similar.of \in Indexes /\ dense.of \in Indexes
  BY DEF Control, RequestInv, TypeInv, Globals, TypeOK
<1>1. ASSUME NEW p \in Procs, OwnStep(p)
      PROVE  answer' = Blank \/ \E of \in Indexes : Entitled(p, of) /\ AnswersFrom(p, of)
  <2>1. CASE Tell(p)
    <3>1. CASE Mark(p) \/ MarkFile(p)
      BY <3>1 DEF Mark, MarkFile, Told, Return, PastGate, Go
    <3> QED BY <2>1, <3>1 DEF Tell, SkipSweep, Sweep, Find, Apply, Commit, Forget, Evict, PastGate, Go
  <2>2. CASE Look(p)
    <3>1. raced' = raced
      BY <2>2 DEF Look
    <3> QED BY <1>0, <2>2, <3>1, LookFits, AnswerIs DEF Entitled
  <2>3. CASE PublishSearch(p) \/ PublishSimilar(p)
    <3>1. /\ raced' = raced /\ loc[p].of \in Versions
          /\ Builder(p) /\ (PublishSearch(p) => loc[p].kind = "search") /\ (PublishSimilar(p) => loc[p].kind = "similar")
      BY <1>0, <2>3, RequestIs DEF PublishSearch, PublishSimilar, Only, Fits, Whole, Builder
    <3>2. loc[p].of \in Indexes
      BY <3>1, WholeIsPart
    <3> QED BY <1>0, <2>3, <3>1, <3>2, PublishersHaveIds, PublishSearchFits, PublishSimilarFits, AnswerIs DEF Entitled
  <2>4. CASE Rank(p)
    <3>1. raced' = raced /\ pc[p] = "rank"
      BY <2>4 DEF Rank, Only
    <3> QED BY <1>0, <2>4, <3>1, RankFits, AnswerIs DEF Entitled
  <2>5. CASE Build(p) \/ Load(p) \/ PublishDense(p) \/ Refresh(p) \/ ReadFlag(p)
    BY <2>5 DEF Build, Read, Load, PublishDense, Refresh, ReadFlag, Go
  <2>6. CASE Rebuild(p)
    BY <2>6 DEF Rebuild, Stale, StaleFile, Scan, Read, Store, Unmark, Swap, Clear, Finish, Return, Go
  <2>7. CASE EmbedFails(p) \/ Drop(p)
    BY <2>7 DEF EmbedFails, Drop, Return, Go
  <2> QED BY <1>1, <2>1, <2>2, <2>3, <2>4, <2>5, <2>6, <2>7 DEF OwnStep, Serve
<1>2. ASSUME NEW p \in Procs, StartReindex(p) PROVE answer' = Blank
  BY <1>2 DEF StartReindex, Return, Go
<1> QED BY <1>1, <1>2, NextCases DEF Call, Write, EditOutside, Crash, Go

LEMMA AnswersKeep ==
  ASSUME Control, SimilarInv, SearchInv, DenseInv, Next
  PROVE  AnswersAreFresh'
<1>0. RequestInv
  BY DEF Control
<1>1. CASE answer' = Blank
  BY <1>1, BlankIs DEF AnswersAreFresh, SearchesAreFresh, DenseAnswersAreHonest
<1>2. ASSUME NEW p \in Procs, NEW of \in Indexes, Entitled(p, of), AnswersFrom(p, of)
      PROVE  AnswersAreFresh'
  <2>0. loc[p].kind \in {"search", "similar", "dense"} => Asks(loc[p])
    BY DEF Asks
  <2>1. CASE loc[p].kind = "search" /\ raced \cap {"build", "untold"} = {}
    <3>1. Fresh(of) /\ of \in Versions
      <4>1. CASE search # NoEngine /\ of = search.of
        BY <1>0, <2>1, <4>1 DEF SearchInv, RequestInv, TypeInv, Globals, Engines
      <4>2. CASE Builder(p) /\ search = NoEngine /\ of = loc[p].of /\ of \in Versions
        BY <2>1, <4>2 DEF SearchInv, Builder, In
      <4>3. pc[p] # "rank"
        BY <1>0, <2>1, RequestIs, KindIn
      <4> QED BY <1>2, <2>1, <4>1, <4>2, <4>3 DEF Entitled
    <3>2. Covers(of, loc[p].since)
      BY <2>0, <2>1, <3>1, FreshMeans
    <3> QED BY <1>2, <2>1, <3>2 DEF AnswersFrom, AnswersAreFresh, SearchesAreFresh, DenseAnswersAreHonest, Covers
  <2>2. CASE loc[p].kind = "similar" /\ raced \cap {"build", "untold"} = {}
    <3>1. Shown(of, ToForget) /\ of \in Versions
      <4>1. CASE similar # NoEngine /\ of = similar.of
        BY <1>0, <2>2, <4>1 DEF SimilarInv, RequestInv, TypeInv, Globals, Engines
      <4>2. CASE Builder(p) /\ of = loc[p].of /\ of \in Versions
        BY <2>2, <4>2 DEF SimilarInv, Builder, In
      <4>3. pc[p] # "rank"
        BY <1>0, <2>2, RequestIs, KindIn
      <4> QED BY <1>2, <2>2, <4>1, <4>2, <4>3 DEF Entitled
    <3>2. Covers(of, loc[p].since)
      BY <2>0, <2>2, <3>1, ShownMeans
    <3> QED BY <1>2, <2>2, <3>2 DEF AnswersFrom, AnswersAreFresh, SearchesAreFresh, DenseAnswersAreHonest, Covers
  <2>3. CASE loc[p].kind = "dense" /\ raced \cap {"cold", "during", "untold"} = {}
    <3>1. pc[p] = "rank" /\ dense.of # None /\ of = dense.of
      BY <1>2, <2>3 DEF Entitled, Builder
    <3>2. loc[p].flag \/ Covers(of, loc[p].since)
      BY <2>3, <3>1 DEF DenseInv, In
    <3> QED BY <1>2, <2>3, <3>2 DEF AnswersFrom, AnswersAreFresh, SearchesAreFresh, DenseAnswersAreHonest, Covers
  <2> QED BY <1>2, <2>1, <2>2, <2>3 DEF AnswersFrom, AnswersAreFresh, SearchesAreFresh, DenseAnswersAreHonest
<1> QED BY <1>1, <1>2, AnswerSteps

-----------------------------------------------------------------------------
(* The invariant, and what it says.                                        *)

LEMMA InitIndInv == Init => IndInv
<1> SUFFICES ASSUME Init PROVE IndInv
  OBVIOUS
<1>1. Control
  BY InitControl
<1>2. /\ \A p \in Procs : pc[p] = "idle" /\ loc[p] = Blank
      /\ ~Asks(Blank) /\ answer.kind = ""
      /\ search.of = None /\ similar.of = None /\ ~dense.open
  BY BlankIs DEF Init, Asks, NoEngine, Closed
<1>3. KnownInv /\ SimilarInv /\ SearchInv /\ DenseInv
  BY <1>2, NothingRead DEF KnownInv, Ahead, SimilarInv, SearchInv, DenseInv, Shown, Fresh, In, Gathering
<1>4. StoredInv
  <2>1. \A n \in Notes : Shows(n, disk[n], ToFile)
    BY <1>1, <1>2, DiskShows, <1>3 DEF Shows
  <2>2. DOMAIN disk = Notes
    BY DEF Init
  <2> QED BY <2>1, <2>2, NothingRead DEF Init, StoredInv, Shown
<1>5. AnswersAreFresh
  BY <1>2 DEF AnswersAreFresh, SearchesAreFresh, DenseAnswersAreHonest
<1> QED BY <1>1, <1>3, <1>4, <1>5 DEF IndInv

LEMMA NextIndInv == IndInv /\ [Next]_vars => IndInv'
<1> SUFFICES ASSUME IndInv, [Next]_vars PROVE IndInv'
  OBVIOUS
<1>1. Control'
  BY NextControl DEF IndInv
<1>2. CASE Next
  BY <1>1, <1>2, KnownKeeps, SimilarKeeps, SearchKeeps, DenseKeeps, StoredKeeps, AnswersKeep DEF IndInv
<1>3. CASE UNCHANGED vars
  <2>1. /\ disk' = disk /\ known' = known /\ search' = search /\ similar' = similar /\ dense' = dense
        /\ stored' = stored /\ marker' = marker /\ pc' = pc /\ loc' = loc /\ answer' = answer /\ raced' = raced
    BY <1>3 DEF vars, vault, lazy, index
  <2>2. KnownInv' /\ SimilarInv'
    BY <2>1 DEF IndInv, KnownInv, SimilarInv, Shown, Shows, Waits, Ahead, In
  <2>3. SearchInv'
    BY <2>1 DEF IndInv, SearchInv, Fresh, Found, Reread, Teller, Ahead, In
  <2>4. DenseInv' /\ StoredInv'
    BY <2>1 DEF IndInv, DenseInv, StoredInv, Shown, Shows, Waits, Ahead, In, Covers
  <2>5. AnswersAreFresh'
    BY <2>1 DEF IndInv, AnswersAreFresh, SearchesAreFresh, DenseAnswersAreHonest, Covers
  <2> QED BY <1>1, <2>2, <2>3, <2>4, <2>5 DEF IndInv
<1> QED BY <1>2, <1>3

\* All that the proofs know of the engines, in every state of every behaviour.
THEOREM ViewsInvariant == Spec => []IndInv
BY InitIndInv, NextIndInv, PTL DEF Spec

\* The types hold, and the switch that keeps other rebuilds out (reindex_running)
\* is on only while there is a rebuild, unless its request has been dropped: every
\* end of reindex(), and every failure in it, turns it off.
THEOREM FlagsStaySound == Spec => []FlagsAreSound
<1>1. IndInv => FlagsAreSound
  <2> SUFFICES ASSUME IndInv PROVE FlagsAreSound
    OBVIOUS
  <2>1. TypeOK
    BY DEF IndInv, Control, RequestInv, TypeInv, Globals
  <2>2. dense.running => Rebuilding \/ "stuck" \in raced
    BY DEF IndInv, Control, SwitchInv, Busy, Rebuilding
  <2> QED BY <2>1, <2>2 DEF FlagsAreSound, RebuildsEnd
<1> QED BY <1>1, ViewsInvariant, PTL

\* No two processes are inside of a rebuild.
OneRebuild == \A p, q \in Procs : pc[p] \in Rebuilders /\ pc[q] \in Rebuilders => p = q

\* start_reindex, a search that refreshes, and their failures never let two
\* rebuilds run at once: what one has read, another cannot overwrite.
THEOREM RebuildsAreAlone == Spec => []OneRebuild
<1>1. IndInv => OneRebuild
  BY RebuildersAreBusy DEF IndInv, Control, SwitchInv, OneRebuild
<1> QED BY <1>1, ViewsInvariant, PTL

\* A search of any of the three engines shows every change the server had
\* finished telling when it began, or says that its index is stale, for any
\* number of clients and notes, unless one of the races the property names struck.
THEOREM SearchesStayFresh == Spec => []AnswersAreFresh
<1>1. IndInv => AnswersAreFresh
  BY DEF IndInv
<1> QED BY <1>1, ViewsInvariant, PTL

\* The index file on disk is current or marked, whenever the server dies.
THEOREM RestartsKnow == Spec => []StalenessSurvives
<1>1. IndInv => StalenessSurvives
  <2> SUFFICES ASSUME IndInv, raced \cap {"cold", "during", "untold"} = {}, stored # None, ~marker
               PROVE  Covers(stored, Settled)
    BY DEF StalenessSurvives
  <2>1. stored \in Versions /\ Shown(stored, ToFile) /\ known \in Versions
    BY DEF IndInv, StoredInv, Control, RequestInv, TypeInv, Globals, TypeOK, Indexes
  <2>2. ASSUME NEW n \in Notes PROVE stored[n] >= Settled[n]
    <3>1. stored[n] \in Nat /\ (stored[n] >= known[n] \/ Waits(n, ToFile))
      BY <2>1, WholeIsPart DEF Shown, Shows, Versions
    <3>2. Settled[n] = IF Pending(n) THEN 0 ELSE known[n]
      BY DEF Settled, Pending
    <3> QED BY <3>1, <3>2, WaitsPends
  <2> QED BY <2>2 DEF Covers
<1> QED BY <1>1, ViewsInvariant, PTL
=============================================================================

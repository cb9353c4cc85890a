-------------------------- MODULE VaultToolsProofs --------------------------
(***************************************************************************)
(* What the tools that change notes keep, whatever the clients do.  The    *)
(* invariant is about the plan a call has built so far: every change in it *)
(* is one of a note, every path a change touches is Covered (its guard     *)
(* says what was read of it, or that nothing is there, or the caller gave  *)
(* leave to write over anything), and the operations' spans follow one     *)
(* another up to the last change.  Each operation adds changes that are    *)
(* covered (Folded); when the guards hold at last, what is covered may go  *)
(* (NothingLost), and the spans are what the report is made of (SpansLand).*)
(***************************************************************************)
EXTENDS VaultTools, FiniteSetTheorems, SequenceTheorems, TLAPS

Places == {"idle", "plan", "bare", "find", "linkers", "index", "reply"}

NoteOrNone(n) == n = Absent \/ IsNote(n)

IsTree(tree) ==
  /\ tree = [p \in Paths |-> tree[p]]
  /\ \A p \in Paths : NoteOrNone(tree[p])

IsSeq(s) == s \in Seq({s[i] : i \in DOMAIN s})

Fields == {"call", "id", "seen", "todo", "linkers", "source", "sure", "plan", "ends", "read", "landed", "reply"}
IsRecord(l) == l = [x \in Fields |-> l[x]]

IsChange(ch) ==
  /\ ch.op \in {"upsert", "remove", "rename"}
  /\ ch.op = "upsert" => NoteOrNone(ch.content)
  /\ ch.op = "rename" => ch.from \in Paths
  /\ TouchedBy(ch) \subseteq Paths

\* What is at a path may go: nothing is, or it may be anything, or it was read.
Covered(read, pre, p) ==
  \/ Expect(p, "absent") \in pre
  \/ 0 .. MaxCalls \subseteq read[p]
  \/ \E x \in pre : x.path = p /\ x.kind = "blob" /\ x.blob.text \subseteq read[p]

CoversAll(changes, pre, read) ==
  \A k \in DOMAIN changes : IsChange(changes[k]) /\ \A p \in TouchedBy(changes[k]) : Covered(read, pre, p)

Start(ends, i) == IF i = 1 THEN 0 ELSE ends[i - 1]

\* The operations' spans follow one another and leave no change out.
InSpans(ends, n) ==
  /\ ends \in Seq(0 .. n)
  /\ \A i, j \in DOMAIN ends : i < j => ends[i] <= ends[j]
  /\ \A k \in 1 .. n : \E i \in DOMAIN ends : Start(ends, i) < k /\ k <= ends[i]

OpsOf(l) == {l.call.ops[i] : i \in DOMAIN l.call.ops}

Asked(l) ==
  /\ l.call \in Calls
  /\ l.id \in 0 .. MaxCalls
  /\ IsTree(l.seen)
  /\ \A o \in OpsOf(l) : o.guarded => IsNote(l.seen[o.path])
  /\ l.todo \in Seq(OpsOf(l))
  /\ Len(l.ends) + Len(l.todo) = Len(l.call.ops)

Planning(l) ==
  /\ l.plan = [changes |-> l.plan.changes, pre |-> l.plan.pre]
  /\ IsSeq(l.plan.changes)
  /\ ~Duplicated(l.plan)
  /\ CoversAll(l.plan.changes, l.plan.pre, l.read)
  /\ InSpans(l.ends, Len(l.plan.changes))

\* The call l of a client at s.
Good(s, l) ==
  s \notin {"idle", "reply"} =>
    /\ IsRecord(l) /\ Asked(l) /\ Planning(l)
    /\ s \in {"bare", "find", "linkers"} => l.todo # <<>>
    /\ s = "linkers" => NoteOrNone(l.source)
    /\ s = "index" =>
         /\ l.todo = <<>>
         /\ l.landed \in 0 .. Len(l.plan.changes)
         /\ l.reply = IF l.landed = Len(l.plan.changes) THEN "done" ELSE "failed"

CallsAreGood ==
  /\ pc \in [Clients -> Places]
  /\ call = [c \in Clients |-> call[c]]
  /\ \A c \in Clients : Good(pc[c], call[c])

Inv ==
  /\ IsTree(notes)
  /\ lost = {}
  /\ calls \in 0 .. MaxCalls
  /\ CallsAreGood

-----------------------------------------------------------------------------
(* Sequences and plans.                                                    *)

LEMMA SeqIs ==
  ASSUME NEW s, IsSeq(s)
  PROVE  Len(s) \in Nat /\ DOMAIN s = 1 .. Len(s)
BY LenProperties DEF IsSeq

LEMMA SeqFrom ==
  ASSUME NEW S, NEW s \in Seq(S)
  PROVE  IsSeq(s)
<1>1. Len(s) \in Nat /\ DOMAIN s = 1 .. Len(s) /\ s \in [1 .. Len(s) -> S]
  BY LenProperties
<1>2. s \in [1 .. Len(s) -> {s[i] : i \in DOMAIN s}]
  BY <1>1
<1> QED BY <1>1, <1>2, SeqDef DEF IsSeq

LEMMA Joined ==
  ASSUME NEW s, NEW t, IsSeq(s), IsSeq(t)
  PROVE  /\ IsSeq(s \o t)
         /\ Len(s \o t) = Len(s) + Len(t)
         /\ \A i \in 1 .. Len(s) : (s \o t)[i] = s[i]
         /\ \A i \in 1 .. Len(t) : (s \o t)[Len(s) + i] = t[i]
         /\ \A i \in DOMAIN (s \o t) :
              i \in 1 .. Len(s) \/ (i - Len(s) \in 1 .. Len(t) /\ (s \o t)[i] = t[i - Len(s)])
<1> DEFINE S == {s[i] : i \in DOMAIN s} \cup {t[i] : i \in DOMAIN t}
<1>0. s \in Seq(S) /\ t \in Seq(S)
  BY SeqMonotonic DEF IsSeq
<1> HIDE DEF S
<1>1. /\ s \o t \in Seq(S)
      /\ Len(s \o t) = Len(s) + Len(t)
      /\ \A i \in 1 .. Len(s) + Len(t) : (s \o t)[i] = IF i <= Len(s) THEN s[i] ELSE t[i - Len(s)]
  BY <1>0, ConcatProperties
<1>2. IsSeq(s \o t)
  BY <1>1, SeqFrom
<1>3. Len(s) \in Nat /\ Len(t) \in Nat /\ DOMAIN (s \o t) = 1 .. Len(s) + Len(t)
  BY <1>1, <1>2, SeqIs
<1> QED BY <1>1, <1>2, <1>3

LEMMA OneIs ==
  ASSUME NEW x
  PROVE  IsSeq(<<x>>) /\ Len(<<x>>) = 1 /\ <<x>>[1] = x /\ DOMAIN <<x>> = {1}
<1>1. <<x>> \in Seq({x}) /\ Len(<<x>>) = 1 /\ <<x>>[1] = x
  OBVIOUS
<1>2. IsSeq(<<x>>)
  BY <1>1, SeqFrom
<1> QED BY <1>1, <1>2, SeqIs

LEMMA TwoIs ==
  ASSUME NEW x, NEW y
  PROVE  IsSeq(<<x, y>>) /\ Len(<<x, y>>) = 2 /\ <<x, y>>[1] = x /\ <<x, y>>[2] = y /\ DOMAIN <<x, y>> = {1, 2}
<1>1. <<x, y>> \in Seq({x, y}) /\ Len(<<x, y>>) = 2 /\ <<x, y>>[1] = x /\ <<x, y>>[2] = y
  OBVIOUS
<1>2. IsSeq(<<x, y>>)
  BY <1>1, SeqFrom
<1> QED BY <1>1, <1>2, SeqIs

\* The next operation's span.
LEMMA SpanAppended ==
  ASSUME NEW m \in Nat, NEW n \in Nat, m <= n, NEW ends, InSpans(ends, m)
  PROVE  InSpans(Append(ends, n), n) /\ Len(Append(ends, n)) = Len(ends) + 1
<1> DEFINE more == Append(ends, n)
<1>0. ends \in Seq(0 .. n)
  BY SeqMonotonic DEF InSpans
<1>1. /\ more \in Seq(0 .. n) /\ Len(more) = Len(ends) + 1 /\ Len(ends) \in Nat
      /\ DOMAIN ends = 1 .. Len(ends) /\ DOMAIN more = 1 .. Len(ends) + 1
      /\ \A i \in 1 .. Len(ends) : more[i] = ends[i]
      /\ more[Len(ends) + 1] = n
  BY <1>0, AppendProperties, LenProperties
<1>2. \A i \in DOMAIN ends : ends[i] \in 0 .. m
  BY ElementOfSeq, LenProperties DEF InSpans
<1> HIDE DEF more
<1>3. ASSUME NEW i \in DOMAIN more, NEW j \in DOMAIN more, i < j
      PROVE  more[i] <= more[j]
  <2>1. i \in DOMAIN ends
    BY <1>1, <1>3
  <2>2. CASE j \in DOMAIN ends
    BY <1>1, <1>3, <2>1, <2>2 DEF InSpans
  <2>3. CASE j = Len(ends) + 1
    BY <1>1, <1>2, <2>1, <2>3
  <2> QED BY <1>1, <2>2, <2>3
<1>4. ASSUME NEW k \in 1 .. n
      PROVE  \E i \in DOMAIN more : Start(more, i) < k /\ k <= more[i]
  <2>1. CASE k <= m
    <3>0. k \in 1 .. m
      BY <2>1
    <3>1. PICK i \in DOMAIN ends : Start(ends, i) < k /\ k <= ends[i]
      BY <3>0 DEF InSpans
    <3>2. i \in DOMAIN more /\ more[i] = ends[i]
      BY <1>1
    <3>3. Start(more, i) = Start(ends, i)
      BY <1>1 DEF Start
    <3> QED BY <3>1, <3>2, <3>3
  <2>2. CASE k > m
    <3>1. Start(more, Len(ends) + 1) <= m
      <4>1. CASE Len(ends) = 0
        BY <4>1 DEF Start
      <4>2. CASE Len(ends) # 0
        <5>1. Len(ends) \in DOMAIN ends
          BY <1>1, <4>2
        <5> QED BY <1>1, <1>2, <4>2, <5>1 DEF Start
      <4> QED BY <4>1, <4>2
    <3>2. Start(more, Len(ends) + 1) \in Int
      BY <1>1, <1>2 DEF Start
    <3> QED BY <1>1, <2>2, <3>1, <3>2
  <2> QED BY <2>1, <2>2
<1> QED BY <1>1, <1>3, <1>4 DEF InSpans, more

-----------------------------------------------------------------------------
(* Steps of a plan.                                                        *)

LEMMA GoesTo ==
  ASSUME Inv, NEW c \in Clients, NEW at \in Places, NEW value, Go(c, at, value), Good(at, value)
  PROVE  CallsAreGood'
<1>1. pc' = [pc EXCEPT ![c] = at] /\ call' = [call EXCEPT ![c] = value]
  BY DEF Go
<1>2. pc' \in [Clients -> Places] /\ pc'[c] = at /\ \A d \in Clients \ {c} : pc'[d] = pc[d]
  BY <1>1 DEF Inv, CallsAreGood
<1>3. call' = [d \in Clients |-> call'[d]] /\ call'[c] = value /\ \A d \in Clients \ {c} : call'[d] = call[d]
  BY <1>1 DEF Inv, CallsAreGood
<1>4. ASSUME NEW d \in Clients PROVE Good(pc'[d], call'[d])
  <2>1. CASE d = c
    BY <1>2, <1>3, <2>1
  <2>2. CASE d # c
    BY <1>2, <1>3, <2>2 DEF Inv, CallsAreGood
  <2> QED BY <2>1, <2>2
<1> QED BY <1>2, <1>3, <1>4 DEF CallsAreGood

LEMMA Refused ==
  ASSUME Inv, NEW c \in Clients, Refuse(c)
  PROVE  CallsAreGood'
BY GoesTo DEF Refuse, Good, Places

\* The call's record after an operation joined the plan.
Grown(l, plan, todo, ends, read) ==
  [l EXCEPT !.plan = plan, !.todo = todo, !.ends = ends, !.read = read]

LEMMA RecordKept ==
  ASSUME NEW l, IsRecord(l), NEW plan, NEW todo, NEW ends, NEW read
  PROVE  LET value == Grown(l, plan, todo, ends, read) IN
         /\ IsRecord(value)
         /\ value.call = l.call /\ value.id = l.id /\ value.seen = l.seen /\ value.todo = todo
         /\ value.plan = plan /\ value.ends = ends /\ value.read = read
<1> DEFINE value == Grown(l, plan, todo, ends, read)
           v1 == [l EXCEPT !.plan = plan]
           v2 == [v1 EXCEPT !.todo = todo]
           v3 == [v2 EXCEPT !.ends = ends]
           v4 == [v3 EXCEPT !.read = read]
<1>0. value = v4
  BY DEF Grown
<1> HIDE DEF value
<1>1. v1 = [x \in Fields |-> IF x = "plan" THEN plan ELSE l[x]]
  BY DEF IsRecord, Fields
<1> HIDE DEF v1
<1>2. v2 = [x \in Fields |-> IF x = "todo" THEN todo ELSE v1[x]]
  BY <1>1 DEF Fields
<1> HIDE DEF v2
<1>3. v3 = [x \in Fields |-> IF x = "ends" THEN ends ELSE v2[x]]
  BY <1>2 DEF Fields
<1> HIDE DEF v3
<1>4. v4 = [x \in Fields |-> IF x = "read" THEN read ELSE v3[x]]
  BY <1>3 DEF Fields
<1> HIDE DEF v4
<1>5. /\ IsRecord(value)
      /\ value.call = l.call /\ value.id = l.id /\ value.seen = l.seen /\ value.todo = todo
      /\ value.plan = plan /\ value.ends = ends /\ value.read = read
  BY <1>0, <1>1, <1>2, <1>3, <1>4 DEF Fields, IsRecord
<1> QED BY <1>5 DEF value

LEMMA OneOn ==
  ASSUME NEW a \in Nat, NEW b \in Nat, NEW all, a + b = all, NEW m, m = a + 1, NEW n, n = b - 1
  PROVE  m + n = all
OBVIOUS

\* No path is touched twice, so that what was read of earlier changes stays.
LEMMA PlanGrows ==
  ASSUME NEW old, NEW changes, IsSeq(old), IsSeq(changes), NEW before, NEW pre,
         ~Duplicated([changes |-> old \o changes, pre |-> before \cup pre]),
         NEW was, NEW seen, NEW read, read = [p \in Paths |-> IF p \in DOMAIN seen THEN seen[p] ELSE was[p]],
         DOMAIN seen \subseteq UNION {TouchedBy(changes[k]) : k \in DOMAIN changes},
         CoversAll(old, before, was), CoversAll(changes, pre, read)
  PROVE  CoversAll(old \o changes, before \cup pre, read)
<1> DEFINE all == old \o changes
<1>0. /\ Len(old) \in Nat /\ DOMAIN old = 1 .. Len(old)
      /\ Len(changes) \in Nat /\ DOMAIN changes = 1 .. Len(changes)
  BY SeqIs
<1>1. /\ DOMAIN all = 1 .. Len(old) + Len(changes)
      /\ \A i \in 1 .. Len(old) : all[i] = old[i]
      /\ \A i \in 1 .. Len(changes) : all[Len(old) + i] = changes[i]
      /\ \A i \in DOMAIN all :
           i \in 1 .. Len(old) \/ (i - Len(old) \in 1 .. Len(changes) /\ all[i] = changes[i - Len(old)])
  BY Joined, SeqIs
<1>2. \A i, j \in DOMAIN all : i # j => TouchedBy(all[i]) \cap TouchedBy(all[j]) = {}
  BY DEF Duplicated
<1> HIDE DEF all
<1> SUFFICES ASSUME NEW k \in DOMAIN all
             PROVE  IsChange(all[k]) /\ \A p \in TouchedBy(all[k]) : Covered(read, before \cup pre, p)
  BY DEF CoversAll, all
<1>3. CASE k \in 1 .. Len(old)
  <2>1. all[k] = old[k] /\ IsChange(old[k]) /\ \A p \in TouchedBy(old[k]) : Covered(was, before, p)
    BY <1>0, <1>1, <1>3 DEF CoversAll
  <2>2. ASSUME NEW p \in TouchedBy(all[k]) PROVE Covered(read, before \cup pre, p)
    <3>1. p \notin DOMAIN seen
      <4> SUFFICES ASSUME p \in DOMAIN seen PROVE FALSE
        OBVIOUS
      <4>1. PICK j \in DOMAIN changes : p \in TouchedBy(changes[j])
        OBVIOUS
      <4>2. Len(old) + j \in DOMAIN all /\ k # Len(old) + j /\ all[Len(old) + j] = changes[j]
        BY <1>0, <1>1, <1>3
      <4> QED BY <1>2, <4>1, <4>2
    <3>2. read[p] = was[p]
      BY <2>1, <2>2, <3>1 DEF IsChange
    <3>3. Covered(was, before, p)
      BY <2>1, <2>2
    <3> QED BY <3>2, <3>3 DEF Covered
  <2> QED BY <2>1, <2>2
<1>4. CASE k - Len(old) \in 1 .. Len(changes) /\ all[k] = changes[k - Len(old)]
  BY <1>0, <1>4 DEF CoversAll, Covered
<1> QED BY <1>1, <1>3, <1>4

\* An operation joins the plan.
LEMMA Folded ==
  ASSUME Inv, NEW c \in Clients, pc[c] \in {"plan", "bare", "find", "linkers"}, call[c].todo # <<>>,
         NEW changes, NEW pre, NEW seen,
         IsSeq(changes),
         DOMAIN seen \subseteq UNION {TouchedBy(changes[k]) : k \in DOMAIN changes},
         CoversAll(changes, pre, [p \in Paths |-> IF p \in DOMAIN seen THEN seen[p] ELSE call[c].read[p]]),
         Fold(c, changes, pre, seen)
  PROVE  CallsAreGood'
<1> DEFINE l == call[c]
           plan == [changes |-> l.plan.changes \o changes, pre |-> l.plan.pre \cup pre]
           todo == Tail(l.todo)
           ends == Append(l.ends, Len(plan.changes))
           read == [p \in Paths |-> IF p \in DOMAIN seen THEN seen[p] ELSE l.read[p]]
           value == [l EXCEPT !.plan = plan, !.todo = todo, !.ends = ends, !.read = read]
<1>1. CASE Duplicated(plan)
  BY <1>1, Refused DEF Fold
<1>2. CASE ~Duplicated(plan)
  <2>1. Go(c, "plan", value)
    BY <1>2 DEF Fold
  <2>2. IsRecord(l) /\ Asked(l) /\ Planning(l)
    BY DEF Inv, CallsAreGood, Good
  <2>3. IsSeq(l.plan.changes) /\ CoversAll(l.plan.changes, l.plan.pre, l.read) /\ InSpans(l.ends, Len(l.plan.changes))
    BY <2>2 DEF Planning
  <2>4. CoversAll(l.plan.changes \o changes, l.plan.pre \cup pre, read)
    <3>1. CoversAll(changes, pre, read)
      OBVIOUS
    <3> HIDE DEF l, read
    <3>2. read = [p \in Paths |-> IF p \in DOMAIN seen THEN seen[p] ELSE l.read[p]]
      BY DEF read
    <3> QED BY <1>2, <2>3, <3>1, <3>2, PlanGrows
  <2>5. plan.changes = l.plan.changes \o changes /\ plan.pre = l.plan.pre \cup pre /\ plan = [changes |-> plan.changes, pre |-> plan.pre]
    OBVIOUS
  <2>6. value = Grown(l, plan, todo, ends, read)
    BY DEF Grown
  <2>7. ends = Append(l.ends, Len(plan.changes)) /\ todo = Tail(l.todo) /\ l.todo # <<>>
    OBVIOUS
  <2> HIDE DEF l, plan, todo, ends, read, value
  <2>8. /\ IsRecord(value)
        /\ value.call = l.call /\ value.id = l.id /\ value.seen = l.seen /\ value.todo = todo
        /\ value.plan = plan /\ value.ends = ends /\ value.read = read
    <3>1. IsRecord(l)
      BY <2>2
    <3> QED BY <2>6, <3>1, RecordKept
  <2>9. /\ IsSeq(plan.changes) /\ Len(plan.changes) = Len(l.plan.changes) + Len(changes)
        /\ Len(l.plan.changes) \in Nat /\ Len(changes) \in Nat
    BY <2>3, <2>5, Joined, SeqIs
  <2>10. InSpans(ends, Len(plan.changes)) /\ Len(ends) = Len(l.ends) + 1
    <3>1. Len(l.plan.changes) <= Len(plan.changes) /\ Len(plan.changes) \in Nat
      BY <2>9
    <3>2. InSpans(l.ends, Len(l.plan.changes))
      BY <2>3
    <3>3. /\ InSpans(Append(l.ends, Len(plan.changes)), Len(plan.changes))
          /\ Len(Append(l.ends, Len(plan.changes))) = Len(l.ends) + 1
      BY <2>9, <3>1, <3>2, SpanAppended
    <3> QED BY <2>7, <3>3
  <2>11. Asked(value)
    <3>1. OpsOf(value) = OpsOf(l)
      BY <2>8 DEF OpsOf
    <3>2. todo \in Seq(OpsOf(l)) /\ Len(todo) = Len(l.todo) - 1 /\ Len(l.todo) \in Nat
      BY <2>2, <2>7, HeadTailProperties, LenProperties DEF Asked
    <3>3. Len(l.ends) \in Nat
      BY <2>3, LenProperties DEF InSpans
    <3>4. Len(l.ends) + Len(l.todo) = Len(l.call.ops)
      BY <2>2 DEF Asked
    <3>5. Len(ends) + Len(todo) = Len(l.call.ops)
      <4>1. Len(ends) = Len(l.ends) + 1
        BY <2>10
      <4>2. Len(todo) = Len(l.todo) - 1
        BY <3>2
      <4>3. Len(l.todo) \in Nat
        BY <3>2
      <4> DEFINE a == Len(l.ends)
                 b == Len(l.todo)
      <4>4. a \in Nat /\ b \in Nat /\ a + b = Len(l.call.ops) /\ Len(ends) = a + 1 /\ Len(todo) = b - 1
        BY <3>3, <3>4, <4>1, <4>2, <4>3
      <4> HIDE DEF a, b
      <4> QED BY <4>4
    <3> QED BY <2>2, <2>8, <3>1, <3>2, <3>5 DEF Asked
  <2>12. Planning(value)
    BY <1>2, <2>4, <2>5, <2>8, <2>9, <2>10 DEF Planning
  <2> QED BY <2>1, <2>8, <2>11, <2>12, GoesTo DEF Good, Places
<1> QED BY <1>1, <1>2

\* One change.
LEMMA OneFolded ==
  ASSUME Inv, NEW c \in Clients, pc[c] \in {"plan", "bare", "find", "linkers"}, call[c].todo # <<>>,
         NEW ch, IsChange(ch), NEW pre, NEW seen, DOMAIN seen \subseteq TouchedBy(ch),
         \A p \in TouchedBy(ch) : Covered([q \in Paths |-> IF q \in DOMAIN seen THEN seen[q] ELSE call[c].read[q]], pre, p),
         Fold(c, <<ch>>, pre, seen)
  PROVE  CallsAreGood'
<1> DEFINE changes == <<ch>>
<1>1. IsSeq(changes) /\ DOMAIN changes = {1} /\ changes[1] = ch
  BY OneIs
<1>2. Fold(c, changes, pre, seen)
  OBVIOUS
<1> HIDE DEF changes
<1>3. CoversAll(changes, pre, [q \in Paths |-> IF q \in DOMAIN seen THEN seen[q] ELSE call[c].read[q]])
  BY <1>1 DEF CoversAll
<1>4. DOMAIN seen \subseteq UNION {TouchedBy(changes[k]) : k \in DOMAIN changes}
  BY <1>1
<1> QED BY <1>1, <1>2, <1>3, <1>4, Folded

LEMMA UpsertIs ==
  ASSUME NEW p \in Paths, NEW x, NoteOrNone(x)
  PROVE  IsChange(Upsert(p, x)) /\ TouchedBy(Upsert(p, x)) = {p}
BY DEF IsChange, Upsert, TouchedBy

LEMMA RemoveIs ==
  ASSUME NEW p \in Paths
  PROVE  IsChange(Remove(p)) /\ TouchedBy(Remove(p)) = {p}
BY DEF IsChange, Remove, TouchedBy

LEMMA RenameIs ==
  ASSUME NEW p \in Paths, NEW q \in Paths
  PROVE  IsChange(Rename(p, q)) /\ TouchedBy(Rename(p, q)) = {p, q}
BY DEF IsChange, Rename, TouchedBy

LEMMA NoteIs ==
  ASSUME NEW text, NEW tags, NEW links, NEW names, text \subseteq 0 .. MaxCalls
  PROVE  IsNote([text |-> text, tags |-> tags, links |-> links, names |-> names])
BY DEF IsNote

LEMMA NoteChanges ==
  ASSUME NEW n, IsNote(n), NEW id \in 0 .. MaxCalls, NEW links, NEW more, NEW tags, NEW names
  PROVE  /\ IsNote([n EXCEPT !.text = @ \cup {id}, !.links = @ \cup more])
         /\ IsNote([n EXCEPT !.text = @ \cup {id}])
         /\ IsNote([n EXCEPT !.tags = tags])
         /\ IsNote([n EXCEPT !.tags = tags, !.names = names])
         /\ IsNote([n EXCEPT !.links = links])
<1>1. PICK t, g, l, m : n = [text |-> t, tags |-> g, links |-> l, names |-> m] /\ t \subseteq 0 .. MaxCalls
  BY Zenon DEF IsNote
<1>2. [n EXCEPT !.text = @ \cup {id}] = [text |-> t \cup {id}, tags |-> g, links |-> l, names |-> m]
  BY <1>1
<1>3. [n EXCEPT !.tags = tags] = [text |-> t, tags |-> tags, links |-> l, names |-> m]
  BY <1>1
<1>4. [n EXCEPT !.links = links] = [text |-> t, tags |-> g, links |-> links, names |-> m]
  BY <1>1
<1>5. [n EXCEPT !.text = @ \cup {id}, !.links = @ \cup more] =
        [text |-> t \cup {id}, tags |-> g, links |-> l \cup more, names |-> m]
  <2> DEFINE u == [n EXCEPT !.text = @ \cup {id}]
  <2>1. [n EXCEPT !.text = @ \cup {id}, !.links = @ \cup more] = [u EXCEPT !.links = @ \cup more]
    OBVIOUS
  <2>2. u = [text |-> t \cup {id}, tags |-> g, links |-> l, names |-> m]
    BY <1>2
  <2> HIDE DEF u
  <2>3. [u EXCEPT !.links = @ \cup more] = [text |-> t \cup {id}, tags |-> g, links |-> l \cup more, names |-> m]
    BY <2>2
  <2> QED BY <2>1, <2>3
<1>6. [n EXCEPT !.tags = tags, !.names = names] = [text |-> t, tags |-> tags, links |-> l, names |-> names]
  <2> DEFINE u == [n EXCEPT !.tags = tags]
  <2>1. [n EXCEPT !.tags = tags, !.names = names] = [u EXCEPT !.names = names]
    OBVIOUS
  <2>2. u = [text |-> t, tags |-> tags, links |-> l, names |-> m]
    BY <1>3
  <2> HIDE DEF u
  <2>3. [u EXCEPT !.names = names] = [text |-> t, tags |-> tags, links |-> l, names |-> names]
    BY <2>2
  <2> QED BY <2>1, <2>3
<1>7. t \cup {id} \subseteq 0 .. MaxCalls
  BY <1>1
<1> QED BY <1>1, <1>2, <1>3, <1>4, <1>5, <1>6, <1>7, NoteIs

LEMMA OpIs ==
  ASSUME Inv, NEW c \in Clients, pc[c] \in {"plan", "bare", "find", "linkers"}, call[c].todo # <<>>
  PROVE  /\ {Op(c).path, Op(c).to} \subseteq Paths
         /\ Op(c).guarded => IsNote(call[c].seen[Op(c).path])
         /\ Op(c).op \in {"describe", "tag", "relink"} /\ ~call[c].call.batch => ~Op(c).guarded
         /\ call[c].id \in 0 .. MaxCalls
<1> DEFINE l == call[c]
<1>1. Asked(l) /\ l.todo # <<>>
  BY DEF Inv, CallsAreGood, Good
<1> HIDE DEF l
<1>2. Head(l.todo) \in OpsOf(l)
  BY <1>1, HeadTailProperties DEF Asked
<1>3. PICK i \in DOMAIN l.call.ops : Head(l.todo) = l.call.ops[i]
  BY <1>2 DEF OpsOf
<1>4. /\ {l.call.ops[i].path, l.call.ops[i].to} \subseteq Paths
      /\ l.call.ops[i].op \in {"describe", "tag", "relink"} /\ ~l.call.batch => ~l.call.ops[i].guarded
  BY <1>1, ToolsAssumption DEF Asked
<1> QED BY <1>1, <1>2, <1>3, <1>4 DEF Asked, Op, l

\* What an operation is given leave to replace.
LEMMA SeenCovers ==
  ASSUME NEW c, NEW o, NEW pre, NEW read,
         o.guarded => ExpectBlob(o.path, call[c].seen[o.path]) \in pre,
         read[o.path] = Seen(c, o)
  PROVE  Covered(read, pre, o.path)
BY DEF Covered, Seen, ExpectBlob

LEMMA TreeHolds ==
  ASSUME Inv, NEW p \in Paths
  PROVE  NoteOrNone(notes[p])
BY DEF Inv, IsTree

-----------------------------------------------------------------------------
(* The operations.                                                         *)

\* An operation that writes one note.
LEMMA NoteWritten ==
  ASSUME Inv, NEW c \in Clients, pc[c] \in {"plan", "bare", "find", "linkers"}, call[c].todo # <<>>,
         NEW x, NoteOrNone(x), NEW pre, NEW text,
         \/ Expect(Op(c).path, "absent") \in pre
         \/ text = Seen(c, Op(c)) /\ (Op(c).guarded => ExpectBlob(Op(c).path, call[c].seen[Op(c).path]) \in pre)
         \/ \E b : ExpectBlob(Op(c).path, b) \in pre /\ text = b.text,
         Fold(c, <<Upsert(Op(c).path, x)>>, pre, At1(Op(c).path, text))
  PROVE  CallsAreGood'
<1> DEFINE o == Op(c)
           seen == At1(o.path, text)
           read == [q \in Paths |-> IF q \in DOMAIN seen THEN seen[q] ELSE call[c].read[q]]
<1>1. o.path \in Paths
  BY OpIs
<1>2. IsChange(Upsert(o.path, x)) /\ TouchedBy(Upsert(o.path, x)) = {o.path}
  BY <1>1, UpsertIs
<1>3. DOMAIN seen = {o.path} /\ read[o.path] = text
  BY <1>1 DEF At1
<1>4. Covered(read, pre, o.path)
  <2>1. CASE Expect(o.path, "absent") \in pre
    BY <2>1 DEF Covered
  <2>2. CASE text = Seen(c, o) /\ (o.guarded => ExpectBlob(o.path, call[c].seen[o.path]) \in pre)
    <3> HIDE DEF read, o
    <3> QED BY <1>3, <2>2, SeenCovers
  <2>3. CASE \E b : ExpectBlob(o.path, b) \in pre /\ text = b.text
    <3> HIDE DEF read, o
    <3> QED BY <1>3, <2>3 DEF Covered, ExpectBlob
  <2> QED BY <2>1, <2>2, <2>3
<1> HIDE DEF o, seen
<1>5. Fold(c, <<Upsert(o.path, x)>>, pre, seen)
  BY DEF o, seen
<1> QED BY <1>2, <1>3, <1>4, <1>5, OneFolded

LEMMA TokenIn ==
  ASSUME NEW c, NEW o, o.guarded
  PROVE  ExpectBlob(o.path, call[c].seen[o.path]) \in Token(c, o)
BY DEF Token

LEMMA CreateKeeps == ASSUME Inv, NEW c \in Clients, Create(c) PROVE CallsAreGood'
<1> DEFINE o == Op(c)
<1>1. pc[c] = "plan" /\ call[c].todo # <<>>
  BY DEF Create, Ready
<1>2. NoteOrNone(Fresh(call[c].id, o))
  BY <1>1, OpIs, NoteIs DEF Fresh, NoteOrNone
<1>3. Fold(c, <<Upsert(o.path, Fresh(call[c].id, o))>>, {Expect(o.path, "absent")}, At1(o.path, {}))
  BY DEF Create
<1> QED BY <1>1, <1>2, <1>3, NoteWritten

LEMMA OverwriteKeeps == ASSUME Inv, NEW c \in Clients, Overwrite(c) PROVE CallsAreGood'
<1> DEFINE o == Op(c)
<1>1. pc[c] = "plan" /\ call[c].todo # <<>>
  BY DEF Overwrite, Ready
<1>2. NoteOrNone(Fresh(call[c].id, o))
  BY <1>1, OpIs, NoteIs DEF Fresh, NoteOrNone
<1>3. Fold(c, <<Upsert(o.path, Fresh(call[c].id, o))>>, Token(c, o), At1(o.path, Seen(c, o)))
  BY DEF Overwrite
<1> QED BY <1>1, <1>2, <1>3, NoteWritten, TokenIn

LEMMA ExtendKeeps == ASSUME Inv, NEW c \in Clients, Extend(c) PROVE CallsAreGood'
<1> DEFINE o == Op(c)
           x == Extended(call[c].id, o, notes[o.path])
<1>1. pc[c] = "plan" /\ call[c].todo # <<>>
  BY DEF Extend, Ready
<1>2. NoteOrNone(notes[o.path]) /\ call[c].id \in 0 .. MaxCalls
  BY <1>1, OpIs, TreeHolds
<1>3. NoteOrNone(x)
  <2>1. CASE notes[o.path] = Absent
    BY <1>2, <2>1, NoteIs DEF Fresh, NoteOrNone, Extended
  <2>2. CASE notes[o.path] # Absent
    BY <1>2, <2>2, NoteChanges DEF NoteOrNone, Extended
  <2> QED BY <2>1, <2>2
<1>4. Fold(c, <<Upsert(o.path, x)>>, Token(c, o), At1(o.path, Seen(c, o)))
  BY DEF Extend
<1> QED BY <1>1, <1>3, <1>4, NoteWritten, TokenIn

LEMMA EditKeeps == ASSUME Inv, NEW c \in Clients, Edit(c) PROVE CallsAreGood'
<1> DEFINE o == Op(c)
           now == notes[o.path]
           x == [now EXCEPT !.text = @ \cup {call[c].id}]
<1>1. pc[c] = "plan" /\ call[c].todo # <<>>
  BY DEF Edit, Ready
<1>2. CASE Refuse(c)
  BY <1>2, Refused
<1>3. CASE /\ now # Absent
           /\ Fold(c, <<Upsert(o.path, x)>>,
                   IF call[c].call.batch THEN Token(c, o) ELSE {ExpectBlob(o.path, now)},
                   At1(o.path, IF call[c].call.batch THEN Seen(c, o) ELSE now.text))
  <2>1. NoteOrNone(now) /\ call[c].id \in 0 .. MaxCalls
    BY <1>1, OpIs, TreeHolds
  <2>2. NoteOrNone(x)
    BY <1>3, <2>1, NoteChanges DEF NoteOrNone
  <2> HIDE DEF now, x, o
  <2>3. CASE call[c].call.batch
    <3>1. Fold(c, <<Upsert(o.path, x)>>, Token(c, o), At1(o.path, Seen(c, o)))
      BY <1>3, <2>3
    <3> QED BY <1>1, <2>2, <3>1, NoteWritten, TokenIn DEF o
  <2>4. CASE ~call[c].call.batch
    <3>1. Fold(c, <<Upsert(o.path, x)>>, {ExpectBlob(o.path, now)}, At1(o.path, now.text))
      BY <1>3, <2>4
    <3>2. \E b : ExpectBlob(o.path, b) \in {ExpectBlob(o.path, now)} /\ now.text = b.text
      OBVIOUS
    <3> QED BY <1>1, <2>2, <3>1, <3>2, NoteWritten DEF o
  <2> QED BY <2>3, <2>4
<1> QED BY <1>2, <1>3 DEF Edit

LEMMA AmendKeeps == ASSUME Inv, NEW c \in Clients, Amend(c) PROVE CallsAreGood'
<1> DEFINE o == Op(c)
           now == notes[o.path]
           x == CASE o.op = "describe" -> Described(call[c].id, o, now)
                  [] o.op = "tag" -> Tagged(call[c].id, o, now)
                  [] o.op = "relink" -> Relinked(o, now)
           pre == IF call[c].call.batch THEN Token(c, o) ELSE {Expect(o.path, "exists")}
<1>1. pc[c] = "plan" /\ call[c].todo # <<>> /\ o.op \in {"describe", "tag", "relink"}
  BY DEF Amend, Ready
<1>2. CASE Refuse(c)
  BY <1>2, Refused
<1>3. CASE now # Absent /\ Fold(c, <<Upsert(o.path, x)>>, pre, At1(o.path, Seen(c, o)))
  <2>1. IsNote(now) /\ call[c].id \in 0 .. MaxCalls
    BY <1>1, <1>3, OpIs, TreeHolds DEF NoteOrNone
  <2>2. NoteOrNone(x)
    <3> HIDE DEF now, o
    <3>1. CASE o.op = "describe"
      BY <2>1, <3>1, NoteChanges DEF NoteOrNone, Described
    <3>2. CASE o.op = "tag"
      BY <2>1, <3>2, NoteChanges DEF NoteOrNone, Tagged
    <3>3. CASE o.op = "relink"
      BY <2>1, <3>3, NoteChanges DEF NoteOrNone, Relinked
    <3> QED BY <1>1, <3>1, <3>2, <3>3
  <2>3. o.guarded => ExpectBlob(o.path, call[c].seen[o.path]) \in pre
    BY <1>1, OpIs, TokenIn
  <2> HIDE DEF x, pre
  <2> QED BY <1>1, <1>3, <2>2, <2>3, NoteWritten
<1> QED BY <1>2, <1>3 DEF Amend

LEMMA BareKeeps ==
  ASSUME Inv, NEW c \in Clients, pc[c] \in {"plan", "bare"}, call[c].todo # <<>>, Bare(c, Op(c))
  PROVE  CallsAreGood'
<1> DEFINE o == Op(c)
           pre == IF call[c].call.batch THEN Token(c, o) ELSE InPlace(c, o)
           seen == At1(o.path, Seen(c, o))
           read == [q \in Paths |-> IF q \in DOMAIN seen THEN seen[q] ELSE call[c].read[q]]
<1>1. o.path \in Paths
  BY OpIs
<1>2. DOMAIN seen = {o.path} /\ read[o.path] = Seen(c, o)
  BY <1>1 DEF At1
<1>3. o.guarded => ExpectBlob(o.path, call[c].seen[o.path]) \in pre
  BY TokenIn DEF InPlace
<1>4. IsChange(Remove(o.path)) /\ TouchedBy(Remove(o.path)) = {o.path}
  BY <1>1, RemoveIs
<1>5. Fold(c, <<Remove(o.path)>>, pre, seen)
  BY DEF Bare
<1>6. Covered(read, pre, o.path)
  <2> HIDE DEF o, pre, read
  <2> QED BY <1>2, <1>3, SeenCovers
<1> HIDE DEF o, pre, seen
<1> QED BY <1>2, <1>4, <1>5, <1>6, OneFolded

LEMMA DeleteKeeps == ASSUME Inv, NEW c \in Clients, Delete(c) PROVE CallsAreGood'
BY BareKeeps DEF Delete, Ready

\* Only the note of the links' state, of the links found and of the note itself change.
LEMMA NotesTaken ==
  ASSUME NEW l, IsRecord(l), Asked(l), Planning(l), l.todo # <<>>, NEW linkers, NEW source, NEW sure, NoteOrNone(source)
  PROVE  /\ Good("bare", [l EXCEPT !.sure = sure])
         /\ Good("find", l)
         /\ Good("linkers", [l EXCEPT !.linkers = linkers, !.source = source, !.sure = sure])
<1> DEFINE a == [l EXCEPT !.sure = sure]
           v1 == [l EXCEPT !.linkers = linkers]
           v2 == [v1 EXCEPT !.source = source]
           v3 == [v2 EXCEPT !.sure = sure]
<1>1. a = [x \in Fields |-> IF x = "sure" THEN sure ELSE l[x]]
  BY DEF IsRecord, Fields
<1>2. Good("bare", a)
  <2> HIDE DEF a
  <2>1. a.todo = l.todo /\ a.call = l.call /\ a.id = l.id /\ a.seen = l.seen /\ a.plan = l.plan /\ a.ends = l.ends /\ a.read = l.read
    BY <1>1 DEF Fields
  <2>2. IsRecord(a)
    BY <1>1 DEF IsRecord, Fields
  <2> QED BY <2>1, <2>2 DEF Good, Asked, Planning, OpsOf
<1>3. Good("find", l)
  BY DEF Good
<1>4. [l EXCEPT !.linkers = linkers, !.source = source, !.sure = sure] = v3
  OBVIOUS
<1>5. v1 = [x \in Fields |-> IF x = "linkers" THEN linkers ELSE l[x]]
  BY DEF IsRecord, Fields
<1> HIDE DEF v1
<1>6. v2 = [x \in Fields |-> IF x = "source" THEN source ELSE v1[x]]
  BY <1>5 DEF Fields
<1> HIDE DEF v2
<1>7. v3 = [x \in Fields |-> IF x = "sure" THEN sure ELSE v2[x]]
  BY <1>6 DEF Fields
<1> HIDE DEF v3
<1>8. Good("linkers", v3)
  <2>1. /\ v3.todo = l.todo /\ v3.call = l.call /\ v3.id = l.id /\ v3.seen = l.seen /\ v3.plan = l.plan
        /\ v3.ends = l.ends /\ v3.read = l.read /\ v3.source = source
    BY <1>5, <1>6, <1>7 DEF Fields
  <2>2. IsRecord(v3)
    BY <1>5, <1>6, <1>7 DEF IsRecord, Fields
  <2> QED BY <2>1, <2>2 DEF Good, Asked, Planning, OpsOf
<1> QED BY <1>2, <1>3, <1>4, <1>8

LEMMA CallIs ==
  ASSUME Inv, NEW c \in Clients, pc[c] \notin {"idle", "reply"}
  PROVE  /\ IsRecord(call[c]) /\ Asked(call[c]) /\ Planning(call[c])
         /\ pc[c] \in {"bare", "find", "linkers"} => call[c].todo # <<>>
         /\ pc[c] = "linkers" => NoteOrNone(call[c].source)
BY DEF Inv, CallsAreGood, Good

LEMMA ConsiderKeeps == ASSUME Inv, NEW c \in Clients, Consider(c) PROVE CallsAreGood'
<1> DEFINE sure == GraphIsSettled
           l == [call[c] EXCEPT !.sure = sure]
<1>1. pc[c] = "plan" /\ call[c].todo # <<>>
  BY DEF Consider, Ready
<1>2. CASE pc' = [pc EXCEPT ![c] = "bare"] /\ call' = [call EXCEPT ![c] = l]
  <2>1. Good("bare", l)
    <3> HIDE DEF sure
    <3> QED BY <1>1, CallIs, NotesTaken DEF NoteOrNone
  <2>2. Go(c, "bare", l)
    BY <1>2 DEF Go
  <2> QED BY <2>1, <2>2, GoesTo DEF Places
<1>3. CASE Go(c, "find", call[c])
  <2>1. Good("find", call[c])
    BY <1>1, CallIs DEF Good
  <2> QED BY <1>3, <2>1, GoesTo DEF Places
<1>4. CASE Refuse(c)
  BY <1>4, Refused
<1> QED BY <1>2, <1>3, <1>4 DEF Consider

LEMMA DeleteUnlinkedKeeps == ASSUME Inv, NEW c \in Clients, DeleteUnlinked(c) PROVE CallsAreGood'
BY BareKeeps, CallIs DEF DeleteUnlinked

LEMMA StartMoveKeeps == ASSUME Inv, NEW c \in Clients, StartMove(c) PROVE CallsAreGood'
<1>1. pc[c] = "plan" /\ call[c].todo # <<>> /\ Go(c, "find", call[c])
  BY DEF StartMove, Ready
<1>2. Good("find", call[c])
  BY <1>1, CallIs DEF Good
<1> QED BY <1>1, <1>2, GoesTo DEF Places

LEMMA FindLinkersKeeps == ASSUME Inv, NEW c \in Clients, FindLinkers(c) PROVE CallsAreGood'
<1> DEFINE o == Op(c)
           sure == GraphIsSettled
           linkers == Backlinks(graph, o.path)
           source == notes[o.path]
           l == [call[c] EXCEPT !.linkers = linkers, !.source = source, !.sure = sure]
<1>1. pc[c] = "find" /\ call[c].todo # <<>>
  BY CallIs DEF FindLinkers
<1>2. CASE Refuse(c)
  BY <1>2, Refused
<1>3. CASE Go(c, "linkers", l)
  <2>1. NoteOrNone(source)
    BY <1>1, OpIs, TreeHolds
  <2>2. Good("linkers", l)
    <3> HIDE DEF sure, linkers, source
    <3> QED BY <1>1, <2>1, CallIs, NotesTaken
  <2> QED BY <1>3, <2>2, GoesTo DEF Places
<1> QED BY <1>2, <1>3 DEF FindLinkers

LEMMA MoveKeeps == ASSUME Inv, NEW c \in Clients, Move(c) PROVE CallsAreGood'
<1> DEFINE o == Op(c)
           now == notes[o.path]
           loose == [p \in {o.path, o.to} |-> IF p = o.to THEN 0 .. MaxCalls ELSE Seen(c, o)]
           strict == Token(c, o) \cup {Expect(o.to, "absent")}
           seen == At1(o.path, Seen(c, o))
           Read(s) == [q \in Paths |-> IF q \in DOMAIN s THEN s[q] ELSE call[c].read[q]]
<1>1. pc[c] = "plan" /\ call[c].todo # <<>>
  BY DEF Move, Ready
<1>2. o.path \in Paths /\ o.to \in Paths
  BY <1>1, OpIs
<1>3. CASE Refuse(c)
  BY <1>3, Refused
<1>4. CASE Fold(c, <<Rename(o.path, o.to)>>, InPlace(c, o), loose)
  <2>1. o.guarded => ExpectBlob(o.path, call[c].seen[o.path]) \in InPlace(c, o)
    BY TokenIn DEF InPlace
  <2>2. DOMAIN loose = {o.path, o.to} /\ loose[o.to] = 0 .. MaxCalls /\ (o.path # o.to => loose[o.path] = Seen(c, o))
    OBVIOUS
  <2>3. IsChange(Rename(o.path, o.to)) /\ TouchedBy(Rename(o.path, o.to)) = {o.path, o.to}
    BY <1>2, RenameIs
  <2> HIDE DEF o, loose
  <2>4. Covered(Read(loose), InPlace(c, o), o.to)
    BY <1>2, <2>2 DEF Covered
  <2>5. Covered(Read(loose), InPlace(c, o), o.path)
    <3>1. CASE o.path = o.to
      BY <2>4, <3>1
    <3>2. CASE o.path # o.to
      <4>1. Read(loose)[o.path] = Seen(c, o)
        BY <1>2, <2>2, <3>2
      <4> HIDE DEF Read
      <4> QED BY <2>1, <4>1, SeenCovers
    <3> QED BY <3>1, <3>2
  <2>6. \A p \in {o.path, o.to} : Covered(Read(loose), InPlace(c, o), p)
    BY <2>4, <2>5
  <2> QED BY <1>1, <1>4, <2>2, <2>3, <2>6, OneFolded
<1>5. CASE Fold(c, <<Remove(o.path), Upsert(o.to, now)>>, strict, seen)
  <2> DEFINE changes == <<Remove(o.path), Upsert(o.to, now)>>
  <2>1. IsChange(Remove(o.path)) /\ TouchedBy(Remove(o.path)) = {o.path}
    BY <1>2, RemoveIs
  <2>2. IsChange(Upsert(o.to, now)) /\ TouchedBy(Upsert(o.to, now)) = {o.to}
    BY <1>2, TreeHolds, UpsertIs
  <2>3. IsSeq(changes) /\ DOMAIN changes = {1, 2} /\ changes[1] = Remove(o.path) /\ changes[2] = Upsert(o.to, now)
    BY TwoIs
  <2>4. DOMAIN seen = {o.path} /\ Read(seen)[o.path] = Seen(c, o)
    BY <1>2 DEF At1
  <2>5. o.guarded => ExpectBlob(o.path, call[c].seen[o.path]) \in strict
    BY TokenIn
  <2>6. Expect(o.to, "absent") \in strict
    OBVIOUS
  <2>7. Fold(c, changes, strict, seen)
    BY <1>5
  <2> HIDE DEF changes, o, now, strict, seen
  <2>8. Covered(Read(seen), strict, o.to)
    BY <2>6 DEF Covered
  <2>9. Covered(Read(seen), strict, o.path)
    <3> HIDE DEF Read
    <3> QED BY <2>4, <2>5, SeenCovers
  <2>10. CoversAll(changes, strict, Read(seen))
    <3> HIDE DEF Read
    <3> QED BY <2>1, <2>2, <2>3, <2>8, <2>9 DEF CoversAll
  <2>11. DOMAIN seen \subseteq UNION {TouchedBy(changes[k]) : k \in DOMAIN changes}
    BY <2>1, <2>3, <2>4
  <2> QED BY <1>1, <2>3, <2>7, <2>10, <2>11, Folded
<1> QED BY <1>3, <1>4, <1>5 DEF Move

LEMMA Listed ==
  ASSUME NEW S, IsFiniteSet(S)
  PROVE  /\ IsSeq(Seqs!SetToSeq(S))
         /\ \A i \in DOMAIN Seqs!SetToSeq(S) : Seqs!SetToSeq(S)[i] \in S
         /\ \A x \in S : \E i \in DOMAIN Seqs!SetToSeq(S) : Seqs!SetToSeq(S)[i] = x
<1> DEFINE n == Cardinality(S)
           f == Seqs!SetToSeq(S)
<1>1. n \in Nat /\ ExistsBijection(1 .. n, S)
  BY FS_CardinalityType
<1>2. \E g \in [1 .. n -> S] : \A a, b \in 1 .. n : g[a] = g[b] => a = b
  BY <1>1 DEF ExistsBijection, Bijection, Injection, Surjection, IsInjective
<1>0. Seqs!Cardinality(S) = n
  BY DEF Seqs!Cardinality, Cardinality, Seqs!IsFiniteSet, IsFiniteSet
<1>3. f \in [1 .. n -> S] /\ \A a, b \in 1 .. n : f[a] = f[b] => a = b
  <2>1. f = CHOOSE g \in [1 .. n -> S] : Seqs!IsInjective(g)
    BY <1>0 DEF Seqs!SetToSeq
  <2>2. \E g \in [1 .. n -> S] : Seqs!IsInjective(g)
    BY <1>2 DEF Seqs!IsInjective
  <2> HIDE DEF f, n
  <2>3. f \in [1 .. n -> S] /\ Seqs!IsInjective(f)
    BY <2>1, <2>2
  <2> QED BY <2>3 DEF Seqs!IsInjective
<1> HIDE DEF f
<1>4. f \in Seq(S)
  BY <1>1, <1>3, SeqDef
<1> DEFINE T == {f[i] : i \in 1 .. n}
<1>5. f \in Bijection(1 .. n, T)
  BY <1>3 DEF Bijection, Injection, Surjection, IsInjective
<1>6. Cardinality(T) = n
  <2>1. ExistsBijection(1 .. n, T)
    BY <1>5 DEF ExistsBijection
  <2> HIDE DEF n, T
  <2> QED BY <1>1, <2>1, FS_CountingElements
<1>7. T = S
  BY <1>3, <1>6, FS_Subset
<1>8. IsSeq(f)
  BY <1>4, SeqFrom
<1>9. DOMAIN f = 1 .. n
  BY <1>3
<1> QED BY <1>3, <1>7, <1>8, <1>9 DEF f

\* One after the other.
LEMMA BothCovered ==
  ASSUME NEW s, NEW t, IsSeq(s), IsSeq(t), NEW pre, NEW read, CoversAll(s, pre, read), CoversAll(t, pre, read)
  PROVE  /\ IsSeq(s \o t)
         /\ CoversAll(s \o t, pre, read)
         /\ \A k \in DOMAIN s : \E j \in DOMAIN (s \o t) : (s \o t)[j] = s[k]
         /\ \A k \in DOMAIN t : \E j \in DOMAIN (s \o t) : (s \o t)[j] = t[k]
<1> DEFINE all == s \o t
<1>1. Len(s) \in Nat /\ DOMAIN s = 1 .. Len(s) /\ Len(t) \in Nat /\ DOMAIN t = 1 .. Len(t)
  BY SeqIs
<1>2. /\ IsSeq(all) /\ DOMAIN all = 1 .. Len(s) + Len(t)
      /\ \A i \in 1 .. Len(s) : all[i] = s[i]
      /\ \A i \in 1 .. Len(t) : all[Len(s) + i] = t[i]
      /\ \A i \in DOMAIN all : i \in 1 .. Len(s) \/ (i - Len(s) \in 1 .. Len(t) /\ all[i] = t[i - Len(s)])
  BY Joined, SeqIs
<1> HIDE DEF all
<1>3. CoversAll(all, pre, read)
  <2> SUFFICES ASSUME NEW i \in DOMAIN all PROVE IsChange(all[i]) /\ \A p \in TouchedBy(all[i]) : Covered(read, pre, p)
    BY DEF CoversAll
  <2>1. \/ \E k \in DOMAIN s : all[i] = s[k]
        \/ \E k \in DOMAIN t : all[i] = t[k]
    BY <1>1, <1>2
  <2> QED BY <2>1 DEF CoversAll
<1>4. \A k \in DOMAIN s : k \in DOMAIN all /\ all[k] = s[k]
  BY <1>1, <1>2
<1>5. \A k \in DOMAIN t : Len(s) + k \in DOMAIN all /\ all[Len(s) + k] = t[k]
  BY <1>1, <1>2
<1> QED BY <1>2, <1>3, <1>4, <1>5 DEF all

\* The linking notes' updates.
LEMMA UpdatesCovered ==
  ASSUME NEW hit, IsFiniteSet(hit), hit \subseteq Paths, NEW new, NEW pre, NEW read,
         \A q \in hit : NoteOrNone(new[q]) /\ Covered(read, pre, q),
         NEW updates,
         updates = [i \in DOMAIN Seqs!SetToSeq(hit) |-> LET q == Seqs!SetToSeq(hit)[i] IN Upsert(q, new[q])]
  PROVE  /\ IsSeq(updates)
         /\ CoversAll(updates, pre, read)
         /\ \A q \in hit : \E k \in DOMAIN updates : TouchedBy(updates[k]) = {q}
<1> DEFINE list == Seqs!SetToSeq(hit)
<1>1. /\ IsSeq(list)
      /\ \A i \in DOMAIN list : list[i] \in hit
      /\ \A q \in hit : \E i \in DOMAIN list : list[i] = q
  BY Listed
<1>2. updates = [i \in DOMAIN list |-> Upsert(list[i], new[list[i]])]
  OBVIOUS
<1> HIDE DEF list
<1>3. Len(list) \in Nat /\ DOMAIN list = 1 .. Len(list)
  BY <1>1, SeqIs
<1>4. IsSeq(updates)
  <2>1. updates \in [1 .. Len(list) -> {updates[i] : i \in DOMAIN updates}]
    BY <1>2, <1>3
  <2> QED BY <1>3, <2>1, SeqDef DEF IsSeq
<1>5. \A i \in DOMAIN updates : /\ list[i] \in hit
                                /\ IsChange(updates[i]) /\ TouchedBy(updates[i]) = {list[i]}
  BY <1>1, <1>2, UpsertIs
<1>6. CoversAll(updates, pre, read)
  BY <1>5 DEF CoversAll
<1> QED BY <1>1, <1>2, <1>4, <1>5, <1>6

LEMMA RewriteLinkersKeeps == ASSUME Inv, NEW c \in Clients, RewriteLinkers(c) PROVE CallsAreGood'
<1> DEFINE l == call[c]
           o == Op(c)
           New(q) == IF o.op = "move" THEN Rewritten(notes[q], o.path, o.to) ELSE Struck(notes[q], o.path)
           hit == {q \in Paths : q \in call[c].linkers /\ New(q) # notes[q]}
           updates == [i \in DOMAIN Seqs!SetToSeq(hit) |-> LET q == Seqs!SetToSeq(hit)[i] IN Upsert(q, New(q))]
           head == IF o.op = "move" THEN <<Remove(o.path), Upsert(o.to, call[c].source)>> ELSE <<Remove(o.path)>>
           pre == Token(c, o) \cup {Linked1(q) : q \in hit} \cup (IF o.op = "move" THEN {Expect(o.to, "absent")} ELSE {})
           seen == [p \in hit \cup {o.path} |-> IF p = o.path THEN Seen(c, o) ELSE notes[p].text]
           read == [p \in Paths |-> IF p \in DOMAIN seen THEN seen[p] ELSE call[c].read[p]]
<1>1. pc[c] = "linkers" /\ call[c].todo # <<>> /\ NoteOrNone(call[c].source)
  BY CallIs DEF RewriteLinkers
<1>2. o.path \in Paths /\ o.to \in Paths
  BY <1>1, OpIs
<1>3. CASE Refuse(c)
  BY <1>3, Refused
<1>4. CASE (\A q \in call[c].linkers : notes[q] # Absent) /\ Fold(c, head \o updates, pre, seen)
  <2>1. IsFiniteSet(hit) /\ hit \subseteq Paths
    BY ToolsAssumption, FS_Subset
  <2>2. ASSUME NEW q \in hit PROVE IsNote(notes[q]) /\ NoteOrNone(New(q))
    <3>1. IsNote(notes[q]) /\ call[c].id \in 0 .. MaxCalls
      BY <1>1, <1>4, OpIs, TreeHolds DEF NoteOrNone
    <3> QED BY <3>1, NoteChanges DEF NoteOrNone, Rewritten, Struck
  <2>3. o.guarded => ExpectBlob(o.path, call[c].seen[o.path]) \in pre
    BY TokenIn
  <2>4. \A q \in hit : ExpectBlob(q, notes[q]) \in pre
    BY DEF Linked1
  <2>5. o.op = "move" => Expect(o.to, "absent") \in pre
    OBVIOUS
  <2>6. /\ DOMAIN seen = hit \cup {o.path}
        /\ read[o.path] = Seen(c, o)
        /\ \A q \in hit : q # o.path => read[q] = notes[q].text
    BY <1>2
  <2>7. Fold(c, head \o updates, pre, seen)
    BY <1>4
  <2> HIDE DEF o, hit, pre, seen, New
  <2>8. Covered(read, pre, o.path)
    <3> HIDE DEF read
    <3> QED BY <2>3, <2>6, SeenCovers
  <2>9. \A q \in hit : Covered(read, pre, q)
    <3> HIDE DEF read
    <3> QED BY <2>4, <2>6, <2>8 DEF Covered, ExpectBlob
  <2>10. o.op = "move" => Covered(read, pre, o.to)
    <3> HIDE DEF read
    <3> QED BY <2>5 DEF Covered
  <2>11. /\ IsSeq(updates) /\ CoversAll(updates, pre, read)
         /\ \A q \in hit : \E k \in DOMAIN updates : TouchedBy(updates[k]) = {q}
    <3> DEFINE u == updates
               new == [q \in hit |-> New(q)]
    <3>1. u = [i \in DOMAIN Seqs!SetToSeq(hit) |-> LET q == Seqs!SetToSeq(hit)[i] IN Upsert(q, new[q])]
      BY <2>1, Listed
    <3>2. \A q \in hit : NoteOrNone(new[q]) /\ Covered(read, pre, q)
      BY <2>2, <2>9
    <3> HIDE DEF u, new, read
    <3> QED BY <2>1, <3>1, <3>2, UpdatesCovered DEF u
  <2>12. IsChange(Remove(o.path)) /\ TouchedBy(Remove(o.path)) = {o.path}
    BY <1>2, RemoveIs
  <2>13. IsChange(Upsert(o.to, call[c].source)) /\ TouchedBy(Upsert(o.to, call[c].source)) = {o.to}
    BY <1>1, <1>2, UpsertIs
  <2>14. IsSeq(head) /\ CoversAll(head, pre, read) /\ \E k \in DOMAIN head : TouchedBy(head[k]) = {o.path}
    <3>1. CASE o.op = "move"
      <4> DEFINE h == <<Remove(o.path), Upsert(o.to, call[c].source)>>
      <4>1. IsSeq(h) /\ DOMAIN h = {1, 2} /\ h[1] = Remove(o.path) /\ h[2] = Upsert(o.to, call[c].source)
        BY TwoIs
      <4>2. head = h
        BY <3>1
      <4> HIDE DEF h, head, read
      <4> QED BY <2>8, <2>10, <2>12, <2>13, <3>1, <4>1, <4>2 DEF CoversAll
    <3>2. CASE o.op # "move"
      <4> DEFINE h == <<Remove(o.path)>>
      <4>1. IsSeq(h) /\ DOMAIN h = {1} /\ h[1] = Remove(o.path)
        BY OneIs
      <4>2. head = h
        BY <3>2
      <4> HIDE DEF h, head, read
      <4> QED BY <2>8, <2>12, <4>1, <4>2 DEF CoversAll
    <3> QED BY <3>1, <3>2
  <2> DEFINE changes == head \o updates
  <2>15. Fold(c, changes, pre, seen)
    BY <2>7
  <2> HIDE DEF head, updates
  <2>16. /\ IsSeq(changes) /\ CoversAll(changes, pre, read)
         /\ \A k \in DOMAIN head : \E j \in DOMAIN changes : changes[j] = head[k]
         /\ \A k \in DOMAIN updates : \E j \in DOMAIN changes : changes[j] = updates[k]
    <3> HIDE DEF read
    <3> QED BY <2>11, <2>14, BothCovered
  <2> HIDE DEF changes
  <2>17. DOMAIN seen \subseteq UNION {TouchedBy(changes[k]) : k \in DOMAIN changes}
    <3> SUFFICES ASSUME NEW p \in DOMAIN seen PROVE \E j \in DOMAIN changes : p \in TouchedBy(changes[j])
      OBVIOUS
    <3>1. \/ \E k \in DOMAIN head : p \in TouchedBy(head[k])
          \/ \E k \in DOMAIN updates : p \in TouchedBy(updates[k])
      BY <2>6, <2>11, <2>14
    <3> QED BY <2>16, <3>1
  <2> QED BY <1>1, <2>15, <2>16, <2>17, Folded
<1> QED BY <1>3, <1>4 DEF RewriteLinkers

-----------------------------------------------------------------------------
(* The manager and the rest of a call.                                     *)

\* The first changes of a plan leave a tree, and what they do not touch.
LEMMA TreeApplied ==
  ASSUME NEW tree, IsTree(tree), NEW changes, IsSeq(changes), NEW n \in 0 .. Len(changes),
         \A k \in DOMAIN changes : IsChange(changes[k])
  PROVE  IsTree(Applied(tree, changes, n))
<1> DEFINE some == SubSeq(changes, 1, n)
           after == Applied(tree, changes, n)
<1>1. Len(changes) \in Nat /\ DOMAIN changes = 1 .. Len(changes)
  BY SeqIs
<1>2. DOMAIN some = 1 .. n /\ \A k \in 1 .. n : some[k] = changes[k]
  <2>1. changes \in Seq({changes[i] : i \in DOMAIN changes})
    BY DEF IsSeq
  <2>2. 1 \in 1 .. Len(changes) + 1 /\ n \in 0 .. Len(changes)
    BY <1>1
  <2>3. n \in Nat /\ n <= Len(changes)
    BY <1>1
  <2> QED BY <1>1, <2>1, <2>3, SubSeqProperties
<1> HIDE DEF some
<1>3. after = [p \in Paths |->
                 IF p \in Touched([changes |-> some])
                 THEN Effect(some[CHOOSE k \in DOMAIN some : p \in TouchedBy(some[k])], tree, p)
                 ELSE tree[p]]
  <2> DEFINE plan == [changes |-> some]
  <2>1. plan.changes = some
    OBVIOUS
  <2>2. after = TreeAfter(plan, tree)
    BY DEF Applied, some
  <2> HIDE DEF plan
  <2>3. after = [p \in Paths |->
                   IF p \in Touched(plan)
                   THEN Effect(some[CHOOSE k \in DOMAIN some : p \in TouchedBy(some[k])], tree, p)
                   ELSE tree[p]]
    BY <2>1, <2>2, Zenon DEF TreeAfter
  <2> QED BY <2>3 DEF plan
<1> HIDE DEF after
<1>4. after = [p \in Paths |-> after[p]]
  BY <1>3
<1>5. ASSUME NEW p \in Paths PROVE NoteOrNone(after[p])
  <2>1. CASE p \notin Touched([changes |-> some])
    BY <1>3, <2>1 DEF IsTree
  <2>2. CASE p \in Touched([changes |-> some])
    <3> DEFINE k == CHOOSE k \in DOMAIN some : p \in TouchedBy(some[k])
    <3>1. k \in DOMAIN some /\ p \in TouchedBy(some[k])
      BY <2>2 DEF Touched
    <3>2. after[p] = Effect(some[k], tree, p)
      BY <1>3, <2>2
    <3> HIDE DEF k
    <3>3. IsChange(some[k])
      BY <1>1, <1>2, <3>1
    <3> QED BY <3>1, <3>2, <3>3 DEF Effect, IsChange, IsTree, NoteOrNone
  <2> QED BY <2>1, <2>2
<1> QED BY <1>4, <1>5 DEF IsTree, after

\* What the guards let go was read, or may go.
LEMMA NothingLost ==
  ASSUME NEW tree, IsTree(tree), NEW after, NEW l, Planning(l), PreconditionsHold(l.plan, tree),
         NEW n \in 0 .. Len(l.plan.changes)
  PROVE  LostBy(l, tree, after, Landing(l.plan.changes, n)) = {}
<1> DEFINE changes == l.plan.changes
           paths == Landing(changes, n)
<1>1. IsSeq(changes) /\ CoversAll(changes, l.plan.pre, l.read)
  BY DEF Planning
<1> SUFFICES ASSUME NEW t \in LostBy(l, tree, after, paths) PROVE FALSE
  OBVIOUS
<1>2. PICK p \in paths : tree[p] # Absent /\ t \in tree[p].text /\ t \notin l.read[p]
  BY DEF LostBy, Gone
<1>3. PICK k \in DOMAIN changes : p \in TouchedBy(changes[k])
  <2>1. PICK i \in 1 .. n : p \in TouchedBy(changes[i])
    BY DEF Landing
  <2>2. i \in DOMAIN changes
    BY <1>1, SeqIs
  <2> QED BY <2>1, <2>2
<1>4. Covered(l.read, l.plan.pre, p) /\ p \in Paths
  BY <1>1, <1>3 DEF CoversAll, IsChange
<1>5. \A x \in l.plan.pre : Satisfied(tree, x)
  BY DEF PreconditionsHold
<1> HIDE DEF paths, changes
<1>6. CASE Expect(p, "absent") \in l.plan.pre
  <2>1. Satisfied(tree, Expect(p, "absent"))
    BY <1>5, <1>6
  <2> QED BY <1>2, <2>1 DEF Satisfied, Expect
<1>7. CASE 0 .. MaxCalls \subseteq l.read[p]
  BY <1>2, <1>4, <1>7 DEF IsTree, NoteOrNone, IsNote
<1>8. CASE \E x \in l.plan.pre : x.path = p /\ x.kind = "blob" /\ x.blob.text \subseteq l.read[p]
  <2>1. PICK x \in l.plan.pre : x.path = p /\ x.kind = "blob" /\ x.blob.text \subseteq l.read[p]
    BY <1>8
  <2>2. tree[p] = x.blob
    BY <1>5, <2>1 DEF Satisfied
  <2> QED BY <1>2, <2>1, <2>2
<1> QED BY <1>4, <1>6, <1>7, <1>8 DEF Covered

LEMMA Settled ==
  ASSUME NEW l, IsRecord(l), Asked(l), Planning(l), l.todo = <<>>, NEW n \in 0 .. Len(l.plan.changes),
         NEW reply, reply = IF n = Len(l.plan.changes) THEN "done" ELSE "failed"
  PROVE  Good("index", [l EXCEPT !.landed = n, !.reply = reply])
<1> DEFINE v1 == [l EXCEPT !.landed = n]
           v2 == [v1 EXCEPT !.reply = reply]
<1>1. [l EXCEPT !.landed = n, !.reply = reply] = v2
  OBVIOUS
<1>2. v1 = [x \in Fields |-> IF x = "landed" THEN n ELSE l[x]]
  BY DEF IsRecord, Fields
<1> HIDE DEF v1
<1>3. v2 = [x \in Fields |-> IF x = "reply" THEN reply ELSE v1[x]]
  BY <1>2 DEF Fields
<1> HIDE DEF v2
<1>4. /\ v2.call = l.call /\ v2.id = l.id /\ v2.seen = l.seen /\ v2.todo = l.todo /\ v2.plan = l.plan
      /\ v2.ends = l.ends /\ v2.read = l.read /\ v2.landed = n /\ v2.reply = reply
  BY <1>2, <1>3 DEF Fields
<1>5. IsRecord(v2)
  BY <1>2, <1>3 DEF IsRecord, Fields
<1>6. Asked(v2) /\ Planning(v2)
  BY <1>4 DEF Asked, Planning, OpsOf
<1> QED BY <1>1, <1>4, <1>5, <1>6 DEF Good

LEMMA OvertakenGood ==
  ASSUME NEW s, NEW l, Good(s, l)
  PROVE  Good(s, [l EXCEPT !.sure = FALSE])
<1> SUFFICES ASSUME s \notin {"idle", "reply"} PROVE Good(s, [l EXCEPT !.sure = FALSE])
  BY DEF Good
<1> DEFINE a == [l EXCEPT !.sure = FALSE]
<1>1. a = [x \in Fields |-> IF x = "sure" THEN FALSE ELSE l[x]]
  BY DEF Good, IsRecord, Fields
<1> HIDE DEF a
<1>2. /\ a.call = l.call /\ a.id = l.id /\ a.seen = l.seen /\ a.todo = l.todo /\ a.plan = l.plan
      /\ a.ends = l.ends /\ a.read = l.read /\ a.landed = l.landed /\ a.reply = l.reply /\ a.source = l.source
  BY <1>1 DEF Fields
<1>3. IsRecord(a)
  BY <1>1 DEF IsRecord, Fields
<1> QED BY <1>2, <1>3 DEF Good, Asked, Planning, OpsOf, a

LEMMA ApplyKeeps == ASSUME Inv, NEW c \in Clients, Apply(c) PROVE Inv'
<1> DEFINE l == call[c]
           changes == l.plan.changes
<1>1. pc[c] = "plan" /\ l.todo = <<>> /\ calls' = calls
  BY DEF Apply
<1>2. IsRecord(l) /\ Asked(l) /\ Planning(l)
  BY <1>1, CallIs
<1>3. CASE Refuse(c) /\ UNCHANGED <<notes, lost>>
  BY <1>1, <1>3, Refused DEF Inv, IsTree, NoteOrNone
<1>4. CASE \E n \in 0 .. Len(changes) :
             /\ PreconditionsHold(l.plan, notes)
             /\ notes' = Applied(notes, changes, n)
             /\ lost' = lost \cup LostBy(l, notes, notes', Landing(changes, n))
             /\ pc' = [pc EXCEPT ![c] = "index"]
             /\ call' = [Overtaken(c) EXCEPT ![c] =
                           [l EXCEPT !.landed = n, !.reply = IF n = Len(changes) THEN "done" ELSE "failed"]]
  <2>1. PICK n \in 0 .. Len(changes) :
             /\ PreconditionsHold(l.plan, notes)
             /\ notes' = Applied(notes, changes, n)
             /\ lost' = lost \cup LostBy(l, notes, notes', Landing(changes, n))
             /\ pc' = [pc EXCEPT ![c] = "index"]
             /\ call' = [Overtaken(c) EXCEPT ![c] =
                           [l EXCEPT !.landed = n, !.reply = IF n = Len(changes) THEN "done" ELSE "failed"]]
    BY <1>4
  <2>2. IsTree(notes')
    <3>1. IsSeq(changes) /\ (\A k \in DOMAIN changes : IsChange(changes[k])) /\ IsTree(notes)
      BY <1>2 DEF Planning, CoversAll, Inv
    <3> HIDE DEF changes, l
    <3> QED BY <2>1, <3>1, TreeApplied
  <2>3. lost' = {}
    <3>1. LostBy(l, notes, notes', Landing(changes, n)) = {}
      BY <1>2, <2>1, NothingLost DEF Inv
    <3> QED BY <2>1, <3>1 DEF Inv
  <2>4. CallsAreGood'
    <3> DEFINE reply == IF n = Len(changes) THEN "done" ELSE "failed"
               value == [l EXCEPT !.landed = n, !.reply = reply]
    <3>1. Good("index", value)
      <4>1. reply = IF n = Len(l.plan.changes) THEN "done" ELSE "failed"
        OBVIOUS
      <4> HIDE DEF reply, l
      <4> QED BY <1>1, <1>2, <4>1, Settled
    <3>2. call' = [Overtaken(c) EXCEPT ![c] = value]
      BY <2>1
    <3> HIDE DEF value, l, changes, reply
    <3>3. pc' \in [Clients -> Places] /\ pc'[c] = "index" /\ \A d \in Clients \ {c} : pc'[d] = pc[d]
      BY <2>1 DEF Inv, CallsAreGood, Places
    <3>4. /\ call' = [d \in Clients |-> call'[d]] /\ call'[c] = value
          /\ \A d \in Clients \ {c} : call'[d] = [call[d] EXCEPT !.sure = FALSE]
      BY <3>2 DEF Overtaken
    <3>5. ASSUME NEW d \in Clients PROVE Good(pc'[d], call'[d])
      <4>1. CASE d = c
        BY <3>1, <3>3, <3>4, <4>1
      <4>2. CASE d # c
        <5>1. Good(pc[d], call[d])
          BY DEF Inv, CallsAreGood
        <5>2. pc'[d] = pc[d] /\ call'[d] = [call[d] EXCEPT !.sure = FALSE]
          BY <3>3, <3>4, <4>2
        <5> QED BY <5>1, <5>2, OvertakenGood
      <4> QED BY <4>1, <4>2
    <3> QED BY <3>3, <3>4, <3>5 DEF CallsAreGood
  <2> QED BY <1>1, <2>2, <2>3, <2>4 DEF Inv
<1>5. Len(changes) \in Nat
  BY <1>2, SeqIs DEF Planning
<1>6. Reach(notes, changes) \subseteq 0 .. Len(changes) /\ Len(changes) \in 0 .. Len(changes)
  BY <1>5 DEF Reach
<1> QED BY <1>3, <1>4, <1>6 DEF Apply

\* sync_index is no part of the call's record.
LEMMA IndexingKeeps ==
  ASSUME Inv, NEW c \in Clients, Look(c) \/ LookFails(c) \/ SyncIndex(c)
  PROVE  Inv'
<1>1. UNCHANGED <<notes, lost, calls, pc, call>>
  BY DEF Look, LookFails, SyncIndex
<1> QED BY <1>1 DEF Inv, IsTree, NoteOrNone, CallsAreGood

LEMMA ReplyKeeps == ASSUME Inv, NEW c \in Clients, Reply(c) PROVE CallsAreGood'
BY GoesTo DEF Reply, Good, Places

LEMMA Nil == IsSeq(<<>>) /\ Len(<<>>) = 0 /\ DOMAIN <<>> = {}
<1>1. <<>> \in Seq({}) /\ Len(<<>>) = 0
  OBVIOUS
<1>2. IsSeq(<<>>)
  BY <1>1, SeqFrom
<1> QED BY <1>1, <1>2, SeqIs

\* A call that is asked, before its first operation is planned.
LEMMA AskedGood ==
  ASSUME NEW what \in Calls, NEW id \in 0 .. MaxCalls, NEW tree, IsTree(tree),
         \A i \in DOMAIN what.ops : what.ops[i].guarded => IsNote(tree[what.ops[i].path])
  PROVE  Good("plan", [NoCall EXCEPT !.call = what, !.id = id, !.seen = tree, !.todo = what.ops])
<1> DEFINE v0 == NoCall
           v1 == [v0 EXCEPT !.call = what]
           v2 == [v1 EXCEPT !.id = id]
           v3 == [v2 EXCEPT !.seen = tree]
           v4 == [v3 EXCEPT !.todo = what.ops]
           none == [changes |-> <<>>, pre |-> {}]
<1>1. [NoCall EXCEPT !.call = what, !.id = id, !.seen = tree, !.todo = what.ops] = v4
  OBVIOUS
<1>2. IsRecord(v0) /\ v0.plan = none /\ v0.ends = <<>>
  BY DEF NoCall, IsRecord, Fields
<1> HIDE DEF v0
<1>3. v1 = [x \in Fields |-> IF x = "call" THEN what ELSE v0[x]]
  BY <1>2 DEF IsRecord, Fields
<1> HIDE DEF v1
<1>4. v2 = [x \in Fields |-> IF x = "id" THEN id ELSE v1[x]]
  BY <1>3 DEF Fields
<1> HIDE DEF v2
<1>5. v3 = [x \in Fields |-> IF x = "seen" THEN tree ELSE v2[x]]
  BY <1>4 DEF Fields
<1> HIDE DEF v3
<1>6. v4 = [x \in Fields |-> IF x = "todo" THEN what.ops ELSE v3[x]]
  BY <1>5 DEF Fields
<1> HIDE DEF v4
<1>7. v4.call = what /\ v4.id = id /\ v4.seen = tree /\ v4.todo = what.ops /\ v4.plan = none /\ v4.ends = <<>>
  BY <1>2, <1>3, <1>4, <1>5, <1>6 DEF Fields
<1>8. IsRecord(v4)
  BY <1>6 DEF IsRecord, Fields
<1>9. none.changes = <<>> /\ none.pre = {} /\ none = [changes |-> none.changes, pre |-> none.pre]
  OBVIOUS
<1> HIDE DEF none
<1>10. Asked(v4)
  <2>1. what.ops \in Seq(OpsOf(v4))
    BY <1>7, ToolsAssumption DEF OpsOf
  <2>2. Len(what.ops) \in Nat
    BY <2>1, LenProperties
  <2>3. Len(v4.ends) + Len(v4.todo) = Len(v4.call.ops)
    BY <1>7, <2>2, Nil
  <2> QED BY <1>7, <2>1, <2>3 DEF Asked, OpsOf
<1>11. Planning(v4)
  <2>1. ~Duplicated(v4.plan)
    BY <1>7, <1>9, Nil DEF Duplicated
  <2>2. CoversAll(v4.plan.changes, v4.plan.pre, v4.read)
    BY <1>7, <1>9, Nil DEF CoversAll
  <2>3. InSpans(v4.ends, Len(v4.plan.changes))
    BY <1>7, <1>9, Nil DEF InSpans
  <2> QED BY <1>7, <1>9, <2>1, <2>2, <2>3, Nil DEF Planning
<1> QED BY <1>1, <1>8, <1>10, <1>11 DEF Good

LEMMA AskKeeps == ASSUME Inv, NEW c \in Clients, NEW what \in Calls, Ask(c, what) PROVE Inv'
<1> DEFINE id == calls'
           tree == notes
           value == [NoCall EXCEPT !.call = what, !.id = id, !.seen = tree, !.todo = what.ops]
<1>1. /\ calls < MaxCalls /\ calls' = calls + 1
      /\ Go(c, "plan", value)
      /\ notes' = notes /\ lost' = lost
  BY DEF Ask
<1>2. calls' \in 0 .. MaxCalls
  BY <1>1, ToolsAssumption DEF Inv
<1>3. \A i \in DOMAIN what.ops : what.ops[i].guarded => IsNote(notes[what.ops[i].path])
  <2> SUFFICES ASSUME NEW i \in DOMAIN what.ops, what.ops[i].guarded PROVE IsNote(notes[what.ops[i].path])
    OBVIOUS
  <2>1. what.ops[i].path \in Paths
    BY ToolsAssumption
  <2>2. notes[what.ops[i].path] # Absent
    BY DEF Ask
  <2> QED BY <2>1, <2>2, TreeHolds DEF NoteOrNone
<1>4. Good("plan", value)
  <2>1. id \in 0 .. MaxCalls /\ IsTree(tree)
    BY <1>2 DEF Inv
  <2>2. \A i \in DOMAIN what.ops : what.ops[i].guarded => IsNote(tree[what.ops[i].path])
    BY <1>3
  <2> HIDE DEF id, tree
  <2> QED BY <2>1, <2>2, AskedGood
<1>5. CallsAreGood'
  <2> HIDE DEF value
  <2> QED BY <1>1, <1>4, GoesTo DEF Places
<1> QED BY <1>1, <1>2, <1>5 DEF Inv, IsTree, NoteOrNone

LEMMA StepKeeps == ASSUME Inv, NEW c \in Clients, Step(c) PROVE Inv'
<1>1. CASE Apply(c)
  BY <1>1, ApplyKeeps
<1>2. CASE /\ \/ Create(c) \/ Overwrite(c) \/ Extend(c) \/ Edit(c) \/ Amend(c) \/ Delete(c) \/ Consider(c)
              \/ DeleteUnlinked(c) \/ Move(c) \/ StartMove(c) \/ FindLinkers(c) \/ RewriteLinkers(c)
  <2>1. CallsAreGood'
    BY <1>2, CreateKeeps, OverwriteKeeps, ExtendKeeps, EditKeeps, AmendKeeps, DeleteKeeps, ConsiderKeeps,
       DeleteUnlinkedKeeps, MoveKeeps, StartMoveKeeps, FindLinkersKeeps, RewriteLinkersKeeps
  <2>2. Planned(c)
    BY <1>2 DEF Create, Overwrite, Extend, Edit, Amend, Delete, Consider, DeleteUnlinked, Move, StartMove,
                FindLinkers, RewriteLinkers
  <2> QED BY <2>1, <2>2 DEF Inv, IsTree, NoteOrNone, Planned
<1>3. CASE Look(c) \/ LookFails(c) \/ SyncIndex(c)
  BY <1>3, IndexingKeeps
<1>4. CASE Reply(c)
  BY <1>4, ReplyKeeps DEF Inv, IsTree, NoteOrNone, Reply
<1> QED BY <1>1, <1>2, <1>3, <1>4 DEF Step

LEMMA InitInv == ASSUME Init PROVE Inv
<1>1. IsTree(notes)
  BY ToolsAssumption DEF Init, IsTree, NoteOrNone
<1>2. lost = {} /\ calls \in 0 .. MaxCalls
  BY ToolsAssumption DEF Init
<1>3. CallsAreGood
  BY DEF Init, CallsAreGood, Places, Good
<1> QED BY <1>1, <1>2, <1>3 DEF Inv

\* The tree stays one of notes, nothing is lost, and every call under way has a
\* plan whose guards cover all it replaces and whose spans follow one another.
THEOREM ToolsInvariant == Spec => []Inv
<1>1. Init => Inv
  BY InitInv
<1>2. Inv /\ [Next]_vars => Inv'
  <2> SUFFICES ASSUME Inv, [Next]_vars PROVE Inv'
    OBVIOUS
  <2>1. CASE Next
    BY <2>1, StepKeeps, AskKeeps DEF Next
  <2>2. CASE UNCHANGED vars
    BY <2>2 DEF Inv, IsTree, NoteOrNone, CallsAreGood, vars
  <2> QED BY <2>1, <2>2
<1> QED BY <1>1, <1>2, PTL DEF Spec

\* No call that was told what a note holds loses text it did not know of,
\* whatever the others do between its steps.
THEOREM CallsLoseNothing == Spec => []GuardedCallsLoseNothing
<1>1. Inv => GuardedCallsLoseNothing
  BY DEF Inv, GuardedCallsLoseNothing
<1> QED BY <1>1, ToolsInvariant, PTL

-----------------------------------------------------------------------------
(* Reports.                                                                *)

LEMMA EndsAre ==
  ASSUME NEW ends, NEW n \in Nat, InSpans(ends, n)
  PROVE  /\ Len(ends) \in Nat /\ DOMAIN ends = 1 .. Len(ends)
         /\ \A i \in DOMAIN ends : ends[i] \in 0 .. n /\ Start(ends, i) \in 0 .. n
         /\ \A i, j \in DOMAIN ends : i < j => ends[i] <= ends[j] /\ ends[i] <= Start(ends, j)
<1>1. Len(ends) \in Nat /\ DOMAIN ends = 1 .. Len(ends) /\ \A i \in 1 .. Len(ends) : ends[i] \in 0 .. n
  BY ElementOfSeq, LenProperties DEF InSpans
<1>2. ASSUME NEW i \in DOMAIN ends, i # 1 PROVE i - 1 \in DOMAIN ends
  BY <1>1, <1>2
<1>3. ASSUME NEW i \in DOMAIN ends PROVE Start(ends, i) \in 0 .. n
  BY <1>1, <1>2 DEF Start
<1>4. ASSUME NEW i \in DOMAIN ends, NEW j \in DOMAIN ends, i < j PROVE ends[i] <= Start(ends, j)
  <2>1. j # 1 /\ j - 1 \in DOMAIN ends /\ (i = j - 1 \/ i < j - 1)
    BY <1>1, <1>4
  <2>2. ends[i] <= ends[j - 1]
    BY <1>1, <2>1 DEF InSpans
  <2> QED BY <2>1, <2>2 DEF Start
<1> QED BY <1>1, <1>3, <1>4 DEF InSpans

\* The spans of the operations up to i, the last of them up to the change m, are
\* the changes up to m.
LEMMA SpansLand ==
  ASSUME NEW l, Planning(l), NEW f \in DOMAIN l.ends, NEW m \in 0 .. Len(l.plan.changes),
         Start(l.ends, f) <= m, m <= l.ends[f],
         NEW files, files = [i \in 1 .. f |-> Span(l, i, IF i = f THEN m ELSE l.ends[i])]
  PROVE  UNION Seqs!Range(files) = Landing(l.plan.changes, m)
<1> DEFINE ends == l.ends
           n == Len(l.plan.changes)
           Last(i) == IF i = f THEN m ELSE ends[i]
<1>1. n \in Nat /\ InSpans(ends, n)
  BY SeqIs DEF Planning
<1> HIDE DEF ends, n
<1>2. /\ Len(ends) \in Nat /\ DOMAIN ends = 1 .. Len(ends)
      /\ \A i \in DOMAIN ends : ends[i] \in 0 .. n /\ Start(ends, i) \in 0 .. n
      /\ \A i, j \in DOMAIN ends : i < j => ends[i] <= ends[j] /\ ends[i] <= Start(ends, j)
  BY <1>1, EndsAre
<1>3. f \in DOMAIN ends /\ m \in 0 .. n /\ Start(ends, f) <= m /\ m <= ends[f]
  BY DEF ends, n
<1>4. \A i \in 1 .. f : files[i] = UNION {TouchedBy(l.plan.changes[k]) : k \in Start(ends, i) + 1 .. Last(i)}
  BY DEF Span, First, Start, ends
<1>5. DOMAIN files = 1 .. f /\ 1 .. f \subseteq DOMAIN ends
  BY <1>2, <1>3
<1>6. ASSUME NEW i \in 1 .. f, NEW k \in Start(ends, i) + 1 .. Last(i)
      PROVE  k \in 1 .. m
  <2>1. i \in DOMAIN ends
    BY <1>5
  <2>2. CASE i = f
    BY <1>2, <1>3, <2>1, <2>2
  <2>3. CASE i # f
    <3>1. ends[i] <= Start(ends, f)
      BY <1>2, <1>3, <2>1, <2>3
    <3> QED BY <1>2, <1>3, <2>1, <2>3, <3>1
  <2> QED BY <2>2, <2>3
<1>7. ASSUME NEW k \in 1 .. m
      PROVE  \E i \in 1 .. f : k \in Start(ends, i) + 1 .. Last(i)
  <2>1. k \in 1 .. n
    BY <1>1, <1>3
  <2>2. PICK i \in DOMAIN ends : Start(ends, i) < k /\ k <= ends[i]
    BY <1>1, <2>1 DEF InSpans
  <2>3. CASE i = f
    BY <1>2, <1>3, <2>2, <2>3
  <2>4. CASE i < f
    BY <1>2, <1>3, <2>2, <2>4
  <2>5. CASE f < i
    BY <1>2, <1>3, <2>2, <2>5
  <2> QED BY <1>2, <1>3, <2>3, <2>4, <2>5
<1> HIDE DEF Last
<1>8. Seqs!Range(files) = {files[i] : i \in 1 .. f}
  BY <1>5 DEF Seqs!Range
<1>9. ASSUME NEW i \in 1 .. f, NEW p \in files[i] PROVE \E k \in 1 .. m : p \in TouchedBy(l.plan.changes[k])
  <2> DEFINE span == Start(ends, i) + 1 .. Last(i)
  <2>0. files[i] = UNION {TouchedBy(l.plan.changes[k]) : k \in span}
    BY <1>4
  <2> HIDE DEF span
  <2>1. PICK k \in span : p \in TouchedBy(l.plan.changes[k])
    BY <2>0
  <2>2. k \in 1 .. m
    BY <1>6 DEF span
  <2> QED BY <2>1, <2>2
<1>10. ASSUME NEW k \in 1 .. m, NEW p \in TouchedBy(l.plan.changes[k]) PROVE \E i \in 1 .. f : p \in files[i]
  <2>1. PICK i \in 1 .. f : k \in Start(ends, i) + 1 .. Last(i)
    BY <1>7
  <2> QED BY <1>4, <2>1
<1>11. \A p : p \in UNION Seqs!Range(files) <=> \E i \in 1 .. f : p \in files[i]
  BY <1>8
<1>12. \A p : p \in Landing(l.plan.changes, m) <=> \E k \in 1 .. m : p \in TouchedBy(l.plan.changes[k])
  BY DEF Landing
<1>13. \A p : p \in UNION Seqs!Range(files) <=> p \in Landing(l.plan.changes, m)
  BY <1>9, <1>10, <1>11, <1>12
<1> QED BY <1>13
\* The operation the report takes for the one that failed.
LEMMA FailedOpIs ==
  ASSUME NEW l, Planning(l), NEW m, m = l.landed, m \in 0 .. Len(l.plan.changes), m # Len(l.plan.changes)
  PROVE  /\ FailedOp(l) \in DOMAIN l.ends
         /\ l.ends[FailedOp(l)] > l.landed
         /\ \A j \in 1 .. FailedOp(l) - 1 : l.ends[j] <= l.landed
         /\ Start(l.ends, FailedOp(l)) <= l.landed
<1> DEFINE ends == l.ends
           n == Len(l.plan.changes)
           Fails(i) == ends[i] > m /\ \A j \in 1 .. i - 1 : ends[j] <= m
<1>1. n \in Nat /\ InSpans(ends, n)
  BY SeqIs DEF Planning
<1>2. FailedOp(l) = CHOOSE i \in DOMAIN ends : Fails(i)
  BY DEF FailedOp
<1>3. m \in 0 .. n /\ m # n
  OBVIOUS
<1> HIDE DEF ends, n
<1>4. /\ Len(ends) \in Nat /\ DOMAIN ends = 1 .. Len(ends)
      /\ \A i \in DOMAIN ends : ends[i] \in 0 .. n /\ Start(ends, i) \in 0 .. n
      /\ \A i, j \in DOMAIN ends : i < j => ends[i] <= ends[j] /\ ends[i] <= Start(ends, j)
  BY <1>1, EndsAre
<1>5. PICK i \in DOMAIN ends : Start(ends, i) < m + 1 /\ m + 1 <= ends[i]
  <2>1. m + 1 \in 1 .. n
    BY <1>1, <1>3
  <2> QED BY <1>1, <2>1 DEF InSpans
<1>6. Fails(i)
  <2>1. ends[i] > m /\ Start(ends, i) <= m
    BY <1>3, <1>4, <1>5
  <2>2. ASSUME NEW j \in 1 .. i - 1 PROVE ends[j] <= m
    <3>1. j \in DOMAIN ends /\ j < i
      BY <1>4
    <3>2. ends[j] <= Start(ends, i)
      BY <1>4, <3>1
    <3> QED BY <1>3, <1>4, <2>1, <3>1, <3>2
  <2> QED BY <2>1, <2>2
<1> DEFINE f == FailedOp(l)
<1>7. f \in DOMAIN ends /\ Fails(f)
  <2> HIDE DEF Fails, f
  <2> QED BY <1>2, <1>6 DEF f
<1>8. Start(ends, f) <= m
  <2> HIDE DEF f
  <2>1. CASE f = 1
    BY <1>3, <2>1 DEF Start
  <2>2. CASE f # 1
    <3>1. f - 1 \in 1 .. f - 1
      BY <1>4, <1>7, <2>2
    <3> QED BY <1>7, <2>2, <3>1 DEF Start
  <2> QED BY <2>1, <2>2
<1> QED BY <1>7, <1>8 DEF ends

LEMMA TrueReport ==
  ASSUME NEW l, Good("index", l)
  PROVE  LET r == Report(l) IN
         /\ UNION Seqs!Range(r.files) = Landing(l.plan.changes, l.landed)
         /\ \A i \in 1 .. r.executed : l.ends[i] <= l.landed
         /\ l.landed \in 0 .. Len(l.plan.changes) /\ Len(l.ends) = Len(l.call.ops)
         /\ l.reply = "failed" => First(l, r.executed + 1) <= l.landed /\ l.landed < l.ends[r.executed + 1]
<1> DEFINE r == Report(l)
           n == Len(l.plan.changes)
<1>1. /\ Asked(l) /\ Planning(l) /\ l.todo = <<>> /\ l.landed \in 0 .. n
      /\ l.reply = IF l.landed = n THEN "done" ELSE "failed"
  BY DEF Good
<1>2. n \in Nat /\ InSpans(l.ends, n)
  BY <1>1, SeqIs DEF Planning
<1>3. /\ Len(l.ends) \in Nat /\ DOMAIN l.ends = 1 .. Len(l.ends)
      /\ \A i \in DOMAIN l.ends : l.ends[i] \in 0 .. n /\ Start(l.ends, i) \in 0 .. n
      /\ \A i, j \in DOMAIN l.ends : i < j => l.ends[i] <= l.ends[j] /\ l.ends[i] <= Start(l.ends, j)
  <2> HIDE DEF n
  <2> QED BY <1>2, EndsAre
<1>4. Len(l.ends) = Len(l.call.ops)
  BY <1>1, <1>3, Nil DEF Asked
<1>5. CASE l.landed = n
  <2>1. l.reply = "done" /\ r = [executed |-> Len(l.ends), files |-> [i \in DOMAIN l.ends |-> Span(l, i, l.ends[i])]]
    BY <1>1, <1>5 DEF Report
  <2>2. UNION Seqs!Range(r.files) = Landing(l.plan.changes, l.landed)
    <3>1. CASE l.ends = <<>>
      <4>1. DOMAIN l.ends = {} /\ DOMAIN r.files = {}
        BY <2>1, <3>1, Nil
      <4>2. 1 .. n = {}
        BY <1>2, <4>1 DEF InSpans
      <4>3. Seqs!Range(r.files) = {}
        BY <4>1 DEF Seqs!Range
      <4> QED BY <1>5, <4>2, <4>3 DEF Landing
    <3>2. CASE l.ends # <<>>
      <4> DEFINE f == Len(l.ends)
                 files == r.files
      <4>1. f \in DOMAIN l.ends
        BY <1>2, <1>3, <3>2, EmptySeq DEF InSpans
      <4>2. l.ends[f] = n
        <5>1. CASE n = 0
          BY <1>2, <1>3, <4>1, <5>1
        <5>2. CASE n # 0
          <6>1. PICK i \in DOMAIN l.ends : n <= l.ends[i]
            BY <1>2, <5>2 DEF InSpans
          <6>2. i = f \/ i < f
            BY <1>3
          <6> QED BY <1>2, <1>3, <4>1, <6>1, <6>2
        <5> QED BY <5>1, <5>2
      <4>3. files = [i \in 1 .. f |-> Span(l, i, IF i = f THEN n ELSE l.ends[i])]
        BY <1>3, <2>1, <4>2
      <4>4. n \in 0 .. n /\ Start(l.ends, f) <= n /\ n <= l.ends[f]
        BY <1>2, <1>3, <4>1, <4>2
      <4> HIDE DEF f, files
      <4>5. UNION Seqs!Range(files) = Landing(l.plan.changes, n)
        BY <1>1, <4>1, <4>3, <4>4, SpansLand
      <4> QED BY <1>5, <4>5 DEF files
    <3> QED BY <3>1, <3>2
  <2>3. \A i \in 1 .. r.executed : l.ends[i] <= l.landed
    BY <1>2, <1>3, <1>5, <2>1
  <2> QED BY <1>1, <1>4, <2>1, <2>2, <2>3
<1>6. CASE l.landed # n
  <2> DEFINE f == FailedOp(l)
             m == l.landed
             files == r.files
  <2>1. l.reply = "failed" /\ r = [executed |-> f - 1,
                                   files |-> [i \in 1 .. f |-> Span(l, i, IF i = f THEN m ELSE l.ends[i])]]
    BY <1>1, <1>6 DEF Report
  <2>2. /\ f \in DOMAIN l.ends /\ l.ends[f] > m /\ (\A j \in 1 .. f - 1 : l.ends[j] <= m)
        /\ Start(l.ends, f) <= m
    BY <1>1, <1>6, FailedOpIs
  <2>3. files = [i \in 1 .. f |-> Span(l, i, IF i = f THEN m ELSE l.ends[i])] /\ r.executed = f - 1
    BY <2>1
  <2>4. f \in Nat /\ r.executed + 1 = f
    BY <1>3, <2>2, <2>3
  <2>5. m < l.ends[f] /\ m <= l.ends[f] /\ First(l, f) = Start(l.ends, f)
    BY <1>1, <1>3, <2>2 DEF First, Start
  <2> HIDE DEF f, files, m, r
  <2>6. m = l.landed /\ m \in 0 .. Len(l.plan.changes)
    BY <1>1 DEF m
  <2>7. UNION Seqs!Range(files) = Landing(l.plan.changes, m)
    <3>1. /\ Planning(l) /\ f \in DOMAIN l.ends /\ m \in 0 .. Len(l.plan.changes)
          /\ Start(l.ends, f) <= m /\ m <= l.ends[f]
          /\ files = [i \in 1 .. f |-> Span(l, i, IF i = f THEN m ELSE l.ends[i])]
      BY <1>1, <2>2, <2>3, <2>5, <2>6
    <3> HIDE DEF n
    <3> QED BY ONLY <3>1, SpansLand
  <2> QED BY <1>1, <1>4, <2>2, <2>3, <2>4, <2>5, <2>6, <2>7 DEF files, r
<1> QED BY <1>5, <1>6

\* The report of a call says what it did: the files it names are those that
\* changed, the operations it counts are done, and none behind the one that
\* failed has begun.
THEOREM ReportsStayTrue == Spec => []ReportsAreTrue
<1>1. Inv => ReportsAreTrue
  BY TrueReport DEF Inv, CallsAreGood, ReportsAreTrue
<1> QED BY <1>1, ToolsInvariant, PTL
=============================================================================

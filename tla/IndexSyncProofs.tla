--------------------------- MODULE IndexSyncProofs ---------------------------
(***************************************************************************)
(* Proofs about IndexSync, for any notes, writes, flushers and plans, with *)
(* either backend and any bounds.  The inductive invariant has four parts: *)
(* the shape of the state; claims as the number of writes that hold them;  *)
(* the entries of the queue, of which each is waiting, in the hands of the *)
(* holder of the flush lock, applied, or thrown away by a failure; and     *)
(* what a read that straddled a change can have seen.                      *)
(***************************************************************************)
EXTENDS IndexSync, FiniteSetTheorems, SequenceTheorems, TLAPS

\* A part of a sum, with some of the rest.
LEMMA PartOfSum ==
  ASSUME NEW x \in Nat, NEW y \in Nat, NEW h \in Nat, NEW q \in Nat, NEW s, x + y + h + q = s
  PROVE  /\ y \in 0 .. s /\ x + h \in 0 .. s /\ y + h \in 0 .. s
         /\ q > 0 => y + 1 \in 0 .. s
  OBVIOUS

LEMMA MoreOfSum ==
  ASSUME NEW x \in Nat, NEW y \in Nat, NEW h \in Nat, NEW q \in Nat, NEW s, x + y + h + q = s,
         NEW k \in 0 .. q
  PROVE  y + h + k \in 0 .. s
  OBVIOUS

USE SyncAssumption

-----------------------------------------------------------------------------
(* Type correctness.                                                       *)

\* A task between the steps of one item still has that item.
Holding == {"read", "again", "graph", "cache", "drop", "evict"}

ItemInHand == \A t \in Tasks : task[t].at \in Holding => task[t].todo # <<>>

TypeInv == TypeOK /\ ItemInHand

\* A claim is a count of the writes that hold it.
Holders(n) == {w \in Writers : task[w].at \notin {"idle", "tell"} /\ n \in Touched(task[w].all)}

ClaimsAreHeld == \A n \in Notes : IsFiniteSet(Holders(n)) /\ claims[n] = Cardinality(Holders(n))

\* Between the pop and the report, entries are in the hands of the holder of the
\* flush lock, and nowhere else.
Draining == Holding \cup {"sync", "tell"}

FlushIsHeld == \A f \in Flushers : task[f].at \in Draining \cup {"open", "pop"} <=> flush = f

NothingPopped == \A f \in Flushers : task[f].at \in {"idle", "wait", "open"} => task[f].popped = <<>>

Popped(f) == Len(task[f].popped)
Waiting   == Len(queue)
InHand    == IF flush = Nobody THEN 0 ELSE Popped(flush)

EntriesAreCounted == drained + dropped + InHand + Waiting = pushed

\* What was queued when a flush was asked for is applied, about to be, or thrown away.
AskedIsPopped ==
  \A f \in Flushers :
     task[f].at \in Draining => drained + dropped + Popped(f) >= task[f].asked

FlushInv == FlushIsHeld /\ NothingPopped /\ EntriesAreCounted /\ AskedIsPopped /\ FlushSeesCommits

LEMMA TypeInit == Init => TypeInv
<1> SUFFICES ASSUME Init PROVE TypeInv
  OBVIOUS
<1> USE DEF Init
<1>0. Idle \in TaskRecord
  BY DEF TaskRecord, Stations, Idle
<1>1. \A t \in Tasks : task[t] = Idle
  OBVIOUS
<1>2. TasksOK
  BY <1>0, <1>1 DEF TasksOK, Idle
<1>3. TypeOK
  BY <1>2 DEF TypeOK
<1>4. ItemInHand
  BY <1>1 DEF ItemInHand, Holding, Idle
<1> QED BY <1>3, <1>4 DEF TypeInv

\* A step that moves one task on: t becomes r.
Becomes(t, r) == task' = [task EXCEPT ![t] = r]

LEMMA OneTask ==
  ASSUME TypeInv, NEW t \in Tasks, NEW r \in TaskRecord, Becomes(t, r),
         r.before <= clock', r.seen <= clock', r.asked <= pushed',
         r.at \in Holding => r.todo # <<>>,
         clock' \in Nat, clock <= clock', pushed' \in Nat, pushed <= pushed'
  PROVE  TasksOK' /\ ItemInHand'
<1> USE DEF TypeInv, TypeOK, TasksOK, ItemInHand, Becomes
<1>1. task' \in [Tasks -> TaskRecord]
  OBVIOUS
<1>2. ASSUME NEW u \in Tasks
      PROVE  /\ {task'[u].before, task'[u].seen} \subseteq 0 .. clock'
             /\ task'[u].asked <= pushed'
             /\ task'[u].at \in Holding => task'[u].todo # <<>>
  <2>1. CASE u = t
    <3>1. task'[u] = r
      BY <2>1
    <3>2. r.before \in Nat /\ r.seen \in Nat
      BY DEF TaskRecord
    <3> HIDE DEF TypeInv, TypeOK, TasksOK, ItemInHand, Becomes
    <3> QED BY <3>1, <3>2
  <2>2. CASE u # t
    <3>1. task'[u] = task[u]
      BY <2>2
    <3>2. task[u] \in TaskRecord
      OBVIOUS
    <3>3. /\ task[u].before \in Nat /\ task[u].seen \in Nat /\ task[u].asked \in Nat
          /\ pushed \in Nat /\ clock \in Nat
      BY <3>2 DEF TaskRecord
    <3>4. /\ task[u].before <= clock /\ task[u].seen <= clock /\ task[u].asked <= pushed
          /\ task[u].at \in Holding => task[u].todo # <<>>
      OBVIOUS
    <3> HIDE DEF TypeInv, TypeOK, TasksOK, ItemInHand, Becomes
    <3> QED BY <3>1, <3>3, <3>4
  <2> QED BY <2>1, <2>2
<1> QED BY <1>1, <1>2

\* What the proofs of the steps start from.
LEMMA Given ==
  ASSUME TypeInv, NEW t \in Tasks
  PROVE  /\ task \in [Tasks -> TaskRecord] /\ task[t] \in TaskRecord
         /\ task[t].before \in Nat /\ task[t].seen \in Nat /\ task[t].asked \in Nat
         /\ task[t].before <= clock /\ task[t].seen <= clock /\ task[t].asked <= pushed
         /\ task[t].todo \in Seq(Item) /\ task[t].all \in Seq(Item)
         /\ task[t].popped \in Seq(Entry) /\ task[t].left \in Seq(Entry)
         /\ clock \in Nat /\ pushed \in Nat /\ drained \in 0 .. pushed /\ dropped \in 0 .. pushed
<1>1. /\ task \in [Tasks -> TaskRecord] /\ task[t] \in TaskRecord
      /\ task[t].before <= clock /\ task[t].seen <= clock /\ task[t].asked <= pushed
      /\ clock \in Nat /\ pushed \in Nat /\ drained \in 0 .. pushed /\ dropped \in 0 .. pushed
  BY DEF TypeInv, TypeOK, TasksOK
<1> QED BY <1>1 DEF TaskRecord

\* Older revisions stay within the clock.
LEMMA LaterClock ==
  ASSUME TypeInv, clock' = clock + 1
  PROVE  /\ clock' \in Nat
         /\ {disk, graph, scan} \subseteq [Notes -> 0 .. clock']
         /\ cache \in [Notes -> [file : 0 .. clock', observed : 0 .. clock']]
<1>1. clock \in Nat /\ 0 .. clock \subseteq 0 .. clock'
  BY DEF TypeInv, TypeOK
<1>2. disk \in [Notes -> 0 .. clock'] /\ graph \in [Notes -> 0 .. clock'] /\ scan \in [Notes -> 0 .. clock']
  BY <1>1 DEF TypeInv, TypeOK
<1>3. cache \in [Notes -> [file : 0 .. clock', observed : 0 .. clock']]
  BY <1>1 DEF TypeInv, TypeOK
<1> QED BY <1>1, <1>2, <1>3

\* Entries are added at the end, and counted.
LEMMA EnqueueType ==
  ASSUME TypeInv, NEW entries \in Seq(Entry), Enqueue(entries)
  PROVE  /\ queue' \in Seq(Entry) /\ Len(queue') = Len(queue) + Len(entries)
         /\ pushed' \in Nat /\ pushed <= pushed' /\ pushed' = pushed + Len(entries)
<1>1. queue \in Seq(Entry) /\ pushed \in Nat /\ Len(entries) \in Nat
  BY DEF TypeOK, TypeInv
<1> QED BY <1>1 DEF Enqueue

\* The paths of a changed set.
LEMMA TouchedType ==
  ASSUME NEW items \in Seq(Item)
  PROVE  Touched(items) \subseteq Notes
<1>1. ASSUME NEW i \in DOMAIN items PROVE items[i].path \in Notes
  <2>1. items[i] \in Item
    OBVIOUS
  <2> QED BY <2>1 DEF Item
<1> QED BY <1>1 DEF Touched

\* A function on an initial segment is a sequence.
LEMMA SeqOfFunction ==
  ASSUME NEW S, NEW k \in Nat, NEW s \in [1 .. k -> S]
  PROVE  s \in Seq(S)
  OBVIOUS

LEMMA AllStations ==
  \A s \in {"idle", "begin", "commit", "apply", "failed", "sync", "read", "again", "graph", "cache",
            "drop", "evict", "tell", "diff", "wait", "open", "pop", "done", "blind"} :
    s \in Stations /\ (s \in Holding <=> s \in {"read", "again", "graph", "cache", "drop", "evict"})
  BY DEF Stations, Holding

LEMMA IdleType == Idle \in TaskRecord /\ Idle.before = 0 /\ Idle.seen = 0 /\ Idle.asked = 0
                    /\ Idle.at = "idle"
  BY AllStations DEF Idle, TaskRecord

\* A step of t that changes nothing else of it than its station.
LEMMA GotoKeepsTypes ==
  ASSUME TypeInv, NEW t \in Tasks, NEW s \in Stations \ Holding,
         Goto(t, s), clock' = clock, pushed' = pushed
  PROVE  TasksOK' /\ ItemInHand'
<1> DEFINE r == [task[t] EXCEPT !.at = s]
<1>1. /\ r \in TaskRecord /\ r.at = s
      /\ r.before = task[t].before /\ r.seen = task[t].seen /\ r.asked = task[t].asked
  BY Given DEF TaskRecord
<1>2. Becomes(t, r)
  BY DEF Goto, Becomes
<1> HIDE DEF r
<1> QED BY <1>1, <1>2, Given, OneTask

LEMMA FinishKeepsTypes ==
  ASSUME TypeInv, NEW t \in Tasks, Finish(t), clock' = clock, pushed' = pushed
  PROVE  TasksOK' /\ ItemInHand'
<1>1. Becomes(t, Idle)
  BY DEF Finish, Becomes
<1> QED BY <1>1, IdleType, AllStations, Given, OneTask

\* Where a task is after such a step, and the others.
LEMMA GotoArrives ==
  ASSUME TypeInv, NEW t \in Tasks, NEW s, Goto(t, s)
  PROVE  task'[t].at = s /\ \A u \in Tasks \ {t} : task'[u] = task[u]
  BY Given DEF Goto, TaskRecord

LEMMA FinishArrives ==
  ASSUME TypeInv, NEW t \in Tasks, Finish(t)
  PROVE  task'[t].at = "idle" /\ \A u \in Tasks \ {t} : task'[u] = task[u]
  BY Given DEF Finish, Idle

LEMMA TypeWrite ==
  ASSUME TypeInv, NEW w \in Writers,
         \/ Claim(w) \/ EnterSubstrate(w) \/ AdvanceHead(w) \/ ApplyChange(w)
         \/ LeaveSubstrate(w) \/ ApplyFails(w) \/ TellLocal(w)
  PROVE  TypeInv'
<1> USE DEF At, derived, commits, others, bounds
<1>a. w \in Tasks
  BY DEF Tasks
<1>b. task[w].todo # <<>> => Head(task[w].todo) \in Item /\ Tail(task[w].todo) \in Seq(Item)
  BY <1>a, Given
<1>1. CASE Claim(w)
  <2>1. PICK items \in Plans :
          /\ task' = [task EXCEPT ![w] = [Idle EXCEPT !.at = "begin", !.todo = items, !.all = items]]
          /\ claims' = [n \in Notes |-> IF n \in Touched(items) THEN claims[n] + 1 ELSE claims[n]]
    BY <1>1 DEF Claim
  <2> DEFINE r == [Idle EXCEPT !.at = "begin", !.todo = items, !.all = items]
  <2>2. r \in TaskRecord /\ r.at = "begin" /\ r.before = 0 /\ r.seen = 0 /\ r.asked = 0
    <3>1. items \in Seq(Item)
      OBVIOUS
    <3> QED BY <3>1, IdleType, AllStations DEF TaskRecord
  <2>3. Becomes(w, r) /\ clock' = clock /\ pushed' = pushed
    BY <1>1, <2>1 DEF Claim, Becomes
  <2> HIDE DEF r
  <2>4. TasksOK' /\ ItemInHand'
    BY <1>a, <2>2, <2>3, AllStations, Given, OneTask
  <2>5. claims' \in [Notes -> Nat]
    <3>1. claims \in [Notes -> Nat]
      BY DEF TypeInv, TypeOK
    <3> QED BY <2>1, <3>1
  <2> QED BY <1>1, <2>4, <2>5 DEF Claim, TypeOK, TypeInv
<1>2. CASE EnterSubstrate(w)
  <2>1. (IF Git THEN "commit" ELSE "apply") \in Stations \ Holding
    BY AllStations
  <2>2. TasksOK' /\ ItemInHand'
    BY <1>a, <1>2, <2>1, GotoKeepsTypes DEF EnterSubstrate
  <2> QED BY <1>2, <2>2 DEF EnterSubstrate, TypeOK, TypeInv
<1>3. CASE AdvanceHead(w)
  <2>1. TasksOK' /\ ItemInHand'
    BY <1>a, <1>3, AllStations, GotoKeepsTypes DEF AdvanceHead
  <2>2. log' \in Seq(Seq(Item)) /\ Len(log') = Len(log) + 1
    BY <1>a, <1>3, Given DEF AdvanceHead, TypeInv, TypeOK
  <2> QED BY <1>3, <2>1, <2>2 DEF AdvanceHead, TypeOK, TypeInv
<1>4. CASE ApplyChange(w)
  <2> DEFINE r == [task[w] EXCEPT !.todo = Tail(task[w].todo)]
  <2>1. /\ r \in TaskRecord /\ r.at = "apply"
        /\ r.before = task[w].before /\ r.seen = task[w].seen /\ r.asked = task[w].asked
    BY <1>a, <1>b, <1>4, Given DEF ApplyChange, TaskRecord
  <2>2. Becomes(w, r) /\ clock' = clock + 1 /\ pushed' = pushed
    BY <1>4 DEF ApplyChange, Becomes
  <2> HIDE DEF r
  <2>3. TasksOK' /\ ItemInHand'
    <3>1. r.before <= clock' /\ r.seen <= clock' /\ r.asked <= pushed' /\ clock' \in Nat /\ clock <= clock'
          /\ pushed' \in Nat /\ pushed <= pushed'
      BY <1>a, <2>1, <2>2, Given
    <3> QED BY <1>a, <2>1, <2>2, <3>1, AllStations, OneTask
  <2>4. disk' \in [Notes -> 0 .. clock']
    <3>1. PICK p \in Notes, v \in {0, clock + 1} : disk' = [disk EXCEPT ![p] = v]
      BY <1>b, <1>4 DEF ApplyChange, Item
    <3>2. disk \in [Notes -> 0 .. clock'] /\ v \in 0 .. clock'
      BY <1>a, <2>2, LaterClock, Given
    <3> QED BY <3>1, <3>2
  <2> QED BY <1>4, <2>2, <2>3, <2>4, LaterClock DEF ApplyChange, TypeOK, TypeInv
<1>5. CASE LeaveSubstrate(w)
  <2>1. queue' \in Seq(Entry) /\ pushed' \in Nat /\ pushed <= pushed' /\ clock' = clock
    <3>1. <<[items |-> task[w].all, external |-> FALSE]>> \in Seq(Entry)
      BY <1>a, Given DEF Entry
    <3>2. /\ clock' = clock
          /\ \/ Enqueue(<<[items |-> task[w].all, external |-> FALSE]>>)
             \/ queue' = queue /\ pushed' = pushed
      BY <1>5 DEF LeaveSubstrate
    <3>3. queue \in Seq(Entry) /\ pushed \in Nat
      BY DEF TypeOK, TypeInv
    <3>4. CASE Enqueue(<<[items |-> task[w].all, external |-> FALSE]>>)
      BY <3>1, <3>2, <3>4, EnqueueType
    <3>5. CASE queue' = queue /\ pushed' = pushed
      BY <3>2, <3>3, <3>5
    <3> QED BY <3>2, <3>4, <3>5
  <2> DEFINE r == [task[w] EXCEPT !.at = "sync", !.todo = task[w].all]
  <2>2. /\ r \in TaskRecord /\ r.at = "sync"
        /\ r.before = task[w].before /\ r.seen = task[w].seen /\ r.asked = task[w].asked
    BY <1>a, Given, AllStations DEF TaskRecord
  <2>3. Becomes(w, r)
    BY <1>5 DEF LeaveSubstrate, Becomes
  <2> HIDE DEF r
  <2>4. TasksOK' /\ ItemInHand'
    <3>1. r.before <= clock' /\ r.seen <= clock' /\ r.asked <= pushed' /\ clock' \in Nat /\ clock <= clock'
      BY <1>a, <2>1, <2>2, Given
    <3> QED BY <1>a, <2>1, <2>2, <2>3, <3>1, AllStations, OneTask
  <2>5. {drained', dropped'} \subseteq 0 .. pushed'
    BY <1>a, <1>5, <2>1, Given DEF LeaveSubstrate
  <2> QED BY <1>5, <2>1, <2>4, <2>5 DEF LeaveSubstrate, TypeOK, TypeInv
<1>6. CASE ApplyFails(w)
  <2>1. clock' = clock /\ pushed' = pushed
    BY <1>6 DEF ApplyFails
  <2>2. ASSUME Git PROVE TasksOK' /\ ItemInHand'
    <3>1. Goto(w, "failed")
      BY <1>6, <2>2 DEF ApplyFails, Goto
    <3> QED BY <1>a, <2>1, <3>1, AllStations, GotoKeepsTypes
  <2>3. ASSUME ~Git PROVE TasksOK' /\ ItemInHand'
    <3> DEFINE landed == SubSeq(task[w].all, 1, Len(task[w].all) - Len(task[w].todo))
               r == [task[w] EXCEPT !.at = "sync", !.todo = landed]
    <3>1. landed \in Seq(Item)
      BY <1>a, Given
    <3>2. Becomes(w, r)
      BY <1>6, <2>3 DEF ApplyFails, Becomes
    <3> HIDE DEF landed
    <3>3. /\ r \in TaskRecord /\ r.at = "sync"
          /\ r.before = task[w].before /\ r.seen = task[w].seen /\ r.asked = task[w].asked
      BY <1>a, <3>1, Given, AllStations DEF TaskRecord
    <3> HIDE DEF r
    <3> QED BY <1>a, <2>1, <3>2, <3>3, AllStations, Given, OneTask
  <2>4. TasksOK' /\ ItemInHand'
    BY <2>2, <2>3
  <2> QED BY <1>6, <2>4 DEF ApplyFails, TypeOK, TypeInv
<1>7. CASE TellLocal(w)
  <2>1. TasksOK' /\ ItemInHand'
    BY <1>a, <1>7, FinishKeepsTypes DEF TellLocal
  <2> QED BY <1>7, <2>1 DEF TellLocal, TypeOK, TypeInv
<1> QED BY <1>1, <1>2, <1>3, <1>4, <1>5, <1>6, <1>7

LEMMA TypeSync ==
  ASSUME TypeInv, NEW t \in Tasks, Sync(t)
  PROVE  TypeInv'
<1> USE DEF At, derived, commits, others, bounds
<1>a. clock' = clock /\ pushed' = pushed
  BY DEF Sync, Stat, Read, StatAgain, UpdateGraph, InsertCache, CheckGone, DropGraph, EvictCache
<1>b. task[t].todo # <<>>
  BY DEF TypeInv, ItemInHand, Holding, Sync, Stat, Read, StatAgain, UpdateGraph, InsertCache, CheckGone, DropGraph, EvictCache
<1>c. /\ Head(task[t].todo) \in Item /\ Now(t) \in Notes
      /\ disk[Now(t)] \in Nat /\ disk[Now(t)] <= clock
      /\ Tail(task[t].todo) \in Seq(Item)
  <2>1. Head(task[t].todo) \in Item /\ Tail(task[t].todo) \in Seq(Item)
    BY <1>b, Given
  <2>2. Now(t) \in Notes
    BY <2>1 DEF Now, Item
  <2>3. disk[Now(t)] \in 0 .. clock /\ clock \in Nat
    BY <2>2 DEF TypeInv, TypeOK
  <2> QED BY <2>1, <2>2, <2>3
<1>d. /\ Next1(t) \in TaskRecord /\ Next1(t).at = "sync"
      /\ Next1(t).before = 0 /\ Next1(t).seen = 0 /\ Next1(t).asked = task[t].asked
  BY <1>c, Given, AllStations DEF Next1, TaskRecord
<1>e. ASSUME Becomes(t, Next1(t)) PROVE TasksOK' /\ ItemInHand'
  BY <1>a, <1>d, <1>e, AllStations, Given, OneTask
<1>1. CASE Stat(t)
  <2> DEFINE r == [task[t] EXCEPT !.at = "read", !.before = disk[Now(t)]]
  <2>1. /\ r \in TaskRecord /\ r.todo = task[t].todo
        /\ r.before = disk[Now(t)] /\ r.seen = task[t].seen /\ r.asked = task[t].asked
    BY <1>c, Given, AllStations DEF TaskRecord
  <2>2. Becomes(t, r)
    BY <1>1 DEF Stat, Becomes
  <2> HIDE DEF r
  <2>3. TasksOK' /\ ItemInHand'
    BY <1>a, <1>b, <1>c, <2>1, <2>2, Given, OneTask
  <2> QED BY <1>1, <2>3 DEF Stat, TypeOK, TypeInv
<1>2. CASE Read(t)
  <2>1. ASSUME disk[Now(t)] # 0 PROVE TasksOK' /\ ItemInHand'
    <3> DEFINE r == [task[t] EXCEPT !.at = "again", !.seen = disk[Now(t)]]
    <3>1. /\ r \in TaskRecord /\ r.todo = task[t].todo
          /\ r.before = task[t].before /\ r.seen = disk[Now(t)] /\ r.asked = task[t].asked
      BY <1>c, Given, AllStations DEF TaskRecord
    <3>2. Becomes(t, r)
      BY <1>2, <2>1 DEF Read, Becomes
    <3> HIDE DEF r
    <3>3. r.before <= clock' /\ r.seen <= clock' /\ r.asked <= pushed' /\ clock' \in Nat /\ pushed' \in Nat
      BY <1>a, <1>c, <3>1, Given
    <3> QED BY <1>a, <1>b, <3>1, <3>2, <3>3, OneTask
  <2>2. ASSUME disk[Now(t)] = 0 PROVE TasksOK' /\ ItemInHand'
    <3>1. Becomes(t, Next1(t))
      BY <1>2, <2>2 DEF Read, Becomes
    <3> QED BY <3>1, <1>e
  <2> QED BY <1>2, <2>1, <2>2 DEF Read, TypeOK, TypeInv
<1>3. CASE StatAgain(t)
  <2> DEFINE r == [task[t] EXCEPT !.at = "graph", !.before = Observed(t)]
  <2>1. Observed(t) \in Nat /\ Observed(t) <= clock
    BY Given DEF Observed
  <2>2. /\ r \in TaskRecord /\ r.todo = task[t].todo
        /\ r.before = Observed(t) /\ r.seen = task[t].seen /\ r.asked = task[t].asked
    BY <2>1, Given, AllStations DEF TaskRecord
  <2>3. Becomes(t, r)
    BY <1>3 DEF StatAgain, Becomes
  <2> HIDE DEF r
  <2>4. TasksOK' /\ ItemInHand'
    BY <1>a, <1>b, <1>c, <2>1, <2>2, <2>3, Given, OneTask
  <2> QED BY <1>3, <2>4 DEF StatAgain, TypeOK, TypeInv
<1>f. ASSUME NEW s \in Stations, Goto(t, s) PROVE TasksOK' /\ ItemInHand'
  <2> DEFINE r == [task[t] EXCEPT !.at = s]
  <2>1. /\ r \in TaskRecord /\ r.todo = task[t].todo
        /\ r.before = task[t].before /\ r.seen = task[t].seen /\ r.asked = task[t].asked
    BY Given DEF TaskRecord
  <2>2. Becomes(t, r)
    BY <1>f DEF Goto, Becomes
  <2> HIDE DEF r
  <2> QED BY <1>a, <1>b, <2>1, <2>2, Given, OneTask
<1>7. CASE UpdateGraph(t)
  <2>1. TasksOK' /\ ItemInHand'
    BY <1>7, <1>f, AllStations DEF UpdateGraph
  <2>2. graph' \in [Notes -> 0 .. clock]
    <3>1. task[t].seen \in 0 .. clock
      BY Given
    <3> QED BY <1>7, <3>1 DEF UpdateGraph, TypeOK, TypeInv
  <2> QED BY <1>7, <2>1, <2>2 DEF UpdateGraph, TypeOK, TypeInv
<1>4. CASE InsertCache(t)
  <2>1. TasksOK' /\ ItemInHand'
    BY <1>4, <1>e DEF InsertCache, Becomes
  <2>2. cache' \in [Notes -> [file : 0 .. clock, observed : 0 .. clock]]
    <3>1. task[t].seen \in 0 .. clock /\ task[t].before \in 0 .. clock
      BY Given
    <3> QED BY <1>4, <3>1 DEF InsertCache, TypeOK, TypeInv
  <2> QED BY <1>4, <2>1, <2>2 DEF InsertCache, TypeOK, TypeInv
<1>5. CASE CheckGone(t)
  <2>1. \/ task' = [task EXCEPT ![t] = Next1(t)]
        \/ Goto(t, "drop")
    BY <1>5 DEF CheckGone, Goto
  <2>2. TasksOK' /\ ItemInHand'
    BY <2>1, <1>e, <1>f, AllStations DEF Becomes
  <2> QED BY <1>5, <2>2 DEF CheckGone, TypeOK, TypeInv
<1>8. CASE DropGraph(t)
  <2>1. TasksOK' /\ ItemInHand'
    BY <1>8, <1>f, AllStations DEF DropGraph
  <2>2. graph' \in [Notes -> 0 .. clock]
    <3>1. 0 \in 0 .. clock
      BY Given
    <3> QED BY <1>8, <3>1 DEF DropGraph, TypeOK, TypeInv
  <2> QED BY <1>8, <2>1, <2>2 DEF DropGraph, TypeOK, TypeInv
<1>6. CASE EvictCache(t)
  <2>1. TasksOK' /\ ItemInHand'
    BY <1>6, <1>e DEF EvictCache, Becomes
  <2>2. cache' \in [Notes -> [file : 0 .. clock, observed : 0 .. clock]]
    <3>1. NoEntry \in [file : 0 .. clock, observed : 0 .. clock]
      BY Given DEF NoEntry
    <3> QED BY <1>6, <3>1 DEF EvictCache, TypeOK, TypeInv
  <2> QED BY <1>6, <2>1, <2>2 DEF EvictCache, TypeOK, TypeInv
<1> QED BY <1>1, <1>2, <1>3, <1>4, <1>5, <1>6, <1>7, <1>8 DEF Sync

\* A read that fails leaves the note as it was.
LEMMA TypeReadFails ==
  ASSUME TypeInv, NEW t \in Tasks, ReadFails(t)
  PROVE  TypeInv'
<1> USE DEF At, derived, commits, others
<1>a. /\ task[t].at = "read" /\ Becomes(t, Next1(t))
      /\ UNCHANGED <<disk, clock, graph, cache, claims, write, flush, log, head, queue, pushed, drained,
                     dropped, scan, announced, touched>>
  BY DEF ReadFails, Becomes
<1>b. task[t].todo # <<>>
  BY <1>a DEF TypeInv, ItemInHand, Holding
<1>c. /\ Next1(t) \in TaskRecord /\ Next1(t).at = "sync"
      /\ Next1(t).before = 0 /\ Next1(t).seen = 0 /\ Next1(t).asked = task[t].asked
  <2>1. Tail(task[t].todo) \in Seq(Item)
    BY <1>b, Given
  <2> QED BY <2>1, Given, AllStations DEF Next1, TaskRecord
<1>1. TasksOK' /\ ItemInHand'
  BY <1>a, <1>c, AllStations, Given, OneTask
<1> QED BY <1>a, <1>1 DEF TypeOK, TypeInv

LEMMA TypeFlush ==
  ASSUME TypeInv, FlushInv, NEW f \in Flushers,
         \/ AskFlush(f) \/ EnterFlush(f) \/ OpenRepo(f) \/ Pop(f) \/ PoppedAll(f) \/ PopPanics(f)
         \/ NextCommit(f) \/ TellFlushed(f) \/ GiveUpFlush(f) \/ ReturnFlush(f)
  PROVE  TypeInv'
<1> USE DEF At, derived, commits, others, bounds
<1>a. f \in Tasks
  BY DEF Tasks
<1>b. /\ Len(task[f].popped) \in Nat /\ queue \in Seq(Entry) /\ Len(queue) \in Nat
      /\ drained \in Nat /\ dropped \in Nat /\ pushed \in Nat
  <2>1. queue \in Seq(Entry)
    BY DEF TypeInv, TypeOK
  <2>2. task[f].popped \in Seq(Entry) /\ drained \in Nat /\ dropped \in Nat /\ pushed \in Nat
    BY <1>a, Given
  <2> QED BY <2>1, <2>2
<1>n. /\ Len(task[f].popped) \in Nat /\ Len(queue) \in Nat
      /\ drained \in Nat /\ dropped \in Nat /\ pushed \in Nat
  BY <1>b
\* What the holder of the lock has in hand is counted.
<1>c. ASSUME flush = f PROVE drained + dropped + Len(task[f].popped) + Len(queue) = pushed
  <2>1. f # Nobody
    BY <1>a
  <2> QED BY <1>c, <2>1 DEF FlushInv, EntriesAreCounted, InHand, Popped, Waiting
<1>d. ASSUME task[f].at \in Draining \cup {"open", "pop"} PROVE flush = f
  BY <1>d DEF FlushInv, FlushIsHeld
<1>e. ASSUME clock' = clock, pushed' = pushed, task' = [task EXCEPT ![f] = [Idle EXCEPT !.at = "blind"]]
      PROVE  TasksOK' /\ ItemInHand'
  <2> DEFINE r == [Idle EXCEPT !.at = "blind"]
  <2>1. r \in TaskRecord /\ r.at = "blind" /\ r.before = 0 /\ r.seen = 0 /\ r.asked = 0
    BY IdleType, AllStations DEF TaskRecord
  <2>2. Becomes(f, r)
    BY <1>e DEF Becomes
  <2> HIDE DEF r
  <2> QED BY <1>a, <1>e, <2>1, <2>2, AllStations, Given, OneTask
<1>1. CASE AskFlush(f)
  <2> DEFINE r == [task[f] EXCEPT !.at = "wait", !.asked = pushed]
  <2>1. /\ r \in TaskRecord /\ r.at = "wait"
        /\ r.before = task[f].before /\ r.seen = task[f].seen /\ r.asked = pushed
    BY <1>a, Given, AllStations DEF TaskRecord
  <2>2. Becomes(f, r) /\ clock' = clock /\ pushed' = pushed
    BY <1>1 DEF AskFlush, Becomes
  <2> HIDE DEF r
  <2>3. TasksOK' /\ ItemInHand'
    BY <1>a, <2>1, <2>2, AllStations, Given, OneTask
  <2> QED BY <1>1, <2>3 DEF AskFlush, TypeOK, TypeInv
<1>2. CASE EnterFlush(f)
  <2>1. TasksOK' /\ ItemInHand'
    BY <1>a, <1>2, AllStations, GotoKeepsTypes DEF EnterFlush
  <2> QED BY <1>2, <2>1 DEF EnterFlush, TypeOK, TypeInv
<1>3. CASE Pop(f)
  <2> DEFINE r == [task[f] EXCEPT !.popped = Append(task[f].popped, Head(queue)),
                                  !.left = Append(task[f].left, Head(queue))]
  <2>1. /\ task[f].at = "pop" /\ queue # <<>> /\ queue' = Tail(queue) /\ clock' = clock /\ pushed' = pushed
        /\ \/ task' = [task EXCEPT ![f] = r] /\ dropped' = dropped
           \/ task' = task /\ dropped' = dropped + 1
    BY <1>3 DEF Pop
  <2>2. queue' \in Seq(Entry) /\ Head(queue) \in Entry /\ Len(queue) > 0
    BY <1>b, <2>1
  <2>3. /\ r \in TaskRecord /\ r.at = "pop"
        /\ r.before = task[f].before /\ r.seen = task[f].seen /\ r.asked = task[f].asked
    <3>1. Append(task[f].popped, Head(queue)) \in Seq(Entry) /\ Append(task[f].left, Head(queue)) \in Seq(Entry)
      BY <1>a, <2>2, Given
    <3> QED BY <1>a, <2>1, <3>1, Given DEF TaskRecord
  <2> HIDE DEF r
  <2>4. TasksOK' /\ ItemInHand'
    <3>1. CASE task' = [task EXCEPT ![f] = r]
      <4>1. Becomes(f, r)
        BY <3>1 DEF Becomes
      <4> QED BY <1>a, <2>1, <2>3, <4>1, AllStations, Given, OneTask
    <3>2. CASE task' = task
      BY <2>1, <3>2 DEF TypeInv, TypeOK, TasksOK, ItemInHand
    <3> QED BY <2>1, <3>1, <3>2
  <2>5. dropped' \in 0 .. pushed'
    <3>1. drained + dropped + Len(task[f].popped) + Len(queue) = pushed
      BY <1>c, <1>d, <2>1
    <3>2. pushed' = pushed /\ (dropped' = dropped \/ dropped' = dropped + 1)
      BY <2>1
    <3>3. dropped \in 0 .. pushed /\ dropped + 1 \in 0 .. pushed
      BY <1>n, <2>2, <3>1, PartOfSum
    <3> QED BY <3>2, <3>3
  <2>6. /\ drained' = drained
        /\ UNCHANGED <<disk, clock, graph, cache, claims, write, flush, log, head, pushed, scan, announced, touched>>
    BY <1>3 DEF Pop
  <2> QED BY <1>b, <2>2, <2>4, <2>5, <2>6, <1>a, Given DEF TypeOK, TypeInv
<1>7. CASE OpenRepo(f)
  <2>1. clock' = clock /\ pushed' = pushed /\ (flush' = flush \/ flush' = Nobody)
    BY <1>7 DEF OpenRepo
  <2>2. \/ Goto(f, IF queue = <<>> THEN "tell" ELSE "pop")
        \/ task' = [task EXCEPT ![f] = [Idle EXCEPT !.at = "blind"]]
    BY <1>7 DEF OpenRepo
  <2>3. TasksOK' /\ ItemInHand'
    <3>1. CASE Goto(f, IF queue = <<>> THEN "tell" ELSE "pop")
      <4>1. (IF queue = <<>> THEN "tell" ELSE "pop") \in Stations \ Holding
        BY AllStations
      <4> QED BY <1>a, <2>1, <3>1, <4>1, GotoKeepsTypes
    <3> QED BY <1>e, <2>1, <2>2, <3>1
  <2> QED BY <1>7, <2>1, <2>3 DEF OpenRepo, TypeOK, TypeInv
<1>8. CASE PoppedAll(f)
  <2>1. TasksOK' /\ ItemInHand'
    BY <1>a, <1>8, AllStations, GotoKeepsTypes DEF PoppedAll
  <2> QED BY <1>8, <2>1 DEF PoppedAll, TypeOK, TypeInv
<1>9. CASE PopPanics(f)
  <2>1. TasksOK' /\ ItemInHand'
    BY <1>9, <1>e DEF PopPanics
  <2>2. task[f].at = "pop" /\ dropped' = dropped + Len(task[f].popped) /\ pushed' = pushed
    BY <1>9 DEF PopPanics
  <2>3. dropped' \in 0 .. pushed'
    <3>1. drained + dropped + Len(task[f].popped) + Len(queue) = pushed
      BY <1>c, <1>d, <2>2
    <3>2. dropped + Len(task[f].popped) \in 0 .. pushed
      BY <1>n, <3>1, PartOfSum
    <3> QED BY <2>2, <3>2
  <2> QED BY <1>9, <2>1, <2>3 DEF PopPanics, TypeOK, TypeInv
<1>10. CASE GiveUpFlush(f)
  <2>1. PICK k \in 0 .. Len(queue) :
          queue' = SubSeq(queue, k + 1, Len(queue)) /\ dropped' = dropped + Len(task[f].popped) + k
    BY <1>b, <1>10 DEF GiveUpFlush
  <2>2. queue' \in Seq(Entry)
    BY <1>b, <2>1
  <2>3. flush = f /\ pushed' = pushed /\ Finish(f) /\ clock' = clock
    BY <1>10 DEF GiveUpFlush
  <2>4. dropped' \in 0 .. pushed'
    <3>1. drained + dropped + Len(task[f].popped) + Len(queue) = pushed
      BY <1>c, <2>3
    <3>2. dropped + Len(task[f].popped) + k \in 0 .. pushed
      BY <1>n, <2>1, <3>1, MoreOfSum
    <3> QED BY <2>1, <2>3, <3>2
  <2>5. TasksOK' /\ ItemInHand'
    BY <1>a, <2>3, FinishKeepsTypes
  <2> QED BY <1>10, <2>2, <2>4, <2>5 DEF GiveUpFlush, TypeOK, TypeInv
<1>4. CASE NextCommit(f)
  <2>1. task[f].left # <<>> /\ clock' = clock /\ pushed' = pushed
    BY <1>4 DEF NextCommit
  <2>2. Head(task[f].left).items \in Seq(Item) /\ Tail(task[f].left) \in Seq(Entry)
    <3>1. Head(task[f].left) \in Entry /\ Tail(task[f].left) \in Seq(Entry)
      BY <1>a, <2>1, Given
    <3> QED BY <3>1 DEF Entry
  <2> DEFINE r == [task[f] EXCEPT !.todo = Head(task[f].left).items, !.left = Tail(task[f].left)]
  <2>3. /\ r \in TaskRecord /\ r.at = "sync"
        /\ r.before = task[f].before /\ r.seen = task[f].seen /\ r.asked = task[f].asked
    BY <1>a, <1>4, <2>2, Given DEF NextCommit, TaskRecord
  <2>4. Becomes(f, r)
    BY <1>4 DEF NextCommit, Becomes
  <2> HIDE DEF r
  <2>5. TasksOK' /\ ItemInHand'
    BY <1>a, <2>1, <2>3, <2>4, AllStations, Given, OneTask
  <2> QED BY <1>4, <2>5 DEF NextCommit, TypeOK, TypeInv
<1>5. CASE TellFlushed(f)
  <2>1. TasksOK' /\ ItemInHand'
    <3> DEFINE r == [Idle EXCEPT !.at = "done", !.asked = task[f].asked]
    <3>1. /\ r \in TaskRecord /\ r.at = "done"
          /\ r.before = 0 /\ r.seen = 0 /\ r.asked = task[f].asked
      BY <1>a, Given, IdleType, AllStations DEF TaskRecord
    <3>2. Becomes(f, r) /\ clock' = clock /\ pushed' = pushed
      BY <1>5 DEF TellFlushed, Becomes
    <3> HIDE DEF r
    <3> QED BY <1>a, <3>1, <3>2, AllStations, Given, OneTask
  <2>2. flush = f
    BY <1>5, <1>d DEF TellFlushed, Draining
  <2>3. drained' = drained + Len(task[f].popped) /\ pushed' = pushed
    BY <1>5 DEF TellFlushed
  <2>4. drained' \in 0 .. pushed'
    <3>1. drained + dropped + Len(task[f].popped) + Len(queue) = pushed
      BY <1>c, <2>2
    <3>2. drained + Len(task[f].popped) \in 0 .. pushed
      BY <1>n, <3>1, PartOfSum
    <3> QED BY <2>3, <3>2
  <2>5. announced' \subseteq Notes
    <3>1. ASSUME NEW i \in DOMAIN task[f].popped PROVE Touched(task[f].popped[i].items) \subseteq Notes
      <4>1. task[f].popped[i] \in Entry
        BY <1>a, <3>1, Given
      <4>2. task[f].popped[i].items \in Seq(Item)
        BY <4>1 DEF Entry
      <4> QED BY <4>2, TouchedType
    <3> QED BY <1>5, <3>1 DEF TellFlushed, TypeOK, TypeInv
  <2> QED BY <1>5, <2>1, <2>4, <2>5 DEF TellFlushed, TypeOK, TypeInv
<1>6. CASE ReturnFlush(f)
  <2>1. TasksOK' /\ ItemInHand'
    BY <1>a, <1>6, FinishKeepsTypes DEF ReturnFlush
  <2> QED BY <1>6, <2>1 DEF ReturnFlush, TypeOK, TypeInv
<1> QED BY <1>1, <1>2, <1>3, <1>4, <1>5, <1>6, <1>7, <1>8, <1>9, <1>10

\* What the HEAD-ref listener queues.
LEMMA PolledType ==
  ASSUME TypeInv
  PROVE  [i \in 1 .. Len(log) - head |-> [items |-> log[head + i], external |-> TRUE]] \in Seq(Entry)
<1>1. log \in Seq(Seq(Item)) /\ head \in 0 .. Len(log) /\ Len(log) - head \in Nat
  BY DEF TypeInv, TypeOK
<1>2. ASSUME NEW i \in 1 .. Len(log) - head
      PROVE  [items |-> log[head + i], external |-> TRUE] \in Entry
  <2>1. log[head + i] \in Seq(Item)
    BY <1>1
  <2> QED BY <2>1 DEF Entry
<1> DEFINE k == Len(log) - head
           entries == [i \in 1 .. k |-> [items |-> log[head + i], external |-> TRUE]]
<1>3. entries \in [1 .. k -> Entry]
  BY <1>2
<1>4. entries \in Seq(Entry)
  <2> HIDE DEF entries
  <2> QED BY <1>1, <1>3, SeqOfFunction
<1> QED BY <1>4

LEMMA TypePollHead ==
  ASSUME TypeInv, PollHead
  PROVE  TypeInv'
<1> USE DEF derived, commits, others, bounds
<1> DEFINE entries == [i \in 1 .. Len(log) - head |-> [items |-> log[head + i], external |-> TRUE]]
<1>1. log \in Seq(Seq(Item)) /\ head \in 0 .. Len(log)
  BY DEF TypeInv, TypeOK
<1>2. entries \in Seq(Entry)
  BY PolledType
<1>3. /\ Enqueue(entries) /\ head' = Len(log) /\ log' = log
      /\ UNCHANGED <<disk, clock, graph, cache, claims, write, flush, drained, dropped, scan, task, announced,
                     touched>>
  BY DEF PollHead
<1> HIDE DEF entries
<1>4. queue' \in Seq(Entry) /\ pushed' \in Nat /\ pushed <= pushed'
  BY <1>2, <1>3, EnqueueType
<1>5. TasksOK'
  <2>1. ASSUME NEW t \in Tasks
        PROVE  {task'[t].before, task'[t].seen} \subseteq 0 .. clock' /\ task'[t].asked <= pushed'
    BY <1>3, <1>4, Given
  <2> QED BY <1>3, <2>1 DEF TypeInv, TypeOK, TasksOK
<1>6. {drained', dropped'} \subseteq 0 .. pushed' /\ head' \in 0 .. Len(log')
  BY <1>1, <1>3, <1>4 DEF TypeInv, TypeOK
<1> QED BY <1>3, <1>4, <1>5, <1>6 DEF TypeInv, TypeOK, ItemInHand

LEMMA TypeSweep ==
  ASSUME TypeInv, Scan \/ ScanFails \/ Diff \/ TellSwept
  PROVE  TypeInv'
<1> USE DEF At, derived, commits, others, bounds
<1>a. Sweeper \in Tasks
  BY DEF Tasks
<1>1. CASE Scan
  <2>1. TasksOK' /\ ItemInHand'
    BY <1>a, <1>1, AllStations, GotoKeepsTypes DEF Scan
  <2> QED BY <1>1, <2>1 DEF Scan, TypeOK, TypeInv
<1>2. CASE Diff
  <2> DEFINE moved == {n \in Notes : Moved(n) /\ claims[n] = 0}
  <2>1. PICK order \in [1 .. Cardinality(moved) -> moved] :
          LET items == [i \in DOMAIN order |-> [path |-> order[i], present |-> scan[order[i]] # 0]]
          IN  task' = [task EXCEPT ![Sweeper].at = "sync", ![Sweeper].todo = items,
                                   ![Sweeper].all = items]
    BY <1>2 DEF Diff
  <2>2. Cardinality(moved) \in Nat
    BY FS_Subset, FS_CardinalityType
  <2> DEFINE items == [i \in DOMAIN order |-> [path |-> order[i], present |-> scan[order[i]] # 0]]
             r == [task[Sweeper] EXCEPT !.at = "sync", !.todo = items, !.all = items]
  <2>3. items \in Seq(Item)
    <3>1. ASSUME NEW i \in 1 .. Cardinality(moved)
          PROVE  [path |-> order[i], present |-> scan[order[i]] # 0] \in Item
      BY DEF Item
    <3>2. items \in [1 .. Cardinality(moved) -> Item]
      BY <3>1
    <3> HIDE DEF items, moved
    <3> QED BY <2>2, <3>2, SeqOfFunction
  <2>4. clock' = clock /\ pushed' = pushed
    BY <1>2 DEF Diff
  <2>5. Becomes(Sweeper, r)
    BY <2>1 DEF Becomes
  <2> HIDE DEF items
  <2>6. /\ r \in TaskRecord /\ r.at = "sync" /\ r.before = task[Sweeper].before
        /\ r.seen = task[Sweeper].seen /\ r.asked = task[Sweeper].asked
    BY <1>a, <2>3, Given, AllStations DEF TaskRecord
  <2> HIDE DEF r
  <2>7. TasksOK' /\ ItemInHand'
    BY <1>a, <2>4, <2>5, <2>6, AllStations, Given, OneTask
  <2> QED BY <1>2, <2>7 DEF Diff, TypeOK, TypeInv
<1>3. CASE TellSwept
  <2>1. TasksOK' /\ ItemInHand'
    BY <1>a, <1>3, FinishKeepsTypes DEF TellSwept
  <2>2. Touched(task[Sweeper].all) \subseteq Notes
    BY <1>a, Given, TouchedType
  <2>3. scan' \in [Notes -> 0 .. clock]
    BY <1>a, <1>3, Given DEF TellSwept
  <2> QED BY <1>3, <2>1, <2>2, <2>3 DEF TellSwept, TypeOK, TypeInv
<1>4. CASE ScanFails
  <2>1. TasksOK' /\ ItemInHand'
    BY <1>a, <1>4, FinishKeepsTypes DEF ScanFails
  <2>2. scan' \in [Notes -> 0 .. clock]
    BY <1>a, <1>4, Given DEF ScanFails
  <2> QED BY <1>4, <2>1, <2>2 DEF ScanFails, TypeOK, TypeInv
<1> QED BY <1>1, <1>2, <1>3, <1>4

LEMMA TypeOthers ==
  ASSUME TypeInv, (\E n \in Notes : EditOutside(n) \/ CommitOutside(n)) \/ UNCHANGED vars
  PROVE  TypeInv'
<1> USE DEF derived, commits, others, bounds
<1>1. ASSUME NEW n \in Notes, EditOutside(n) \/ CommitOutside(n)
      PROVE  TypeInv'
  <2>1. /\ clock' = clock + 1 /\ touched' = touched \cup {n}
        /\ UNCHANGED <<graph, cache, claims, write, flush, head, queue, pushed, drained, dropped, scan,
                       task, announced>>
    BY <1>1 DEF EditOutside, CommitOutside
  <2>2. PICK v \in {0, clock + 1} :
          /\ disk' = [disk EXCEPT ![n] = v]
          /\ log' = log \/ log' = Append(log, <<[path |-> n, present |-> v # 0]>>)
    BY <1>1 DEF EditOutside, CommitOutside
  <2>3. disk' \in [Notes -> 0 .. clock']
    <3>1. disk \in [Notes -> 0 .. clock'] /\ clock \in Nat
      BY <2>1, LaterClock DEF TypeInv, TypeOK
    <3>2. v \in 0 .. clock'
      BY <2>1, <3>1
    <3> QED BY <2>2, <3>1, <3>2
  <2>4. log' \in Seq(Seq(Item)) /\ head' \in 0 .. Len(log')
    <3>1. log \in Seq(Seq(Item)) /\ head \in 0 .. Len(log)
      BY DEF TypeInv, TypeOK
    <3>2. <<[path |-> n, present |-> v # 0]>> \in Seq(Item)
      BY DEF Item
    <3>3. CASE log' = log
      BY <2>1, <3>1, <3>3
    <3>4. CASE log' = Append(log, <<[path |-> n, present |-> v # 0]>>)
      BY <2>1, <3>1, <3>2, <3>4, AppendProperties
    <3> QED BY <2>2, <3>3, <3>4
  <2>5. TasksOK'
    <3>1. ASSUME NEW t \in Tasks
          PROVE  {task'[t].before, task'[t].seen} \subseteq 0 .. clock' /\ task'[t].asked <= pushed'
      BY <2>1, Given
    <3> QED BY <2>1, <3>1 DEF TypeInv, TypeOK, TasksOK
  <2>6. ItemInHand'
    BY <2>1 DEF TypeInv, ItemInHand
  <2> QED BY <2>1, <2>3, <2>4, <2>5, <2>6, LaterClock DEF TypeInv, TypeOK
<1>2. CASE UNCHANGED vars
  BY <1>2 DEF vars, TypeInv, TypeOK, TasksOK, ItemInHand
<1> QED BY <1>1, <1>2

-----------------------------------------------------------------------------
(* Claims.                                                                 *)

LEMMA TypeUnclaim ==
  ASSUME TypeInv, ClaimsAreHeld, NEW w \in Writers, Unclaim(w)
  PROVE  TypeInv'
<1> USE DEF At, derived, commits, others, bounds
<1>a. w \in Tasks
  BY DEF Tasks
<1>1. TasksOK' /\ ItemInHand'
  BY <1>a, AllStations, GotoKeepsTypes, FinishKeepsTypes DEF Unclaim
<1>2. ASSUME NEW n \in Notes, n \in Touched(task[w].all)
      PROVE  claims[n] - 1 \in Nat
  <2>1. w \in Holders(n)
    BY <1>2 DEF Holders, Unclaim
  <2>2. IsFiniteSet(Holders(n)) /\ claims[n] = Cardinality(Holders(n)) /\ Cardinality(Holders(n)) # 0
    BY <2>1, FS_EmptySet DEF ClaimsAreHeld
  <2> QED BY <2>2, FS_CardinalityType
<1>3. claims' \in [Notes -> Nat]
  BY <1>2 DEF Unclaim, TypeInv, TypeOK
<1> QED BY <1>1, <1>3 DEF Unclaim, TypeInv, TypeOK

\* What a step of sync_index leaves alone.
LEMMA SyncFrame ==
  ASSUME TypeInv, NEW t \in Tasks, Sync(t)
  PROVE  /\ \A u \in Tasks \ {t} : task'[u] = task[u]
         /\ task'[t].all = task[t].all /\ task'[t].popped = task[t].popped
         /\ task'[t].asked = task[t].asked
         /\ task[t].at \in Holding \cup {"sync"} /\ task'[t].at \in Holding \cup {"sync"}
         /\ UNCHANGED <<disk, clock, claims, write, flush, commits>>
<1> USE DEF At, derived, commits, others, bounds, Holding
<1>a. task \in [Tasks -> TaskRecord]
  BY Given
<1>1. CASE Stat(t)
  BY <1>a, <1>1 DEF Stat, TaskRecord
<1>7. CASE StatAgain(t)
  BY <1>a, <1>7 DEF StatAgain, TaskRecord
<1>2. CASE Read(t)
  BY <1>a, <1>2 DEF Read, Next1, TaskRecord
<1>3. CASE UpdateGraph(t) \/ DropGraph(t)
  BY <1>a, <1>3 DEF UpdateGraph, DropGraph, Goto, TaskRecord
<1>4. CASE InsertCache(t)
  BY <1>a, <1>4 DEF InsertCache, Next1, TaskRecord
<1>5. CASE CheckGone(t)
  <2>1. \/ task' = [task EXCEPT ![t] = Next1(t)]
        \/ Goto(t, "drop")
    BY <1>5 DEF CheckGone, Goto
  <2>2. CASE task' = [task EXCEPT ![t] = Next1(t)]
    BY <1>a, <1>5, <2>2 DEF CheckGone, Next1, TaskRecord
  <2>3. CASE Goto(t, "drop")
    BY <1>a, <1>5, <2>3 DEF CheckGone, Goto, TaskRecord
  <2> QED BY <2>1, <2>2, <2>3
<1>6. CASE EvictCache(t)
  BY <1>a, <1>6 DEF EvictCache, Next1, TaskRecord
<1> QED BY <1>1, <1>2, <1>3, <1>4, <1>5, <1>6, <1>7 DEF Sync

\* ... and so does a read that fails.
LEMMA ReadFailsFrame ==
  ASSUME TypeInv, NEW t \in Tasks, ReadFails(t)
  PROVE  /\ \A u \in Tasks \ {t} : task'[u] = task[u]
         /\ task'[t].all = task[t].all /\ task'[t].popped = task[t].popped
         /\ task'[t].asked = task[t].asked
         /\ task[t].at = "read" /\ task'[t].at = "sync"
         /\ UNCHANGED <<disk, clock, cache, claims, write, flush, commits>>
<1>1. task \in [Tasks -> TaskRecord]
  BY Given
<1> QED BY <1>1 DEF At, derived, commits, others, ReadFails, Next1, TaskRecord

\* What the steps of a write inside its claim leave alone.
LEMMA WriteFrame ==
  ASSUME TypeInv, NEW w \in Writers,
         \/ EnterSubstrate(w) \/ AdvanceHead(w) \/ ApplyChange(w) \/ LeaveSubstrate(w) \/ ApplyFails(w)
  PROVE  /\ \A u \in Tasks \ {w} : task'[u] = task[u]
         /\ task'[w].all = task[w].all
         /\ task[w].at \notin {"idle", "tell"} /\ task'[w].at \notin {"idle", "tell"}
         /\ UNCHANGED <<claims, flush, drained, dropped>>
<1> USE DEF At, derived, commits, others, bounds
<1>a. w \in Tasks /\ task \in [Tasks -> TaskRecord]
  BY Given DEF Tasks
<1>1. CASE EnterSubstrate(w)
  BY <1>a, <1>1 DEF EnterSubstrate, Goto, TaskRecord
<1>2. CASE AdvanceHead(w)
  BY <1>a, <1>2 DEF AdvanceHead, Goto, TaskRecord
<1>3. CASE ApplyChange(w)
  BY <1>a, <1>3 DEF ApplyChange, TaskRecord
<1>4. CASE LeaveSubstrate(w)
  BY <1>a, <1>4 DEF LeaveSubstrate, TaskRecord
<1>5. CASE ApplyFails(w)
  BY <1>a, <1>5 DEF ApplyFails, TaskRecord
<1> QED BY <1>1, <1>2, <1>3, <1>4, <1>5

\* A step in which nobody takes or ends a claim.
LEMMA ClaimsKept ==
  ASSUME TypeInv, ClaimsAreHeld, claims' = claims,
         \A w \in Writers :
           \/ task[w].at \in {"idle", "tell"} /\ task'[w].at \in {"idle", "tell"}
           \/ /\ task[w].at \notin {"idle", "tell"} /\ task'[w].at \notin {"idle", "tell"}
              /\ task'[w].all = task[w].all
  PROVE  ClaimsAreHeld'
<1>1. ASSUME NEW n \in Notes PROVE Holders(n)' = Holders(n)
  BY DEF Holders
<1> QED BY <1>1 DEF ClaimsAreHeld

LEMMA ClaimsInit == Init => ClaimsAreHeld
<1> SUFFICES ASSUME Init, NEW n \in Notes
             PROVE  IsFiniteSet(Holders(n)) /\ claims[n] = Cardinality(Holders(n))
  BY DEF ClaimsAreHeld
<1>1. Holders(n) = {}
  BY DEF Init, Holders, Idle, Tasks
<1> QED BY <1>1, FS_EmptySet DEF Init

LEMMA ClaimsTaken ==
  ASSUME TypeInv, ClaimsAreHeld, NEW w \in Writers, Claim(w)
  PROVE  ClaimsAreHeld'
<1>1. PICK items \in Plans :
        /\ task' = [task EXCEPT ![w] = [Idle EXCEPT !.at = "begin", !.todo = items, !.all = items]]
        /\ claims' = [n \in Notes |-> IF n \in Touched(items) THEN claims[n] + 1 ELSE claims[n]]
  BY DEF Claim
<1>2. w \in Tasks /\ task \in [Tasks -> TaskRecord] /\ task[w].at = "idle"
  BY Given DEF Tasks, Claim, At
<1>3. task'[w].at = "begin" /\ task'[w].all = items
  BY <1>1, <1>2 DEF Idle
<1>4. \A u \in Writers \ {w} : task'[u] = task[u]
  BY <1>1, <1>2 DEF Tasks
<1>5. ASSUME NEW n \in Notes
      PROVE  IsFiniteSet(Holders(n)') /\ claims'[n] = Cardinality(Holders(n)')
  <2>1. IsFiniteSet(Holders(n)) /\ claims[n] = Cardinality(Holders(n)) /\ w \notin Holders(n)
    BY <1>2 DEF ClaimsAreHeld, Holders
  <2>2. CASE n \in Touched(items)
    <3>1. Holders(n)' = Holders(n) \cup {w}
      BY <1>2, <1>3, <1>4, <2>2 DEF Holders
    <3>2. claims'[n] = claims[n] + 1
      BY <1>1, <2>2
    <3> QED BY <2>1, <3>1, <3>2, FS_AddElement
  <2>3. CASE n \notin Touched(items)
    <3>1. Holders(n)' = Holders(n)
      BY <1>2, <1>3, <1>4, <2>3 DEF Holders
    <3>2. claims'[n] = claims[n]
      BY <1>1, <2>3
    <3> QED BY <2>1, <3>1, <3>2
  <2> QED BY <2>2, <2>3
<1> QED BY <1>5 DEF ClaimsAreHeld

LEMMA ClaimsEnded ==
  ASSUME TypeInv, ClaimsAreHeld, NEW w \in Writers, Unclaim(w)
  PROVE  ClaimsAreHeld'
<1>1. w \in Tasks /\ task \in [Tasks -> TaskRecord] /\ task[w].at \in {"sync", "failed"}
  BY Given DEF Tasks, Unclaim, At
<1>2. task'[w].at \in {"idle", "tell"}
  BY <1>1 DEF Unclaim, Goto, Finish, Idle, TaskRecord
<1>3. \A u \in Writers \ {w} : task'[u] = task[u]
  BY <1>1 DEF Tasks, Unclaim, Goto, Finish
<1>4. claims' = [n \in Notes |-> IF n \in Touched(task[w].all) THEN claims[n] - 1 ELSE claims[n]]
  BY DEF Unclaim
<1>5. ASSUME NEW n \in Notes
      PROVE  IsFiniteSet(Holders(n)') /\ claims'[n] = Cardinality(Holders(n)')
  <2>1. IsFiniteSet(Holders(n)) /\ claims[n] = Cardinality(Holders(n))
    BY DEF ClaimsAreHeld
  <2>2. Holders(n)' = Holders(n) \ {w}
    BY <1>2, <1>3 DEF Holders
  <2>3. w \in Holders(n) <=> n \in Touched(task[w].all)
    BY <1>1 DEF Holders
  <2> QED BY <1>4, <2>1, <2>2, <2>3, FS_RemoveElement
<1> QED BY <1>5 DEF ClaimsAreHeld

LEMMA ClaimsStep == TypeInv /\ ClaimsAreHeld /\ [Next]_vars => ClaimsAreHeld'
<1> SUFFICES ASSUME TypeInv, ClaimsAreHeld, [Next]_vars PROVE ClaimsAreHeld'
  OBVIOUS
<1> USE DEF derived, commits, others, bounds
<1>a. Writers \subseteq Tasks /\ Sweeper \in Tasks /\ Flushers \subseteq Tasks /\ task \in [Tasks -> TaskRecord]
  BY DEF TypeInv, TypeOK, TasksOK, Tasks
<1>1. ASSUME NEW w \in Writers, Claim(w) \/ Unclaim(w) PROVE ClaimsAreHeld'
  BY <1>1, ClaimsTaken, ClaimsEnded
<1>2. ASSUME NEW w \in Writers,
             \/ EnterSubstrate(w) \/ AdvanceHead(w) \/ ApplyChange(w) \/ LeaveSubstrate(w) \/ ApplyFails(w)
      PROVE  ClaimsAreHeld'
  <2>1. /\ \A u \in Writers \ {w} : task'[u] = task[u]
        /\ task'[w].all = task[w].all
        /\ task[w].at \notin {"idle", "tell"} /\ task'[w].at \notin {"idle", "tell"}
        /\ claims' = claims
    BY <1>a, <1>2, WriteFrame
  <2> QED BY <2>1, ClaimsKept
<1>3. ASSUME NEW w \in Writers, TellLocal(w) PROVE ClaimsAreHeld'
  <2>1. /\ \A u \in Writers \ {w} : task'[u] = task[u]
        /\ task[w].at = "tell" /\ task'[w].at = "idle" /\ claims' = claims
    BY <1>a, <1>3 DEF TellLocal, At, Finish, Idle
  <2> QED BY <2>1, ClaimsKept
<1>4. ASSUME NEW t \in Tasks, Sync(t) \/ ReadFails(t) PROVE ClaimsAreHeld'
  <2>1. /\ \A u \in Writers \ {t} : task'[u] = task[u]
        /\ task'[t].all = task[t].all
        /\ task[t].at \notin {"idle", "tell"} /\ task'[t].at \notin {"idle", "tell"}
        /\ claims' = claims
    BY <1>a, <1>4, SyncFrame, ReadFailsFrame DEF Holding
  <2> QED BY <2>1, ClaimsKept
<1>5. ASSUME \A w \in Writers : task'[w] = task[w], claims' = claims PROVE ClaimsAreHeld'
  BY <1>5, ClaimsKept
<1>6. ASSUME NEW f \in Flushers,
             \/ AskFlush(f) \/ EnterFlush(f) \/ OpenRepo(f) \/ Pop(f) \/ PoppedAll(f) \/ PopPanics(f)
             \/ NextCommit(f) \/ TellFlushed(f) \/ GiveUpFlush(f) \/ ReturnFlush(f)
      PROVE  ClaimsAreHeld'
  <2>1. claims' = claims
    BY <1>6 DEF AskFlush, EnterFlush, OpenRepo, Pop, PoppedAll, PopPanics, NextCommit,
                      TellFlushed, GiveUpFlush, ReturnFlush
  <2>2. \A t \in Tasks \ {f} : task'[t] = task[t]
    BY <1>a, <1>6 DEF AskFlush, EnterFlush, OpenRepo, Pop, PoppedAll, PopPanics, NextCommit,
                      TellFlushed, GiveUpFlush, ReturnFlush, Goto, Finish
  <2>3. f \notin Writers
    OBVIOUS
  <2> QED BY <1>a, <1>5, <2>1, <2>2, <2>3
<1>7. CASE Scan \/ ScanFails \/ Diff \/ TellSwept
  <2>1. claims' = claims
    BY <1>7 DEF Scan, ScanFails, Diff, TellSwept
  <2>2. \A t \in Tasks \ {Sweeper} : task'[t] = task[t]
    BY <1>a, <1>7 DEF Scan, ScanFails, Diff, TellSwept, Goto, Finish
  <2> QED BY <1>a, <1>5, <2>1, <2>2
<1>8. CASE PollHead \/ (\E n \in Notes : EditOutside(n) \/ CommitOutside(n)) \/ UNCHANGED vars
  BY <1>5, <1>8 DEF PollHead, EditOutside, CommitOutside, vars
<1> QED BY <1>1, <1>2, <1>3, <1>4, <1>6, <1>7, <1>8, <1>a DEF Next, Advance, FlushStep, Sweep

-----------------------------------------------------------------------------
(* The flush lock.                                                         *)

LEMMA FlushInit == Init => FlushInv
<1> SUFFICES ASSUME Init PROVE FlushInv
  OBVIOUS
<1>1. \A f \in Flushers : task[f] = Idle /\ flush # f
  BY DEF Init, Tasks
<1>2. queue = <<>> /\ drained = 0 /\ dropped = 0 /\ pushed = 0 /\ flush = Nobody
  BY DEF Init
<1> QED BY <1>1, <1>2 DEF FlushInv, FlushIsHeld, NothingPopped, EntriesAreCounted, InHand, Popped, Waiting,
                          AskedIsPopped, FlushSeesCommits, Idle, Draining, Holding, At

\* A step of somebody else, which at most adds to the queue.
LEMMA FlushFrame ==
  ASSUME TypeInv, FlushInv, \A f \in Flushers : task'[f] = task[f], UNCHANGED <<flush, drained, dropped>>,
         pushed' - Len(queue') = pushed - Len(queue), pushed' \in Nat, Len(queue') \in Nat
  PROVE  FlushInv'
<1> USE DEF FlushInv
<1>1. FlushIsHeld' /\ NothingPopped' /\ AskedIsPopped' /\ FlushSeesCommits'
  BY DEF FlushIsHeld, NothingPopped, AskedIsPopped, FlushSeesCommits, Popped, At
<1>2. flush \in Flushers \cup {Nobody}
  BY DEF TypeInv, TypeOK
<1>3. InHand' = InHand
  BY <1>2 DEF InHand, Popped
<1>4. InHand \in Nat
  <2>1. CASE flush = Nobody
    BY <2>1 DEF InHand
  <2>2. CASE flush # Nobody
    <3>1. task[flush].popped \in Seq(Entry)
      BY <1>2, <2>2, Given DEF Tasks
    <3> QED BY <2>2, <3>1 DEF InHand, Popped
  <2> QED BY <2>1, <2>2
<1>5. EntriesAreCounted'
  <2>1. Waiting \in Nat /\ pushed \in Nat /\ drained \in Nat /\ dropped \in Nat
    BY DEF Waiting, TypeInv, TypeOK
  <2>2. pushed' - Waiting' = pushed - Waiting /\ pushed' \in Nat /\ Waiting' \in Nat
    BY DEF Waiting
  <2> QED BY <1>3, <1>4, <2>1, <2>2 DEF EntriesAreCounted
<1> QED BY <1>1, <1>5

\* A step of the holder of the lock, in numbers: what it has in hand, and what waits.
LEMMA HolderStep ==
  ASSUME TypeInv, FlushInv, NEW f \in Flushers, flush = f,
         \A g \in Flushers \ {f} : task'[g] = task[g],
         drained' \in Nat, dropped' \in Nat, drained <= drained', dropped <= dropped',
         \/ /\ flush' = f /\ task'[f].at \in Draining \cup {"pop"}
            /\ task'[f].at \in Draining => drained' + dropped' + Popped(f)' >= task'[f].asked
            /\ drained' + dropped' + Popped(f)' + Waiting' = pushed'
         \/ /\ flush' = Nobody /\ task'[f].at \in {"idle", "blind", "done"}
            /\ task'[f].at = "idle" => task'[f].popped = <<>>
            /\ task'[f].at = "done" => drained' + dropped' >= task'[f].asked
            /\ drained' + dropped' + Waiting' = pushed'
  PROVE  FlushInv'
<1> USE DEF FlushInv
<1>a. f \in Tasks /\ Flushers \subseteq Tasks /\ f # Nobody
  BY DEF Tasks
<1>b. drained \in Nat /\ dropped \in Nat /\ \A g \in Flushers : task[g].asked \in Nat
  BY <1>a, Given
<1>1. \A g \in Flushers \ {f} : task[g].at \notin Draining \cup {"open", "pop"}
  BY DEF FlushIsHeld
<1>2. FlushIsHeld'
  BY <1>a, <1>1 DEF FlushIsHeld, Draining, Holding
<1>3. NothingPopped'
  BY <1>1 DEF NothingPopped, Draining, Holding
<1>4. AskedIsPopped'
  BY <1>1 DEF AskedIsPopped, Draining, Holding
<1>5. FlushSeesCommits'
  <2> SUFFICES ASSUME NEW g \in Flushers, task'[g].at = "done" PROVE drained' + dropped' >= task'[g].asked
    BY DEF FlushSeesCommits, At
  <2>1. CASE g = f
    BY <2>1 DEF Draining, Holding
  <2>2. CASE g # f
    <3>1. task'[g] = task[g] /\ drained + dropped >= task[g].asked
      BY <2>2 DEF FlushSeesCommits, At
    <3> HIDE SyncAssumption
    <3> QED BY <1>b, <3>1
  <2> QED BY <2>1, <2>2
<1>6. EntriesAreCounted'
  <2>1. CASE flush' = Nobody
    <3>1. drained' + dropped' + Waiting' = pushed' /\ InHand' = 0
      BY <1>a, <2>1 DEF InHand
    <3> QED BY <3>1 DEF EntriesAreCounted
  <2>2. CASE flush' = f
    BY <1>a, <2>2 DEF EntriesAreCounted, InHand
  <2> QED BY <2>1, <2>2
<1> QED BY <1>2, <1>3, <1>4, <1>5, <1>6

\* A flusher's own steps.
LEMMA FlushersSteps ==
  ASSUME TypeInv, FlushInv, NEW f \in Flushers,
         \/ AskFlush(f) \/ EnterFlush(f) \/ OpenRepo(f) \/ Pop(f) \/ PoppedAll(f) \/ PopPanics(f)
         \/ NextCommit(f) \/ Sync(f) \/ ReadFails(f) \/ TellFlushed(f) \/ GiveUpFlush(f) \/ ReturnFlush(f)
  PROVE  FlushInv'
<1> USE DEF At, commits
<1>a. f \in Tasks /\ Flushers \subseteq Tasks /\ task \in [Tasks -> TaskRecord] /\ f # Nobody
  BY DEF Tasks, TypeInv, TypeOK, TasksOK
<1>b. queue \in Seq(Entry) /\ task[f].popped \in Seq(Entry)
  BY <1>a, Given DEF TypeInv, TypeOK
<1>n. /\ Popped(f) \in Nat /\ Waiting \in Nat /\ task[f].asked \in Nat /\ task[f].asked <= pushed
      /\ drained \in Nat /\ dropped \in Nat /\ pushed \in Nat
  <2>1. Popped(f) \in Nat /\ Waiting \in Nat
    BY <1>b DEF Popped, Waiting
  <2> QED BY <1>a, <2>1, Given
<1>c. FlushIsHeld /\ NothingPopped /\ AskedIsPopped /\ FlushSeesCommits /\ EntriesAreCounted
  BY DEF FlushInv
<1>d. ASSUME flush = f PROVE drained + dropped + Popped(f) + Waiting = pushed
  BY <1>a, <1>c, <1>d DEF EntriesAreCounted, InHand
<1>e. ASSUME task[f].at \in Draining \cup {"open", "pop"} PROVE flush = f
  BY <1>c, <1>e DEF FlushIsHeld
<1>g. ASSUME task[f].at \in Draining PROVE drained + dropped + Popped(f) >= task[f].asked
  BY <1>c, <1>g DEF AskedIsPopped
\* A step that has nothing to do with the lock.
<1>h. ASSUME \A g \in Flushers \ {f} : task'[g] = task[g], flush # f, UNCHANGED <<flush, drained, dropped, queue, pushed>>,
             task'[f].at \in {"idle", "wait"}, task'[f].popped = <<>>
      PROVE  FlushInv'
  <2>1. FlushIsHeld' /\ NothingPopped' /\ AskedIsPopped' /\ FlushSeesCommits'
    BY <1>a, <1>c, <1>h DEF FlushIsHeld, NothingPopped, AskedIsPopped, FlushSeesCommits, Popped, Draining, Holding
  <2>2. InHand' = InHand /\ Waiting' = Waiting
    BY <1>h DEF InHand, Popped, Waiting, TypeInv, TypeOK
  <2> QED BY <1>c, <1>h, <2>1, <2>2 DEF FlushInv, EntriesAreCounted
<1>1. CASE AskFlush(f)
  <2>1. /\ \A g \in Flushers \ {f} : task'[g] = task[g]
        /\ task[f].at = "idle" /\ task'[f].at = "wait" /\ task'[f].popped = task[f].popped
        /\ UNCHANGED <<flush, drained, dropped, queue, pushed>>
    BY <1>a, <1>1 DEF AskFlush, TaskRecord
  <2>2. flush # f /\ task[f].popped = <<>>
    BY <1>c, <2>1 DEF FlushIsHeld, NothingPopped, Draining, Holding
  <2> QED BY <1>h, <2>1, <2>2
<1>2. CASE EnterFlush(f)
  <2>1. /\ \A g \in Flushers \ {f} : task'[g] = task[g]
        /\ task[f].at = "wait" /\ task'[f].at = "open" /\ task'[f].popped = task[f].popped
        /\ flush = Nobody /\ flush' = f /\ UNCHANGED <<drained, dropped, queue, pushed>>
    BY <1>a, <1>2 DEF EnterFlush, Goto, TaskRecord
  <2>2. task'[f].popped = <<>>
    BY <1>c, <2>1 DEF NothingPopped
  <2>3. EntriesAreCounted'
    <3>1. InHand' = 0 /\ InHand = 0 /\ Waiting' = Waiting
      BY <1>a, <2>1, <2>2 DEF InHand, Popped, Waiting
    <3> QED BY <1>c, <2>1, <3>1 DEF EntriesAreCounted
  <2>4. \A g \in Flushers \ {f} : task[g].at \notin Draining \cup {"open", "pop"}
    BY <1>a, <1>c, <2>1 DEF FlushIsHeld
  <2>5. FlushIsHeld'
    BY <1>a, <2>1, <2>4 DEF FlushIsHeld
  <2>6. NothingPopped' /\ AskedIsPopped' /\ FlushSeesCommits'
    BY <1>c, <2>1, <2>2, <2>4 DEF NothingPopped, AskedIsPopped, FlushSeesCommits, Draining, Holding
  <2> QED BY <2>3, <2>5, <2>6 DEF FlushInv
<1>3. CASE OpenRepo(f)
  <2>1. task[f].at = "open" /\ UNCHANGED <<queue, pushed, drained, dropped>> /\ Waiting' = Waiting
    BY <1>3 DEF OpenRepo, Waiting
  <2>2. flush = f /\ Popped(f) = 0
    BY <1>c, <1>e, <2>1 DEF NothingPopped, Popped
  <2>3. CASE Goto(f, IF queue = <<>> THEN "tell" ELSE "pop") /\ flush' = flush
    <3>1. /\ \A g \in Flushers \ {f} : task'[g] = task[g]
          /\ task'[f].at = IF queue = <<>> THEN "tell" ELSE "pop"
          /\ task'[f].popped = task[f].popped /\ task'[f].asked = task[f].asked
      BY <1>a, <2>3 DEF Goto, TaskRecord
    <3>2. Popped(f)' = Popped(f) /\ (task'[f].at \in Draining => Waiting = 0)
      BY <3>1 DEF Popped, Waiting, Draining, Holding
    <3>3. task'[f].at \in Draining \cup {"pop"}
      BY <3>1 DEF Draining
    <3> HIDE SyncAssumption
    <3>4. /\ drained' + dropped' + Popped(f)' + Waiting' = pushed'
          /\ task'[f].at \in Draining => drained' + dropped' + Popped(f)' >= task'[f].asked
      BY <1>d, <1>n, <2>1, <2>2, <3>1, <3>2
    <3> QED BY <1>n, <2>1, <2>2, <2>3, <3>1, <3>3, <3>4, HolderStep
  <2>4. CASE flush' = Nobody /\ task' = [task EXCEPT ![f] = [Idle EXCEPT !.at = "blind"]]
    <3>1. task'[f].at = "blind" /\ \A g \in Flushers \ {f} : task'[g] = task[g]
      BY <1>a, <2>4 DEF Idle
    <3> HIDE SyncAssumption
    <3>2. drained' + dropped' + Waiting' = pushed'
      BY <1>d, <1>n, <2>1, <2>2
    <3> QED BY <1>n, <2>1, <2>2, <2>4, <3>1, <3>2, HolderStep
  <2> QED BY <1>3, <2>3, <2>4 DEF OpenRepo
<1>4. CASE Pop(f)
  <2> DEFINE kept == [task[f] EXCEPT !.popped = Append(task[f].popped, Head(queue)),
                                     !.left = Append(task[f].left, Head(queue))]
  <2>1. /\ task[f].at = "pop" /\ queue # <<>> /\ queue' = Tail(queue)
        /\ UNCHANGED <<flush, drained, pushed>>
        /\ \/ task' = [task EXCEPT ![f] = kept] /\ dropped' = dropped
           \/ task' = task /\ dropped' = dropped + 1
    BY <1>4 DEF Pop
  <2>2. flush = f /\ Waiting' = Waiting - 1
    BY <1>b, <1>e, <2>1 DEF Waiting
  <2>3. /\ kept.at = "pop" /\ kept.popped = Append(task[f].popped, Head(queue))
    BY <1>a, <2>1 DEF TaskRecord
  <2>4. Len(Append(task[f].popped, Head(queue))) = Len(task[f].popped) + 1
    <3>1. Head(queue) \in Entry
      BY <1>b, <2>1
    <3> QED BY <1>b, <3>1
  <2> HIDE DEF kept
  <2>5. CASE task' = [task EXCEPT ![f] = kept] /\ dropped' = dropped
    <3>1. task'[f] = kept /\ \A g \in Flushers \ {f} : task'[g] = task[g]
      BY <1>a, <2>5
    <3>2. task'[f].at = "pop" /\ Popped(f)' = Popped(f) + 1
      BY <2>3, <2>4, <3>1 DEF Popped
    <3>3. UNCHANGED <<flush, drained, pushed>>
      BY <2>1
    <3> HIDE SyncAssumption
    <3>4. drained' + dropped' + Popped(f)' + Waiting' = pushed'
      BY <1>d, <1>n, <2>2, <2>5, <3>2, <3>3
    <3> QED BY <1>n, <2>2, <2>5, <3>1, <3>2, <3>3, <3>4, HolderStep DEF Draining, Holding
  <2>6. CASE task' = task /\ dropped' = dropped + 1
    <3>1. Popped(f)' = Popped(f)
      BY <2>6 DEF Popped
    <3>2. task[f].at = "pop" /\ UNCHANGED <<flush, drained, pushed>>
      BY <2>1
    <3> HIDE SyncAssumption
    <3>3. drained' + dropped' + Popped(f)' + Waiting' = pushed' /\ dropped' \in Nat /\ dropped <= dropped'
      BY <1>d, <1>n, <2>2, <2>6, <3>1, <3>2
    <3> QED BY <1>n, <2>2, <2>6, <3>2, <3>3, HolderStep DEF Draining, Holding
  <2> QED BY <2>1, <2>5, <2>6
<1>5. CASE PoppedAll(f)
  <2>1. /\ \A g \in Flushers \ {f} : task'[g] = task[g]
        /\ task[f].at = "pop" /\ task'[f].at = "sync" /\ task'[f].popped = task[f].popped
        /\ task'[f].asked = task[f].asked /\ queue = <<>>
        /\ UNCHANGED <<flush, drained, dropped, queue, pushed>>
    BY <1>a, <1>5 DEF PoppedAll, Goto, TaskRecord
  <2>2. flush = f
    BY <1>e, <2>1
  <2>3. Waiting = 0 /\ Waiting' = 0 /\ Popped(f)' = Popped(f)
    BY <2>1 DEF Waiting, Popped
  <2>4. task'[f].at \in Draining
    BY <2>1 DEF Draining
  <2> HIDE SyncAssumption
  <2>5. /\ drained' + dropped' + Popped(f)' + Waiting' = pushed'
        /\ drained' + dropped' + Popped(f)' >= task'[f].asked
    BY <1>d, <1>n, <2>1, <2>2, <2>3
  <2> QED BY <1>n, <2>1, <2>2, <2>4, <2>5, HolderStep
<1>6. CASE PopPanics(f)
  <2>1. /\ \A g \in Flushers \ {f} : task'[g] = task[g]
        /\ task[f].at = "pop" /\ task'[f].at = "blind" /\ dropped' = dropped + Popped(f)
        /\ flush' = Nobody /\ UNCHANGED <<drained, pushed>> /\ Waiting' = Waiting
    BY <1>a, <1>6 DEF PopPanics, Idle, Popped, Waiting
  <2>2. flush = f
    BY <1>e, <2>1
  <2> HIDE SyncAssumption
  <2>3. drained' + dropped' + Waiting' = pushed' /\ dropped' \in Nat /\ dropped <= dropped'
    BY <1>d, <1>n, <2>1, <2>2
  <2> QED BY <1>n, <2>1, <2>2, <2>3, HolderStep
<1>7. CASE NextCommit(f) \/ Sync(f) \/ ReadFails(f)
  <2>1. /\ \A g \in Flushers \ {f} : task'[g] = task[g]
        /\ task[f].at \in Draining /\ task'[f].at \in Draining /\ task'[f].popped = task[f].popped
        /\ task'[f].asked = task[f].asked
        /\ UNCHANGED <<flush, drained, dropped, queue, pushed>>
    <3>1. CASE NextCommit(f)
      BY <1>a, <3>1 DEF NextCommit, TaskRecord, Draining
    <3>2. CASE Sync(f)
      BY <1>a, <3>2, SyncFrame DEF Draining
    <3>3. CASE ReadFails(f)
      BY <1>a, <3>3, ReadFailsFrame DEF Draining, Holding
    <3> QED BY <1>7, <3>1, <3>2, <3>3
  <2>2. flush = f
    BY <1>e, <2>1
  <2>3. Waiting' = Waiting /\ Popped(f)' = Popped(f)
    BY <2>1 DEF Waiting, Popped
  <2> HIDE SyncAssumption
  <2>4. /\ drained' + dropped' + Popped(f)' + Waiting' = pushed'
        /\ drained' + dropped' + Popped(f)' >= task'[f].asked
    BY <1>d, <1>g, <1>n, <2>1, <2>2, <2>3
  <2> QED BY <1>n, <2>1, <2>2, <2>4, HolderStep
<1>8. CASE TellFlushed(f)
  <2>1. /\ \A g \in Flushers \ {f} : task'[g] = task[g]
        /\ task[f].at \in Draining /\ task'[f].at = "done" /\ task'[f].asked = task[f].asked
        /\ flush' = Nobody /\ drained' = drained + Popped(f) /\ UNCHANGED <<dropped, pushed>>
        /\ Waiting' = Waiting
    BY <1>a, <1>8 DEF TellFlushed, Idle, TaskRecord, Popped, Waiting, Draining
  <2>2. flush = f
    BY <1>e, <2>1
  <2> HIDE SyncAssumption
  <2>3. /\ drained' + dropped' + Waiting' = pushed' /\ drained' \in Nat /\ drained <= drained'
        /\ drained' + dropped' >= task'[f].asked
    BY <1>d, <1>g, <1>n, <2>1, <2>2
  <2> QED BY <1>n, <2>1, <2>2, <2>3, HolderStep
<1>9. CASE GiveUpFlush(f)
  <2>1. PICK k \in 0 .. Waiting :
          queue' = SubSeq(queue, k + 1, Len(queue)) /\ dropped' = dropped + Popped(f) + k
    <3>1. PICK k \in IF At(f, "pop") THEN 0 .. Len(queue) ELSE {0} :
            queue' = SubSeq(queue, k + 1, Len(queue)) /\ dropped' = dropped + Len(task[f].popped) + k
      BY <1>9 DEF GiveUpFlush
    <3>2. k \in 0 .. Len(queue)
      BY <1>b, <3>1
    <3> QED BY <3>1, <3>2 DEF Popped, Waiting
  <2>2. Waiting' = Waiting - k
    <3>1. Len(SubSeq(queue, k + 1, Len(queue))) = Len(queue) - k
      BY <1>b DEF Waiting
    <3> QED BY <2>1, <3>1 DEF Waiting
  <2>3. /\ \A g \in Flushers \ {f} : task'[g] = task[g]
        /\ flush = f /\ flush' = Nobody /\ task'[f].at = "idle" /\ task'[f].popped = <<>>
        /\ UNCHANGED <<drained, pushed>>
    BY <1>a, <1>9 DEF GiveUpFlush, Finish, Idle
  <2>4. dropped' = dropped + Popped(f) + k /\ k \in 0 .. Waiting
    BY <2>1
  <2> HIDE SyncAssumption
  <2>5. drained' + dropped' + Waiting' = pushed' /\ dropped' \in Nat /\ dropped <= dropped'
    BY <1>d, <1>n, <2>2, <2>3, <2>4
  <2> QED BY <1>n, <2>3, <2>5, HolderStep
<1>10. CASE ReturnFlush(f)
  <2>1. /\ \A g \in Flushers \ {f} : task'[g] = task[g]
        /\ task[f].at \in {"done", "blind"} /\ task'[f].at = "idle" /\ task'[f].popped = <<>>
        /\ UNCHANGED <<flush, drained, dropped, queue, pushed>>
    BY <1>a, <1>10 DEF ReturnFlush, Finish, Idle
  <2>2. flush # f
    BY <1>c, <2>1 DEF FlushIsHeld, Draining, Holding
  <2> QED BY <1>h, <2>1, <2>2
<1> QED BY <1>1, <1>2, <1>3, <1>4, <1>5, <1>6, <1>7, <1>8, <1>9, <1>10

LEMMA FlushStepInv == TypeInv /\ FlushInv /\ [Next]_vars => FlushInv'
<1> SUFFICES ASSUME TypeInv, FlushInv, [Next]_vars PROVE FlushInv'
  OBVIOUS
<1> USE DEF commits
<1>a. /\ Writers \subseteq Tasks /\ Sweeper \in Tasks /\ Flushers \subseteq Tasks
      /\ task \in [Tasks -> TaskRecord] /\ Sweeper \notin Flushers /\ Writers \cap Flushers = {}
      /\ Len(queue) \in Nat /\ pushed \in Nat
  BY DEF TypeInv, TypeOK, TasksOK, Tasks
<1>1. ASSUME \A f \in Flushers : task'[f] = task[f], UNCHANGED <<flush, drained, dropped, queue, pushed>>
      PROVE  FlushInv'
  BY <1>1, <1>a, FlushFrame
<1>2. ASSUME NEW entries \in Seq(Entry), Enqueue(entries),
             \A f \in Flushers : task'[f] = task[f], UNCHANGED <<flush, drained, dropped>>
      PROVE  FlushInv'
  <2>1. /\ Len(queue') = Len(queue) + Len(entries) /\ pushed' = pushed + Len(entries)
        /\ pushed' \in Nat /\ queue' \in Seq(Entry) /\ Len(entries) \in Nat
    BY <1>2, EnqueueType
  <2> QED BY <1>2, <1>a, <2>1, FlushFrame
<1>3. ASSUME NEW w \in Writers, Claim(w) \/ Unclaim(w) \/ TellLocal(w)
      PROVE  FlushInv'
  <2>1. \A f \in Flushers : task'[f] = task[f]
    BY <1>3, <1>a DEF Claim, Unclaim, TellLocal, Goto, Finish
  <2> QED BY <1>3, <1>1, <2>1 DEF Claim, Unclaim, TellLocal
<1>4. ASSUME NEW w \in Writers,
             EnterSubstrate(w) \/ AdvanceHead(w) \/ ApplyChange(w) \/ LeaveSubstrate(w) \/ ApplyFails(w)
      PROVE  FlushInv'
  <2>1. (\A f \in Flushers : task'[f] = task[f]) /\ UNCHANGED <<flush, drained, dropped>>
    BY <1>4, <1>a, WriteFrame
  <2>2. CASE LeaveSubstrate(w)
    <3>1. task[w].all \in Seq(Item)
      BY <1>a, Given
    <3>2. <<[items |-> task[w].all, external |-> FALSE]>> \in Seq(Entry)
      BY <3>1 DEF Entry
    <3> QED BY <1>1, <1>2, <2>1, <2>2, <3>2 DEF LeaveSubstrate
  <2>3. CASE EnterSubstrate(w) \/ AdvanceHead(w) \/ ApplyChange(w) \/ ApplyFails(w)
    BY <1>1, <2>1, <2>3 DEF EnterSubstrate, AdvanceHead, ApplyChange, ApplyFails
  <2> QED BY <1>4, <2>2, <2>3
<1>5. ASSUME NEW t \in Tasks \ Flushers, Sync(t) \/ ReadFails(t) PROVE FlushInv'
  BY <1>5, <1>1, <1>a, SyncFrame, ReadFailsFrame
<1>6. CASE Scan \/ ScanFails \/ Diff \/ TellSwept
  <2>1. \A f \in Flushers : task'[f] = task[f]
    BY <1>6, <1>a DEF Scan, ScanFails, Diff, TellSwept, Goto, Finish
  <2> QED BY <1>6, <1>1, <2>1 DEF Scan, ScanFails, Diff, TellSwept
<1>7. CASE PollHead
  <2>1. [i \in 1 .. Len(log) - head |-> [items |-> log[head + i], external |-> TRUE]] \in Seq(Entry)
    BY PolledType
  <2> QED BY <1>2, <1>7, <2>1 DEF PollHead
<1>8. CASE (\E n \in Notes : EditOutside(n) \/ CommitOutside(n)) \/ UNCHANGED vars
  BY <1>1, <1>8 DEF EditOutside, CommitOutside, vars
<1> QED BY <1>3, <1>4, <1>5, <1>6, <1>7, <1>8, <1>a, FlushersSteps DEF Next, Advance, FlushStep, Sweep

-----------------------------------------------------------------------------
(* Fingerprints.                                                           *)

\* A read that straddled a change cannot find the fingerprint it began with: a
\* revision is never used again.
ReadsAreHonest ==
  \A t \in Tasks :
    /\ task[t].at = "again" /\ task[t].before # 0 /\ task[t].seen # task[t].before
         => disk[Now(t)] # task[t].before
    /\ task[t].at \in {"graph", "cache"} => task[t].before \in {0, task[t].seen}

HonestInv == ReadsAreHonest /\ FingerprintIsHonest

LEMMA HonestInit == Init => HonestInv
  BY DEF Init, HonestInv, ReadsAreHonest, FingerprintIsHonest, Idle

\* A step that parses nothing, whatever it does to the disk.
LEMMA HonestFrame ==
  ASSUME TypeInv, HonestInv, cache' = cache,
         \A n \in Notes : disk'[n] \in {disk[n], 0, clock + 1},
         \A t \in Tasks : task'[t] = task[t] \/ task'[t].at \notin {"again", "graph", "cache"}
  PROVE  HonestInv'
<1>1. ASSUME NEW t \in Tasks
      PROVE  /\ task'[t].at = "again" /\ task'[t].before # 0 /\ task'[t].seen # task'[t].before
                  => disk'[Now(t)'] # task'[t].before
             /\ task'[t].at \in {"graph", "cache"} => task'[t].before \in {0, task'[t].seen}
  <2>1. CASE task'[t].at \notin {"again", "graph", "cache"}
    BY <2>1
  <2>2. CASE task'[t] = task[t] /\ task[t].at \in {"graph", "cache"}
    BY <2>2 DEF HonestInv, ReadsAreHonest
  <2>3. CASE task'[t] = task[t] /\ task[t].at = "again"
    <3>1. Now(t)' = Now(t)
      BY <2>3 DEF Now
    <3>2. Now(t) \in Notes
      <4>1. Head(task[t].todo) \in Item
        BY <2>3, Given DEF TypeInv, ItemInHand, Holding
      <4> QED BY <4>1 DEF Now, Item
    <3>3. task[t].before \in Nat /\ task[t].before <= clock /\ clock \in Nat
      BY Given
    <3>4. task[t].before # 0 /\ task[t].seen # task[t].before => disk[Now(t)] # task[t].before
      BY <2>3 DEF HonestInv, ReadsAreHonest
    <3>5. disk'[Now(t)] \in {disk[Now(t)], 0, clock + 1}
      BY <3>2
    <3> QED BY <2>3, <3>1, <3>3, <3>4, <3>5
  <2> QED BY <2>1, <2>2, <2>3
<1>2. FingerprintIsHonest'
  BY DEF HonestInv, FingerprintIsHonest
<1> QED BY <1>1, <1>2 DEF HonestInv, ReadsAreHonest

LEMMA HonestSync ==
  ASSUME TypeInv, HonestInv, NEW t \in Tasks, Sync(t)
  PROVE  HonestInv'
<1> USE DEF At
<1>a. task \in [Tasks -> TaskRecord] /\ disk' = disk /\ \A u \in Tasks \ {t} : task'[u] = task[u]
  BY Given, SyncFrame
<1>b. /\ FingerprintIsHonest
      /\ \A u \in Tasks \ {t} :
            /\ task[u].at = "again" /\ task[u].before # 0 /\ task[u].seen # task[u].before
                 => disk[Now(u)] # task[u].before
            /\ task[u].at \in {"graph", "cache"} => task[u].before \in {0, task[u].seen}
  BY DEF HonestInv, ReadsAreHonest
<1>c. \A u \in Tasks \ {t} : Now(u)' = Now(u)
  BY <1>a DEF Now
<1>d. ASSUME FingerprintIsHonest',
             /\ task'[t].at = "again" /\ task'[t].before # 0 /\ task'[t].seen # task'[t].before
                  => disk'[Now(t)'] # task'[t].before
             /\ task'[t].at \in {"graph", "cache"} => task'[t].before \in {0, task'[t].seen}
      PROVE  HonestInv'
  <2>1. ASSUME NEW u \in Tasks
        PROVE  /\ task'[u].at = "again" /\ task'[u].before # 0 /\ task'[u].seen # task'[u].before
                    => disk'[Now(u)'] # task'[u].before
               /\ task'[u].at \in {"graph", "cache"} => task'[u].before \in {0, task'[u].seen}
    <3>1. CASE u = t
      BY <1>d, <3>1
    <3>2. CASE u # t
      BY <1>a, <1>b, <1>c, <3>2
    <3> QED BY <3>1, <3>2
  <2> QED BY <1>d, <2>1 DEF HonestInv, ReadsAreHonest
<1>1. CASE Stat(t)
  <2>1. task'[t].at = "read" /\ cache' = cache
    BY <1>a, <1>1 DEF Stat, TaskRecord, derived
  <2> QED BY <1>a, <2>1, HonestFrame
<1>2. CASE Read(t)
  <2>1. cache' = cache
    BY <1>2 DEF Read, derived
  <2>2. ASSUME disk[Now(t)] = 0 PROVE task'[t].at = "sync"
    BY <1>a, <1>2, <2>2 DEF Read, Next1, TaskRecord
  <2>3. ASSUME disk[Now(t)] # 0
        PROVE  /\ task'[t].at = "again" /\ task'[t].seen = disk[Now(t)] /\ task'[t].todo = task[t].todo
    BY <1>a, <1>2, <2>3 DEF Read, TaskRecord
  <2>4. CASE disk[Now(t)] = 0
    BY <1>a, <2>1, <2>2, <2>4, HonestFrame
  <2>5. CASE disk[Now(t)] # 0
    <3>1. Now(t)' = Now(t)
      BY <2>3, <2>5 DEF Now
    <3>2. FingerprintIsHonest'
      BY <1>b, <2>1 DEF FingerprintIsHonest
    <3> QED BY <1>a, <1>d, <2>3, <2>5, <3>1, <3>2
  <2> QED BY <2>4, <2>5
<1>3. CASE StatAgain(t)
  <2>1. /\ task[t].at = "again" /\ task'[t].at = "graph" /\ task'[t].before = Observed(t)
        /\ task'[t].seen = task[t].seen /\ cache' = cache
    BY <1>a, <1>3 DEF StatAgain, TaskRecord, derived
  <2>2. Observed(t) \in {0, task[t].seen}
    BY <2>1 DEF Observed, HonestInv, ReadsAreHonest
  <2>3. FingerprintIsHonest'
    BY <1>b, <2>1 DEF FingerprintIsHonest
  <2> QED BY <1>d, <2>1, <2>2, <2>3
<1>7. CASE UpdateGraph(t)
  <2>1. /\ task[t].at = "graph" /\ task'[t].at = "cache" /\ task'[t].before = task[t].before
        /\ task'[t].seen = task[t].seen /\ cache' = cache
    BY <1>a, <1>7 DEF UpdateGraph, Goto, TaskRecord
  <2>2. task[t].before \in {0, task[t].seen}
    BY <2>1 DEF HonestInv, ReadsAreHonest
  <2>3. FingerprintIsHonest'
    BY <1>b, <2>1 DEF FingerprintIsHonest
  <2> QED BY <1>d, <2>1, <2>2, <2>3
<1>4. CASE InsertCache(t)
  <2>1. /\ task[t].at = "cache" /\ task'[t].at = "sync"
        /\ cache' = [cache EXCEPT ![Now(t)] = [file |-> task[t].seen, observed |-> task[t].before]]
    BY <1>a, <1>4 DEF InsertCache, Next1, TaskRecord
  <2>2. task[t].before \in {0, task[t].seen}
    BY <2>1 DEF HonestInv, ReadsAreHonest
  <2>3. FingerprintIsHonest'
    BY <1>b, <2>1, <2>2 DEF FingerprintIsHonest, TypeInv, TypeOK
  <2> QED BY <1>d, <2>1, <2>3
<1>5. CASE CheckGone(t)
  <2>1. task'[t].at \in {"sync", "drop"}
    <3>1. \/ task' = [task EXCEPT ![t] = Next1(t)]
          \/ Goto(t, "drop")
      BY <1>5 DEF CheckGone, Goto
    <3>2. task'[t] = Next1(t) \/ task'[t].at = "drop"
      BY <1>a, <3>1, GotoArrives
    <3> QED BY <1>a, <3>2 DEF Next1, TaskRecord
  <2>2. cache' = cache
    BY <1>5 DEF CheckGone, derived
  <2> QED BY <1>a, <2>1, <2>2, HonestFrame
<1>8. CASE DropGraph(t)
  <2>1. task'[t].at = "evict" /\ cache' = cache
    BY <1>a, <1>8, GotoArrives DEF DropGraph
  <2> QED BY <1>a, <2>1, HonestFrame
<1>6. CASE EvictCache(t)
  <2>1. task'[t].at = "sync" /\ cache' = [cache EXCEPT ![Now(t)] = NoEntry]
    BY <1>a, <1>6 DEF EvictCache, Next1, TaskRecord
  <2>2. FingerprintIsHonest'
    BY <1>b, <2>1 DEF FingerprintIsHonest, NoEntry, TypeInv, TypeOK
  <2> QED BY <1>d, <2>1, <2>2
<1> QED BY <1>1, <1>2, <1>3, <1>4, <1>5, <1>6, <1>7, <1>8 DEF Sync

LEMMA HonestStep == TypeInv /\ HonestInv /\ [Next]_vars => HonestInv'
<1> SUFFICES ASSUME TypeInv, HonestInv, [Next]_vars PROVE HonestInv'
  OBVIOUS
<1> USE DEF derived, At
<1>a. /\ Writers \subseteq Tasks /\ Sweeper \in Tasks /\ Flushers \subseteq Tasks
      /\ task \in [Tasks -> TaskRecord] /\ disk \in [Notes -> 0 .. clock]
  BY DEF TypeInv, TypeOK, TasksOK, Tasks
<1>1. ASSUME cache' = cache, disk' = disk, NEW t \in Tasks, \A u \in Tasks \ {t} : task'[u] = task[u],
             task'[t].at \notin {"again", "graph", "cache"}
      PROVE  HonestInv'
  BY <1>1, HonestFrame
<1>2. ASSUME NEW w \in Writers, Claim(w) \/ Unclaim(w) \/ TellLocal(w)
      PROVE  HonestInv'
  <2>1. (\A u \in Tasks \ {w} : task'[u] = task[u]) /\ task'[w].at \notin {"again", "graph", "cache"}
    <3>1. CASE Claim(w)
      BY <1>a, <3>1 DEF Claim, Idle
    <3>2. CASE Unclaim(w) \/ TellLocal(w)
      BY <1>a, <3>2, GotoArrives, FinishArrives DEF Unclaim, TellLocal
    <3> QED BY <1>2, <3>1, <3>2
  <2> QED BY <1>1, <1>2, <1>a, <2>1 DEF Claim, Unclaim, TellLocal
<1>3. ASSUME NEW w \in Writers,
             EnterSubstrate(w) \/ AdvanceHead(w) \/ ApplyChange(w) \/ LeaveSubstrate(w) \/ ApplyFails(w)
      PROVE  HonestInv'
  <2>1. \A u \in Tasks \ {w} : task'[u] = task[u]
    BY <1>3, <1>a, WriteFrame
  <2>2. task'[w].at \notin {"again", "graph", "cache"}
    <3>1. CASE EnterSubstrate(w) \/ AdvanceHead(w)
      BY <1>a, <3>1, GotoArrives DEF EnterSubstrate, AdvanceHead
    <3>2. CASE ApplyChange(w)
      BY <1>a, <3>2 DEF ApplyChange, TaskRecord
    <3>3. CASE LeaveSubstrate(w)
      BY <1>a, <3>3 DEF LeaveSubstrate, TaskRecord
    <3>4. CASE ApplyFails(w)
      BY <1>a, <3>4 DEF ApplyFails, TaskRecord
    <3> QED BY <1>3, <3>1, <3>2, <3>3, <3>4
  <2>3. \A n \in Notes : disk'[n] \in {disk[n], 0, clock + 1}
    BY <1>3, <1>a DEF EnterSubstrate, AdvanceHead, ApplyChange, LeaveSubstrate, ApplyFails
  <2>4. cache' = cache
    BY <1>3 DEF EnterSubstrate, AdvanceHead, ApplyChange, LeaveSubstrate, ApplyFails
  <2> QED BY <2>1, <2>2, <2>3, <2>4, HonestFrame
<1>4. ASSUME NEW f \in Flushers,
             \/ AskFlush(f) \/ EnterFlush(f) \/ OpenRepo(f) \/ Pop(f) \/ PoppedAll(f) \/ PopPanics(f)
             \/ NextCommit(f) \/ TellFlushed(f) \/ GiveUpFlush(f) \/ ReturnFlush(f)
      PROVE  HonestInv'
  <2>1. \A u \in Tasks \ {f} : task'[u] = task[u]
    BY <1>4, <1>a DEF AskFlush, EnterFlush, OpenRepo, Pop, PoppedAll, PopPanics, NextCommit,
                      TellFlushed, GiveUpFlush, ReturnFlush, Goto, Finish
  <2>2. task'[f].at \notin {"again", "graph", "cache"}
    <3>1. CASE Pop(f)
      <4> DEFINE kept == [task[f] EXCEPT !.popped = Append(task[f].popped, Head(queue)),
                                         !.left = Append(task[f].left, Head(queue))]
      <4>1. task[f].at = "pop" /\ (task' = [task EXCEPT ![f] = kept] \/ task' = task)
        BY <3>1 DEF Pop
      <4>2. kept.at = "pop"
        BY <1>a, <4>1 DEF TaskRecord
      <4> HIDE DEF kept
      <4> QED BY <1>a, <4>1, <4>2
    <3>6. CASE OpenRepo(f)
      <4>1. \/ Goto(f, IF queue = <<>> THEN "tell" ELSE "pop")
            \/ task' = [task EXCEPT ![f] = [Idle EXCEPT !.at = "blind"]]
        BY <3>6 DEF OpenRepo
      <4> QED BY <1>a, <4>1, GotoArrives DEF Idle
    <3>7. CASE PopPanics(f)
      BY <1>a, <3>7 DEF PopPanics, Idle
    <3>2. CASE AskFlush(f)
      BY <1>a, <3>2 DEF AskFlush, TaskRecord
    <3>3. CASE NextCommit(f)
      BY <1>a, <3>3 DEF NextCommit, TaskRecord
    <3>4. CASE TellFlushed(f)
      BY <1>a, <3>4 DEF TellFlushed, Idle
    <3>5. CASE EnterFlush(f) \/ PoppedAll(f) \/ GiveUpFlush(f) \/ ReturnFlush(f)
      BY <1>a, <3>5, GotoArrives, FinishArrives DEF EnterFlush, PoppedAll, GiveUpFlush, ReturnFlush
    <3> QED BY <1>4, <3>1, <3>2, <3>3, <3>4, <3>5, <3>6, <3>7
  <2>3. disk' = disk /\ cache' = cache
    BY <1>4 DEF AskFlush, EnterFlush, OpenRepo, Pop, PoppedAll, PopPanics, NextCommit,
                      TellFlushed, GiveUpFlush, ReturnFlush
  <2> QED BY <1>1, <1>a, <2>1, <2>2, <2>3
<1>5. CASE Scan \/ ScanFails \/ Diff \/ TellSwept
  <2>1. \A u \in Tasks \ {Sweeper} : task'[u] = task[u]
    BY <1>5, <1>a DEF Scan, ScanFails, Diff, TellSwept, Goto, Finish
  <2>2. task'[Sweeper].at \notin {"again", "graph", "cache"}
    <3>1. CASE Scan \/ ScanFails \/ TellSwept
      BY <1>a, <3>1, GotoArrives, FinishArrives DEF Scan, ScanFails, TellSwept
    <3>2. CASE Diff
      <4>1. PICK order : LET items == [i \in DOMAIN order |-> [path |-> order[i], present |-> scan[order[i]] # 0]]
                         IN  task' = [task EXCEPT ![Sweeper].at = "sync", ![Sweeper].todo = items,
                                                  ![Sweeper].all = items]
        BY <3>2 DEF Diff
      <4> QED BY <1>a, <4>1 DEF TaskRecord
    <3> QED BY <1>5, <3>1, <3>2
  <2>3. disk' = disk /\ cache' = cache
    BY <1>5 DEF Scan, ScanFails, Diff, TellSwept
  <2> QED BY <1>1, <1>a, <2>1, <2>2, <2>3
<1>6. ASSUME NEW n \in Notes, EditOutside(n) \/ CommitOutside(n) PROVE HonestInv'
  <2>1. task' = task /\ cache' = cache
    BY <1>6 DEF EditOutside, CommitOutside
  <2>2. \A m \in Notes : disk'[m] \in {disk[m], 0, clock + 1}
    BY <1>6, <1>a DEF EditOutside, CommitOutside
  <2> QED BY <2>1, <2>2, HonestFrame
<1>7. CASE PollHead \/ UNCHANGED vars
  BY <1>7, HonestFrame DEF PollHead, vars
<1>8. ASSUME NEW t \in Tasks, ReadFails(t) PROVE HonestInv'
  BY <1>8, <1>1, ReadFailsFrame
<1> QED BY <1>2, <1>3, <1>4, <1>5, <1>6, <1>7, <1>8, <1>a, HonestSync DEF Next, Advance, FlushStep, Sweep

-----------------------------------------------------------------------------
(* The properties of the runs.                                             *)

IndexInv == TypeInv /\ ClaimsAreHeld /\ FlushInv /\ HonestInv

LEMMA TypeStep == TypeInv /\ ClaimsAreHeld /\ FlushInv /\ [Next]_vars => TypeInv'
<1> SUFFICES ASSUME TypeInv, ClaimsAreHeld, FlushInv, [Next]_vars PROVE TypeInv'
  OBVIOUS
<1>1. Writers \subseteq Tasks /\ Flushers \subseteq Tasks /\ Sweeper \in Tasks
  BY DEF Tasks
<1>2. ASSUME NEW w \in Writers, Claim(w) \/ Advance(w) \/ ApplyFails(w) PROVE TypeInv'
  BY <1>1, <1>2, TypeWrite, TypeSync, TypeUnclaim DEF Advance
<1>3. ASSUME NEW f \in Flushers, FlushStep(f) \/ PopPanics(f) \/ GiveUpFlush(f) PROVE TypeInv'
  BY <1>1, <1>3, TypeFlush, TypeSync DEF FlushStep
<1>4. CASE Sweep
  BY <1>1, <1>4, TypeSweep, TypeSync DEF Sweep
<1>5. CASE ScanFails
  BY <1>5, TypeSweep
<1> QED BY <1>2, <1>3, <1>4, <1>5, TypeReadFails, TypePollHead, TypeOthers DEF Next

LEMMA Invariance == Spec => []IndexInv
<1>1. Init => IndexInv
  BY TypeInit, ClaimsInit, FlushInit, HonestInit DEF IndexInv
<1>2. IndexInv /\ [Next]_vars => IndexInv'
  BY TypeStep, ClaimsStep, FlushStepInv, HonestStep DEF IndexInv
<1> QED BY <1>1, <1>2, PTL DEF Spec

\* Every reachable state has the shape the runs check on small instances; that a
\* claim never counts below zero rests on what the claims count.
THEOREM TypeCorrect == Spec => []TypeOK
<1>1. IndexInv => TypeOK
  BY DEF IndexInv, TypeInv
<1> QED BY Invariance, <1>1, PTL

\* The sweep compares with the truth and keeps away from writes at work, for any
\* number of writes that overlap in any way (read_note_with_fingerprint,
\* claim_plan).
THEOREM SweepCompares == Spec => []SweepComparesRightly
<1>1. IndexInv => WritesAreClaimed
  <2> SUFFICES ASSUME IndexInv, NEW w \in Writers, task[w].at \notin {"idle", "tell"},
                      NEW n \in Touched(task[w].all)
               PROVE  claims[n] > 0
    BY DEF WritesAreClaimed
  <2>1. n \in Notes
    <3>1. task[w].all \in Seq(Item)
      BY Given DEF IndexInv, Tasks
    <3> QED BY <3>1, TouchedType
  <2>2. w \in Holders(n)
    BY DEF Holders
  <2>3. IsFiniteSet(Holders(n)) /\ claims[n] = Cardinality(Holders(n)) /\ Cardinality(Holders(n)) # 0
    BY <2>1, <2>2, FS_EmptySet DEF IndexInv, ClaimsAreHeld
  <2> QED BY <2>3, FS_CardinalityType
<1>2. IndexInv => FingerprintIsHonest
  BY DEF IndexInv, HonestInv
<1> QED BY Invariance, <1>1, <1>2, PTL DEF SweepComparesRightly

\* A flush that ran to its report has seen to every commit queued when it was asked
\* for, but for those a failure threw away, however many tasks flush at once and
\* whichever of them fails, panics or is given up (flush_reindex).
THEOREM FlushSees == Spec => []FlushSeesCommits
<1>1. IndexInv => FlushSeesCommits
  BY DEF IndexInv, FlushInv
<1> QED BY Invariance, <1>1, PTL
=============================================================================

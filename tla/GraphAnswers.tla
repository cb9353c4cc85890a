------------------------------ MODULE GraphAnswers ------------------------------
(***************************************************************************)
(* What the link graph is asked (turbovault-graph, graph.rs and health.rs; *)
(* turbovault-tools, graph_tools.rs and relationship_tools.rs): who links  *)
(* to whom, what hangs together and what does not, and how well.           *)
(*                                                                         *)
(* A graph is its notes in their order, its edges (two notes may have more *)
(* than one, told apart by a number), and the links that lead nowhere.     *)
(***************************************************************************)
EXTENDS Integers, FiniteSets, Sequences, SequencesExt, FiniteSetsExt

CONSTANTS MaxHops, SuggestionLimit   \* five, both

Notes(g) == Range(g.notes)
Outgoing(g, note) == {e \in g.edges : e.from = note}
Incoming(g, note) == {e \in g.edges : e.to = note}
Degree(g, note) == Cardinality(Outgoing(g, note)) + Cardinality(Incoming(g, note))

\* The notes that a note links to, and those that link to it, each once.
ForwardLinks(g, note) == {e.to : e \in Outgoing(g, note)}
BacklinksOf(g, note) == {e.from : e \in Incoming(g, note)}

\* The best of a sequence by some measure; those alike stay in their order.
Best(seq, measure, limit) ==
  LET Before(i, j) == measure[seq[i]] > measure[seq[j]] \/ (measure[seq[i]] = measure[seq[j]] /\ i < j)
      At(k) == CHOOSE i \in DOMAIN seq : Cardinality({j \in DOMAIN seq : Before(j, i)}) = k - 1
  IN  [k \in 1 .. Min({limit, Len(seq)}) |-> seq[At(k)]]

-----------------------------------------------------------------------------
(* Reach.                                                                  *)

\* Breadth first, along links in either direction; a note is met once.
RECURSIVE Spread(_, _, _, _)
Spread(g, visited, front, hops) ==
  LET next == UNION {ForwardLinks(g, note) \cup BacklinksOf(g, note) : note \in front} \ visited
  IN  IF hops = 0 \/ next = {} THEN <<>> ELSE <<next>> \o Spread(g, visited \cup next, next, hops - 1)

RelatedNotes(g, note, hops) ==
  IF note \notin Notes(g) THEN <<>> ELSE Spread(g, {note}, {note}, Min({hops, MaxHops}))

\* Every edge unites the components of its ends.
ConnectedComponents(g) ==
  FoldSet(LAMBDA e, parts : LET met == {c \in parts : c \cap {e.from, e.to} # {}} IN (parts \ met) \cup {UNION met},
          {{note} : note \in Notes(g)}, g.edges)

\* Notes that reach each other along links.
RECURSIVE Reached(_, _)
Reached(g, from) == LET more == from \cup UNION {ForwardLinks(g, note) : note \in from} IN
                    IF more = from THEN from ELSE Reached(g, more)
Cycles(g) ==
  {c \in {{q \in Notes(g) : q \in Reached(g, {note}) /\ note \in Reached(g, {q})} : note \in Notes(g)} : Cardinality(c) > 1}

-----------------------------------------------------------------------------
(* Health.                                                                 *)

OrphanedNotes(g) == {note \in Notes(g) : Degree(g, note) = 0}
DeadEndNotes(g) == {note \in Notes(g) : Outgoing(g, note) = {} /\ Incoming(g, note) # {}}
HubNotes(g, limit) ==
  Best(SelectSeq(g.notes, LAMBDA note : Degree(g, note) > 0), [note \in Notes(g) |-> Degree(g, note)], limit)

\* All components but a largest, and no single notes.
IsolatedClusters(g) ==
  LET parts == ConnectedComponents(g)
      largest == {c \in parts : \A d \in parts : Cardinality(d) <= Cardinality(c)}
  IN  {{c \in parts \ {main} : Cardinality(c) > 1} : main \in largest}

SuggestTargets(g, alike) ==
  LET similar == SelectSeq(g.notes, LAMBDA note : note \in alike) IN SubSeq(similar, 1, Min({SuggestionLimit, Len(similar)}))

\* Broken links weigh against the links that are not broken.
HealthScore(g, isolated, deadEnds) ==
  LET n == Len(g.notes)
      links == Max({1, Cardinality(g.edges)})
      penalty == (30 * Cardinality(g.broken) * n + (20 * Cardinality(OrphanedNotes(g)) + 15 * isolated + 10 * deadEnds) * links) \div (n * links)
  IN  IF n = 0 THEN 0 ELSE 100 - Min({100, penalty})

QuickCheck(g) == HealthScore(g, 0, 0)
Analyze(g) == {HealthScore(g, Cardinality(c), Cardinality(DeadEndNotes(g))) : c \in IsolatedClusters(g)}

\* The whole vault in one answer: the folders of its notes, a folder named "root"
\* standing for the vault itself too.
Folders(g) == [f \in {IF note.folder = "" THEN "root" ELSE note.folder : note \in Notes(g)} |->
                 Cardinality({note \in Notes(g) : f = IF note.folder = "" THEN "root" ELSE note.folder})]

-----------------------------------------------------------------------------
(* Relationships.  Strengths are in twentieths.                            *)

\* However many links there are from one note to another, they count as one.
LinkStrength(g, source, target) ==
  LET Links(a, b) == IF b \in ForwardLinks(g, a) THEN 1 ELSE 0
      shared == {n \in Notes(g) \ {source, target} : {source, target} \subseteq ForwardLinks(g, n)}
  IN  Min({20, 10 * Links(source, target) + 7 * Links(target, source) + 3 * Cardinality(shared)})

SharedBacklinks(g, a, b) == BacklinksOf(g, a) \cap BacklinksOf(g, b)

SuggestLinks(g, note, limit) ==
  LET candidates == SelectSeq(g.notes, LAMBDA c : /\ c # note /\ c \notin ForwardLinks(g, note)
                                                  /\ SharedBacklinks(g, note, c) # {})
  IN  Best(candidates, [c \in Notes(g) |-> Min({10, 3 * Cardinality(SharedBacklinks(g, note, c))})], limit)

\* Out of 1000 times the number of notes.
Centrality(g, note) ==
  LET n == Len(g.notes)
      f == Cardinality(ForwardLinks(g, note))
      b == Cardinality(BacklinksOf(g, note))
  IN  33 * Min({10, f + b}) * n + 330 * Min({n, f}) + 340 * Min({n, b})

CentralityRanking(g) == Best(g.notes, [note \in Notes(g) |-> Centrality(g, note)], Len(g.notes))

-----------------------------------------------------------------------------

\* Everything related is met at its distance, as far as hops go; notes of one component reach each
\* other over links in some direction, notes of two never do; what reaches itself
\* over others is in one cycle with them.
ReachIsRight(g) ==
  LET Steps(a, b, k) == \E walk \in [0 .. k -> Notes(g)] :
                          /\ walk[0] = a /\ walk[k] = b
                          /\ \A i \in 1 .. k : walk[i] \in ForwardLinks(g, walk[i - 1]) \cup BacklinksOf(g, walk[i - 1])
      Away(a, b) == {k \in 0 .. Len(g.notes) - 1 : Steps(a, b, k)}
  IN  \A a, b \in Notes(g) : a # b =>
        LET hops == SelectInSeq(RelatedNotes(g, a, Len(g.notes)), LAMBDA s : b \in s) IN
        /\ hops = (IF Away(a, b) \cap 1 .. MaxHops = {} THEN 0 ELSE Min(Away(a, b)))
        /\ (\E c \in ConnectedComponents(g) : {a, b} \subseteq c) = (Away(a, b) # {})
        /\ (\E c \in Cycles(g) : {a, b} \subseteq c) = (b \in Reached(g, {a}) /\ a \in Reached(g, {b}))

\* Every note is an orphan, a dead end, or links somewhere, and only one of these;
\* a quick look never finds less health than a full one; a vault without faults is
\* whole, and one more broken link makes no vault healthier.
HealthIsFair(g) ==
  /\ OrphanedNotes(g) \cap DeadEndNotes(g) = {}
  /\ \A note \in Notes(g) \ (OrphanedNotes(g) \cup DeadEndNotes(g)) : ForwardLinks(g, note) # {}
  /\ \A full \in Analyze(g) : full \in 0 .. 100 /\ full <= QuickCheck(g)
  /\ Notes(g) # {} /\ g.broken = {} /\ OrphanedNotes(g) = {} => QuickCheck(g) = 100
  /\ QuickCheck([g EXCEPT !.broken = @ \cup {0}]) <= QuickCheck(g)
  /\ Cardinality(g.edges) >= 1 /\ 10 * Cardinality(g.broken) > 34 * Cardinality(g.edges) => QuickCheck(g) = 0
  /\ \A clusters \in IsolatedClusters(g) : \A c \in clusters :
       \E d \in ConnectedComponents(g) \ clusters : Cardinality(d) >= Cardinality(c)
  /\ LET hubs == HubNotes(g, 2) IN
       \A note \in Notes(g) \ Range(hubs) : \A h \in Range(hubs) : Degree(g, note) <= Degree(g, h)
  /\ \A folder \in {note.folder : note \in Notes(g)} :
       LET alike == {note \in Notes(g) : note.folder = folder}
           suggested == SuggestTargets(g, alike)
       IN  Len(suggested) < SuggestionLimit => Range(suggested) = alike
  /\ FoldSet(LAMBDA f, sum : sum + Folders(g)[f], 0, DOMAIN Folders(g)) = Len(g.notes)

\* A link makes a pair no weaker; nothing is suggested that is linked to already,
\* nor without a note that links to both; and a note with all the links of another
\* does not rank behind it.
RelationsAreFair(g) ==
  /\ \A a, b \in Notes(g) :
       /\ LinkStrength([g EXCEPT !.edges = @ \cup {[from |-> a, to |-> b, nr |-> 9]}], a, b) >= LinkStrength(g, a, b)
       /\ a # b /\ a \in ForwardLinks(g, b) /\ b \notin ForwardLinks(g, a) => LinkStrength(g, a, b) <= LinkStrength(g, b, a)
  /\ \A note \in Notes(g) : LET best == SuggestLinks(g, note, 1) IN
       /\ \A c \in Range(best) : c \notin ForwardLinks(g, note) \cup {note} /\ SharedBacklinks(g, note, c) # {}
       /\ best = <<>> => \A n \in Notes(g) : note \in ForwardLinks(g, n) => ForwardLinks(g, n) \subseteq ForwardLinks(g, note) \cup {note}
  /\ LET order == CentralityRanking(g)
         Place(note) == SelectInSeq(order, LAMBDA n : n = note)
     IN  \A a, b \in Notes(g) :
           ForwardLinks(g, b) \subseteq ForwardLinks(g, a) /\ BacklinksOf(g, b) \subseteq BacklinksOf(g, a)
             /\ Centrality(g, a) # Centrality(g, b) => Place(a) < Place(b)
=============================================================================

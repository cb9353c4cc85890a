------------------------------- MODULE Retrieval -------------------------------
(***************************************************************************)
(* How found notes are put in order (turbovault-tools): two channels fused *)
(* by rank and scored again by a model that may fail (embedding_engine.rs),*)
(* a passage read with what stands around it, hits that pass a filter      *)
(* (search_engine.rs), and pairs that say the same (duplicate_tools.rs).   *)
(***************************************************************************)
EXTENDS Integers, FiniteSets, Sequences, SequencesExt, FiniteSetsExt

CONSTANTS
  RankOffset,  \* what is added to a rank before it is turned over
  PoolFloor    \* the model scores that many candidates, or the limit

Failed == [failed |-> TRUE, hits |-> <<>>]
Hits(seq) == [failed |-> FALSE, hits |-> seq]
MinOf(a, b) == IF a <= b THEN a ELSE b
MaxOf(a, b) == IF a >= b THEN a ELSE b

-----------------------------------------------------------------------------
(* Fusion.  A channel's hits are paths, best first; the first channel may  *)
(* have several passages of a path.                                        *)

Rank(channel, path) == SelectInSeq(channel.hits, LAMBDA h : h = path)

\* Mutant: what the first channel has found gets nothing from the second.
Score_FirstChannel(dense, sparse, path) ==
  IF Rank(dense, path) > 0 THEN <<1, RankOffset + Rank(dense, path)>> ELSE <<1, RankOffset + Rank(sparse, path)>>

\* The sum of 1 / (offset + rank), as a fraction.
Score(dense, sparse, path) ==
  LET d == Rank(dense, path)
      s == Rank(sparse, path)
  IN  CASE d > 0 /\ s > 0 -> <<2 * RankOffset + d + s, (RankOffset + d) * (RankOffset + s)>>
        [] d > 0 /\ s = 0 -> <<1, RankOffset + d>>
        [] OTHER -> <<1, RankOffset + s>>
Less(x, y) == x[1] * y[2] < y[1] * x[2]

\* What scores alike may come in any order.
Fused(dense, sparse) ==
  LET paths == Range(dense.hits) \cup Range(sparse.hits)
  IN  {order \in SetToAllKPermutations(paths) :
         /\ Len(order) = Cardinality(paths)
         /\ \A i, j \in DOMAIN order : i < j => ~Less(Score(dense, sparse, order[i]), Score(dense, sparse, order[j]))}

\* The model scores the candidates in batches, each answer being [index, score]
\* pairs; an answer that leaves one out is an error.
RECURSIVE Scores(_, _, _)
Scores(answers, size, have) ==
  IF answers = <<>> THEN have
  ELSE LET known == {a \in Head(answers) : a.index < size[1]}
           offset == Cardinality(DOMAIN have)
           now == [i \in DOMAIN have \cup {offset + a.index : a \in known} |->
                     IF i \in DOMAIN have THEN have[i] ELSE (CHOOSE a \in known : offset + a.index = i).score]
       IN  IF Cardinality(DOMAIN now) < offset + size[1] THEN [i \in {-1} |-> 0] ELSE Scores(Tail(answers), Tail(size), now)

\* The candidates in the order of their scores, then the others.
Rerank(order, scores, pool, limit) ==
  LET ranked == {p \in [1 .. pool -> 0 .. pool - 1] :
                   /\ \A i, j \in 1 .. pool : i < j => p[i] # p[j] /\ scores[p[i]] >= scores[p[j]]}
  IN  {SubSeq([i \in 1 .. pool |-> order[p[i] + 1]] \o SubSeq(order, pool + 1, Len(order)), 1, MinOf(limit, Len(order))) : p \in ranked}

PoolSize(order, limit) == MinOf(MaxOf(limit, PoolFloor), Len(order))

\* Everything the search may answer; "answers" is the model's, or that there is none.
HybridSearch(dense, sparse, answers, sizes, limit) ==
  IF dense.hits = <<>> /\ sparse.hits = <<>> /\ (dense.failed \/ sparse.failed) THEN {[error |-> TRUE]}
  ELSE {[error |-> FALSE, results |-> r, denseDown |-> dense.failed, sparseDown |-> sparse.failed] :
          r \in UNION {LET scores == Scores(answers, sizes, <<>>) IN
                       IF order = <<>> \/ answers = <<>> \/ -1 \in DOMAIN scores
                       THEN {SubSeq(order, 1, MinOf(limit, Len(order)))}
                       ELSE Rerank(order, scores, PoolSize(order, limit), limit) : order \in Fused(dense, sparse)}}

-----------------------------------------------------------------------------
(* A passage: chunks of one path in their order, as [root, size].          *)

\* The anchor spends the budget first, then its neighbours under the same heading,
\* the nearer before the farther and the one before the one behind.
ExpandPassage(chunks, anchor, fresh, neighbors, budget) ==
  LET steps == FlattenSeq([k \in 1 .. MinOf(neighbors, 3) |-> <<anchor - k, anchor + k>>])
      near == SelectSeq(steps, LAMBDA p : p \in DOMAIN chunks /\ chunks[p].root = chunks[anchor].root)
      Take(t, p) == IF t.left = 0 THEN t
                    ELSE [left |-> t.left - MinOf(t.left, chunks[p].size),
                          taken |-> Append(t.taken, [at |-> p, size |-> MinOf(t.left, chunks[p].size)])]
      taken == FoldLeft(Take, [left |-> budget, taken |-> <<>>], <<anchor>> \o near).taken
  IN  IF anchor \notin DOMAIN chunks \/ ~fresh THEN <<>> ELSE SortSeq(taken, LAMBDA a, b : a.at < b.at)

-----------------------------------------------------------------------------
(* Full-text hits, best first, as [path, tags, readable].                  *)

\* Twice as many are asked for as are wanted.
BuildResults(hits, tags, excluded, limit) ==
  LET asked == SubSeq(hits, 1, MinOf(2 * limit, Len(hits)))
      passing == SelectSeq(asked, LAMBDA h : /\ tags = {} \/ h.tags \cap tags # {}
                                             /\ h.path \notin excluded
                                             /\ h.readable)
  IN  SubSeq(passing, 1, MinOf(limit, Len(passing)))

-----------------------------------------------------------------------------
(* Notes that say the same.  Fingerprints differ in "apart" bits of        *)
(* "bits"; scores are per cent.                                            *)

\* The precise score, or what the fingerprints say where no term is shared.
PreciseScore(score, apart, bits, pair) == IF score[pair] > 0 THEN score[pair] ELSE 100 - (100 * apart[pair]) \div bits

\* All pairs within the distance the threshold means, nearest first; a pair is
\* passed over when both its notes are in pairs already.  The most alike come first.
FindDuplicates(pairs, score, apart, bits, threshold, limit) ==
  LET furthest == ((100 - threshold) * bits + 99) \div 100
      candidates == {p \in pairs : apart[p] <= furthest}
      Group(groups, p) ==
        IF Len(groups) >= limit \/ p \subseteq UNION {g.notes : g \in Range(groups)} THEN groups
        ELSE LET s == PreciseScore(score, apart, bits, p) IN
             IF s >= threshold THEN Append(groups, [notes |-> p, similarity |-> s]) ELSE groups
  IN  {SortSeq(FoldLeft(Group, <<>>, order), LAMBDA a, b : a.similarity > b.similarity) :
         order \in {o \in SetToAllKPermutations(candidates) :
                      /\ Len(o) = Cardinality(candidates)
                      /\ \A i, j \in DOMAIN o : i < j => apart[o[i]] <= apart[o[j]]}}

-----------------------------------------------------------------------------

\* No channel takes the other down, and no failure passes for an empty vault; a
\* note stands before every note that no channel ranks above it, unless the model
\* says otherwise; and the model loses nothing, whatever it answers.
FusionIsFair(dense, sparse, answers, limit, outcome) ==
  LET paths == Range(dense.hits) \cup Range(sparse.hits)
      Ahead(a, b, c) == Rank(c, a) > 0 /\ (Rank(c, b) = 0 \/ Rank(c, a) < Rank(c, b))
      Beats(a, b) == a # b /\ \A c \in {dense, sparse} : Ahead(a, b, c) \/ Rank(c, b) = 0
  IN  /\ outcome.error = (paths = {} /\ (dense.failed \/ sparse.failed))
      /\ ~outcome.error =>
           /\ Len(outcome.results) = MinOf(limit, Cardinality(paths))
           /\ Cardinality(Range(outcome.results)) = Len(outcome.results)
           /\ Range(outcome.results) \subseteq paths
           /\ outcome.denseDown = dense.failed /\ outcome.sparseDown = sparse.failed
           /\ answers = <<>> => \A a, b \in paths : Beats(a, b) /\ b \in Range(outcome.results) =>
                \E i, j \in DOMAIN outcome.results : i < j /\ outcome.results[i] = a /\ outcome.results[j] = b

\* The passage has its anchor, as much of it as the budget allows, in the order of
\* the note, from one section, and a neighbour is cut only when the budget is out.
PassageIsAround(chunks, anchor, neighbors, budget, passage) ==
  passage # <<>> =>
    LET Total == FoldLeft(LAMBDA n, t : n + t.size, 0, passage)
        own == SelectInSeq(passage, LAMBDA t : t.at = anchor)
    IN  /\ own > 0 /\ passage[own].size = MinOf(budget, chunks[anchor].size)
        /\ Total <= budget
        /\ \A i, j \in DOMAIN passage : i < j => passage[i].at < passage[j].at
        /\ \A t \in Range(passage) : chunks[t.at].root = chunks[anchor].root /\ t.at \in anchor - neighbors .. anchor + neighbors
        /\ (\E t \in Range(passage) : t.size < chunks[t.at].size) => Total = budget

\* Filtered hits keep their order; nothing passes that should not, and while no
\* more notes match than are asked for, nothing that should is missed.
FilterIsExact(hits, tags, excluded, limit, results) ==
  LET good == SelectSeq(hits, LAMBDA h : h.readable /\ h.path \notin excluded /\ (tags = {} \/ h.tags \cap tags # {}))
  IN  /\ Range(results) \subseteq Range(good) /\ Len(results) <= limit
      /\ Len(hits) <= 2 * limit => results = SubSeq(good, 1, MinOf(limit, Len(good)))

\* Every note that has a near enough twin is in a pair, unless there are more
\* pairs than were asked for; every pair is near enough, the most alike first.
DuplicatesAreFound(pairs, score, apart, bits, threshold, limit, groups) ==
  LET twins == {p \in pairs : /\ 100 * apart[p] <= (100 - threshold) * bits
                              /\ PreciseScore(score, apart, bits, p) >= threshold}
  IN  /\ \A g \in Range(groups) : g.similarity >= threshold /\ g.notes \in pairs
      /\ \A i, j \in DOMAIN groups : i < j => groups[i].similarity >= groups[j].similarity
      /\ Len(groups) < limit => UNION twins \subseteq UNION {g.notes : g \in Range(groups)}
=============================================================================

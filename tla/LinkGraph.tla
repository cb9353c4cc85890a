------------------------------ MODULE LinkGraph ------------------------------
(***************************************************************************)
(* The link graph of turbovault-graph: a directed graph whose nodes are    *)
(* slots of an array, and the maps from names to slots that links are      *)
(* resolved with.  Removing a node moves the last one into its slot, and   *)
(* every map has to follow.                                                *)
(*                                                                         *)
(* A path is the sequence of its parts, below the vault's root, without    *)
(* extension and in lower case; so is the target of a link.                *)
(***************************************************************************)
EXTENDS Naturals, Sequences, FiniteSets
Seqs == INSTANCE SequencesExt

\* The slots recorded under a key of an index.
At(index, key) == IF key \in DOMAIN index THEN index[key] ELSE <<>>

Record(index, keys, slot) ==
  [key \in DOMAIN index \cup keys |->
     IF key \in keys THEN Append(At(index, key), slot) ELSE index[key]]

\* Empty entries go.
Erase(index, slot) ==
  LET rest == [key \in DOMAIN index |-> SelectSeq(index[key], LAMBDA s : s # slot)]
  IN  [key \in {k \in DOMAIN index : rest[k] # <<>>} |-> rest[key]]

Redirect(index, old, new) ==
  [key \in DOMAIN index |-> [i \in DOMAIN index[key] |-> IF index[key][i] = old THEN new ELSE index[key][i]]]

NoIndex == [key \in {} |-> <<>>]

EmptyGraph == [nodes |-> <<>>, edges |-> {}, at |-> NoIndex,
               stems |-> NoIndex, aliases |-> NoIndex, suffixes |-> NoIndex,
               unresolved |-> NoIndex]

Stem(path) == Seqs!Last(path)
SuffixesOf(path) == {SubSeq(path, i, Len(path)) : i \in DOMAIN path}

-----------------------------------------------------------------------------
(* Resolution: a single name by stem, then an alias, then a path's end; of *)
(* several paths the one with the fewest parts, the first of them.         *)

Nowhere == 0

Shortest(g, slots) ==
  LET best == Seqs!Min({Len(g.nodes[slots[i]]) : i \in DOMAIN slots})
  IN  SelectSeq(slots, LAMBDA s : Len(g.nodes[s]) = best)[1]

Resolve(g, target) ==
  LET byStem   == IF Len(target) = 1 THEN At(g.stems, target[1]) ELSE <<>>
      byAlias  == At(g.aliases, target)
      bySuffix == At(g.suffixes, target)
  IN  IF byStem # <<>> THEN byStem[1]
      ELSE IF byAlias # <<>> THEN byAlias[1]
      ELSE IF bySuffix # <<>> THEN Shortest(g, bySuffix)
      ELSE Nowhere

-----------------------------------------------------------------------------
(* Updates.                                                                *)

\* A link that resolves becomes an edge, except to the note itself.
Edges(g, source, targets) ==
  {[from |-> source, to |-> Resolve(g, t), link |-> t] :
     t \in {t \in targets : Resolve(g, t) \notin {Nowhere, source}}}

Broken(g, targets) == {t \in targets : Resolve(g, t) = Nowhere}

HasNode(g, path) == path \in DOMAIN g.at
SlotOf(g, path) == g.at[path]

\* A new node goes to the end, and is found by its stem and its path's ends.
AddNode(g, path) ==
  IF HasNode(g, path) THEN g
  ELSE LET slot == Len(g.nodes) + 1 IN
       [g EXCEPT !.nodes = Append(@, path),
                 !.at = [p \in DOMAIN @ \cup {path} |-> IF p = path THEN slot ELSE @[p]],
                 !.stems = Record(@, {Stem(path)}, slot),
                 !.suffixes = Record(@, SuffixesOf(path), slot)]

\* An alias is recorded once for each node; one that has left the frontmatter
\* stays recorded.
AddAliases(g, slot, names) ==
  [g EXCEPT !.aliases = Record(@, {n \in names : slot \notin Seqs!Range(At(g.aliases, n))}, slot)]

\* Links that were broken may resolve now.
Reconcile(g) ==
  LET known == {p \in DOMAIN g.unresolved : HasNode(g, p)}
      left  == [p \in DOMAIN g.unresolved |->
                  IF p \in known THEN Broken(g, g.unresolved[p]) ELSE g.unresolved[p]]
  IN  [g EXCEPT !.edges = @ \cup UNION {Edges(g, SlotOf(g, p), g.unresolved[p]) : p \in known},
                !.unresolved = [p \in {p \in DOMAIN left : left[p] # {}} |-> left[p]]]

AddFile(g, path, names) ==
  LET h == AddNode(g, path) IN Reconcile(AddAliases(h, SlotOf(h, path), names))

\* The links of one note replace those it had.
UpdateLinks(g, path, targets) ==
  LET h == AddNode(g, path)
      slot == SlotOf(h, path)
      others == [p \in DOMAIN h.unresolved \ {path} |-> h.unresolved[p]]
      broken == Broken(h, targets)
  IN  [h EXCEPT !.edges = {e \in @ : e.from # slot} \cup Edges(h, slot, targets),
                !.unresolved = IF broken = {} THEN others
                               ELSE [p \in DOMAIN others \cup {path} |->
                                       IF p = path THEN broken ELSE others[p]]]

\* petgraph's remove_node: the node's edges go, and the last node takes its slot.
SwapRemove(g, slot) ==
  LET last == Len(g.nodes)
      Moved(s) == IF s = last THEN slot ELSE s
  IN  [g EXCEPT !.nodes = SubSeq([@ EXCEPT ![slot] = g.nodes[last]], 1, last - 1),
                !.edges = {[e EXCEPT !.from = Moved(@), !.to = Moved(@)] :
                             e \in {e \in @ : slot \notin {e.from, e.to}}}]

\* The edges of the node go with it: those of the notes that link to it are not
\* kept as unresolved.
RemoveFile(g, path) ==
  IF ~HasNode(g, path) THEN g
  ELSE LET slot == SlotOf(g, path)
           last == Len(g.nodes)
           end  == g.nodes[last]
       IN  [SwapRemove(g, slot) EXCEPT
              !.at = [p \in DOMAIN @ \ {path} |-> IF p = end THEN slot ELSE @[p]],
              !.stems = Redirect(Erase(@, slot), last, slot),
              !.aliases = Redirect(Erase(@, slot), last, slot),
              !.suffixes = Redirect(Erase(@, slot), last, slot),
              !.unresolved = [p \in DOMAIN @ \ {path} |-> @[p]]]

-----------------------------------------------------------------------------
(* Queries.                                                                *)

Backlinks(g, path) ==
  IF HasNode(g, path) THEN {g.nodes[e.from] : e \in {e \in g.edges : e.to = SlotOf(g, path)}} ELSE {}

\* Every map agrees with the nodes.
IndicesAgree(g) ==
  /\ \A p \in DOMAIN g.at : g.at[p] \in DOMAIN g.nodes /\ g.nodes[g.at[p]] = p
  /\ Cardinality(DOMAIN g.at) = Len(g.nodes)
  /\ \A s \in DOMAIN g.nodes :
       /\ s \in Seqs!Range(At(g.stems, Stem(g.nodes[s])))
       /\ \A suffix \in SuffixesOf(g.nodes[s]) : s \in Seqs!Range(At(g.suffixes, suffix))
  /\ \A k \in DOMAIN g.stems : \A s \in Seqs!Range(g.stems[k]) : Stem(g.nodes[s]) = k
  /\ \A k \in DOMAIN g.suffixes : \A s \in Seqs!Range(g.suffixes[k]) : k \in SuffixesOf(g.nodes[s])
  /\ \A k \in DOMAIN g.aliases : Seqs!Range(g.aliases[k]) \subseteq DOMAIN g.nodes
  /\ \A e \in g.edges : {e.from, e.to} \subseteq DOMAIN g.nodes /\ e.from # e.to
  /\ DOMAIN g.unresolved \subseteq DOMAIN g.at

=============================================================================

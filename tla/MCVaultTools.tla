---------------------------- MODULE MCVaultTools ----------------------------
\* Four names, two of them with the same last part; one note to act upon, one
\* that links to it by its name, its path or its alias.
EXTENDS VaultTools, TLC
A == <<"a">>
B == <<"b">>
C == <<"c">>
DA == <<"d", "a">>
MCPaths == {A, B, C, DA}

To(t) == [to |-> t, stale |-> FALSE]

MCContents ==
  [text : SUBSET (0 .. MaxCalls), tags : SUBSET (0 .. MaxCalls),
   links : SUBSET [to : MCPaths \cup {<<"x">>, <<"d", "c">>}, stale : BOOLEAN], names : SUBSET {<<"x">>}]

Start(target, other) ==
  [p \in MCPaths |->
     CASE p = DA -> [text |-> {0}, tags |-> {}, links |-> {}, names |-> {<<"x">>}]
       [] p = B -> [text |-> {0}, tags |-> {}, links |-> {To(target)}, names |-> {}]
       [] p = C /\ other -> [text |-> {0}, tags |-> {}, links |-> {To(B)}, names |-> {}]
       [] OTHER -> Absent]
MCStarts == {Start(t, FALSE) : t \in {A, DA, <<"x">>}} \cup {Start(A, TRUE)}

Plain == [op |-> "none", path |-> B, to |-> B, guarded |-> FALSE, links |-> {}, how |-> "none",
        force |-> "none", on |-> "none", old |-> "a", new |-> "c"]

Ops ==
  {[Plain EXCEPT !.op = "create", !.path = p, !.links = {To(A)}] : p \in {A, C}}
  \cup {[Plain EXCEPT !.op = "write", !.guarded = g, !.links = {To(C)}] : g \in BOOLEAN}
  \cup {[Plain EXCEPT !.op = "extend", !.guarded = g, !.links = {To(DA)}] : g \in BOOLEAN}
  \cup {[Plain EXCEPT !.op = "edit", !.path = p, !.guarded = (p = B)] : p \in {B, DA}}
  \cup {[Plain EXCEPT !.op = "describe", !.path = DA, !.how = h] : h \in {"merge", "replace"}}
  \cup {[Plain EXCEPT !.op = "tag", !.how = "add"]}
  \cup {[Plain EXCEPT !.op = "delete", !.path = DA, !.force = f, !.on = s, !.guarded = (f = "no")] :
          f \in {"none", "no", "yes"}, s \in {"none", "stale"}}
  \cup {[Plain EXCEPT !.op = "move", !.path = DA, !.to = C, !.how = h, !.guarded = g] :
          h \in {"links", "bare"}, g \in BOOLEAN}
  \cup {[Plain EXCEPT !.op = "move", !.path = B, !.to = A, !.how = "links"]}

Pick(op, path) == CHOOSE o \in Ops : o.op = op /\ o.path = path
MoveAll == [Plain EXCEPT !.op = "move", !.path = DA, !.to = C, !.how = "links"]
Relink == [Plain EXCEPT !.op = "relink"]

Batches ==
  {<<Relink, [MoveAll EXCEPT !.how = "bare"]>>,
   <<MoveAll, Pick("create", A)>>,
   <<Pick("edit", B), [Plain EXCEPT !.op = "delete", !.path = DA, !.on = "stale"]>>,
   <<[Plain EXCEPT !.op = "tag", !.how = "remove"], [Plain EXCEPT !.op = "delete", !.path = DA, !.force = "yes"],
     Pick("create", C)>>}

MCCalls == {[batch |-> FALSE, ops |-> <<o>>] : o \in Ops} \cup {[batch |-> TRUE, ops |-> b] : b \in Batches}
Symm == Permutations(Clients)
=============================================================================

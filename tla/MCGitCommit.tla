----------------------------- MODULE MCGitCommit -----------------------------
(***************************************************************************)
(* Finite instances of GitCommit.                                          *)
(***************************************************************************)
EXTENDS GitCommit

CONSTANTS a, b, x, y, w1, w2, w3, p1, p2

MCPaths    == {a, b}
MCContents == {x, y}

\* One plan of each shape callers build: strict create, move without guard,
\* guarded move, blind two-file batch, and a batch that names a path twice.
CreateA == [changes |-> <<Upsert(a, x)>>, pre |-> {Expect(a, "absent")}]
MoveAB  == [changes |-> <<Rename(a, b)>>, pre |-> {}]
MoveX   == [changes |-> <<Rename(a, b)>>, pre |-> {ExpectBlob(a, x), Expect(b, "absent")}]
Batch   == [changes |-> <<Upsert(a, y), Upsert(b, x)>>, pre |-> {Expect(a, "blind")}]
Twice   == [changes |-> <<Upsert(a, x), Rename(b, a)>>, pre |-> {}]

ChainPlans == {CreateA, MoveAB, Twice}
RacePlans  == {MoveX, Batch}

TwoWriters    == {w1, w2}
ThreeWriters  == {w1, w2, w3}
Apart         == [w \in TwoWriters |-> IF w = w1 THEN p1 ELSE p2]
TwoAndOne     == [w \in ThreeWriters |-> IF w = w3 THEN p2 ELSE p1]
TwoProcs      == {p1, p2}

=============================================================================

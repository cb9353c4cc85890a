---------------------------- MODULE MCDirectVault ----------------------------
(***************************************************************************)
(* Finite instances of DirectVault.                                        *)
(***************************************************************************)
EXTENDS DirectVault, TLC

CONSTANTS a, b, x, y, z

Plan(changes, pre) == [changes |-> changes, pre |-> pre]

\* x and y differ only in their normal form; z is another content.
SameToken == [c \in Contents |-> IF c = y THEN x ELSE c]

\* Writes of one change: new, guarded, guarded delete, move onto a note.
OneChange == {Plan(<<Upsert(a, x)>>, {Expect(a, "absent")}),
              Plan(<<Upsert(a, z)>>, {ExpectBlob(a, x)}),
              Plan(<<Remove(a)>>, {ExpectBlob(a, z)}),
              Plan(<<Rename(a, b)>>, {Expect(a, "exists"), Expect(b, "blind")})}

\* A batch: a note rewritten, another moved away or deleted.
TwoChanges == {Plan(<<Upsert(a, x), Remove(b)>>, {Expect(a, "blind")}),
               Plan(<<Rename(b, a)>>, {Expect(a, "absent")}),
               Plan(<<Remove(a)>>, {ExpectBlob(a, x)})}
=============================================================================

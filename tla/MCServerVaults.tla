--------------------------- MODULE MCServerVaults ---------------------------
(* Two clients, two names for vaults, one repository and one plain          *)
(* directory, two fan-outs.  Names 3 and 4 are those of their worktrees.    *)
EXTENDS ServerVaults, TLC

CONSTANTS c1, c2, i1, i2, plain

MCFanName == (i1 :> 3) @@ (i2 :> 4)
Symm == Permutations(Clients)
=============================================================================

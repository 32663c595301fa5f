----------------------------- MODULE MCStorage -----------------------------
(***************************************************************************)
(* The storage queue on two branches from the genesis, with two archive    *)
(* databases.                                                              *)
(***************************************************************************)
EXTENDS StorageQueue, TLC

CONSTANTS g, x1, x2, y1

ForkBlocks == {g, x1, x2, y1}
ForkParent == x1 :> g @@ x2 :> x1 @@ y1 :> g
ForkDepth == g :> 0 @@ x1 :> 1 @@ x2 :> 2 @@ y1 :> 1

ASSUME StorageInstance == StorageAssumption

\* Every database is treated alike
Databases == Permutations(Dbs)
=============================================================================

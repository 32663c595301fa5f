---------------------------- MODULE MCBlockIndex ----------------------------
(***************************************************************************)
(* Small instances of BlockIndex.                                          *)
(***************************************************************************)
EXTENDS BlockIndex, TLC

CONSTANTS b0, b1, b2, b3, t1, t2, t3

\* b0 <- b1 <- b2: a block whose parent may come before, after or during it
Chain == {b0, b1, b2}

\* b0 <- b1 <- b2, b1 <- b3: a list of two successors, the second the heavier
Fork == {b0, b1, b2, b3}
ForkParent == b1 :> b0 @@ b2 :> b1 @@ b3 :> b1

ForkProof == b0 :> 1 @@ b1 :> 1 @@ b2 :> 1 @@ b3 :> 2
ForkDepth == b0 :> 0 @@ b1 :> 1 @@ b2 :> 2 @@ b3 :> 2
ForkTotal == b0 :> 1 @@ b1 :> 2 @@ b2 :> 3 @@ b3 :> 4

JustGenesis == {b0}

ThreeThreads == {t1, t2, t3}
ThreadSymmetry == Permutations(Threads)
=============================================================================

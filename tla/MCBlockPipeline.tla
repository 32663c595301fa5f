-------------------------- MODULE MCBlockPipeline --------------------------
(***************************************************************************)
(* Small instances of BlockPipeline.                                       *)
(***************************************************************************)
EXTENDS BlockPipeline

CONSTANTS g, x1, x2, x3, y1

\* A branch of three blocks and one of a single block over the genesis block
Parents == x1 :> g @@ x2 :> x1 @@ x3 :> x2 @@ y1 :> g
Height == g :> 0 @@ x1 :> 1 @@ x2 :> 2 @@ x3 :> 3 @@ y1 :> 1

Both == {g, x1, x2, x3, y1}
Straight == {g, x1, x2, x3}
Overtaken == {g, x1, x2, y1}

MCParent == [b \in Blocks \ {g} |-> Parents[b]]
MCDepth == [b \in Blocks |-> Height[b]]
MCBytes == [b \in Blocks |-> 1]

\* The branches overtake each other block by block, or the single block outweighs
\* the two it competes with, so that the heavier chain is the shorter one.
Alternating == [b \in Blocks |-> (g :> 1 @@ x1 :> 2 @@ y1 :> 3 @@ x2 :> 4 @@ x3 :> 5)[b]]
HeavyBlock == [b \in Blocks |-> (g :> 1 @@ x1 :> 2 @@ x2 :> 3 @@ y1 :> 4 @@ x3 :> 5)[b]]
=============================================================================

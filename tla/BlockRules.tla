---------------------------- MODULE BlockRules ----------------------------
(***************************************************************************)
(* What a block itself must satisfy: checkBlockStandalone, run once before *)
(* the block's place in the chain matters, and checkBlockContextual, run   *)
(* when its height is known.  The two meet in one bit, HasWitnessData: the *)
(* standalone check decides without a height whether the block carries     *)
(* witness data, the contextual one refuses it below the segwit height.    *)
(*                                                                         *)
(* A block is its coinbase (commitment outputs, witness stack, the height  *)
(* it names) and a second transaction; a witness root is the set of the    *)
(* transactions' witnesses, a commitment a root hashed with a nonce.  The  *)
(* rules of a transaction are in TxRules; they, the merkle root and merged *)
(* mining are one flag here.                                               *)
(***************************************************************************)
EXTENDS Integers, Sequences, SequencesExt

CONSTANTS
  Coins,          \* of "BTC", "LTC", "DOGE", "ZEC", "XPM"
  Heights,        \* heights a block may turn out to have
  BIP34Height, SegwitHeight,
  Witnesses,      \* witness contents of a transaction, NoWitness among them
  NoWitness,
  Nonces          \* 32-byte coinbase witness items

VARIABLES coin, block, hasWitness, verdict

vars == <<coin, block, hasWitness, verdict>>

Commitment(root, nonce) == [root |-> root, nonce |-> nonce]
NoCommitment == [root |-> <<>>, nonce |-> 0]   \* an output of the form with other bytes
Roots == [1..1 -> Witnesses]

\* The coinbase's witness: none, the nonce, or a stack of another shape
Stacks == {<<>>} \union {<<n>> : n \in Nonces} \union {<<"short">>, <<"two", "items">>}

BlockSet ==
  [commitments : UNION {[1..n -> {Commitment(r, x) : r \in Roots, x \in Nonces} \union {NoCommitment}]
                          : n \in 0..2},
   stack : Stacks, witness : Witnesses,
   coinbases : {<<TRUE, FALSE>>, <<FALSE, FALSE>>, <<TRUE, TRUE>>}, named : Heights,
   others : BOOLEAN]     \* size, merkle root, transactions, sigops, merged mining pass

AnyWitness(b) == b.stack # <<>> \/ b.witness # NoWitness
WitnessRoot(b) == <<b.witness>>
HasNonce(b) == Len(b.stack) = 1 /\ b.stack[1] # "short"

(***************************************************************************)
(* validateWitnessCommitment: the verdict and the flag it leaves.          *)
(***************************************************************************)
CommitmentFirst(b) ==
  IF b.commitments = <<>> THEN [valid |-> ~AnyWitness(b), flag |-> FALSE]
  ELSE IF ~HasNonce(b) THEN [valid |-> ~AnyWitness(b), flag |-> AnyWitness(b)]
  ELSE [valid |-> Head(b.commitments) = Commitment(WitnessRoot(b), b.stack[1]), flag |-> TRUE]

ValidateWitnessCommitment(b) ==
  IF b.commitments = <<>> THEN [valid |-> ~AnyWitness(b), flag |-> FALSE]
  ELSE IF ~HasNonce(b) THEN [valid |-> ~AnyWitness(b), flag |-> AnyWitness(b)]
  ELSE [valid |-> Last(b.commitments) = Commitment(WitnessRoot(b), b.stack[1]), flag |-> TRUE]

ValidateBlockCoinbase(b) == b.coinbases = <<TRUE, FALSE>>

ValidateBIP34(b, height) == height < BIP34Height \/ b.named = height

ValidateUnexpectedWitness(height, flag) == ~(height < SegwitHeight /\ flag)

(***************************************************************************)
(* The coins' lists.  Zcash and Primecoin blocks carry no witness: their   *)
(* formats have none, and the flag stays as initialised.                   *)
(***************************************************************************)
BtcBlockStandalone(b) ==
  LET w == ValidateWitnessCommitment(b) IN
  [valid |-> w.valid /\ ValidateBlockCoinbase(b) /\ b.others, flag |-> w.flag]
LtcBlockStandalone(b) == BtcBlockStandalone(b)
DogeBlockStandalone(b) == BtcBlockStandalone(b)
ZecBlockStandalone(b) == [valid |-> ValidateBlockCoinbase(b) /\ b.others, flag |-> FALSE]
XpmBlockStandalone(b) == [valid |-> ValidateBlockCoinbase(b) /\ b.others, flag |-> FALSE]

BtcBlockContextual(b, h, flag) == ValidateBIP34(b, h) /\ ValidateUnexpectedWitness(h, flag)
LtcBlockContextual(b, h, flag) == BtcBlockContextual(b, h, flag)
DogeBlockContextual(b, h, flag) == BtcBlockContextual(b, h, flag)
ZecBlockContextual(b, h, flag) == TRUE
XpmBlockContextual(b, h, flag) == ValidateBIP34(b, h)

SegwitCoins == {"BTC", "LTC", "DOGE"}

Standalone(c, b) ==
  CASE c = "BTC" -> BtcBlockStandalone(b)
    [] c = "LTC" -> LtcBlockStandalone(b)
    [] c = "DOGE" -> DogeBlockStandalone(b)
    [] c = "ZEC" -> ZecBlockStandalone(b)
    [] c = "XPM" -> XpmBlockStandalone(b)
Contextual(c, b, h, flag) ==
  CASE c = "BTC" -> BtcBlockContextual(b, h, flag)
    [] c = "LTC" -> LtcBlockContextual(b, h, flag)
    [] c = "DOGE" -> DogeBlockContextual(b, h, flag)
    [] c = "ZEC" -> ZecBlockContextual(b, h, flag)
    [] c = "XPM" -> XpmBlockContextual(b, h, flag)

(***************************************************************************)
(* A block is parsed (validationDataInitialize clears the flag), checked   *)
(* alone, and then against each place it is tried at: a block whose branch *)
(* is switched away from is checked for its height again.                  *)
(***************************************************************************)
Init ==
  /\ coin \in Coins
  /\ block \in {b \in BlockSet : coin \notin SegwitCoins => ~AnyWitness(b)}
  /\ hasWitness = FALSE
  /\ verdict = [stage |-> "parsed", height |-> 0]

CheckBlockStandalone ==
  /\ verdict.stage = "parsed"
  /\ hasWitness' = Standalone(coin, block).flag
  /\ verdict' = [verdict EXCEPT !.stage = IF Standalone(coin, block).valid THEN "sound" ELSE "invalid"]
  /\ UNCHANGED <<coin, block>>

CheckBlockContextual(h) ==
  /\ verdict.stage \in {"sound", "placed", "misplaced"}
  /\ verdict' = [stage |-> IF Contextual(coin, block, h, hasWitness) THEN "placed" ELSE "misplaced",
                 height |-> h]
  /\ UNCHANGED <<coin, block, hasWitness>>

Next == CheckBlockStandalone \/ \E h \in Heights : CheckBlockContextual(h)

Spec == Init /\ [][Next]_vars

(***************************************************************************)
(* Properties.                                                             *)
(***************************************************************************)

\* A block is placed only at a height it names where heights are named, with
\* its single coinbase in front.
TypeOK ==
  /\ coin \in Coins /\ hasWitness \in BOOLEAN
  /\ verdict \in [stage : {"parsed", "sound", "invalid", "placed", "misplaced"}, height : Heights]
  /\ verdict.stage = "placed" => ValidateBlockCoinbase(block)
  /\ verdict.stage = "placed" /\ coin # "ZEC" /\ verdict.height >= BIP34Height
       => block.named = verdict.height

\* A block accepted at any height that carries a witness anywhere commits to
\* all of them: its last commitment output is the root under the nonce of the
\* coinbase, an earlier one counts for nothing (validateWitnessCommitment).
WitnessCommitted ==
  verdict.stage = "placed" /\ AnyWitness(block) =>
    /\ block.commitments # <<>> /\ HasNonce(block)
    /\ Last(block.commitments) = Commitment(WitnessRoot(block), block.stack[1])

\* The "height-free equivalent" of Core's rule: a block below the segwit height
\* carries no witness, though the check that looked at the witness did not know
\* the height; and a block without any is never refused for a commitment-shaped
\* output, at any height.
WitnessByHeight ==
  /\ verdict.stage = "placed" /\ verdict.height < SegwitHeight => ~AnyWitness(block)
  /\ coin \in SegwitCoins /\ ~AnyWitness(block) /\ ValidateBlockCoinbase(block) /\ block.others =>
       verdict.stage # "invalid"
=============================================================================

------------------------------ MODULE TxRules ------------------------------
(***************************************************************************)
(* The rules a transaction passes to enter the mempool, coin by coin:      *)
(* BTC/validation.h and BTC/policy.h, listed per coin by                   *)
(* checkTransactionStandalone, checkPolicyStandalone,                      *)
(* checkTransactionContextual and checkPolicyContextual, in the order of   *)
(* CMempool::decide.  A list is a conjunction: the code collects every     *)
(* verdict with &= and drops none.                                         *)
(*                                                                         *)
(* The chain of header times grows while one transaction waits; Submit is  *)
(* the decision on it.  Amounts are signed integers of AmountBits bits     *)
(* that wrap, the sequence number keeps its three fields in four bits, the *)
(* median time past spans MedianSpan headers (11 in the code), a time lock *)
(* counts in units of Granularity seconds (512) and a fee rate per Kb      *)
(* bytes (1000).  Scripts are in Scripts; here an output has a kind.       *)
(***************************************************************************)
EXTENDS Integers, Sequences, FiniteSetsExt, SequencesExt

CONSTANTS
  Coins,        \* the coins checked, of "BTC", "LTC", "DOGE", "ZEC", "XPM"
  Txs,          \* the transactions tried
  Times,        \* the header times
  MaxHeight,    \* the height the chain grows to
  MaxMoney      \* the amount limit

VARIABLES
  coin,         \* the coin the node is built for
  tx,           \* the transaction
  times,        \* header times of the base chain, genesis first
  accepted,     \* the mempool took it
  fee           \* the fee it computed then

vars == <<coin, tx, times, accepted, fee>>

AmountBits == 4
MedianSpan == 3
Granularity == 2
LocktimeThreshold == 10
FinalSequence == 15
Kb == 4
SegwitHeight == 2
CoinbaseMaturity == 2
PegoutMaturity == 1
WitnessScaleFactor == 4
BytesPerSigOp == 4
RelayRate == [BTC |-> 1, LTC |-> 2, DOGE |-> 2, ZEC |-> 2, XPM |-> 2]
DustRate == 2
InputSize == 3
WitnessInputSize == 1
MinTxOutAmount == 1          \* Primecoin's

Wrap(x) == LET w == 2^AmountBits IN ((x + w \div 2) % w) - w \div 2
WrapSum(s) == FoldLeft(LAMBDA acc, x : Wrap(acc + x), 0, s)

(***************************************************************************)
(* The base and the block the transaction would enter.  An input whose     *)
(* parent is in the mempool counts as created in that block (Unmined).     *)
(***************************************************************************)
Unmined == -1
BaseHeight == Len(times) - 1
SpendHeight == BaseHeight + 1

MedianTimePast(height) ==
  LET first == IF height + 1 > MedianSpan THEN height + 2 - MedianSpan ELSE 1
      last == [i \in 1..(height + 2 - first) |-> times[first + i - 1]]
  IN  SortSeq(last, <)[(Len(last) \div 2) + 1]

\* The base ends at BaseHeight: the median asked for above it is the base's
MedianTimePastAt(height) == MedianTimePast(IF height > BaseHeight THEN BaseHeight ELSE height)

Prevout(in) == [in.coin EXCEPT !.height = IF @ = Unmined THEN SpendHeight ELSE @]
Prevouts == [i \in DOMAIN tx.ins |-> Prevout(tx.ins[i])]
Values(s) == [i \in DOMAIN s |-> s[i].value]

(***************************************************************************)
(* validation.h: the transaction alone.  A null prevout has id 0.          *)
(***************************************************************************)
IsCoinbase == Len(tx.ins) = 1 /\ tx.ins[1].coin.id = 0

TxNotEmpty == tx.ins # <<>> /\ tx.outs # <<>>
TxNotEmptyMweb == (tx.extra /\ tx.ins = <<>> /\ tx.outs = <<>>) \/ TxNotEmpty
TxNotEmptyShielded == (tx.ins # <<>> \/ tx.extra) /\ (tx.outs # <<>> \/ tx.extra)

TxSize(limit) == tx.base <= limit

TxOutputValues ==
  \A i \in DOMAIN tx.outs : /\ tx.outs[i].value \in 0..MaxMoney
                            /\ WrapSum(Values(SubSeq(tx.outs, 1, i))) <= MaxMoney

TxOutputMinimum == \A i \in DOMAIN tx.outs : tx.outs[i].value >= MinTxOutAmount

TxPrevoutNull ==
  IF IsCoinbase THEN tx.ins[1].sig \in 2..4
  ELSE \A i \in DOMAIN tx.ins : tx.ins[i].coin.id # 0

TxDuplicateInputs == IsInjective([i \in DOMAIN tx.ins |-> tx.ins[i].coin.id])

(***************************************************************************)
(* validation.h: with the spent outputs.                                   *)
(***************************************************************************)
TxInputValues ==
  /\ \A i \in DOMAIN tx.ins : /\ Prevouts[i].value \in 0..MaxMoney
                              /\ WrapSum(Values(SubSeq(Prevouts, 1, i))) <= MaxMoney
  /\ WrapSum(Values(Prevouts)) >= WrapSum(Values(tx.outs))

Fee == Wrap(WrapSum(Values(Prevouts)) - WrapSum(Values(tx.outs)))

\* Dogecoin's depends on the height that created the coin
Maturity(c, height) == IF c = "DOGE" /\ height < 1 THEN CoinbaseMaturity - 1 ELSE CoinbaseMaturity

TxCoinbaseMaturity(c) ==
  \A i \in DOMAIN tx.ins :
    Prevouts[i].coinbase => SpendHeight - Prevouts[i].height >= Maturity(c, Prevouts[i].height)

TxPegoutMaturity ==
  \A i \in DOMAIN tx.ins :
    Prevouts[i].pegout => SpendHeight - Prevouts[i].height >= PegoutMaturity

TxUnexpectedWitness ==
  ~(SpendHeight < SegwitHeight /\ \E i \in DOMAIN tx.ins : tx.ins[i].wit)

TxFinal(time) ==
  \/ tx.lockTime = 0
  \/ tx.lockTime < (IF tx.lockTime < LocktimeThreshold THEN SpendHeight ELSE time)
  \/ \A i \in DOMAIN tx.ins : tx.ins[i].seq = FinalSequence

\* The three fields of a sequence number
DisableFlag(seq) == seq \div 8 = 1
TypeFlag(seq) == (seq \div 4) % 2 = 1
LockValue(seq) == seq % 4

TxSequenceLocks ==
  LET locked == {i \in DOMAIN tx.ins : ~DisableFlag(tx.ins[i].seq)}
      timed == {i \in locked : TypeFlag(tx.ins[i].seq)}
      minHeight == Max({-1} \union {Prevouts[i].height + LockValue(tx.ins[i].seq) - 1
                                      : i \in locked \ timed})
      minTime == Max({-1} \union
                     {MedianTimePastAt(Max({Prevouts[i].height - 1, 0}))
                        + LockValue(tx.ins[i].seq) * Granularity - 1 : i \in timed})
  IN  \/ tx.version \in 0..1           \* as unsigned: a negative version is large
      \/ minHeight < SpendHeight /\ minTime < MedianTimePast(BaseHeight)

(***************************************************************************)
(* policy.h, scripts aside.                                                *)
(***************************************************************************)
FeeForSize(rate, size, roundUp) ==
  LET product == rate * size
      q == product \div Kb + (IF roundUp /\ product % Kb > 0 THEN 1 ELSE 0)
  IN  IF q = 0 /\ size > 0 /\ rate > 0 THEN 1 ELSE q

Weight == tx.base * (WitnessScaleFactor - 1) + tx.total
VSize ==
  (Max({Weight, tx.sigOps * BytesPerSigOp}) + WitnessScaleFactor - 1) \div WitnessScaleFactor

StandardVersion(max) == tx.version \in 1..max
StandardWeight == Weight <= 40
StandardScriptSigs == \A i \in DOMAIN tx.ins : tx.ins[i].sig <= 4
StandardOutputs(witness) ==
  \A i \in DOMAIN tx.outs : /\ tx.outs[i].kind # "nonstandard"
                            /\ tx.outs[i].kind = "witness" => witness
DataOutputs == {i \in DOMAIN tx.outs : tx.outs[i].kind = "data"}
SingleDataOutput == Cardinality(DataOutputs) <= 1
DataCarrier(budget) == Cardinality(DataOutputs) <= budget
IsDust(out, roundUp) ==
  /\ out.kind # "data"
  /\ out.value < FeeForSize(DustRate, 1 + (IF out.kind = "witness" THEN WitnessInputSize
                                           ELSE InputSize), roundUp)
NoDust(roundUp) == \A i \in DOMAIN tx.outs : ~IsDust(tx.outs[i], roundUp)
NonWitnessSize == tx.base >= 1
MwebPegins == \A i \in DOMAIN tx.outs : tx.outs[i].kind # "pegin"
\* validateStandardInputs, validateStandardWitness, validateLegacySigOps: see Scripts
StandardSpends == tx.standard
StandardSigOps == tx.sigOps <= 8
MinRelayFee(c, f, roundUp) == f >= FeeForSize(RelayRate[c], VSize, roundUp)

(***************************************************************************)
(* The lists of each coin.  now is the mempool's BlockTime.                *)
(***************************************************************************)
BtcStandalone ==
  TxNotEmpty /\ TxSize(8) /\ TxOutputValues /\ TxPrevoutNull /\ TxDuplicateInputs
BtcContextual(now) ==
  /\ TxInputValues /\ TxCoinbaseMaturity("BTC") /\ TxUnexpectedWitness
  /\ TxFinal(MedianTimePast(BaseHeight)) /\ TxSequenceLocks
BtcPolicyStandalone ==
  /\ StandardVersion(3) /\ StandardWeight /\ StandardScriptSigs /\ StandardOutputs(TRUE)
  /\ DataCarrier(2) /\ NoDust(TRUE) /\ NonWitnessSize
BtcPolicyContextual(f) == StandardSpends /\ StandardSigOps /\ MinRelayFee("BTC", f, TRUE)

LtcStandalone ==
  TxNotEmptyMweb /\ TxSize(8) /\ TxOutputValues /\ TxPrevoutNull /\ TxDuplicateInputs
LtcContextual(now) ==
  /\ TxInputValues /\ TxCoinbaseMaturity("LTC") /\ TxPegoutMaturity /\ TxUnexpectedWitness
  /\ TxFinal(MedianTimePast(BaseHeight)) /\ TxSequenceLocks
LtcPolicyStandalone ==
  /\ StandardVersion(2) /\ StandardWeight /\ StandardScriptSigs /\ StandardOutputs(TRUE)
  /\ SingleDataOutput /\ NoDust(FALSE) /\ NonWitnessSize /\ MwebPegins
LtcPolicyContextual(f) == StandardSpends /\ StandardSigOps /\ MinRelayFee("LTC", f, FALSE)

DogeStandalone == BtcStandalone
DogeContextual(now) ==
  TxInputValues /\ TxCoinbaseMaturity("DOGE") /\ TxUnexpectedWitness /\ TxFinal(now)
DogePolicyStandalone ==
  /\ StandardVersion(2) /\ StandardWeight /\ StandardScriptSigs /\ StandardOutputs(FALSE)
  /\ SingleDataOutput /\ NoDust(FALSE)
DogePolicyConsensusOnly(f) == StandardSpends /\ StandardSigOps /\ MinRelayFee("DOGE", f, FALSE)
DogePolicyContextual(f) ==
  /\ TxFinal(MedianTimePast(BaseHeight)) /\ TxSequenceLocks
  /\ StandardSpends /\ StandardSigOps /\ MinRelayFee("DOGE", f, FALSE)

ZecStandalone ==
  TxNotEmptyShielded /\ TxSize(8) /\ TxOutputValues /\ TxPrevoutNull /\ TxDuplicateInputs
ZecContextual(now) == TxInputValues /\ TxCoinbaseMaturity("ZEC") /\ TxFinal(now)
ZecPolicyStandalone ==
  StandardScriptSigs /\ StandardOutputs(FALSE) /\ SingleDataOutput /\ NoDust(FALSE)
ZecPolicyContextual(f) ==
  /\ TxFinal(MedianTimePast(BaseHeight))
  /\ StandardSpends /\ StandardSigOps /\ MinRelayFee("ZEC", f, FALSE)

XpmStandalone ==
  /\ TxNotEmpty /\ TxSize(8) /\ TxOutputValues /\ TxOutputMinimum
  /\ TxPrevoutNull /\ TxDuplicateInputs
XpmContextual(now) == TxInputValues /\ TxCoinbaseMaturity("XPM") /\ TxFinal(now)
XpmPolicyStandalone ==
  /\ StandardVersion(1) /\ StandardWeight /\ StandardScriptSigs /\ StandardOutputs(FALSE)
  /\ SingleDataOutput /\ NoDust(FALSE) /\ NonWitnessSize
XpmPolicyContextual(f) ==
  /\ TxFinal(MedianTimePast(BaseHeight)) /\ TxSequenceLocks
  /\ StandardSpends /\ StandardSigOps /\ MinRelayFee("XPM", f, FALSE)

Standalone(c) ==
  CASE c = "BTC" -> BtcStandalone /\ BtcPolicyStandalone
    [] c = "LTC" -> LtcStandalone /\ LtcPolicyStandalone
    [] c = "DOGE" -> DogeStandalone /\ DogePolicyStandalone
    [] c = "ZEC" -> ZecStandalone /\ ZecPolicyStandalone
    [] c = "XPM" -> XpmStandalone /\ XpmPolicyStandalone
Contextual(c, now) ==
  CASE c = "BTC" -> BtcContextual(now) /\ BtcPolicyContextual(Fee)
    [] c = "LTC" -> LtcContextual(now) /\ LtcPolicyContextual(Fee)
    [] c = "DOGE" -> DogeContextual(now) /\ DogePolicyContextual(Fee)
    [] c = "ZEC" -> ZecContextual(now) /\ ZecPolicyContextual(Fee)
    [] c = "XPM" -> XpmContextual(now) /\ XpmPolicyContextual(Fee)

(***************************************************************************)
(* CMempool::decide, past the lookup of the inputs: all were found.        *)
(***************************************************************************)
Decide(c, now) == ~IsCoinbase /\ ~tx.extra /\ Standalone(c) /\ Contextual(c, now)

Init ==
  /\ coin \in Coins /\ tx \in Txs
  /\ times \in [1..2 -> {Min(Times)}]
  /\ accepted = FALSE /\ fee = 0

Submit(now) ==
  /\ ~accepted
  /\ Decide(coin, now)
  /\ accepted' = TRUE /\ fee' = Fee
  /\ UNCHANGED <<coin, tx, times>>

\* A block of the network: its time exceeds the median time past of its parent
NextBlock(t) ==
  /\ BaseHeight < MaxHeight
  /\ t > MedianTimePast(BaseHeight)
  /\ times' = Append(times, t)
  /\ UNCHANGED <<coin, tx, accepted, fee>>

Next == \E t \in Times : Submit(t) \/ NextBlock(t)

Spec == Init /\ [][Next]_vars

(***************************************************************************)
(* What the network's consensus asks of a transaction in the next block,   *)
(* per input and in exact arithmetic.                                      *)
(***************************************************************************)
MayFinal(time) ==
  \/ tx.lockTime = 0
  \/ tx.lockTime < LocktimeThreshold /\ tx.lockTime <= BaseHeight
  \/ tx.lockTime >= LocktimeThreshold /\ tx.lockTime < time
  \/ \A i \in DOMAIN tx.ins : tx.ins[i].seq = FinalSequence

MaySpendYet(i) ==
  LET seq == tx.ins[i].seq h == Prevouts[i].height IN
  \/ tx.version \in 0..1 \/ DisableFlag(seq)
  \/ ~TypeFlag(seq) /\ SpendHeight - h >= LockValue(seq)
  \/ /\ TypeFlag(seq)
     /\ MedianTimePast(BaseHeight) - MedianTimePastAt(IF h = 0 THEN 0 ELSE h - 1)
          >= LockValue(seq) * Granularity

ExactSum(s) == FoldLeft(LAMBDA acc, x : acc + x, 0, Values(s))
CsvCoins == {"BTC", "LTC"}

MayEnter(c, time) ==
  /\ MayFinal(IF c \in CsvCoins THEN MedianTimePast(BaseHeight) ELSE time)
  /\ c \in CsvCoins => \A i \in DOMAIN tx.ins : MaySpendYet(i)
  /\ \A i \in DOMAIN tx.ins :
       /\ Prevouts[i].coinbase => SpendHeight >= Prevouts[i].height + Maturity(c, Prevouts[i].height)
       /\ c = "LTC" /\ Prevouts[i].pegout => SpendHeight >= Prevouts[i].height + PegoutMaturity
  /\ ExactSum(tx.outs) \in 0..MaxMoney /\ ExactSum(Prevouts) \in 0..MaxMoney
  /\ ExactSum(tx.outs) <= ExactSum(Prevouts)

(***************************************************************************)
(* Properties.                                                             *)
(***************************************************************************)

\* The chain stays below its bound with times that never put the median time
\* past backwards, and a refused transaction has no fee.
TypeOK ==
  /\ coin \in Coins /\ tx \in Txs /\ times \in Seq(Times) /\ BaseHeight <= MaxHeight
  /\ \A h \in 1..BaseHeight : MedianTimePast(h) >= MedianTimePast(h - 1)
  /\ accepted \in BOOLEAN /\ (accepted \/ fee = 0)

\* A transaction the mempool took may be mined in the next block, whatever
\* admissible time that block has, and on every longer chain too: the mempool
\* never checks an entry again while blocks connect (CMempool::decide; policy
\* supplies BIP113 and BIP68 where the coin's consensus has neither).
AcceptedIsMineable ==
  accepted => \A t \in Times : t > MedianTimePast(BaseHeight) => MayEnter(coin, t)

\* The one pass with two running maxima over all inputs (validateTxSequenceLocks)
\* and the threshold test of validateTxFinal decide exactly what the locks say
\* input by input, for every chain and every version.
LocksExact ==
  /\ TxSequenceLocks <=> \A i \in DOMAIN tx.ins : MaySpendYet(i)
  /\ \A t \in Times : TxFinal(t) <=> MayFinal(t)

\* The fee of an accepted transaction is the exact difference of the exact
\* sums, non-negative, although every addition wraps: the limits are tested
\* after each step (validateTxOutputValues, validateTxInputValues).
FeeExact == accepted => fee \in 0..MaxMoney /\ fee = ExactSum(Prevouts) - ExactSum(tx.outs)

\* An accepted transaction pays the relay rate of its size and of its sigops,
\* short of at most one unit where the coin rounds down, and never nothing
\* (feeForSize, vsize).
AcceptedPays ==
  accepted =>
    LET owed == RelayRate[coin] * Weight
        sigs == RelayRate[coin] * tx.sigOps * BytesPerSigOp
        paid == (fee + (IF coin = "BTC" THEN 0 ELSE 1)) * Kb * WitnessScaleFactor
    IN  fee >= 1 /\ paid >= owed /\ paid >= sigs
=============================================================================

-------------------- MODULE MCRules --------------------
(******************************************************************************)
(* What is computed rather than scheduled: the rules a transaction, a block   *)
(* and a script are checked against, the pages cut out of a list, the         *)
(* arithmetic of wide integers and the wire format.  A behaviour is one of    *)
(* one component; its input is chosen first.                                  *)
(******************************************************************************)
EXTENDS Integers, Sequences, FiniteSets

CONSTANTS FreeBytes

\* The sizes and opcodes of the rules, for the samples below
Params == INSTANCE TxRules WITH
  Coins <- {}, Txs <- {}, Times <- {}, MaxHeight <- 0, MaxMoney <- 0,
  coin <- 0, tx <- 0, times <- 0, accepted <- 0, fee <- 0
Words == INSTANCE Scripts WITH Stems <- {}, FreeBytes <- 0, script <- 0, left <- 0

Shapes == INSTANCE Wire WITH
  Byte <- 8, MaxSerializedSize <- 20, VarIntMax <- 31, Kinds <- {},
  type <- 0, value <- 0, wire <- 0, intact <- 0, step <- 0, room <- 0, got <- 0

\* Every type that is sent or stored, by the name of its message or coin
Messages ==
  [version |-> Shapes!CMessageVersion, xpmVersion |-> Shapes!XpmVersion,
   ping |-> Shapes!CMessagePing, pong |-> Shapes!CMessagePong, addr |-> Shapes!CMessageAddr,
   getheaders |-> Shapes!CMessageGetHeaders, getblocks |-> Shapes!CMessageGetBlocks,
   inv |-> Shapes!CMessageInv, getdata |-> Shapes!CMessageGetData,
   reject |-> Shapes!CMessageReject, headers |-> Shapes!CMessageHeadersTy(Shapes!CBlockHeader),
   tx |-> Shapes!CTransaction, block |-> Shapes!CBlockTy(Shapes!CBlockHeader, Shapes!CTransaction),
   linked |-> Shapes!CBlockLinkedOutputs, ltcTx |-> Shapes!LtcTransaction,
   ltcBlock |-> Shapes!LtcBlock, mwebTx |-> Shapes!MwebTransaction,
   zecTx |-> Shapes!ZecTransaction, zecHeader |-> Shapes!ZecHeader,
   dogeHeader |-> Shapes!DogeHeader, xpmHeader |-> Shapes!XpmHeader]

AllCoins == {"BTC", "LTC", "DOGE", "ZEC", "XPM"}

\* Numbers around the limbs of a register, and every third dividend
Edges == {0, 1, 2, 3, 11, 15, 16, 243, 255, 256, 1638, 2047, 2048, 4094, 4095}
Dividends == {n \in 0..255 : n % 3 = 0 \/ n % 64 > 60}

Coin(id, value, height, coinbase, pegout) ==
  [id |-> id, value |-> value, height |-> height, coinbase |-> coinbase, pegout |-> pegout]
In(coin_, seq, wit) == [coin |-> coin_, seq |-> seq, sig |-> 1, wit |-> wit]
Out(value, kind) == [value |-> value, kind |-> kind]
Tx(version, lockTime, ins, outs, base, sigOps) ==
  [version |-> version, lockTime |-> lockTime, ins |-> ins, outs |-> outs,
   base |-> base, total |-> base + 1, sigOps |-> sigOps, extra |-> FALSE, standard |-> sigOps # 5]

LockInputs(id) ==
  { In(Coin(id, 3, h, cb, ~cb), s, FALSE) :
      h \in {0, 1, Params!Unmined}, cb \in {FALSE}, s \in {0, 1, 2, 5, 8, Params!FinalSequence} }
  \union { In(Coin(id, 3, h, TRUE, FALSE), Params!FinalSequence, TRUE) : h \in {0, 1} }

LockTxs ==
  { Tx(v, l, <<i>>, <<Out(2, "key")>>, 1, 1) :
      v \in {-1, 1, 2}, l \in {0, 2, 20, 22}, i \in LockInputs(1) }
  \union { Tx(v, l, <<i, j>>, <<Out(2, "key")>>, 1, 1) :
      v \in {2}, l \in {0}, i \in LockInputs(1),
      j \in { In(Coin(2, 0, h, FALSE, FALSE), s, FALSE) : h \in {1}, s \in {1, 5} } }

AmountIn(id) == { In(Coin(id, v, 0, FALSE, FALSE), Params!FinalSequence, FALSE) : v \in {-1, 0, 1, 2, 3, 7} }
AmountOuts == { Out(v, k) : v \in {-1, 0, 1, 3}, k \in {"key", "witness", "data", "pegin"} }

AmountTxs ==
  LET ins == { <<i>> : i \in AmountIn(1) } \union { <<i, j>> : i \in AmountIn(1), j \in AmountIn(2) }
      keys == { Out(v, "key") : v \in {0, 1, 3} }
      outs == { <<o>> : o \in AmountOuts } \union { <<o, p, q>> : o \in keys, p \in keys, q \in keys }
  IN  { Tx(1, 0, i, o, b, s) : i \in ins, o \in outs, b \in {1, 2}, s \in {1, 5, 6} }

Key == <<Words!KeySize, 2, 0, 0>>
LongKey == <<Words!LongKeySize, 4, 0, 0, 0>>

ScriptStems ==
  { <<>>,
    <<Words!OP_0, Words!WideSize>>, <<Words!OP_1, Words!WideSize>>, <<Words!OP_HASH160>>,
    <<Words!OP_DUP, Words!OP_HASH160, Words!HashSize>>,
    <<Words!KeySize, 2>>, <<Words!LongKeySize, 4, 0>>,
    <<Words!OP_1>> \o Key, <<Words!OP_1>> \o LongKey,
    <<Words!OP_1 + 1>> \o Key \o Key, <<Words!OP_1>> \o Key \o LongKey,
    <<Words!OP_1>> \o Key \o Key \o Key \o Key,
    <<Words!OP_1NEGATE, Words!OP_1>>, <<Words!OP_PUSHDATA1, 3>>, <<Words!OP_PUSHDATA1, 5, 0, 0, 0>> }

VARIABLES part,  \* the component this behaviour is of; what the others need is 0
  coin, tx, times, accepted, fee, block, hasWitness, verdict, script, left, kind, total, ascending, offset,
  limit, page, x, y, shadow, ops, type, value, wire, intact, step, room, got, a, b, rd, recip, pc, u, v, s,
  n, j, rc, q, r

vars == <<part, coin, tx, times, accepted, fee, block, hasWitness, verdict, script, left, kind, total,
          ascending, offset, limit, page, x, y, shadow, ops, type, value, wire, intact, step, room, got, a,
          b, rd, recip, pc, u, v, s, n, j, rc, q, r>>

Locks == INSTANCE TxRules WITH
  Coins <- AllCoins, Txs <- LockTxs, Times <- 20..23, MaxHeight <- 3, MaxMoney <- 3
Amounts == INSTANCE TxRules WITH
  Coins <- AllCoins, Txs <- AmountTxs, Times <- {20, 21}, MaxHeight <- 1, MaxMoney <- 3
Block == INSTANCE BlockRules WITH
  Coins <- AllCoins, Heights <- 0..3, BIP34Height <- 2, SegwitHeight <- 1, Witnesses <- {"none", "w1", "w2"},
  NoWitness <- "none", Nonces <- {"n1", "n2"}
Forms == INSTANCE Scripts WITH
  Stems <- ScriptStems, FreeBytes <- FreeBytes
Pages == INSTANCE HttpPages WITH
  WideBits <- 6, NarrowBits <- 4, MaxTotal <- 6, Offsets <- (0..7) \union {15},
  Limits <- {0, 1, 2, 3, 5, 63}, HistoryCap <- 3, DepthCap <- 6
Arith == INSTANCE UIntArith WITH
  LimbBits <- 4, ByteBits <- 2, Limbs <- 3, Numbers <- Edges, MaxOps <- 1
Bytes == INSTANCE Wire WITH
  Byte <- 8, MaxSerializedSize <- 20, VarIntMax <- 31, Kinds <- Messages
Divide == INSTANCE UIntDivide WITH
  LimbBits <- 2, Limbs <- 4, Thresholds <- {2, 5}, Samples <- Dividends

Init ==
  \/ /\ part = "locks" /\ Locks!Init
     /\ block = 0 /\ hasWitness = 0 /\ verdict = 0 /\ script = 0 /\ left = 0 /\ kind = 0 /\ total = 0 /\
        ascending = 0 /\ offset = 0 /\ limit = 0 /\ page = 0 /\ x = 0 /\ y = 0 /\ shadow = 0 /\ ops = 0 /\
        type = 0 /\ value = 0 /\ wire = 0 /\ intact = 0 /\ step = 0 /\ room = 0 /\ got = 0 /\ a = 0 /\
        b = 0 /\ rd = 0 /\ recip = 0 /\ pc = 0 /\ u = 0 /\ v = 0 /\ s = 0 /\ n = 0 /\ j = 0 /\ rc = 0 /\
        q = 0 /\ r = 0
  \/ /\ part = "amounts" /\ Amounts!Init
     /\ block = 0 /\ hasWitness = 0 /\ verdict = 0 /\ script = 0 /\ left = 0 /\ kind = 0 /\ total = 0 /\
        ascending = 0 /\ offset = 0 /\ limit = 0 /\ page = 0 /\ x = 0 /\ y = 0 /\ shadow = 0 /\ ops = 0 /\
        type = 0 /\ value = 0 /\ wire = 0 /\ intact = 0 /\ step = 0 /\ room = 0 /\ got = 0 /\ a = 0 /\
        b = 0 /\ rd = 0 /\ recip = 0 /\ pc = 0 /\ u = 0 /\ v = 0 /\ s = 0 /\ n = 0 /\ j = 0 /\ rc = 0 /\
        q = 0 /\ r = 0
  \/ /\ part = "block" /\ Block!Init
     /\ tx = 0 /\ times = 0 /\ accepted = 0 /\ fee = 0 /\ script = 0 /\ left = 0 /\ kind = 0 /\ total = 0 /\
        ascending = 0 /\ offset = 0 /\ limit = 0 /\ page = 0 /\ x = 0 /\ y = 0 /\ shadow = 0 /\ ops = 0 /\
        type = 0 /\ value = 0 /\ wire = 0 /\ intact = 0 /\ step = 0 /\ room = 0 /\ got = 0 /\ a = 0 /\
        b = 0 /\ rd = 0 /\ recip = 0 /\ pc = 0 /\ u = 0 /\ v = 0 /\ s = 0 /\ n = 0 /\ j = 0 /\ rc = 0 /\
        q = 0 /\ r = 0
  \/ /\ part = "script" /\ Forms!Init
     /\ coin = 0 /\ tx = 0 /\ times = 0 /\ accepted = 0 /\ fee = 0 /\ block = 0 /\ hasWitness = 0 /\
        verdict = 0 /\ kind = 0 /\ total = 0 /\ ascending = 0 /\ offset = 0 /\ limit = 0 /\ page = 0 /\
        x = 0 /\ y = 0 /\ shadow = 0 /\ ops = 0 /\ type = 0 /\ value = 0 /\ wire = 0 /\ intact = 0 /\
        step = 0 /\ room = 0 /\ got = 0 /\ a = 0 /\ b = 0 /\ rd = 0 /\ recip = 0 /\ pc = 0 /\ u = 0 /\
        v = 0 /\ s = 0 /\ n = 0 /\ j = 0 /\ rc = 0 /\ q = 0 /\ r = 0
  \/ /\ part = "pages" /\ Pages!Init
     /\ coin = 0 /\ tx = 0 /\ times = 0 /\ accepted = 0 /\ fee = 0 /\ block = 0 /\ hasWitness = 0 /\
        verdict = 0 /\ script = 0 /\ left = 0 /\ x = 0 /\ y = 0 /\ shadow = 0 /\ ops = 0 /\ type = 0 /\
        value = 0 /\ wire = 0 /\ intact = 0 /\ step = 0 /\ room = 0 /\ got = 0 /\ a = 0 /\ b = 0 /\ rd = 0 /\
        recip = 0 /\ pc = 0 /\ u = 0 /\ v = 0 /\ s = 0 /\ n = 0 /\ j = 0 /\ rc = 0 /\ q = 0 /\ r = 0
  \/ /\ part = "arith" /\ Arith!Init
     /\ coin = 0 /\ tx = 0 /\ times = 0 /\ accepted = 0 /\ fee = 0 /\ block = 0 /\ hasWitness = 0 /\
        verdict = 0 /\ script = 0 /\ left = 0 /\ kind = 0 /\ total = 0 /\ ascending = 0 /\ offset = 0 /\
        limit = 0 /\ page = 0 /\ type = 0 /\ value = 0 /\ wire = 0 /\ intact = 0 /\ step = 0 /\ room = 0 /\
        got = 0 /\ a = 0 /\ b = 0 /\ rd = 0 /\ recip = 0 /\ pc = 0 /\ u = 0 /\ v = 0 /\ s = 0 /\ n = 0 /\
        j = 0 /\ rc = 0 /\ q = 0 /\ r = 0
  \/ /\ part = "wire" /\ Bytes!Init
     /\ coin = 0 /\ tx = 0 /\ times = 0 /\ accepted = 0 /\ fee = 0 /\ block = 0 /\ hasWitness = 0 /\
        verdict = 0 /\ script = 0 /\ left = 0 /\ kind = 0 /\ total = 0 /\ ascending = 0 /\ offset = 0 /\
        limit = 0 /\ page = 0 /\ x = 0 /\ y = 0 /\ shadow = 0 /\ ops = 0 /\ a = 0 /\ b = 0 /\ rd = 0 /\
        recip = 0 /\ pc = 0 /\ u = 0 /\ v = 0 /\ s = 0 /\ n = 0 /\ j = 0 /\ rc = 0 /\ q = 0 /\ r = 0
  \/ /\ part = "divide" /\ Divide!Init
     /\ coin = 0 /\ tx = 0 /\ times = 0 /\ accepted = 0 /\ fee = 0 /\ block = 0 /\ hasWitness = 0 /\
        verdict = 0 /\ script = 0 /\ left = 0 /\ kind = 0 /\ total = 0 /\ ascending = 0 /\ offset = 0 /\
        limit = 0 /\ page = 0 /\ x = 0 /\ y = 0 /\ shadow = 0 /\ ops = 0 /\ type = 0 /\ value = 0 /\
        wire = 0 /\ intact = 0 /\ step = 0 /\ room = 0 /\ got = 0

Next ==
  \/ /\ part = "locks" /\ Locks!Next
     /\ UNCHANGED <<part, block, hasWitness, verdict, script, left, kind, total, ascending, offset, limit,
                     page, x, y, shadow, ops, type, value, wire, intact, step, room, got, a, b, rd, recip,
                     pc, u, v, s, n, j, rc, q, r>>
  \/ /\ part = "amounts" /\ Amounts!Next
     /\ UNCHANGED <<part, block, hasWitness, verdict, script, left, kind, total, ascending, offset, limit,
                     page, x, y, shadow, ops, type, value, wire, intact, step, room, got, a, b, rd, recip,
                     pc, u, v, s, n, j, rc, q, r>>
  \/ /\ part = "block" /\ Block!Next
     /\ UNCHANGED <<part, tx, times, accepted, fee, script, left, kind, total, ascending, offset, limit,
                     page, x, y, shadow, ops, type, value, wire, intact, step, room, got, a, b, rd, recip,
                     pc, u, v, s, n, j, rc, q, r>>
  \/ /\ part = "script" /\ Forms!Next
     /\ UNCHANGED <<part, coin, tx, times, accepted, fee, block, hasWitness, verdict, kind, total, ascending,
                     offset, limit, page, x, y, shadow, ops, type, value, wire, intact, step, room, got, a,
                     b, rd, recip, pc, u, v, s, n, j, rc, q, r>>
  \/ /\ part = "pages" /\ Pages!Next
     /\ UNCHANGED <<part, coin, tx, times, accepted, fee, block, hasWitness, verdict, script, left, x, y,
                     shadow, ops, type, value, wire, intact, step, room, got, a, b, rd, recip, pc, u, v, s,
                     n, j, rc, q, r>>
  \/ /\ part = "arith" /\ Arith!Next
     /\ UNCHANGED <<part, coin, tx, times, accepted, fee, block, hasWitness, verdict, script, left, kind,
                     total, ascending, offset, limit, page, type, value, wire, intact, step, room, got, a, b,
                     rd, recip, pc, u, v, s, n, j, rc, q, r>>
  \/ /\ part = "wire" /\ Bytes!Next
     /\ UNCHANGED <<part, coin, tx, times, accepted, fee, block, hasWitness, verdict, script, left, kind,
                     total, ascending, offset, limit, page, x, y, shadow, ops, a, b, rd, recip, pc, u, v, s,
                     n, j, rc, q, r>>
  \/ /\ part = "divide" /\ Divide!Next
     /\ UNCHANGED <<part, coin, tx, times, accepted, fee, block, hasWitness, verdict, script, left, kind,
                     total, ascending, offset, limit, page, x, y, shadow, ops, type, value, wire, intact,
                     step, room, got>>

ASSUME RulesAssumption == Arith!WidthFitsLimb

Spec == Init /\ [][Next]_vars

-----------------------------------------------------------------------------
\* A transaction the mempool accepted may be mined in the next block: no lock, maturity, amount
\* or coin rule of the block checks refuses it; its fee is what the inputs leave over the
\* outputs, in integers without a width, and pays for its size (validation.h, policy.h).
AcceptedIsMineable ==
  /\ part = "locks" => Locks!AcceptedIsMineable /\ Locks!LocksExact
  /\ part = "amounts" => Amounts!AcceptedIsMineable /\ Amounts!FeeExact /\ Amounts!AcceptedPays

\* A block that is accepted commits to every witness it carries, and whether it may carry one
\* depends on its height alone (validation.h).
WitnessCommitted == part = "block" => Block!WitnessCommitted /\ Block!WitnessByHeight

\* The address the archive files an output under is the one a reader derives from its script,
\* a standard script has a type, and what is charged for signature checks covers them
\* (script.cpp, policy.h).
AddressesAgree ==
  part = "script" => /\ Forms!AddressesAgree /\ Forms!StandardIsTyped /\ Forms!ProgramSeen
                     /\ Forms!SigOpsCovered /\ Forms!RedeemIsTop


\* Every operation leaves a register at the integer result wrapped to its width, wideProduct
\* loses nothing and the orders are those of the integers; divmod and sdivmod answer quotient
\* and remainder by every one of their ways, and between two digits nothing of the dividend is
\* lost (uint.h).
ArithmeticExact ==
  /\ part = "arith" => Arith!RegisterExact /\ Arith!OrderExact /\ Arith!WideExact
  /\ part = "divide" => Divide!DigitsExact /\ Divide!DivExact /\ Divide!SignedExact

=============================================================================

------------------------------ MODULE Scripts ------------------------------
(***************************************************************************)
(* The forms of an output script (BTC/script.cpp, BTC/policy.cpp).         *)
(*                                                                         *)
(* Three readers classify the same bytes on their own.  The block stage    *)
(* writes a typed record of the output (parseTransactionOutput); the       *)
(* address indexes take an address from the script of a new output and     *)
(* from the record of a spent one (the two extractAddress); the mempool    *)
(* asks whether an output may be created (solve) and, from the record's    *)
(* type alone, whether and how it may be spent.  The properties say that   *)
(* the readers agree.                                                      *)
(*                                                                         *)
(* A script grows byte by byte from a stem.  The alphabet keeps the code's *)
(* opcodes and their order, with the sizes scaled down: a hash of 20 bytes *)
(* is HashSize, a program of 32 WideSize, keys of 33 and 65 KeySize and    *)
(* LongKeySize, the sixteen small numbers are four.                        *)
(***************************************************************************)
EXTENDS Integers, Sequences, SequencesExt

CONSTANTS
  Stems,        \* the scripts growth starts from
  FreeBytes     \* bytes appended to a stem

VARIABLES script, left

vars == <<script, left>>

HashSize == 1
WideSize == 2
KeySize == 3
LongKeySize == 4
RecordUnion == KeySize       \* the record's union holds a compressed key

OP_0 == 0
OP_PUSHDATA1 == 5
OP_PUSHDATA2 == 6
OP_PUSHDATA4 == 7
OP_1NEGATE == 8
OP_RESERVED == 9
OP_1 == 10
OP_16 == 13
OP_RETURN == 14
OP_DUP == 15
OP_EQUAL == 16
OP_EQUALVERIFY == 17
OP_HASH160 == 18
OP_CHECKSIG == 19
OP_CHECKMULTISIG == 20

Bytes == 0..20
SmallNumber(b) == b - OP_1 + 1
IsSmallNumber(b) == b \in OP_1..OP_16
MaxBareMultisigKeys == SmallNumber(OP_16)
MaxStandardKeys == 3
UnknownMultisig == 5         \* 20 in the code: more than any small number
MaxStackSize == 3
MaxScriptElementSize == 4

At(s, i) == s[i + 1]
Cut(s, from, size) == SubSeq(s, from + 1, from + size)

(***************************************************************************)
(* getOp at offset p of s, whose end is Len(s): the opcode, its data and   *)
(* the next offset; ok is FALSE on a truncated script.                     *)
(***************************************************************************)
SizeBytes(op) ==
  CASE op = OP_PUSHDATA1 -> 1
    [] op = OP_PUSHDATA2 -> 2
    [] op = OP_PUSHDATA4 -> 3
    [] OTHER -> 0

GetOp(s, p) ==
  LET op == At(s, p)
      n == SizeBytes(op)
      whole == Len(s) - (p + 1) >= n
      size == IF n = 0 THEN op
              ELSE FoldRight(LAMBDA b, acc : b + 21 * acc, Cut(s, p + 1, n), 0)
      from == p + 1 + n
  IN  IF op > OP_PUSHDATA4
      THEN [ok |-> TRUE, op |-> op, data |-> <<>>, next |-> p + 1]
      ELSE IF whole /\ Len(s) - from >= size
           THEN [ok |-> TRUE, op |-> op, data |-> Cut(s, from, size), next |-> from + size]
           ELSE [ok |-> FALSE, op |-> op, data |-> <<>>, next |-> Len(s)]

\* The opcodes getOp yields from offset p on, a failed read last
RECURSIVE OpsFrom(_, _)
OpsFrom(s, p) ==
  IF p >= Len(s) THEN <<>>
  ELSE LET o == GetOp(s, p) IN <<o>> \o (IF o.ok THEN OpsFrom(s, o.next) ELSE <<>>)

Ops(s) == OpsFrom(s, 0)
Whole(ops) == \A i \in DOMAIN ops : ops[i].ok

(***************************************************************************)
(* sigOpCount: a truncated opcode ends the count.                          *)
(***************************************************************************)
SigOpCount(s, accurate) ==
  LET ops == SelectSeq(Ops(s), LAMBDA o : o.ok)
      cost(i) == CASE ops[i].op = OP_CHECKSIG -> 1
                   [] ops[i].op = OP_CHECKMULTISIG ->
                        IF accurate /\ i > 1 /\ IsSmallNumber(ops[i - 1].op)
                        THEN SmallNumber(ops[i - 1].op) ELSE UnknownMultisig
                   [] OTHER -> 0
  IN  FoldLeft(LAMBDA acc, i : acc + cost(i), 0, [i \in 1..Len(ops) |-> i])

(***************************************************************************)
(* The fixed forms, as the code writes them out in every reader.           *)
(***************************************************************************)
IsPubKeyHash(s) ==
  /\ Len(s) = 5 + HashSize
  /\ At(s, 0) = OP_DUP /\ At(s, 1) = OP_HASH160 /\ At(s, 2) = HashSize
  /\ At(s, 3 + HashSize) = OP_EQUALVERIFY /\ At(s, 4 + HashSize) = OP_CHECKSIG

IsScriptHash(s) ==
  /\ Len(s) = 3 + HashSize
  /\ At(s, 0) = OP_HASH160 /\ At(s, 1) = HashSize /\ At(s, 2 + HashSize) = OP_EQUAL

IsProgram(s, op, size) == Len(s) = 2 + size /\ At(s, 0) = op /\ At(s, 1) = size

IsPubKey(s, size) == Len(s) = 2 + size /\ At(s, 0) = size /\ At(s, 1 + size) = OP_CHECKSIG

(***************************************************************************)
(* isBareMultisig walks direct key pushes only; bareMultisigSize recovers  *)
(* the size of an accepted script from bytes that carry no length.         *)
(***************************************************************************)

IsKeyPush(b) == b \in {KeySize, LongKeySize}

RECURSIVE KeysFrom(_, _, _)
KeysFrom(s, offset, end) ==     \* <<offset reached, keys passed>>
  IF offset < end /\ IsKeyPush(At(s, offset))
  THEN LET r == KeysFrom(s, offset + 1 + At(s, offset), end) IN <<r[1], r[2] + 1>>
  ELSE <<offset, 0>>

IsBareMultisig(s) ==
  LET size == Len(s) m == At(s, 0) n == At(s, size - 2) IN
  /\ size >= 4 + KeySize
  /\ At(s, size - 1) = OP_CHECKMULTISIG
  /\ IsSmallNumber(m) /\ IsSmallNumber(n) /\ m <= n
  /\ KeysFrom(s, 1, size - 2) = <<size - 2, SmallNumber(n)>>

BareMultisigSize(d) == KeysFrom(d, 1, Len(d))[1] + 2

(***************************************************************************)
(* parseTransactionOutput: the record, its data padded with zeroes to the  *)
(* union it replaces.                                                      *)
(***************************************************************************)

Padded(d) == d \o [i \in 1..(IF Len(d) < RecordUnion THEN RecordUnion - Len(d) ELSE 0) |-> 0]
Info(type, compressed, d) == [type |-> type, compressed |-> compressed, data |-> Padded(d)]

ParseLoose(s) ==
  CASE s # <<>> /\ At(s, 0) = OP_RETURN -> Info("EOpReturn", FALSE, <<>>)
    [] IsPubKey(s, KeySize) -> Info("EPubKey", TRUE, Cut(s, 1, KeySize))
    [] IsPubKey(s, LongKeySize) -> Info("EPubKey", TRUE, Cut(s, 1, LongKeySize))
    [] IsPubKeyHash(s) -> Info("EPubKeyHash", FALSE, Cut(s, 3, HashSize))
    [] IsScriptHash(s) -> Info("EScriptHash", FALSE, Cut(s, 2, HashSize))
    [] IsProgram(s, OP_0, HashSize) -> Info("EWitnessPubKeyHash", FALSE, Cut(s, 2, HashSize))
    [] IsProgram(s, OP_0, WideSize) -> Info("EWitnessScriptHash", FALSE, Cut(s, 2, WideSize))
    [] IsProgram(s, OP_1, WideSize) -> Info("EWitnessTaproot", FALSE, Cut(s, 2, WideSize))
    [] OTHER -> Info(IF IsBareMultisig(s) THEN "EMultisig" ELSE "ENonStandard", FALSE, s)

ParseTransactionOutput(s) ==
  CASE s # <<>> /\ At(s, 0) = OP_RETURN -> Info("EOpReturn", FALSE, <<>>)
    [] IsPubKey(s, KeySize) -> Info("EPubKey", TRUE, Cut(s, 1, KeySize))
    [] IsPubKey(s, LongKeySize) -> Info("EPubKey", FALSE, Cut(s, 1, LongKeySize))
    [] IsPubKeyHash(s) -> Info("EPubKeyHash", FALSE, Cut(s, 3, HashSize))
    [] IsScriptHash(s) -> Info("EScriptHash", FALSE, Cut(s, 2, HashSize))
    [] IsProgram(s, OP_0, HashSize) -> Info("EWitnessPubKeyHash", FALSE, Cut(s, 2, HashSize))
    [] IsProgram(s, OP_0, WideSize) -> Info("EWitnessScriptHash", FALSE, Cut(s, 2, WideSize))
    [] IsProgram(s, OP_1, WideSize) -> Info("EWitnessTaproot", FALSE, Cut(s, 2, WideSize))
    [] OTHER -> Info(IF IsBareMultisig(s) THEN "EMultisig" ELSE "ENonStandard", FALSE, s)

TypeOf(s) == ParseTransactionOutput(s).type

(***************************************************************************)
(* The two extractAddress.  A hash160 is the hashed bytes themselves,      *)
(* marked; NoAddress stands for FALSE.                                     *)
(***************************************************************************)
NoAddress == [type |-> "none", hashed |-> FALSE, data |-> <<>>]
Raw(type, d) == [type |-> type, hashed |-> FALSE, data |-> d]
Hashed(type, d) == [type |-> type, hashed |-> TRUE, data |-> d]

OutputAddress(s) ==
  CASE IsPubKeyHash(s) -> Raw("EPubKeyHash", Cut(s, 3, HashSize))
    [] IsScriptHash(s) -> Raw("EScriptHash", Cut(s, 2, HashSize))
    [] IsProgram(s, OP_0, HashSize) -> Raw("EWitnessPubKeyHash", Cut(s, 2, HashSize))
    [] IsProgram(s, OP_0, WideSize) -> Raw("EWitnessScriptHash", Cut(s, 2, WideSize))
    [] IsProgram(s, OP_1, WideSize) -> Raw("EWitnessTaproot", Cut(s, 2, WideSize))
    [] IsPubKey(s, KeySize) -> Hashed("EPubKeyHash", Cut(s, 1, KeySize))
    [] IsPubKey(s, LongKeySize) -> Hashed("EPubKeyHash", Cut(s, 1, LongKeySize))
    [] IsBareMultisig(s) -> Hashed("EMultisig", s)
    [] OTHER -> NoAddress

RecordAddress(info) ==
  LET d == info.data IN
  CASE info.type = "EPubKey" ->
         Hashed("EPubKeyHash", Cut(d, 0, IF info.compressed THEN KeySize ELSE LongKeySize))
    [] info.type \in {"EPubKeyHash", "EScriptHash", "EWitnessPubKeyHash"} ->
         Raw(info.type, Cut(d, 0, HashSize))
    [] info.type \in {"EWitnessScriptHash", "EWitnessTaproot"} ->
         Raw(info.type, Cut(d, 0, WideSize))
    [] info.type = "EMultisig" -> Hashed("EMultisig", Cut(d, 0, BareMultisigSize(d)))
    [] OTHER -> NoAddress

(***************************************************************************)
(* The policy's readers.                                                   *)
(***************************************************************************)
PubKeySize(prefix) ==
  CASE prefix \in {2, 3} -> KeySize
    [] prefix = 4 -> LongKeySize
    [] OTHER -> 0

IsPushOnly(s) == LET ops == Ops(s) IN Whole(ops) /\ \A i \in DOMAIN ops : ops[i].op <= OP_16

\* What an opcode leaves as the result of lastPush, given the result before it
Pushed(o, before) ==
  CASE o.op <= OP_PUSHDATA4 -> o.data
    [] o.op = OP_1NEGATE -> <<-1>>
    [] IsSmallNumber(o.op) -> <<SmallNumber(o.op)>>
    [] OTHER -> before

LastPush(s) ==
  LET ops == Ops(s) IN
  [ok |-> /\ Whole(ops) /\ Len(ops) \in 1..MaxStackSize
          /\ \A i \in DOMAIN ops : /\ Len(ops[i].data) <= MaxScriptElementSize
                                   /\ ops[i].op # OP_RESERVED,
   data |-> FoldLeft(LAMBDA acc, o : Pushed(o, acc), <<>>, ops)]

NoProgram == [version |-> -1, size |-> 0]

WitnessProgram(s) ==
  IF /\ Len(s) \in 3..6
     /\ At(s, 0) = OP_0 \/ IsSmallNumber(At(s, 0))
     /\ At(s, 1) + 2 = Len(s)
  THEN [version |-> IF At(s, 0) = OP_0 THEN 0 ELSE SmallNumber(At(s, 0)), size |-> Len(s) - 2]
  ELSE NoProgram

\* OP_m <keys> OP_n OP_CHECKMULTISIG, the keys pushed by any push opcode
IsStandardMultisig(s) ==
  LET size == Len(s)
      keys == Ops(Cut(s, 1, size - 3))
      required == SmallNumber(At(s, 0))
      declared == SmallNumber(At(s, size - 2))
  IN  /\ \A i \in DOMAIN keys : /\ keys[i].ok /\ keys[i].op <= OP_PUSHDATA4
                                /\ keys[i].data # <<>>
                                /\ PubKeySize(keys[i].data[1]) = Len(keys[i].data)
      /\ Len(keys) = declared /\ required <= declared /\ declared <= MaxStandardKeys

Solve(s) ==
  LET size == Len(s) p == WitnessProgram(s) IN
  CASE IsScriptHash(s) -> "ScriptHash"
    [] ~IsScriptHash(s) /\ p # NoProgram ->
         CASE p.version = 0 /\ p.size = HashSize -> "WitnessKeyHash"
           [] p.version = 0 /\ p.size = WideSize -> "WitnessScriptHash"
           [] p.version = 1 /\ p.size = WideSize -> "WitnessTaproot"
           [] OTHER -> IF p.version # 0 THEN "WitnessUnknown" ELSE "NonStandard"
    [] size >= 1 /\ At(s, 0) = OP_RETURN /\ IsPushOnly(Tail(s)) -> "NullData"
    [] /\ size \in {2 + KeySize, 2 + LongKeySize} /\ IsPubKey(s, size - 2)
       /\ PubKeySize(At(s, 1)) = size - 2 -> "PubKey"
    [] IsPubKeyHash(s) -> "PubKeyHash"
    [] /\ size >= 3 /\ At(s, size - 1) = OP_CHECKMULTISIG
       /\ IsSmallNumber(At(s, 0)) /\ IsSmallNumber(At(s, size - 2)) /\ IsStandardMultisig(s)
         -> "Multisig"
    [] OTHER -> "NonStandard"

(***************************************************************************)
(* What the policy makes of a coin from its type alone: whether            *)
(* validateStandardInputs lets it be spent (a P2SH redeem script aside),   *)
(* the program spentWitnessProgram takes it for, and the sigops            *)
(* validateLegacySigOps charges for it.                                    *)
(***************************************************************************)
StandardInput(type) == type \notin {"ENonStandard", "EOpReturn", "EInvalid"}

SpentProgram(type) ==
  CASE type = "EWitnessPubKeyHash" -> [version |-> 0, size |-> HashSize]
    [] type = "EWitnessScriptHash" -> [version |-> 0, size |-> WideSize]
    [] type = "EWitnessTaproot" -> [version |-> 1, size |-> WideSize]
    [] OTHER -> NoProgram

ChargedSigOps(type) ==
  CASE type \in {"EPubKey", "EPubKeyHash"} -> 1
    [] type = "EMultisig" -> MaxBareMultisigKeys
    [] OTHER -> 0

(***************************************************************************)
(* A script is written byte by byte.                                       *)
(***************************************************************************)
Init == script \in Stems /\ left = FreeBytes

Append1(b) ==
  /\ left > 0
  /\ script' = Append(script, b)
  /\ left' = left - 1

Next == \E b \in Bytes : Append1(b)

Spec == Init /\ [][Next]_vars

(***************************************************************************)
(* Properties.                                                             *)
(***************************************************************************)

\* Every reader's verdict is one of its own enumeration: a stored record is
\* never shorter than the fixed record, and a size read back from a multisig
\* record stays inside it (Script::parseTransactionOutput, bareMultisigSize).
TypeOK ==
  LET info == ParseTransactionOutput(script) IN
  /\ script \in Seq(Bytes) /\ left \in 0..FreeBytes
  /\ Len(info.data) >= RecordUnion
  /\ info.type = "EMultisig" => BareMultisigSize(info.data) <= Len(info.data)

\* The address an output is credited to when its block arrives is the address
\* debited when the stored record of it is spent: both extractAddress agree on
\* every script, a multisig's identity recovered from bytes without a length.
AddressesAgree == OutputAddress(script) = RecordAddress(ParseTransactionOutput(script))

\* An output the mempool lets a transaction create is typed so that the mempool
\* lets it be spent: solve's forms with keys pushed directly are the record's
\* forms (policy.cpp solve, validateStandardInputs).
Counterpart(form) ==
  CASE form = "PubKey" -> "EPubKey"
    [] form = "PubKeyHash" -> "EPubKeyHash"
    [] form = "ScriptHash" -> "EScriptHash"
    [] form = "Multisig" -> "EMultisig"
    [] form = "NullData" -> "EOpReturn"
    [] form = "WitnessKeyHash" -> "EWitnessPubKeyHash"
    [] form = "WitnessScriptHash" -> "EWitnessScriptHash"
    [] form = "WitnessTaproot" -> "EWitnessTaproot"
    [] OTHER -> "ENonStandard"
DirectPushes(s) == \A i \in DOMAIN Ops(s) : SizeBytes(Ops(s)[i].op) = 0
StandardIsTyped ==
  LET form == Solve(script) IN
  form \notin {"NonStandard"} /\ DirectPushes(script) => TypeOf(script) = Counterpart(form)

\* Without that restriction: every form solve knows may also be spent
\* (validateStandardInputs: "every spent output of a known form").
KnownFormSpendable ==
  Solve(script) \notin {"NonStandard", "NullData", "WitnessUnknown"} => StandardInput(TypeOf(script))

\* A coin that runs a witness program is either refused as an input or taken
\* for exactly that program: "only version and size are known" of it, and they
\* are the script's (spentWitnessProgram against witnessProgram).
ProgramSeen ==
  StandardInput(TypeOf(script)) => SpentProgram(TypeOf(script)) = WitnessProgram(script)

\* The sigops charged for a spendable coin by its type cover what its script
\* has: "it counts the most its type allows" (validateLegacySigOps); and
\* counting accurately never counts more than the block rule does.
SigOpsCovered ==
  /\ StandardInput(TypeOf(script)) => ChargedSigOps(TypeOf(script)) >= SigOpCount(script, TRUE)
  /\ SigOpCount(script, TRUE) <= SigOpCount(script, FALSE)

\* The redeem script of a push-only scriptSig is the element its evaluation
\* leaves on top, and none when evaluation fails: too long a push, too many, a
\* reserved opcode (policy.cpp lastPush against a stack machine).
RECURSIVE Evaluate(_, _, _)
Evaluate(s, p, stack) ==        \* <<>> is failure, <<stack>> the final stack
  IF p = Len(s) THEN <<stack>>
  ELSE LET o == GetOp(s, p) IN
       IF ~o.ok \/ o.op = OP_RESERVED \/ Len(o.data) > MaxScriptElementSize
          \/ Len(stack) = MaxStackSize
       THEN <<>>
       ELSE Evaluate(s, o.next, Append(stack, CASE o.op = OP_1NEGATE -> <<-1>>
                                                [] IsSmallNumber(o.op) -> <<SmallNumber(o.op)>>
                                                [] OTHER -> o.data))
RedeemIsTop ==
  IsPushOnly(script) =>
    LET r == LastPush(script) final == Evaluate(script, 0, <<>>) IN
    /\ r.ok <=> final # <<>> /\ final[1] # <<>>
    /\ r.ok => r.data = Last(final[1])
=============================================================================

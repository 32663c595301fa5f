-------------------------------- MODULE Wire --------------------------------
(***************************************************************************)
(* The wire format (BTC/serialize.h, common/serialize.h) and the shapes    *)
(* described in it: messages, blocks, MWEB, the linked outputs.  A type    *)
(* describes its bytes once, as an io procedure, and five operations walk  *)
(* it: size, write, read, and the two walks of unpack2, which measure an   *)
(* arena and then build into it.                                           *)
(*                                                                         *)
(* An io procedure is a shape here: a record of a kind k and what the kind *)
(* needs.  A byte has Byte values, the last three of them the prefixes     *)
(* 0xFD..0xFF, followed by 1, 2 and 3 bytes where the code has 2, 4 and 8; *)
(* every fixed-width field is one byte.                                    *)
(***************************************************************************)
EXTENDS Integers, Sequences, FiniteSetsExt, SequencesExt, TLC

CONSTANTS Byte,              \* values of a byte
          MaxSerializedSize, \* upper bound of a compact size
          VarIntMax,         \* the largest value of the type a varint is read into
          Kinds              \* the shapes of the instance: name -> shape

VARIABLES type, value,       \* what is sent, and the shape it is written and read as
          wire, intact,      \* its bytes as they arrive, and whether they are all of it
          step,              \* "value", "sent", "measured", "built", "read", "refused"
          room,              \* what the measuring walk found the arena to need
          got                \* what the building walk or the plain read made

vars == <<type, value, wire, intact, step, room, got>>

-----------------------------------------------------------------------------
(* Shapes. `of' holds the values an instance sends; `on' the alternatives  *)
(* under which a field is on the wire, each a set of <<field, values>>,    *)
(* where a list stands for its length.                                     *)

Num == [k |-> "num", of |-> {1}]
Sel(S) == [k |-> "num", of |-> S]
Bool == [k |-> "bool", of |-> {0, 1}]
Prefix(m) == [k |-> "prefix", m |-> m, of |-> {0, 1}]
Size(S) == [k |-> "size", of |-> S]
Varint(S) == [k |-> "varint", of |-> S]
String(S) == [k |-> "string", of |-> S]
Bytes(S) == [k |-> "bytes", of |-> S]
BigNum(S) == [k |-> "bignum", of |-> S]
Record(S) == [k |-> "record", of |-> S]
CoinWords(S) == [k |-> "words", of |-> S]
Vec(shape, max) == [k |-> "vec", el |-> shape, max |-> max]
Struct(fields) == [k |-> "struct", fs |-> fields]
Tx(in, out, mweb) == [k |-> "tx", in |-> in, out |-> out, mweb |-> mweb]

Always == {{}}
F(name, shape) == [n |-> name, s |-> shape, on |-> Always]
If(on, name, shape) == [n |-> name, s |-> shape, on |-> on]
Check(on) == [n |-> "", s |-> [k |-> "check"], on |-> on]
Only(shape, S) == shape @@ "of" :> S
NonZero == 1..MaxSerializedSize
Holds(on, env) == \E alt \in on : \A c \in alt : c[1] \in DOMAIN env /\ env[c[1]] \in c[2]

-----------------------------------------------------------------------------
(* Compact sizes and base 128 varints. *)

Direct == Byte - 3
Digits(n, len) == [i \in 1..len |-> (n \div Byte ^ (i - 1)) % Byte]
Number(d) == FoldLeft(LAMBDA acc, x : acc * Byte + x, 0, Reverse(d))
SizeLen(n) == IF n < Direct THEN 0 ELSE IF n < Byte THEN 1 ELSE IF n < Byte ^ 2 THEN 2 ELSE 3
Shortest(len) == IF len = 1 THEN Direct ELSE Byte ^ (len - 1)

getSerializedVarSizeSize(n) == 1 + SizeLen(n)
serializeVarSize(n) ==
  IF SizeLen(n) = 0 THEN <<n>> ELSE <<Direct + SizeLen(n) - 1>> \o Digits(n, SizeLen(n))

Half == Byte \div 2
RECURSIVE getSerializedVarIntSize(_), serializeVarInt(_)
getSerializedVarIntSize(n) == IF n < Half THEN 1 ELSE 1 + getSerializedVarIntSize((n \div Half) - 1)
(* Most significant group first; every group but the last has the top bit. *)
serializeVarInt(n) ==
  IF n < Half THEN <<n>>
  ELSE LET up == serializeVarInt((n \div Half) - 1)
       IN [i \in 1..Len(up) |-> IF i = Len(up) THEN up[i] + Half ELSE up[i]] \o <<n % Half>>

-----------------------------------------------------------------------------
(* A reader: the stream with its cursor, the latch, the arena, what was    *)
(* read last (v, and n, its number or its count), and the flag every       *)
(* transaction of LTC reports through.  A read past the end yields zeros   *)
(* and sets eof.                                                           *)

Reader(b, pass) == [b |-> b, pass |-> pass, p |-> 0, eof |-> FALSE, failed |-> FALSE,
                    mem |-> 0, v |-> 0, n |-> 0, hog |-> 0]
remaining(r) == Len(r.b) - r.p
Yield(r, v, n) == [r EXCEPT !.v = v, !.n = n]
SeekEnd(r) == [r EXCEPT !.p = Len(r.b), !.eof = TRUE]
fail(r) == [SeekEnd(r) EXCEPT !.failed = TRUE]
check(r, ok) == IF ok THEN r ELSE fail(r)
Take(r, len) ==
  IF len > remaining(r) THEN Yield(SeekEnd(r), [i \in 1..len |-> 0], 0)
  ELSE [r EXCEPT !.p = @ + len, !.v = SubSeq(r.b, r.p + 1, r.p + len)]
First(t) == Yield(t, t.v[1], t.v[1])
Get(r) == First(Take(r, 1))

LongSize(t, len, n) ==
  IF n < Shortest(len) \/ n > MaxSerializedSize THEN Yield(SeekEnd(t), 0, 0) ELSE Yield(t, n, n)
SizeDigits(t, len) == LongSize(t, len, Number(t.v))
SizeFrom(t) == IF t.v < Direct THEN t ELSE SizeDigits(Take(t, t.v - Direct + 1), t.v - Direct + 1)
unserializeVarSize(r) == SizeFrom(Get(r))

RECURSIVE VarIntFrom(_, _)
VarIntGroup(t, n, sum) ==
  IF t.eof THEN Yield(t, 0, 0)
  ELSE IF n > VarIntMax \div Half \/ (t.v >= Half /\ sum = VarIntMax)
  THEN Yield(SeekEnd(t), 0, 0)
  ELSE IF t.v >= Half THEN VarIntFrom(t, sum + 1)
  ELSE Yield(t, sum, sum)
VarIntNext(t, n) == VarIntGroup(t, n, n * Half + (t.v % Half))
VarIntFrom(r, n) == VarIntNext(Get(r), n)
unserializeVarInt(r) == VarIntFrom(r, 0)

(* Room in the arena: the measuring walk counts it, the building walk      *)
(* moves its pointer, a plain read uses the heap.  A vector's elements are *)
(* Unit bytes each, a byte string's one.                                   *)
Unit == 4
alignUp(n) == ((n + Unit - 1) \div Unit) * Unit
arena(r, n) == IF r.pass = "read" THEN r ELSE [r EXCEPT !.mem = @ + alignUp(n)]
Filled(r) == r.pass # "measure"

(* A byte string longer than what is left is refused before any room is    *)
(* taken.                                                                  *)
BytesAfter(c) ==
  IF c.n > remaining(c) THEN Yield(fail(c), <<>>, 0)
  ELSE Yield(Take(arena(c, c.n), c.n), IF Filled(c) THEN Take(c, c.n).v ELSE <<>>, c.n)
ReadBytes(r) == BytesAfter(unserializeVarSize(r))

(* The limbs of a big number lie in the arena, aligned; zeros on top are   *)
(* no part of the number.                                                  *)
Stripped(d) == SubSeq(d, 1, Max({0} \union {i \in DOMAIN d : d[i] # 0}))
BigNumAfter(c) ==
  IF c.n > remaining(c) THEN Yield(SeekEnd(c), <<>>, 0)
  ELSE Yield(Take(arena(c, alignUp(c.n)), c.n), Stripped(Take(c, c.n).v), c.n)
ReadBigNum(r) == BigNumAfter(unserializeVarSize(r))

(* A linked output: its size, the flags, the amount, and the rest without  *)
(* the zeros at its end, which come back.                                  *)
TailOffset == 2
Zeros(n) == [i \in 1..n |-> 0]
RecordTail(s, f, a, l, t) ==
  IF l.n <= remaining(l) /\ TailOffset + l.n <= s.n /\ ~l.failed
  THEN Yield(arena(t, s.n),
             [flags |-> f.v, amount |-> a.v, rest |-> t.v \o Zeros(s.n - TailOffset - l.n)], 0)
  ELSE Yield(fail(t), <<>>, 0)
RecordStored(s, f, a, l) == RecordTail(s, f, a, l, Take(l, l.n))
RecordAmount(s, f, a) == RecordStored(s, f, a, unserializeVarSize(a))
RecordFlags(s, f) == RecordAmount(s, f, unserializeVarInt(f))
RecordSize(s) == RecordFlags(s, Get(s))
ReadRecord(r) == RecordSize(unserializeVarSize(r))

(* The coin words, as distances below the largest. *)
Top(ws) == Max({0} \union ToSet(ws))
Word(acc, t, top) ==
  IF acc.failed THEN acc ELSE [check(t, t.n <= top) EXCEPT !.v = Append(acc.v, top - t.n)]
WordsBelow(c, top) ==
  IF c.n > remaining(top) THEN Yield(fail(top), <<>>, 0)
  ELSE FoldLeft(LAMBDA acc, i : Word(acc, unserializeVarInt(acc), top.n),
                Yield(arena(top, c.n), <<>>, c.n), [i \in 1..c.n |-> i])
WordsFrom(c) == WordsBelow(c, unserializeVarInt(c))
ReadWords(r) == WordsFrom(unserializeVarSize(r))

-----------------------------------------------------------------------------
(* Reading a shape. *)

RECURSIVE Read(_, _)

(* Every element takes at least a byte: a count past the end is refused.   *)
(* While measuring the elements go to a throwaway and only the count is    *)
(* known afterwards.                                                       *)
RECURSIVE Elements(_, _, _)
Grown(r, t) == [t EXCEPT !.v = IF Filled(r) THEN Append(r.v, t.v) ELSE <<>>]
Elements(r, el, n) ==
  IF n = 0 \/ r.eof \/ r.failed THEN r ELSE Elements(Grown(r, Read(el, r)), el, n - 1)
VecAfter(c, el) ==
  IF c.n > remaining(c) THEN Yield(fail(c), <<>>, 0)
  ELSE [Elements(Yield(arena(c, c.n * Unit), <<>>, 0), el, c.n) EXCEPT !.n = c.n]
ReadVec(r, el) == VecAfter(unserializeVarSize(r), el)

(* The fields in order, each if what was read before puts it on the wire;  *)
(* after a failure nothing that is read matters.                           *)
Begin(r) == [r |-> r, env |-> <<>>, v |-> <<>>]
Then(acc, name, t) == [r |-> t, env |-> acc.env @@ name :> t.n, v |-> acc.v @@ name :> t.v]
RECURSIVE Fields(_, _)
Field(acc, f, on) ==
  IF f.s.k = "check" THEN [acc EXCEPT !.r = check(acc.r, on)]
  ELSE IF on THEN Then(acc, f.n, Read(f.s, acc.r)) ELSE acc
Fields(acc, fields) ==
  IF fields = <<>> \/ acc.r.failed THEN acc
  ELSE Fields(Field(acc, Head(fields), Holds(Head(fields).on, acc.env @@ "IsHogEx" :> acc.r.hog)),
              Tail(fields))
Ended(acc) == Yield(acc.r, acc.v, 0)
ReadStruct(r, fields) == Ended(Fields(Begin(r), fields))

(* The witness stacks, one for every input; n says whether any has an      *)
(* element, by the counts, as the inputs themselves are not there while    *)
(* measuring.                                                              *)
Stack == Vec(Bytes({<<>>, <<1>>}), 1)
Stacked(acc, t, any) == [t EXCEPT !.v = Append(acc.v, t.v), !.n = IF any THEN 1 ELSE acc.n]
StackOf(acc, t) == Stacked(acc, t, t.n # 0)
StackByValue(acc, t) == Stacked(acc, t, t.v # <<>>)
ReadWitness(r, count) ==
  FoldLeft(LAMBDA acc, i : StackOf(acc, Read(Stack, acc)), Yield(r, <<>>, 0), [i \in 1..count |-> i])

(* An empty input list is the marker of the extended format: the flags     *)
(* follow, 1 for the witness stacks, 2 (8 in the code) for MWEB, and then  *)
(* the real lists.  A flag that changes nothing is refused.                *)
TxOuts(acc, s, flags) ==
  Then([acc EXCEPT !.env = @ @@ "flags" :> flags], "TxOut", ReadVec(acc.r, s.out))
TxFlags(acc, none, flag, s) ==
  IF flag.v # 0 THEN TxOuts(Then(acc, "TxIn", ReadVec(flag, s.in)), s, flag.v)
  ELSE [Then(Then(acc, "TxIn", none), "TxOut", Yield(flag, <<>>, 0)) EXCEPT !.env = @ @@ "flags" :> 0]
TxIns(acc, first, s) ==
  IF first.n = 0 THEN TxFlags(acc, first, Get(first), s)
  ELSE TxOuts(Then(acc, "TxIn", first), s, 0)
TxStacks(acc, t) == Then(acc, "Witness", check(t, t.n # 0))
TxWitness(acc) ==
  IF acc.env.flags % 2 = 1 THEN TxStacks(acc, ReadWitness(acc.r, acc.env.TxIn))
  ELSE Then(acc, "Witness", Yield(acc.r, [i \in 1..Len(acc.v.TxIn) |-> <<>>], 0))
HasMweb(acc, s) == s.mweb # <<>> /\ (acc.env.flags \div 2) % 2 = 1
HogEx(acc, s) == HasMweb(acc, s) /\ acc.env.MwebTx = 0
TxMweb(acc, s) ==
  Then(acc, "MwebTx", IF HasMweb(acc, s) THEN ReadVec(acc.r, s.mweb[1]) ELSE Yield(acc.r, <<>>, 0))
TxGood(acc, s) ==
  /\ acc.env.MwebTx <= 1
  /\ HogEx(acc, s) => acc.env.TxOut # 0
  /\ acc.env.flags < IF HasMweb(acc, s) THEN 4 ELSE 2
TxLock(acc, hog) == Then([acc EXCEPT !.v = @ @@ "HogEx" :> hog], "LockTime", Get(acc.r))
TxEnd(acc, s) ==
  IF ~TxGood(acc, s) THEN fail(acc.r)
  ELSE [Ended(TxLock(acc, HogEx(acc, s))) EXCEPT !.hog = IF HogEx(acc, s) THEN 1 ELSE 0]
TxBegin(r) == Then(Begin(r), "Version", Get(r))
TxLists(acc, s) == TxIns(acc, ReadVec(acc.r, s.in), s)
ReadTx(r, s) == TxEnd(TxMweb(TxWitness(TxLists(TxBegin(r), s)), s), s)

BoolOf(t) == Yield(t, Min({t.v, 1}), Min({t.v, 1}))
PrefixOf(t, m) == Yield(check(t, t.v \div 2 = m), t.v % 2, t.v % 2)
StringAfter(c) == Take(c, c.n)

Read(s, r) ==
  CASE s.k = "num" -> Get(r)
    [] s.k = "bool" -> BoolOf(Get(r))
    [] s.k = "prefix" -> PrefixOf(Get(r), s.m)
    [] s.k = "size" -> unserializeVarSize(r)
    [] s.k = "varint" -> unserializeVarInt(r)
    [] s.k = "string" -> StringAfter(unserializeVarSize(r))
    [] s.k = "bytes" -> ReadBytes(r)
    [] s.k = "bignum" -> ReadBigNum(r)
    [] s.k = "record" -> ReadRecord(r)
    [] s.k = "words" -> ReadWords(r)
    [] s.k = "vec" -> ReadVec(r, s.el)
    [] s.k = "struct" -> ReadStruct(r, s.fs)
    [] s.k = "tx" -> ReadTx(r, s)

-----------------------------------------------------------------------------
(* Writing a shape, and the size computed without writing it. *)

(* What the fields count as in the condition of a later one. *)
Env(fields, v) ==
  [n \in {fields[i].n : i \in {j \in DOMAIN fields :
           /\ fields[j].n \in DOMAIN v
           /\ fields[j].s.k \in {"num", "bool", "prefix", "vec", "bytes"}}} |->
     IF \E i \in DOMAIN fields : fields[i].n = n /\ fields[i].s.k \in {"vec", "bytes"}
     THEN Len(v[n]) ELSE v[n]]
  @@ "IsHogEx" :> (IF "Vtx" \in DOMAIN v /\ v.Vtx # <<>>
                           /\ "HogEx" \in DOMAIN Last(v.Vtx) /\ Last(v.Vtx).HogEx THEN 1 ELSE 0)
OnWire(fields, v) ==
  SelectSeq(fields, LAMBDA f : f.s.k # "check" /\ Holds(f.on, Env(fields, v)))
HasWitness(v) == \E i \in DOMAIN v.Witness : v.Witness[i] # <<>>
Flags(s, v) == (IF HasWitness(v) THEN 1 ELSE 0)
               + (IF s.mweb # <<>> /\ (v.MwebTx # <<>> \/ v.HogEx) THEN 2 ELSE 0)
Sign(d) == d # <<>> /\ Last(d) >= Half

RECURSIVE Write(_, _)
All(el, vs) == FlattenSeq([i \in DOMAIN vs |-> Write(el, vs[i])])
WriteVec(el, vs) == serializeVarSize(Len(vs)) \o All(el, vs)
WriteBytes(b) == serializeVarSize(Len(b)) \o b
WriteRecord(v) == LET stored == Stripped(v.rest)
                  IN serializeVarSize(TailOffset + Len(v.rest)) \o <<v.flags>>
                     \o serializeVarInt(v.amount) \o WriteBytes(stored)
WriteTx(s, v) ==
  LET flags == Flags(s, v)
  IN <<v.Version>> \o (IF flags # 0 THEN <<0, flags>> ELSE <<>>)
     \o WriteVec(s.in, v.TxIn) \o WriteVec(s.out, v.TxOut)
     \o (IF flags % 2 = 1 THEN All(Stack, v.Witness) ELSE <<>>)
     \o (IF flags >= 2 THEN WriteVec(s.mweb[1], v.MwebTx) ELSE <<>>)
     \o <<v.LockTime>>
Write(s, v) ==
  CASE s.k \in {"num", "bool"} -> <<v>>
    [] s.k = "prefix" -> <<2 * s.m + v>>
    [] s.k = "size" -> serializeVarSize(v)
    [] s.k = "varint" -> serializeVarInt(v)
    [] s.k \in {"string", "bytes"} -> WriteBytes(v)
    [] s.k = "bignum" -> WriteBytes(IF Sign(v) THEN Append(v, 0) ELSE v)
    [] s.k = "record" -> WriteRecord(v)
    [] s.k = "words" -> serializeVarSize(Len(v)) \o serializeVarInt(Top(v))
                        \o FlattenSeq([i \in DOMAIN v |-> serializeVarInt(Top(v) - v[i])])
    [] s.k = "vec" -> WriteVec(s.el, v)
    [] s.k = "struct" -> LET fs == OnWire(s.fs, v)
                         IN FlattenSeq([i \in DOMAIN fs |-> Write(fs[i].s, v[fs[i].n])])
    [] s.k = "tx" -> WriteTx(s, v)

Sum(ns) == FoldLeft(LAMBDA acc, n : acc + n, 0, ns)
RECURSIVE SizeOf(_, _)
SumOf(el, vs) == Sum([i \in DOMAIN vs |-> SizeOf(el, vs[i])])
SizeOfVec(el, vs) == getSerializedVarSizeSize(Len(vs)) + SumOf(el, vs)
SizeOfBytes(len) == getSerializedVarSizeSize(len) + len
SizeOfTx(s, v) ==
  LET flags == Flags(s, v)
  IN 2 + (IF flags # 0 THEN 2 ELSE 0) + SizeOfVec(s.in, v.TxIn) + SizeOfVec(s.out, v.TxOut)
     + (IF flags % 2 = 1 THEN SumOf(Stack, v.Witness) ELSE 0)
     + (IF flags >= 2 THEN SizeOfVec(s.mweb[1], v.MwebTx) ELSE 0)
SizeOf(s, v) ==
  CASE s.k \in {"num", "bool", "prefix"} -> 1
    [] s.k = "size" -> getSerializedVarSizeSize(v)
    [] s.k = "varint" -> getSerializedVarIntSize(v)
    [] s.k \in {"string", "bytes"} -> SizeOfBytes(Len(v))
    [] s.k = "bignum" -> SizeOfBytes(Len(v) + IF Sign(v) THEN 1 ELSE 0)
    [] s.k = "record" -> getSerializedVarSizeSize(TailOffset + Len(v.rest)) + 1
                         + getSerializedVarIntSize(v.amount) + SizeOfBytes(Len(Stripped(v.rest)))
    [] s.k = "words" -> getSerializedVarSizeSize(Len(v)) + getSerializedVarIntSize(Top(v))
                        + Sum([i \in DOMAIN v |-> getSerializedVarIntSize(Top(v) - v[i])])
    [] s.k = "vec" -> SizeOfVec(s.el, v)
    [] s.k = "struct" -> LET fs == OnWire(s.fs, v)
                         IN Sum([i \in DOMAIN fs |-> SizeOf(fs[i].s, v[fs[i].n])])
    [] s.k = "tx" -> SizeOfTx(s, v)

-----------------------------------------------------------------------------
(* The values of a shape an instance sends.  A transaction with outputs    *)
(* and no input has no form of its own: its empty list would be read as    *)
(* the marker, so none is ever sent.                                       *)

RECURSIVE Values(_)
Lists(el, max) == UNION {[1..n -> Values(el)] : n \in 0..max}
Transactions(s) ==
  {v \in UNION {[Version : {1}, TxIn : {ins}, Witness : [DOMAIN ins -> Values(Stack)],
                 TxOut : Lists(s.out, 1), HogEx : {FALSE} \union {s.mweb # <<>>},
                 MwebTx : IF s.mweb = <<>> THEN {<<>>} ELSE Lists(s.mweb[1], 1),
                 LockTime : {1}] : ins \in Lists(s.in, 2)} :
     /\ v.HogEx => v.MwebTx = <<>> /\ v.TxOut # <<>>
     /\ v.TxIn = <<>> /\ v.TxOut # <<>> => Flags(s, v) # 0}
Values(s) ==
  CASE "of" \in DOMAIN s -> s.of
    [] s.k = "vec" -> Lists(s.el, s.max)
    [] s.k = "tx" -> Transactions(s)
    [] s.k = "struct" ->
         FoldLeft(LAMBDA vs, f :
                    IF f.s.k = "check" THEN {v \in vs : Holds(f.on, Env(s.fs, v))}
                    ELSE {v \in vs : ~Holds(f.on, Env(s.fs, v))}
                         \union {v @@ f.n :> x : v \in {w \in vs : Holds(f.on, Env(s.fs, w))},
                                                 x \in Values(f.s)},
                  {<<>>}, s.fs)

-----------------------------------------------------------------------------
(* The shapes of BTC: BTC/proto.h. *)

Script == Bytes({<<>>, <<1>>})
Long == [i \in 1..Direct |-> 1]
CNetworkAddressWithoutTime == Struct(<<F("Services", Num), F("Ipv6", Num), F("Port", Num)>>)
CNetworkAddress == Struct(<<F("Time", Num), F("Addr", CNetworkAddressWithoutTime)>>)
HeaderFields == <<F("Version", Num), F("HashPrevBlock", Num), F("HashMerkleRoot", Num),
                  F("Time", Num), F("Bits", Num), F("Nonce", Num)>>
CBlockHeader == Struct(HeaderFields)
CTxIn == Struct(<<F("PreviousOutputHash", Num), F("PreviousOutputIndex", Num),
                  F("ScriptSig", Script), F("Sequence", Num)>>)
CTxOut == Struct(<<F("Value", Num), F("PkScript", Bytes({<<>>, Long}))>>)
CTransaction == Tx(CTxIn, CTxOut, <<>>)
CBlockHeaderNetTy(header) == Struct(<<F("Header", header), F("TxNum", Size({0, Byte}))>>)
PlainTx == [Version |-> 1, TxIn |-> <<CHOOSE v \in Values(CTxIn) : TRUE>>, Witness |-> <<(<<>>)>>,
            TxOut |-> <<CHOOSE v \in Values(CTxOut) : TRUE>>, HogEx |-> FALSE, MwebTx |-> <<>>,
            LockTime |-> 1]
WitnessTx == [PlainTx EXCEPT !.Witness = <<(<<(<<1>>)>>)>>]
SomeTx(shape) == Only(shape, {PlainTx, WitnessTx})
CBlockTy(header, tx) == Struct(<<F("Header", header), F("Vtx", Vec(SomeTx(tx), 2))>>)
CMessageHeadersTy(header) == Struct(<<F("Headers", Vec(CBlockHeaderNetTy(header), 2))>>)
CTxLinkedOutputs ==
  Vec(Record([flags : {1}, amount : {0, VarIntMax}, rest : {<<>>, <<0, 1, 0>>, <<0, 0>>}]), 2)
CBlockLinkedOutputs ==
  Struct(<<F("Tx", Vec(CTxLinkedOutputs, 1)), F("Meta", CoinWords({<<>>, <<3>>, <<Byte, 2>>}))>>)
(* The version gates two groups of fields. *)
VersionFields(named, relayed) ==
  <<F("Version", Sel({0, 1, 2})), F("Services", Num), F("Timestamp", Num),
    F("AddrRecv", CNetworkAddressWithoutTime),
    If(named, "AddrFrom", CNetworkAddressWithoutTime), If(named, "Nonce", Num),
    If(named, "UserAgent", String({<<>>, Long})), If(named, "StartHeight", Num)>> \o relayed
CMessageVersion ==
  Struct(VersionFields({{<<"Version", 1..Byte>>}}, <<If({{<<"Version", 2..Byte>>}}, "Relay", Bool)>>))
CInventoryVector == Struct(<<F("Type", Num), F("Hash", Num)>>)
CMessagePing == Struct(<<F("Nonce", Num)>>)
CMessagePong == Struct(<<F("Nonce", Num)>>)
CMessageAddr == Struct(<<F("AddrList", Vec(CNetworkAddress, 2))>>)
CMessageGetHeaders ==
  Struct(<<F("Version", Num), F("BlockLocatorHashes", Vec(Num, Byte)), F("HashStop", Num)>>)
CMessageGetBlocks ==
  Struct(<<F("Version", Num), F("BlockLocatorHashes", Vec(Num, Byte)), F("HashStop", Num)>>)
CMessageInv == Struct(<<F("Inventory", Vec(CInventoryVector, Direct))>>)
CMessageGetData == Struct(<<F("Inventory", Vec(CInventoryVector, Direct))>>)
CMessageReject ==
  Struct(<<F("Message", String({<<>>, <<1>>})), F("Code", Num), F("Reason", String({<<>>, <<1>>}))>>)

-----------------------------------------------------------------------------
(* LTC: LTC/mweb.h, LTC/proto.h. The feature bits 1, 2, 4 are the gates;   *)
(* the groups of a kernel that carry one number each are one group here.   *)

Bit(b) == {n \in 0..Byte-1 : (n \div b) % 2 = 1}
Extra(b) == If({{<<"Features", Bit(b)>>}}, "ExtraData", Bytes({<<1>>}))
CInput == Struct(<<F("Features", Sel({0, 3})), F("OutputId", Num), F("Commitment", Num),
                   F("OutputPubKey", Num), If({{<<"Features", Bit(1)>>}}, "InputPubKey", Num),
                   Extra(2), F("Signature", Num)>>)
COutputMessage ==
  LET standard == {{<<"Features", Bit(1)>>}}
  IN Struct(<<F("Features", Sel({0, 3})), If(standard, "KeyExchangePubKey", Num),
              If(standard, "ViewTag", Num), If(standard, "MaskedValue", Num),
              If(standard, "MaskedNonce", Num), Extra(2)>>)
COutput == Struct(<<F("Commitment", Num), F("SenderPubKey", Num), F("ReceiverPubKey", Num),
                    F("Message", COutputMessage), F("RangeProof", Num), F("Signature", Num)>>)
CPegOutCoin == Struct(<<F("Amount", Varint({Byte})), F("PkScript", Bytes({<<1>>})),
                        Check({{<<"PkScript", NonZero>>}})>>)
CKernel == Struct(<<F("Features", Sel({0, 7})), If({{<<"Features", Bit(1)>>}}, "Fee", Varint({Half})),
                    If({{<<"Features", Bit(2)>>}}, "PegOuts", Vec(CPegOutCoin, 1)), Extra(4),
                    F("Excess", Num), F("Signature", Num)>>)
CTxBody == <<F("Inputs", Vec(CInput, 1)), F("Outputs", Vec(COutput, 1)), F("Kernels", Vec(CKernel, 1))>>
MwebTransaction == Struct(<<F("KernelOffset", Num), F("StealthOffset", Num)>> \o CTxBody
                          \o <<Check({{<<"Kernels", NonZero>>}})>>)
CHeader == Struct(<<F("Height", Varint({1})), F("OutputRoot", Num), F("KernelRoot", Num),
                    F("LeafsetRoot", Num), F("KernelOffset", Num), F("StealthOffset", Num),
                    F("OutputMmrSize", Varint({Half})), F("KernelMmrSize", Varint({1}))>>)
MwebBlock == Struct(<<F("Header", CHeader)>> \o CTxBody)
Sample(shape) == Only(shape, {CHOOSE v \in Values(shape) : TRUE})
HogExTx == [PlainTx EXCEPT !.HogEx = TRUE]
LtcTransaction == Tx(Sample(CTxIn), Sample(CTxOut), <<Sample(MwebTransaction)>>)
(* The extension block follows if the last transaction is a HogEx. *)
LtcBlock ==
  Struct(<<F("Header", CBlockHeader),
           F("Vtx", Vec(Only(LtcTransaction, {PlainTx, WitnessTx, HogExTx}), 2)),
           If({{<<"Vtx", 2..Byte>>, <<"IsHogEx", {1}>>}}, "Mweb", Vec(Sample(MwebBlock), 1)),
           Check({{<<"Mweb", {0, 1}>>}, {<<"Vtx", 0..1>>}, {<<"IsHogEx", {0}>>}})>>)

-----------------------------------------------------------------------------
(* ZEC (ZEC/proto.h), DOGE and XPM. The version word of ZEC has the        *)
(* overwintered bit on top; versions 0..3 are the code's 1..4 and the      *)
(* version groups 1 and 2.                                                 *)

Overwinter == {<<"Header", {Half + 2}>>, <<"VersionGroupId", {1}>>}
Sapling == {<<"Header", {Half + 3}>>, <<"VersionGroupId", {2}>>}
Plain == {<<"Header", 0..Half-1>>}
ZecHeader == Struct(<<F("Version", Num), F("HashPrevBlock", Num), F("HashMerkleRoot", Num),
                      F("HashLightClientRoot", Num), F("Time", Num), F("Bits", Num), F("Nonce", Num),
                      F("Solution", Bytes({<<>>, <<1>>}))>>)
CCompressedG1 == Struct(<<F("YLsb", Prefix(1)), F("X", Num)>>)
CCompressedG2 == Struct(<<F("YGt", Prefix(2)), F("X", Num)>>)
CPHGRProof ==
  LET g1 == Sample(CCompressedG1)
  IN Struct(<<F("GA", CCompressedG1), F("GAPrime", g1), F("GB", CCompressedG2), F("GBPrime", g1),
              F("GC", g1), F("GCPrime", g1), F("GK", g1), F("GH", g1)>>)
CSpendDescription == Struct(<<F("Cv", Num), F("Anchor", Num), F("Nullifier", Num), F("Rk", Num),
                              F("ZkProof", Num), F("SpendAuthSig", Num)>>)
COutputDescription == Struct(<<F("Cv", Num), F("Cmu", Num), F("EphemeralKey", Num),
                               F("EncCiphertext", Num), F("OutCiphertext", Num), F("ZkProof", Num)>>)
CJSDescription(groth) ==
  Struct(<<F("VpubOld", Num), F("VpubNew", Num), F("Anchor", Num), F("Nullifier1", Num),
           F("Nullifier2", Num), F("Commitment1", Num), F("Commitment2", Num),
           F("EphemeralKey", Num), F("RandomSeed", Num), F("Mac1", Num), F("Mac2", Num),
           IF groth THEN F("ZkProof", Num) ELSE F("PhgrProof", CPHGRProof),
           F("Ciphertext1", Num), F("Ciphertext2", Num)>>)
ZecTransaction ==
  LET splits == <<"JoinSplits", NonZero>>
      joined == {{<<"Header", 1..Half-1>>, splits}, Overwinter \union {splits}, Sapling \union {splits}}
  IN Struct(<<F("Header", Sel({0, 1, Half + 2, Half + 3})),
              If({{<<"Header", Half..Byte-1>>}}, "VersionGroupId", Sel({1, 2})),
              Check({Plain, Overwinter, Sapling}),
              F("TxIn", Vec(Sample(CTxIn), 1)), F("TxOut", Vec(Sample(CTxOut), 1)), F("LockTime", Num),
              If({Overwinter, Sapling}, "ExpiryHeight", Num), If({Sapling}, "ValueBalance", Num),
              If({Sapling}, "ShieldedSpends", Vec(CSpendDescription, 1)),
              If({Sapling}, "ShieldedOutputs", Vec(COutputDescription, 1)),
              If({{<<"Header", 1..Half-1>>}, Overwinter}, "JoinSplits", Vec(CJSDescription(FALSE), 1)),
              If({Sapling}, "JoinSplits", Vec(CJSDescription(TRUE), 1)),
              If(joined, "JoinSplitPubKey", Num), If(joined, "JoinSplitSig", Num),
              If({Sapling \union {<<"ShieldedSpends", NonZero>>},
                  Sapling \union {<<"ShieldedOutputs", NonZero>>}}, "BindingSig", Num)>>)

AuxPow == {{<<"Version", Bit(2)>>}}
DogeHeader ==
  Struct(<<F("Version", Sel({1, 2})), F("HashPrevBlock", Num), F("HashMerkleRoot", Num),
           F("Time", Num), F("Bits", Num), F("Nonce", Num),
           If(AuxPow, "ParentBlockCoinbaseTx", SomeTx(CTransaction)), If(AuxPow, "HashBlock", Num),
           If(AuxPow, "MerkleBranch", Vec(Num, 2)), If(AuxPow, "Index", Num),
           If(AuxPow, "ChainMerkleBranch", Vec(Num, 1)), If(AuxPow, "ChainIndex", Num),
           If(AuxPow, "ParentBlock", CBlockHeader)>>)

XpmHeader == Struct(HeaderFields \o <<F("PrimeChainMultiplier", BigNum({<<1>>, <<0, 1>>, <<0, Half>>}))>>)
XpmVersion == Struct(VersionFields({{<<"Version", 1..Byte>>}}, <<>>))

-----------------------------------------------------------------------------
Init ==
  /\ \E k \in DOMAIN Kinds : type = Kinds[k]
  /\ value \in Values(type)
  /\ wire = <<>> /\ intact = TRUE
  /\ step = "value"
  /\ room = 0 /\ got = <<>>

Serialize ==
  /\ step = "value"
  /\ wire' = Write(type, value)
  /\ step' = "sent"
  /\ UNCHANGED <<type, value, intact, room, got>>

(* What arrives may be cut short or have a byte changed. *)
Damage ==
  /\ step = "sent" /\ intact
  /\ \/ \E n \in 0..Len(wire)-1 : wire' = SubSeq(wire, 1, n)
     \/ \E i \in DOMAIN wire : \E b \in {0, 2, Direct} \ {wire[i]} : wire' = [wire EXCEPT ![i] = b]
  /\ intact' = FALSE
  /\ UNCHANGED <<type, value, step, room, got>>

Walk(pass) == Read(type, Reader(wire, pass))
Good(r) == ~r.failed /\ ~r.eof
Made(r) == <<r.v, r.p, r.mem>>
Measured(r) == room' = r.mem /\ step' = IF Good(r) THEN "measured" ELSE "refused"
Settled(r, done) == got' = Made(r) /\ step' = IF Good(r) THEN done ELSE "refused"

(* unpack2 measures on a copy of the cursor, and builds if that went well. *)
Measure ==
  /\ step = "sent"
  /\ Measured(Walk("measure"))
  /\ UNCHANGED <<type, value, wire, intact, got>>

Build ==
  /\ step = "measured"
  /\ Settled(Walk("build"), "built")
  /\ UNCHANGED <<type, value, wire, intact, room>>

unserializeAndCheck ==
  /\ step = "sent"
  /\ Settled(Walk("read"), "read")
  /\ UNCHANGED <<type, value, wire, intact, room>>

Next == Serialize \/ Damage \/ Measure \/ Build \/ unserializeAndCheck

Spec == Init /\ [][Next]_vars

-----------------------------------------------------------------------------
(* Where the transactions lie in a stored block, found without writing it. *)
fillTxLayout(s, v) ==
  LET header == SizeOf(s.fs[1].s, v.Header) + getSerializedVarSizeSize(Len(v.Vtx))
      sizeAt(i) == SizeOf(s.fs[2].s.el, v.Vtx[i])
  IN [i \in DOMAIN v.Vtx |-> [offset |-> header + Sum([j \in 1..i-1 |-> sizeAt(j)]), size |-> sizeAt(i)]]

(* What follows the transactions: LTC's extension block. *)
blockExtensionSize(s, v) == IF "Mweb" \in DOMAIN v THEN SizeOf(s.fs[3].s, v.Mweb) ELSE 0
txLayoutMatchesStored(s, v, layout, storedSize) ==
  /\ layout # <<>>
  /\ Last(layout).offset + Last(layout).size + blockExtensionSize(s, v) = storedSize

(* getSerializedSize is what serialize writes; every transaction of a      *)
(* block is found at the span fillTxLayout gives it and the spans add up   *)
(* to what is stored, although no bytes are looked at.                     *)
SizeExact ==
  step = "sent" /\ intact =>
    /\ SizeOf(type, value) = Len(wire)
    /\ "Vtx" \in DOMAIN value =>
         LET layout == fillTxLayout(type, value)
         IN /\ value.Vtx # <<>> => txLayoutMatchesStored(type, value, layout, Len(wire))
            /\ \A i \in DOMAIN layout :
                 SubSeq(wire, layout[i].offset + 1, layout[i].offset + layout[i].size)
                   = Write(type.fs[2].s.el, value.Vtx[i])

(* What was written is read back, to its last byte, by either way of       *)
(* reading, and is never refused.                                          *)
RoundTrip ==
  intact => /\ step # "refused"
            /\ step \in {"built", "read"} => got[1] = value /\ got[2] = Len(wire)

MakesGot(r) == Good(r) /\ r.v = got[1]

(* "unpack drifted from its measure": whatever bytes arrive, what the      *)
(* measuring walk accepts the building walk accepts, uses exactly the room *)
(* measured, and makes what a plain read makes; what it refuses a plain    *)
(* read refuses.                                                           *)
NoDrift ==
  /\ step = "built" => got[3] = room /\ MakesGot(Walk("read"))
  /\ step = "refused" => ~Good(Walk("read")) /\ ~Good(Walk("measure"))

(* A transaction or block that is accepted has one encoding: writing what  *)
(* was read gives the bytes it was read from, which is what lets           *)
(* fillTxLayout find a transaction in a stored block (BTC/proto.h:762-767).*)
Canonical ==
  step = "read" /\ {"Vtx", "TxIn"} \intersect DOMAIN value # {} =>
    Write(type, got[1]) = SubSeq(wire, 1, got[2])

=============================================================================

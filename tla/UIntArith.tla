------------------------------ MODULE UIntArith ------------------------------
(***************************************************************************)
(* The arithmetic of UInt (common/uint.h) other than long division: sums,  *)
(* products and shifts limb by limb, the orders, the modular operations.   *)
(* A register x is changed in place by one operation after another, as the *)
(* block index does with work and the amounts do; shadow is the integer x  *)
(* should be.  A limb has LimbBits bits where the code's has 64, a byte    *)
(* ByteBits.                                                               *)
(***************************************************************************)
EXTENDS Integers, Sequences, FiniteSetsExt, SequencesExt

CONSTANTS LimbBits, ByteBits,    \* bits of a limb and of a byte
          Limbs,                 \* LimbsNum
          Numbers,               \* the values operands and moduli are taken from
          MaxOps                 \* operations on one register

VARIABLES x,                     \* the register, a vector of limbs
          y,                     \* the operand
          shadow,                \* the integer x should be
          ops                    \* operations so far

vars == <<x, y, shadow, ops>>

(* shiftAmount compares with the width in bits, which a limb must hold. *)
WidthFitsLimb == LimbBits * Limbs < 2 ^ LimbBits /\ LimbBits % ByteBits = 0

Base == 2 ^ LimbBits
Bits == LimbBits * Limbs
Width == 2 ^ Bits
Vector(n, len) == [i \in 0..len-1 |-> (n \div Base ^ i) % Base]
Value(v) == MapThenSumSet(LAMBDA i : v[i] * Base ^ i, DOMAIN v)
UpTo(len) == [i \in 1..len |-> i - 1]
Lo(n) == n % Base
Hi(n) == (n \div Base) % Base
Bit(c) == IF c THEN 1 ELSE 0

-----------------------------------------------------------------------------
(* Sums. A narrower operand is read as zero extended. *)

AddCarry(v, w) ==
  FoldLeft(LAMBDA acc, i :
             LET t == v[i] + (IF i \in DOMAIN w THEN w[i] ELSE 0) + acc.c
             IN [v |-> [acc.v EXCEPT ![i] = Lo(t)], c |-> Hi(t)],
           [v |-> v, c |-> 0], UpTo(Limbs))
SubBorrow(v, w) ==
  FoldLeft(LAMBDA acc, i :
             LET t == (IF i \in DOMAIN w THEN w[i] ELSE 0) + acc.c
             IN [v |-> [acc.v EXCEPT ![i] = Lo(v[i] - t)], c |-> Bit(v[i] < t)],
           [v |-> v, c |-> 0], UpTo(Limbs))

(* The carry made by hand of operator+ and operator- in builds by gcc. *)
PlusByHand(v, w) ==
  FoldLeft(LAMBDA acc, i :
             LET sum == Lo(v[i] + w[i])
                 total == Lo(sum + acc.c)
             IN [v |-> [acc.v EXCEPT ![i] = total], c |-> Bit(sum < v[i] \/ total < sum)],
           [v |-> v, c |-> 0], UpTo(Limbs)).v
MinusByHand(v, w) ==
  FoldLeft(LAMBDA acc, i :
             LET difference == Lo(v[i] - w[i])
                 total == Lo(difference - acc.c)
             IN [v |-> [acc.v EXCEPT ![i] = total],
                 c |-> Bit(difference > v[i] \/ total > difference)],
           [v |-> v, c |-> 0], UpTo(Limbs)).v

not_(v) == [i \in DOMAIN v |-> Base - 1 - v[i]]
negate(v) == AddCarry(not_(v), [i \in {0} |-> 1]).v

-----------------------------------------------------------------------------
(* Products. *)

mul64(v, n) ==
  FoldLeft(LAMBDA acc, i :
             LET t == Lo(v[i] * n) + acc.old + acc.c
             IN [v |-> [acc.v EXCEPT ![i] = Lo(t)], old |-> Hi(v[i] * n), c |-> Hi(t)],
           [v |-> v, old |-> 0, c |-> 0], UpTo(Limbs)).v

(* One row of the operand scan: v[i] * n + res[i + j] + carry, never above *)
(* two limbs; len limbs of it are kept. *)
Row(res, v, n, j, len) ==
  FoldLeft(LAMBDA acc, i :
             LET t == v[i] * n + acc.v[i + j] + acc.c
             IN [v |-> [acc.v EXCEPT ![i + j] = Lo(t)], c |-> Hi(t)],
           [v |-> res, c |-> 0], UpTo(len))

product(v, w) ==
  FoldLeft(LAMBDA res, j :
             LET last == Limbs - j - 1
                 row == Row(res, v, w[j], j, last)
             IN [row.v EXCEPT ![Limbs - 1] = Lo(@ + v[last] * w[j] + row.c)],
           Vector(0, Limbs), UpTo(Limbs))

(* The upper half is filled by the carries. *)
wideProduct(v, w) ==
  FoldLeft(LAMBDA res, j :
             LET row == Row(res, v, w[j], j, Limbs)
             IN [row.v EXCEPT ![Limbs + j] = row.c],
           Vector(0, 2 * Limbs), UpTo(Limbs))

-----------------------------------------------------------------------------
(* Shifts, out of a padded copy twice the width. *)

(* Without carryMask the other limb would be shifted by 0, not away. *)
ShiftPair(lo, hi, k) ==
  ((lo \div 2 ^ k) + (IF k = 0 THEN 0 ELSE hi * 2 ^ (LimbBits - k))) % Base

shl(v, shift) ==
  LET p == [i \in 0..2*Limbs-1 |-> IF i < Limbs THEN 0 ELSE v[i - Limbs]]
      at == shift \div LimbBits
      k == shift % LimbBits
      low(i) == p[Limbs + i - at - 1]
  IN IF shift >= Bits THEN Vector(0, Limbs)
     ELSE [i \in 0..Limbs-1 |->
            ((p[Limbs + i - at] * 2 ^ k) % Base)
            + (IF k = 0 THEN 0 ELSE low(i) \div 2 ^ (LimbBits - k))]

Down(v, fill, shift) ==
  LET p == [i \in 0..2*Limbs-1 |-> IF i < Limbs THEN v[i] ELSE fill]
      at == shift \div LimbBits
  IN IF shift >= Bits THEN [i \in 0..Limbs-1 |-> fill]
     ELSE [i \in 0..Limbs-1 |-> ShiftPair(p[i + at], p[i + at + 1], shift % LimbBits)]

isNegative(v) == v[Limbs - 1] >= Base \div 2
shr(v, shift) == Down(v, 0, shift)
sar(v, shift) == Down(v, IF isNegative(v) THEN Base - 1 ELSE 0, shift)

cmp64(v, n) == IF \E i \in 1..Limbs-1 : v[i] /= 0 THEN 1
               ELSE IF v[0] < n THEN -1 ELSE IF v[0] > n THEN 1 ELSE 0

(* A full width shift amount, capped at the width. *)
shiftAmount(v) == IF cmp64(v, Bits) >= 0 THEN Bits ELSE v[0]

signExtend(v, byteIndex) ==
  LET bit == ByteBits * byteIndex + ByteBits - 1
      limb == bit \div LimbBits
      pos == bit % LimbBits
      neg == (v[limb] \div 2 ^ pos) % 2 = 1
      keep == 2 ^ (pos + 1)
  IN IF byteIndex >= Bits \div ByteBits - 1 THEN v
     ELSE [i \in 0..Limbs-1 |->
            IF i < limb THEN v[i]
            ELSE IF i = limb THEN (v[i] % keep) + (IF neg THEN Base - keep ELSE 0)
            ELSE IF neg THEN Base - 1 ELSE 0]

-----------------------------------------------------------------------------
(* Orders, from the top limb down. *)

Differ(v, w) == {i \in 0..Limbs-1 : v[i] /= w[i]}
less(v, w) == LET i == Max({0} \union Differ(v, w)) IN v[i] < w[i]
compare(v, w) == IF Differ(v, w) = {} THEN 0
                 ELSE LET i == Max(Differ(v, w)) IN IF v[i] < w[i] THEN -1 ELSE 1
Flip(v) == [v EXCEPT ![Limbs - 1] = (@ + Base \div 2) % Base]
scmp(v, w) == compare(Flip(v), Flip(w))
sless(v, w) == less(Flip(v), Flip(w))

-----------------------------------------------------------------------------
(* Modular operations. The remainder of a long division is the integer's   *)
(* (UIntDivide).                                                           *)

Remainder(v, m) == Vector(Value(v) % Value(m), Limbs)

addmod(v, w, m) ==
  LET sum == AddCarry(v, w)
      reduced == SubBorrow(sum.v, m)
      wide == [i \in 0..Limbs |-> IF i < Limbs THEN sum.v[i] ELSE sum.c]
  IN IF Value(m) = 0 THEN Vector(0, Limbs)
     ELSE IF less(v, m) /\ less(w, m)
     THEN IF sum.c = 1 \/ reduced.c = 0 THEN reduced.v ELSE sum.v
     ELSE Remainder(wide, m)

mulmod(v, w, m) == IF Value(m) = 0 THEN Vector(0, Limbs) ELSE Remainder(wideProduct(v, w), m)

-----------------------------------------------------------------------------
Init ==
  /\ x \in {Vector(n, Limbs) : n \in Numbers}
  /\ y \in {Vector(n, Limbs) : n \in Numbers}
  /\ shadow = Value(x)
  /\ ops = 0

(* The register takes a result; the shadow what integers would give. *)
Becomes(v, n) ==
  /\ ops < MaxOps
  /\ x' = v
  /\ shadow' = n % Width
  /\ ops' = ops + 1
  /\ UNCHANGED y

Signed(n) == IF 2 * n >= Width THEN n - Width ELSE n
Sum == \/ Becomes(AddCarry(x, y).v, shadow + Value(y))
       \/ Becomes(SubBorrow(x, y).v, shadow - Value(y))
       \/ Becomes(PlusByHand(x, y), shadow + Value(y))
       \/ Becomes(MinusByHand(x, y), shadow - Value(y))
       \/ Becomes(negate(x), -shadow)

Product == \/ Becomes(product(x, y), shadow * Value(y))
           \/ Becomes(mul64(x, y[0]), shadow * y[0])

Shift == LET k == shiftAmount(y)
             amount == Min({Value(y), Bits})
         IN \/ Becomes(shl(x, k), shadow * 2 ^ amount)
            \/ Becomes(shr(x, k), shadow \div 2 ^ amount)
            \/ Becomes(sar(x, k), Signed(shadow) \div 2 ^ amount)

(* The value of the low bytes, as a signed number of that many bytes. *)
Extended(n, len) == LET w == 2 ^ (ByteBits * len)
                    IN IF 2 * (n % w) >= w THEN (n % w) - w ELSE n % w

Extend == Becomes(signExtend(x, shiftAmount(y)),
                  IF ByteBits * (Value(y) + 1) >= Bits THEN shadow
                  ELSE Extended(shadow, Value(y) + 1))

Modular == \E m \in Numbers :
             LET mod == Vector(m, Limbs)
             IN \/ Becomes(addmod(x, y, mod), IF m = 0 THEN 0 ELSE (shadow + Value(y)) % m)
                \/ Becomes(mulmod(x, y, mod), IF m = 0 THEN 0 ELSE (shadow * Value(y)) % m)

Next == Sum \/ Product \/ Shift \/ Extend \/ Modular

Spec == Init /\ [][Next]_vars

-----------------------------------------------------------------------------
(* Every operation leaves the register at the integer result wrapped to the *)
(* width, whatever carries, shifts and products came before: add, sub,      *)
(* operator+ and operator- with their carries by hand, negate, mul64,       *)
(* product, shl, shr, sar, signExtend, addmod (zero modulus and a sum that  *)
(* leaves the width included) and mulmod.                                   *)
RegisterExact == Value(x) = shadow

(* The two orders are those of the unsigned and of the two's complement     *)
(* integers, and less, compare, sless, scmp and cmp64 agree on them.        *)
OrderExact ==
  LET n == Value(x)
      k == Value(y)
      Sign(d) == IF d < 0 THEN -1 ELSE IF d > 0 THEN 1 ELSE 0
  IN /\ compare(x, y) = Sign(n - k) /\ (less(x, y) <=> n < k)
     /\ scmp(x, y) = Sign(Signed(n) - Signed(k)) /\ (sless(x, y) <=> Signed(n) < Signed(k))
     /\ cmp64(x, y[0]) = Sign(n - y[0])

(* wideProduct loses nothing: its limbs, the upper half made of carries     *)
(* alone, are the whole product.                                            *)
WideExact == Value(wideProduct(x, y)) = Value(x) * Value(y)
=============================================================================

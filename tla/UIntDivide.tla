----------------------------- MODULE UIntDivide -----------------------------
(***************************************************************************)
(* Long division of UInt (common/uint.h): divmod, its two ways to a        *)
(* quotient digit (knuthDivide with a one-limb estimate and Knuth's D3     *)
(* correction, knuthReciprocal with a precomputed reciprocal of the top    *)
(* two limbs), the short division for a one-limb divisor, and sdivmod.     *)
(*                                                                         *)
(* A limb has LimbBits bits where the code's has 64, and a number Limbs    *)
(* limbs; all limb arithmetic wraps at Base as the code's does.  The       *)
(* hardware divide and the reciprocal of the other build are both          *)
(* modelled: Recip says which the build has.  Vectors are functions on     *)
(* 0..n-1, least significant limb first, as Data_ is.                      *)
(***************************************************************************)
EXTENDS Integers, Sequences, FiniteSetsExt, SequencesExt

CONSTANTS LimbBits,          \* bits of a limb
          Limbs,             \* LimbsNum
          Thresholds,        \* the values ReciprocalDigits may have in a build
          Samples            \* the dividends of the run

VARIABLES a, b,              \* dividend and divisor as given, never written
          rd, recip,         \* the build: ReciprocalDigits, no hardware divide
          pc,                \* "begin", "digit", "end"
          u, v, s,           \* normalized dividend and divisor, and the shift
          n, j,              \* divisorLimbs; digits still to be found (jj)
          rc,                \* the trial quotients come off a reciprocal
          q, r               \* what the caller gets

vars == <<a, b, rd, recip, pc, u, v, s, n, j, rc, q, r>>

Base == 2 ^ LimbBits
Vector(x, len) == [i \in 0..len-1 |-> (x \div Base ^ i) % Base]
Value(x) == MapThenSumSet(LAMBDA i : x[i] * Base ^ i, DOMAIN x)
Zero == Vector(0, Limbs)
UpTo(len) == [i \in 1..len |-> i - 1]

-----------------------------------------------------------------------------
(* Limbs. *)

Bit(c) == IF c THEN 1 ELSE 0
Wrap(x) == x % Base
(* Two limbs taken as one double limb, least significant first. *)
Lo(x) == x % Base
Hi(x) == (x \div Base) % Base

clz64(x) == LimbBits - (CHOOSE k \in 0..LimbBits : 2 ^ k > x /\ (k = 0 \/ 2 ^ (k - 1) <= x))

(* The significant limbs of a vector. *)
Significant(x) == Max({0} \union {i + 1 : i \in {k \in DOMAIN x : x[k] /= 0}})

(* Subtraction and addition over two limbs, as pairs of subb64 and addc64. *)
Sub2(hi, lo, h, l) == (hi * Base + lo - h * Base - l) % (Base * Base)
Add2(hi, lo, h, l) == (hi * Base + lo + h * Base + l) % (Base * Base)

divmod64(hi, lo, d) == [q |-> (hi * Base + lo) \div d, r |-> (hi * Base + lo) % d]

(* (B^2 - 1) / d - B for a normalized d, by the divide of the build that has *)
(* one; the Newton iteration of the other computes the same limb. *)
reciprocal2by1(d) == divmod64(Base - 1 - d, Base - 1, d).q

divrem2by1(u1, u0, d, w) ==
  LET q0 == w * u1 + u1 * Base + u0
      qlo == Lo(q0)
      q1 == Wrap(Hi(q0) + 1)
      r1 == Wrap(u0 - q1 * d)
      q2 == IF r1 > qlo THEN Wrap(q1 - 1) ELSE q1
      r2 == IF r1 > qlo THEN Wrap(r1 + d) ELSE r1
  IN IF r2 >= d THEN [q |-> Wrap(q2 + 1), r |-> r2 - d] ELSE [q |-> q2, r |-> r2]

reciprocal3by2(d1, d0) ==
  LET w0 == reciprocal2by1(d1)
      p0 == Wrap(d1 * w0 + d0)
      w1 == IF p0 >= d0 THEN w0 ELSE IF p0 >= d1 THEN w0 - 2 ELSE w0 - 1
      p1 == IF p0 >= d0 THEN p0 ELSE IF p0 >= d1 THEN Wrap(p0 - 2 * d1) ELSE Wrap(p0 - d1)
      t == w1 * d0
      p2 == Wrap(p1 + Hi(t))
  IN IF p2 >= Hi(t) THEN w1
     ELSE IF p2 >= d1 /\ (p2 > d1 \/ Lo(t) >= d0) THEN Wrap(w1 - 2) ELSE Wrap(w1 - 1)

divrem3by2(u2, u1, u0, d1, d0, w) ==
  LET q0 == w * u2 + u2 * Base + u1
      qlo == Lo(q0)
      qhi == Hi(q0)
      t == d0 * qhi
      r0 == Sub2(Wrap(u1 - qhi * d1), u0, Hi(t), Lo(t))
      r1 == Sub2(Hi(r0), Lo(r0), d1, d0)
      back == Hi(r1) >= qlo
      q2 == IF back THEN qhi ELSE Wrap(qhi + 1)
      r2 == IF back THEN Add2(Hi(r1), Lo(r1), d1, d0) ELSE r1
  IN IF Hi(r2) > d1 \/ (Hi(r2) = d1 /\ Lo(r2) >= d0)
     THEN [q |-> Wrap(q2 + 1), r |-> Sub2(Hi(r2), Lo(r2), d1, d0)]
     ELSE [q |-> q2, r |-> r2]

-----------------------------------------------------------------------------
(* Vectors: each helper returns the vector and what goes out of the top. *)

submul(x, from, y, len, multiplier) ==
  FoldLeft(LAMBDA acc, i :
             LET old == acc.x[from + i]
                 t == Wrap(old - acc.borrow)
                 p == y[i] * multiplier
                 new == Wrap(t - Lo(p))
             IN [x |-> [acc.x EXCEPT ![from + i] = new],
                 borrow |-> Wrap(Hi(p) + Bit(old < t) + Bit(t < new))],
           [x |-> x, borrow |-> 0], UpTo(len))

addTo(x, from, y, len) ==
  FoldLeft(LAMBDA acc, i :
             LET t == acc.x[from + i] + y[i] + acc.carry
             IN [x |-> [acc.x EXCEPT ![from + i] = Lo(t)], carry |-> Hi(t)],
           [x |-> x, carry |-> 0], UpTo(len))

(* The shift by fewer bits than a limb that normalizes a vector. *)
ShiftUp(x, k, len) == Vector(Value(x) * 2 ^ k, len)

(* Short division from the top limb, by the hardware divide or by the *)
(* reciprocal of the shifted divisor. *)
divmodLimbs(x, d) ==
  LET k == IF recip THEN clz64(d) ELSE 0
      dn == d * 2 ^ k
      w == reciprocal2by1(dn)
      y == ShiftUp(x, k, Limbs + 1)
      Step(acc, i) ==
        LET t == IF recip THEN divrem2by1(acc.r, y[i], dn, w) ELSE divmod64(acc.r, y[i], dn)
        IN [q |-> [acc.q EXCEPT ![i] = t.q], r |-> t.r]
      end == FoldLeft(Step, [q |-> Zero, r |-> y[Limbs]], Reverse(UpTo(Limbs)))
  IN [q |-> end.q, r |-> end.r \div 2 ^ k]

-----------------------------------------------------------------------------
(* The digits. *)

(* Knuth's D3: the estimate is lowered while the next limb of the divisor *)
(* says it is too high; an overflow of rhat ends it. *)
RECURSIVE Corrected(_, _, _)
Corrected(qhat, rhat, low) ==
  IF \/ Hi(qhat * v[n - 2]) < rhat
     \/ Hi(qhat * v[n - 2]) = rhat /\ Lo(qhat * v[n - 2]) <= low
  THEN qhat
  ELSE IF rhat + v[n - 1] >= Base THEN qhat - 1
  ELSE Corrected(qhat - 1, rhat + v[n - 1], low)

Estimate(k) ==
  LET ujn == u[k + n]
      ujn1 == u[k + n - 1]
      top == v[n - 1]
      e == IF recip THEN divrem2by1(ujn, ujn1, top, reciprocal2by1(top))
           ELSE divmod64(ujn, ujn1, top)
  IN IF ujn < top THEN Corrected(e.q, e.r, u[k + n - 2])
     ELSE IF ujn1 + top >= Base THEN Base - 1
     ELSE Corrected(Base - 1, ujn1 + top, u[k + n - 2])

KnuthNoAddBack ==
  LET k == j - 1
      qhat == Estimate(k)
      sub == submul(u, k, v, n, qhat)
  IN /\ u' = [sub.x EXCEPT ![k + n] = Wrap(u[k + n] - sub.borrow)]
     /\ q' = [q EXCEPT ![k] = qhat]

(* One digit of knuthDivide: D4 subtracts, D6 adds the divisor back once. *)
knuthDivide ==
  LET k == j - 1
      qhat == Estimate(k)
      sub == submul(u, k, v, n, qhat)
      top == Wrap(u[k + n] - sub.borrow)
      under == u[k + n] < sub.borrow
      add == addTo(sub.x, k, v, n)
  IN /\ u' = IF under THEN [add.x EXCEPT ![k + n] = Wrap(top + add.carry)]
             ELSE [sub.x EXCEPT ![k + n] = top]
     /\ q' = [q EXCEPT ![k] = IF under THEN Wrap(qhat - 1) ELSE qhat]

(* One digit of knuthReciprocal. *)
knuthReciprocal ==
  LET k == j - 1
      d1 == v[n - 1]
      d0 == v[n - 2]
      whole == submul(u, k, v, n, Base - 1)
      t == divrem3by2(u[k + n], u[k + n - 1], u[k + n - 2], d1, d0, reciprocal3by2(d1, d0))
      sub == submul(u, k, v, n - 2, t.q)
      low == Sub2(Hi(t.r), Lo(t.r), 0, sub.borrow)
      mid == [sub.x EXCEPT ![k + n - 2] = Lo(low), ![k + n - 1] = Hi(low)]
      add == addTo(mid, k, v, n - 1)
  IN IF u[k + n] = d1 /\ u[k + n - 1] = d0
     THEN /\ u' = [whole.x EXCEPT ![k + n] = Wrap(u[k + n] - whole.borrow)]
          /\ q' = [q EXCEPT ![k] = Base - 1]
     ELSE IF t.r < sub.borrow
     THEN /\ u' = [add.x EXCEPT ![k + n - 1] = Wrap(@ + d1 + add.carry)]
          /\ q' = [q EXCEPT ![k] = Wrap(t.q - 1)]
     ELSE /\ u' = mid
          /\ q' = [q EXCEPT ![k] = t.q]

-----------------------------------------------------------------------------
Init ==
  /\ a \in {Vector(x, Limbs) : x \in Samples}
  /\ b \in {Vector(x, Limbs) : x \in 1..Base ^ Limbs - 1}
  /\ rd \in Thresholds
  /\ recip \in BOOLEAN
  /\ pc = "begin"
  /\ u = Vector(0, Limbs + 1) /\ v = Zero /\ s = 0
  /\ n = 0 /\ j = 0 /\ rc = FALSE
  /\ q = Zero /\ r = Zero

(* The exits of divmod before the long division. *)
Short ==
  /\ pc = "begin"
  /\ Significant(a) = 0 \/ Significant(b) = 1 \/ Significant(a) < Significant(b)
  /\ IF Significant(a) = 0 THEN q' = Zero /\ r' = Zero
     ELSE IF Significant(b) = 1
     THEN LET t == divmodLimbs(a, b[0]) IN q' = t.q /\ r' = Vector(t.r, Limbs)
     ELSE q' = Zero /\ r' = a
  /\ pc' = "end"
  /\ UNCHANGED <<a, b, rd, recip, u, v, s, n, j, rc>>

(* Normalization, and the choice of the way the digits are found. *)
Normalize ==
  /\ pc = "begin"
  /\ Significant(b) >= 2 /\ Significant(a) >= Significant(b)
  /\ n' = Significant(b)
  /\ s' = clz64(b[n' - 1])
  /\ u' = ShiftUp(a, s', Limbs + 1)
  /\ v' = ShiftUp(b, s', Limbs)
  /\ q' = Zero
  /\ j' = Significant(a) - n' + 1
  /\ rc' = (Limbs >= rd + 1 /\ j' >= rd)
  /\ pc' = "digit"
  /\ UNCHANGED <<a, b, rd, recip, r>>

ByEstimate ==
  /\ pc = "digit" /\ j > 0 /\ ~rc
  /\ knuthDivide
  /\ j' = j - 1
  /\ UNCHANGED <<a, b, rd, recip, pc, v, s, n, rc, r>>

ByReciprocal ==
  /\ pc = "digit" /\ j > 0 /\ rc
  /\ knuthReciprocal
  /\ j' = j - 1
  /\ UNCHANGED <<a, b, rd, recip, pc, v, s, n, rc, r>>

(* The remainder is the low n limbs, shifted back. *)
Denormalize ==
  /\ pc = "digit" /\ j = 0
  /\ r' = Vector(Value([i \in 0..n-1 |-> u[i]]) \div 2 ^ s, Limbs)
  /\ pc' = "end"
  /\ UNCHANGED <<a, b, rd, recip, u, v, s, n, j, rc, q>>

Next == Short \/ Normalize \/ ByEstimate \/ ByReciprocal \/ Denormalize

Spec == Init /\ [][Next]_vars
-----------------------------------------------------------------------------
(* sdivmod divides the magnitudes and gives the quotient the sign of the   *)
(* operands, the remainder the sign of the dividend.                       *)
Width == Base ^ Limbs
negate(x) == Vector((Width - Value(x)) % Width, Limbs)
SignedInt(x) == IF 2 * Value(x) >= Width THEN Value(x) - Width ELSE Value(x)
sdivmod(p, d, neg, dneg) == [q |-> IF neg /= dneg THEN negate(p) ELSE p,
                             r |-> IF neg THEN negate(d) ELSE d]
(* A magnitude a number of that sign can have. *)
Magnitude(x, neg) == IF neg THEN x > 0 /\ 2 * x <= Width ELSE 2 * x < Width

-----------------------------------------------------------------------------
(* Every limb is a limb, and the counts stay within the vectors. *)
TypeOK ==
  /\ u \in [0..Limbs -> 0..Base-1] /\ v \in [0..Limbs-1 -> 0..Base-1]
  /\ q \in [0..Limbs-1 -> 0..Base-1] /\ r \in [0..Limbs-1 -> 0..Base-1]
  /\ n + j <= Limbs + 1

(* Between two digits of knuthDivide or knuthReciprocal what is left of the *)
(* normalized dividend, the digits found and the divisor make up the        *)
(* dividend, and what is left is below the divisor at the next digit: so    *)
(* the next digit fits a limb, whichever way it is estimated, and one       *)
(* add-back (D6) was enough.  knuthReciprocal leaves the limb above         *)
(* unwritten, so only the limbs that are read again count.                  *)
DigitsExact ==
  pc = "digit" =>
    LET rest == Value([i \in 0..j+n-1 |-> u[i]])
    IN /\ Value(a) * 2 ^ s = Value(q) * Value(v) + rest
       /\ rest < Value(v) * Base ^ j

(* divmod answers the quotient and the remainder of the integers, by every  *)
(* one of its exits and for every divisor but zero.                         *)
DivExact ==
  pc = "end" =>
    /\ Value(a) = Value(q) * Value(b) + Value(r)
    /\ Value(r) < Value(b)

(* sdivmod truncates towards zero and its remainder has the sign of the     *)
(* dividend; only the smallest number divided by -1 wraps.                  *)
SignedExact ==
  pc = "end" =>
    \A neg, dneg \in BOOLEAN :
      (Magnitude(Value(a), neg) /\ Magnitude(Value(b), dneg)) =>
        LET x == IF neg THEN -Value(a) ELSE Value(a)
            y == IF dneg THEN -Value(b) ELSE Value(b)
            res == sdivmod(q, r, neg, dneg)
        IN /\ SignedInt(res.q) * y + SignedInt(res.r) = x
              \/ (y = -1 /\ 2 * x = -Width /\ SignedInt(res.q) = x /\ SignedInt(res.r) = 0)
           /\ Value(res.r) /= 0 => (SignedInt(res.r) < 0 <=> x < 0)

=============================================================================

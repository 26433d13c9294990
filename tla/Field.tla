-------------------------------- MODULE Field --------------------------------
(***************************************************************************)
(* The field of curve25519 in limbs (fe.c, fe25519.c). The program has     *)
(* p = 2^255 - 19 in 8 limbs of 32 bits and carries in words of 64 bits;   *)
(* here the number and the size of the limbs are parameters, words have    *)
(* twice the size of a limb and drop what does not fit, and the prime is   *)
(* one bit shorter than the limbs, less 19, as it is there. Results of     *)
(* operations need not be reduced: only fe25519_tobytes subtracts p, once. *)
(***************************************************************************)
EXTENDS Integers, FiniteSets, FiniteSetsExt, Sequences

CONSTANTS Limbs,      \* 8
          LimbBits,   \* 32
          Mul24       \* the curve's constant, 121666

(* What the constants must be like. *)
FieldParameters ==
  /\ Limbs \in Nat \ {0} /\ LimbBits \in Nat \ {0, 1}
  /\ Mul24 \in 1..(2^LimbBits - 1)

Index == 0..(Limbs - 1)
Limb == 2^LimbBits
Word64(u) == u % Limb^2
Prime == 2^(Limbs * LimbBits - 1) - 19
Fe == [Index -> 0..(Limb - 1)]

Number(x) == MapThenSumSet(LAMBDA i : x[i] * Limb^i, DOMAIN x)
LimbsOf(v) == [i \in Index |-> (v \div Limb^i) % Limb]
p == LimbsOf(Prime)

(* The last index before i, and the loops' carry: what is left of u after limb
   i has been taken off. *)
Carried(t, u0) ==
  LET u[i \in -1..(Limbs - 1)] == IF i = -1 THEN u0 ELSE Word64(u[i - 1] + t[i]) \div Limb
  IN [i \in Index |-> Word64(u[i - 1] + t[i]) % Limb]

fe_mul_(a, b) ==
  [k \in 0..(2 * Limbs - 1) |->
     Word64(MapThenSumSet(LAMBDA i : (IF k - i \in Index THEN (a[i] * b[k - i]) % Limb ELSE 0)
                                     + (IF k - 1 - i \in Index THEN (a[i] * b[k - 1 - i]) \div Limb ELSE 0),
                          Index))]

(* Each pair of different limbs once, and doubled. *)
fe_sq_(a) ==
  LET times(i, j) == IF i = j THEN 1 ELSE 2
      pairs == {<<i, j>> \in Index \X Index : i <= j}
  IN [k \in 0..(2 * Limbs - 1) |->
        Word64(MapThenSumSet(LAMBDA s : times(s[1], s[2]) *
                                        ((IF s[1] + s[2] = k THEN (a[s[1]] * a[s[2]]) % Limb ELSE 0)
                                         + (IF s[1] + s[2] + 1 = k THEN (a[s[1]] * a[s[2]]) \div Limb ELSE 0)),
                             pairs))]

(* The end of every operation: the limbs are carried, what is above the prime's
   bits is taken off the last one, and 19 times that is added at the bottom. *)
Squeeze(t) ==
  LET u[i \in -1..(Limbs - 1)] == IF i = -1 THEN 0 ELSE Word64(u[i - 1] + t[i]) \div Limb
      top == Word64(u[Limbs - 2] + t[Limbs - 1])
      low == [i \in Index |-> IF i = Limbs - 1 THEN top % (Limb \div 2) ELSE Word64(u[i - 1] + t[i]) % Limb]
  IN Carried(low, Word64((top \div (Limb \div 2)) * 19))

fe25519_reducebig(t) == Squeeze([i \in Index |-> Word64(t[i] + 38 * t[i + Limbs])])

fe25519_mul(a, b) == fe25519_reducebig(fe_mul_(a, b))
fe25519_sq(a) == fe25519_reducebig(fe_sq_(a))
fe25519_mul121666(f) == Squeeze([i \in Index |-> Word64(Mul24 * f[i])])
fe25519_add(x, y) == Squeeze([i \in Index |-> x[i] + y[i]])

(* Three times the prime keeps every limb of the difference from going below 0. *)
fe25519_sub(x, y) == Squeeze([i \in Index |-> Word64(3 * p[i] - y[i] + x[i])])
fe25519_neg(x) == fe25519_sub([i \in Index |-> 0], x)

(* r - m if that is not negative, or else r. *)
fe_reducesmall(r, m) ==
  LET borrow[i \in -1..(Limbs - 1)] ==
        IF i = -1 THEN 0
        ELSE Word64(r[i] - borrow[i - 1] - m[i]) \div (Limb^2 \div 2)
      t == [i \in Index |-> Word64(r[i] - borrow[i - 1] - m[i] + borrow[i] * Limb) % Limb]
  IN IF borrow[Limbs - 1] = 1 THEN r ELSE t

fe25519_tobytes_slip(in) == in
fe25519_tobytes(in) == fe_reducesmall(in, p)

fe25519_frombytes(s) == [s EXCEPT ![Limbs - 1] = @ % (Limb \div 2)]

fe25519_isnonzero(f) == fe25519_tobytes(f) # [i \in Index |-> 0]
fe25519_isnegative(f) == fe25519_tobytes(f)[0] % 2

-----------------------------------------------------------------------------
(* Inversion and the square root's power, as chains of products and of runs of
   squarings. A power of z is its exponent, and an exponent is the set of its
   bits: squaring n times moves them up, and a product of two with no common
   bit joins them. *)
times(x, n) == {i + n : i \in x}
mul(x, y) == IF x \cap y = {} THEN x \cup y ELSE {-1}

fe25519_inv(z) ==
  LET z2 == times(z, 1)
      z9 == mul(z, times(z2, 2))
      z11 == mul(z2, z9)
      e5 == mul(z9, times(z11, 1))
      e10 == mul(times(e5, 5), e5)
      e20 == mul(times(e10, 10), e10)
      e40 == mul(times(e20, 20), e20)
      e50 == mul(times(e40, 10), e10)
      e100 == mul(times(e50, 50), e50)
      e200 == mul(times(e100, 100), e100)
      e250 == mul(times(e200, 50), e50)
  IN mul(times(e250, 5), z11)

fe25519_pow22523(z) ==
  LET z2 == times(z, 1)
      z9 == mul(z, times(z2, 2))
      e5 == mul(z9, times(mul(z2, z9), 1))
      e10 == mul(times(e5, 5), e5)
      e20 == mul(times(e10, 10), e10)
      e40 == mul(times(e20, 20), e20)
      e50 == mul(times(e40, 10), e10)
      e100 == mul(times(e50, 50), e50)
      e200 == mul(times(e100, 100), e100)
      e250 == mul(times(e200, 50), e50)
  IN mul(times(e250, 2), z)

-----------------------------------------------------------------------------
(* What these promise, for one input. *)

(* Every operation gives the field's answer for limbs of any value, and leaves
   it below twice the prime, so that the one subtraction in fe25519_tobytes
   always makes it canonical: what is compared and hashed is unique. *)
FieldRight(x, y) ==
  LET ok(o, v) == /\ Number(o) % Prime = v % Prime
                  /\ Number(o) < 2 * Prime
                  /\ Number(fe25519_tobytes(o)) = v % Prime
      a == Number(x) % Prime
      b == Number(y) % Prime
  IN /\ ok(fe25519_mul(x, y), a * b) /\ ok(fe25519_sq(x), a * a)
     /\ ok(fe25519_add(x, y), a + b) /\ ok(fe25519_sub(x, y), a - b)
     /\ ok(fe25519_neg(x), -a) /\ ok(fe25519_mul121666(x), Mul24 * a)
     /\ ok(fe25519_frombytes(x), Number(x) % 2^(Limbs * LimbBits - 1))
     /\ fe25519_isnonzero(fe25519_sub(x, y)) <=> (a # b)
     /\ fe25519_isnegative(fe25519_add(x, y)) = ((a + b) % Prime) % 2

(* Inversion raises to 2^255 - 21, which is p - 2, and the square root to
   2^252 - 3, which is (p - 5)/8. *)
ChainsRight ==
  /\ fe25519_inv({0}) = (0..254) \ {2, 4}
  /\ fe25519_pow22523({0}) = (0..251) \ {1}
=============================================================================

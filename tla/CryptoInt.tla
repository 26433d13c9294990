------------------------------ MODULE CryptoInt ------------------------------
(***************************************************************************)
(* Constant-time integers (cryptoint/crypto_intN.h and crypto_uintN.h, the *)
(* templates the headers for 8, 16, 32 and 64 bits are generated from).    *)
(*                                                                         *)
(* A word is the set of its bits that are 1; arithmetic is modulo 2^N      *)
(* (the build uses -fwrapv). Each function has one body per kind of        *)
(* machine, chosen by the preprocessor: "select" sets flags and selects    *)
(* (amd64, arm64), "carry" computes with a carry or shifts only (sparc32,  *)
(* arm32), and "portable" is the C code for every other machine. The words *)
(* a 32-bit machine keeps in two registers are one word here. The optimi-  *)
(* zation blocker is a variable that holds 0 and is left out.              *)
(***************************************************************************)
EXTENDS Integers, FiniteSets, FiniteSetsExt, Sequences

CONSTANT N   \* the width in bits

(* 2^i, defined so that one can argue about any i. *)
Power[i \in 0..N] == IF i = 0 THEN 1 ELSE 2 * Power[i - 1]

(* What the constants must be like. *)
CryptoIntParameters == N \in Nat /\ N >= 8 /\ \E l \in 0..N : Power[l] = N

Bits == 0..(N - 1)
Words == SUBSET Bits
Zero == {}
One == {0}
Ones == Bits
Top == {N - 1}

(* The sum of the bits, from the lowest one up. *)
Value(x) ==
  LET f[i \in 0..N] == IF i = 0 THEN 0 ELSE f[i - 1] + (IF i - 1 \in x THEN Power[i - 1] ELSE 0)
  IN f[N]
Signed(x) == IF N - 1 \in x THEN Value(x) - Power[N] ELSE Value(x)
Word(v) == {i \in Bits : (v \div Power[i]) % 2 = 1}

Xor(x, y) == (x \ y) \cup (y \ x)
Not(x) == Bits \ x
Plus(x, y) == Word((Value(x) + Value(y)) % Power[N])
Minus(x, y) == Word((Value(x) - Value(y) + Power[N]) % Power[N])
Neg(x) == Minus(Zero, x)
Shl(x, k) == {i \in Bits : i - k \in x}
Shr(x, k) == {i \in Bits : i + k \in x}
Sar(x, k) == {i \in Bits : IF i + k < N THEN i + k \in x ELSE N - 1 \in x}
Flag(c) == IF c THEN Ones ELSE Zero
Bit(c) == IF c THEN One ELSE Zero
(* What a shift instruction makes of its count: only the low bits count. *)
Count(s) == Value(s) % N
Octets == 0..(N \div 8 - 1)

-----------------------------------------------------------------------------
(* crypto_intN.h *)

crypto_int_load(s) == UNION {{8 * k + i : i \in s[k + 1]} : k \in Octets}

crypto_int_load_bigendian(s) == UNION {{N - 8 - 8 * k + i : i \in s[k + 1]} : k \in Octets}

crypto_int_store(x) == [k \in 1..(N \div 8) |-> Sar(x, 8 * (k - 1)) \cap 0..7]

crypto_int_store_bigendian(x) == [k \in 1..(N \div 8) |-> Sar(x, N - 8 * k) \cap 0..7]

crypto_int_negative_mask(b, x) ==
  IF b = "portable" THEN Sar(Sar(x, N - 6), 5) ELSE Sar(x, N - 1)

crypto_int_unsigned_topbit_01(b, x) ==
  CASE b = "portable" -> Shr(Shr(x, N - 6), 5)
    [] b = "select" -> Shr(x, N - 1) \cap One
    [] b = "carry" -> Shr(x, N - 1)

crypto_int_negative_01(b, x) == crypto_int_unsigned_topbit_01(b, x)
crypto_int_topbit_mask(b, x) == crypto_int_negative_mask(b, x)
crypto_int_topbit_01(b, x) == crypto_int_unsigned_topbit_01(b, x)

crypto_int_bottombit_mask(b, x) == Neg(x \cap One)
crypto_int_bottombit_01(b, x) == x \cap One

(* The position is public and in range. *)
crypto_int_bitinrangepublicpos_mask(b, x, s) == crypto_int_bottombit_mask(b, Sar(x, Value(s)))
crypto_int_bitinrangepublicpos_01(b, x, s) == crypto_int_bottombit_01(b, Sar(x, Value(s)))

crypto_int_shlmod(b, x, s) ==
  IF b # "portable" THEN Shl(x, Count(s))
  ELSE LET f[l \in 0..N] ==   \* the first l bits of s have been used
             IF l = 0 THEN x
             ELSE LET y == f[l - 1]
                  IN Xor(y, Xor(y, Shl(y, Power[l - 1]))
                              \cap crypto_int_bitinrangepublicpos_mask(b, s, Word(l - 1)))
       IN f[CHOOSE l \in 0..N : Power[l] = N]

crypto_int_shrmod_slip(b, x, s) ==
  LET f[l \in 0..N] ==
        IF l = 0 THEN x
        ELSE LET y == f[l - 1]
             IN Xor(y, Xor(y, Shr(y, Power[l - 1]))
                         \cap crypto_int_bitinrangepublicpos_mask(b, s, Word(l - 1)))
  IN f[CHOOSE l \in 0..N : Power[l] = N]

crypto_int_shrmod(b, x, s) ==
  IF b # "portable" THEN Sar(x, Count(s))
  ELSE LET f[l \in 0..N] ==   \* the first l bits of s have been used
             IF l = 0 THEN x
             ELSE LET y == f[l - 1]
                  IN Xor(y, Xor(y, Sar(y, Power[l - 1]))
                              \cap crypto_int_bitinrangepublicpos_mask(b, s, Word(l - 1)))
       IN f[CHOOSE l \in 0..N : Power[l] = N]

crypto_int_bitmod_mask(b, x, s) == crypto_int_bottombit_mask(b, crypto_int_shrmod(b, x, s))
crypto_int_bitmod_01(b, x, s) == crypto_int_bottombit_01(b, crypto_int_shrmod(b, x, s))

crypto_int_nonzero_mask(b, x) ==
  CASE b = "portable" -> crypto_int_negative_mask(b, x \cup Neg(x))
    [] b = "select" -> Flag(x # Zero)
    [] b = "carry" -> Neg(Bit(0 < Value(x)))       \* 0 - x; z = -carry
crypto_int_nonzero_01(b, x) ==
  CASE b = "portable" -> crypto_int_unsigned_topbit_01(b, x \cup Neg(x))
    [] b = "select" -> Bit(x # Zero)
    [] b = "carry" -> Bit(0 < Value(x))

crypto_int_positive_mask(b, x) ==
  CASE b = "portable" -> LET z == Neg(x) IN crypto_int_negative_mask(b, Xor(z, x \cap z))
    [] b = "select" -> Flag(Signed(x) > 0)
    [] b = "carry" -> Sar(Minus(Sar(x, N - 1), x), N - 1)
crypto_int_positive_01(b, x) ==
  CASE b = "portable" -> LET z == Neg(x) IN crypto_int_unsigned_topbit_01(b, Xor(z, x \cap z))
    [] b = "select" -> Bit(Signed(x) > 0)
    [] b = "carry" -> Shr(Minus(Sar(x, N - 1), x), N - 1)

crypto_int_zero_mask(b, x) ==
  CASE b = "portable" -> Not(crypto_int_nonzero_mask(b, x))
    [] b = "select" -> Flag(x = Zero)
    [] b = "carry" -> Minus(Bit(0 < Value(x)), One)
crypto_int_zero_01(b, x) ==
  CASE b = "portable" -> Minus(One, crypto_int_nonzero_01(b, x))
    [] b = "select" -> Bit(x = Zero)
    [] b = "carry" -> Minus(One, Bit(0 < Value(x)))

crypto_int_unequal_mask(b, x, y) ==
  IF b = "select" THEN Flag(x # y) ELSE crypto_int_nonzero_mask(b, Xor(x, y))
crypto_int_unequal_01(b, x, y) ==
  IF b = "select" THEN Bit(x # y) ELSE crypto_int_nonzero_01(b, Xor(x, y))
crypto_int_equal_mask(b, x, y) ==
  IF b = "select" THEN Flag(x = y) ELSE crypto_int_zero_mask(b, Xor(x, y))
crypto_int_equal_01(b, x, y) ==
  IF b = "select" THEN Bit(x = y) ELSE crypto_int_zero_01(b, Xor(x, y))

(* The sign of the difference, corrected where it overflowed. *)
crypto_int_borrow(x, y) ==
  LET z == Minus(x, y) IN Xor(z, Xor(x, y) \cap Xor(z, x))

crypto_int_min(b, x, y) ==
  IF b = "select" THEN IF Signed(x) > Signed(y) THEN y ELSE x
  ELSE Xor(x, crypto_int_negative_mask(b, crypto_int_borrow(y, x)) \cap Xor(y, x))
crypto_int_max(b, x, y) ==
  IF b = "select" THEN IF Signed(x) < Signed(y) THEN y ELSE x
  ELSE Xor(y, crypto_int_negative_mask(b, crypto_int_borrow(y, x)) \cap Xor(y, x))
crypto_int_minmax(b, x, y) ==
  IF b = "select" THEN IF Signed(x) > Signed(y) THEN <<y, x>> ELSE <<x, y>>
  ELSE LET z == crypto_int_negative_mask(b, crypto_int_borrow(y, x)) \cap Xor(y, x) IN <<Xor(x, z), Xor(y, z)>>

crypto_int_smaller_mask(b, x, y) ==
  IF b = "select" THEN Flag(Signed(x) < Signed(y)) ELSE crypto_int_negative_mask(b, crypto_int_borrow(x, y))
crypto_int_smaller_01(b, x, y) ==
  IF b = "select" THEN Bit(Signed(x) < Signed(y)) ELSE crypto_int_unsigned_topbit_01(b, crypto_int_borrow(x, y))
crypto_int_leq_mask(b, x, y) ==
  IF b = "select" THEN Flag(Signed(x) <= Signed(y)) ELSE Not(crypto_int_smaller_mask(b, y, x))
crypto_int_leq_01(b, x, y) ==
  IF b = "select" THEN Bit(Signed(x) <= Signed(y)) ELSE Minus(One, crypto_int_smaller_01(b, y, x))

(* Pairs, then nibbles, then bytes are added up side by side. *)
crypto_int_ones_num(x) ==
  LET lanes(w) == {i \in Bits : i % (2 * w) < w}
      a == Minus(x, Shr(x, 1) \cap lanes(1))
      c == Plus(a \cap lanes(2), Shr(a, 2) \cap lanes(2))
      d == Plus(c, Shr(c, 4)) \cap lanes(4)
      f[k \in 0..N] == IF Power[k] >= N THEN d ELSE LET e == f[k + 1] IN Plus(e, Shr(e, Power[k]))
  IN Value(f[3] \cap 0..7)

crypto_int_bottomzeros_num(b, x) ==
  IF b = "select" THEN IF x = Zero THEN N ELSE Min(x)
  ELSE crypto_int_ones_num(Sar(Xor(x, Minus(x, One)), 1) \ (x \cap Top))

-----------------------------------------------------------------------------
(* crypto_uintN.h *)

crypto_uint_load(s) == UNION {{8 * k + i : i \in s[k + 1]} : k \in Octets}

crypto_uint_load_bigendian(s) == UNION {{N - 8 - 8 * k + i : i \in s[k + 1]} : k \in Octets}

crypto_uint_store(x) == [k \in 1..(N \div 8) |-> Shr(x, 8 * (k - 1)) \cap 0..7]

crypto_uint_store_bigendian(x) == [k \in 1..(N \div 8) |-> Shr(x, N - 8 * k) \cap 0..7]

crypto_uint_signed_negative_mask(b, x) ==
  IF b = "portable" THEN Sar(Sar(x, N - 6), 5) ELSE Sar(x, N - 1)

crypto_uint_topbit_01(b, x) ==
  CASE b = "portable" -> Shr(Shr(x, N - 6), 5)
    [] b = "select" -> Shr(x, N - 1) \cap One
    [] b = "carry" -> Shr(x, N - 1)

crypto_uint_topbit_mask(b, x) == crypto_uint_signed_negative_mask(b, x)

crypto_uint_bottombit_mask(b, x) == Neg(x \cap One)
crypto_uint_bottombit_01(b, x) == x \cap One

(* The position is public and in range. *)
crypto_uint_bitinrangepublicpos_mask(b, x, s) == crypto_uint_bottombit_mask(b, Shr(x, Value(s)))
crypto_uint_bitinrangepublicpos_01(b, x, s) == crypto_uint_bottombit_01(b, Shr(x, Value(s)))

crypto_uint_shlmod(b, x, s) ==
  IF b # "portable" THEN Shl(x, Count(s))
  ELSE LET f[l \in 0..N] ==   \* the first l bits of s have been used
             IF l = 0 THEN x
             ELSE LET y == f[l - 1]
                  IN Xor(y, Xor(y, Shl(y, Power[l - 1]))
                              \cap crypto_uint_bitinrangepublicpos_mask(b, s, Word(l - 1)))
       IN f[CHOOSE l \in 0..N : Power[l] = N]

crypto_uint_shrmod(b, x, s) ==
  IF b # "portable" THEN Shr(x, Count(s))
  ELSE LET f[l \in 0..N] ==   \* the first l bits of s have been used
             IF l = 0 THEN x
             ELSE LET y == f[l - 1]
                  IN Xor(y, Xor(y, Shr(y, Power[l - 1]))
                              \cap crypto_uint_bitinrangepublicpos_mask(b, s, Word(l - 1)))
       IN f[CHOOSE l \in 0..N : Power[l] = N]

crypto_uint_bitmod_mask(b, x, s) == crypto_uint_bottombit_mask(b, crypto_uint_shrmod(b, x, s))
crypto_uint_bitmod_01(b, x, s) == crypto_uint_bottombit_01(b, crypto_uint_shrmod(b, x, s))

crypto_uint_nonzero_mask(b, x) ==
  CASE b = "portable" -> crypto_uint_signed_negative_mask(b, x \cup Neg(x))
    [] b = "select" -> Flag(x # Zero)
    [] b = "carry" -> Neg(Bit(0 < Value(x)))       \* 0 - x; z = -carry
crypto_uint_nonzero_01(b, x) ==
  CASE b = "portable" -> crypto_uint_topbit_01(b, x \cup Neg(x))
    [] b = "select" -> Bit(x # Zero)
    [] b = "carry" -> Bit(0 < Value(x))

crypto_uint_zero_mask(b, x) ==
  CASE b = "portable" -> Not(crypto_uint_nonzero_mask(b, x))
    [] b = "select" -> Flag(x = Zero)
    [] b = "carry" -> Minus(Bit(0 < Value(x)), One)
crypto_uint_zero_01(b, x) ==
  CASE b = "portable" -> Minus(One, crypto_uint_nonzero_01(b, x))
    [] b = "select" -> Bit(x = Zero)
    [] b = "carry" -> Minus(One, Bit(0 < Value(x)))

crypto_uint_unequal_mask(b, x, y) ==
  IF b = "select" THEN Flag(x # y) ELSE crypto_uint_nonzero_mask(b, Xor(x, y))
crypto_uint_unequal_01(b, x, y) ==
  IF b = "select" THEN Bit(x # y) ELSE crypto_uint_nonzero_01(b, Xor(x, y))
crypto_uint_equal_mask(b, x, y) ==
  IF b = "select" THEN Flag(x = y) ELSE crypto_uint_zero_mask(b, Xor(x, y))
crypto_uint_equal_01(b, x, y) ==
  IF b = "select" THEN Bit(x = y) ELSE crypto_uint_zero_01(b, Xor(x, y))

(* The sign of the difference, corrected where it overflowed. *)
crypto_uint_borrow(x, y) ==
  LET z == Minus(x, y) IN Xor(z, Xor(x, y) \cap Xor(Xor(z, x), Top))

crypto_uint_min(b, x, y) ==
  IF b = "select" THEN IF Value(x) > Value(y) THEN y ELSE x
  ELSE Xor(x, crypto_uint_signed_negative_mask(b, crypto_uint_borrow(y, x)) \cap Xor(y, x))
crypto_uint_max(b, x, y) ==
  IF b = "select" THEN IF Value(x) < Value(y) THEN y ELSE x
  ELSE Xor(y, crypto_uint_signed_negative_mask(b, crypto_uint_borrow(y, x)) \cap Xor(y, x))
crypto_uint_minmax(b, x, y) ==
  IF b = "select" THEN IF Value(x) > Value(y) THEN <<y, x>> ELSE <<x, y>>
  ELSE LET z == crypto_uint_signed_negative_mask(b, crypto_uint_borrow(y, x)) \cap Xor(y, x) IN <<Xor(x, z), Xor(y, z)>>

crypto_uint_smaller_mask(b, x, y) ==
  IF b = "select" THEN Flag(Value(x) < Value(y)) ELSE crypto_uint_signed_negative_mask(b, crypto_uint_borrow(x, y))
crypto_uint_smaller_01(b, x, y) ==
  IF b = "select" THEN Bit(Value(x) < Value(y)) ELSE crypto_uint_topbit_01(b, crypto_uint_borrow(x, y))
crypto_uint_leq_mask(b, x, y) ==
  IF b = "select" THEN Flag(Value(x) <= Value(y)) ELSE Not(crypto_uint_smaller_mask(b, y, x))
crypto_uint_leq_01(b, x, y) ==
  IF b = "select" THEN Bit(Value(x) <= Value(y)) ELSE Minus(One, crypto_uint_smaller_01(b, y, x))

(* Pairs, then nibbles, then bytes are added up side by side. *)
crypto_uint_ones_num(x) ==
  LET lanes(w) == {i \in Bits : i % (2 * w) < w}
      a == Minus(x, Shr(x, 1) \cap lanes(1))
      c == Plus(a \cap lanes(2), Shr(a, 2) \cap lanes(2))
      d == Plus(c, Shr(c, 4)) \cap lanes(4)
      f[k \in 0..N] == IF Power[k] >= N THEN d ELSE LET e == f[k + 1] IN Plus(e, Shr(e, Power[k]))
  IN Value(f[3] \cap 0..7)

crypto_uint_bottomzeros_num(b, x) ==
  IF b = "select" THEN IF x = Zero THEN N ELSE Min(x)
  ELSE crypto_uint_ones_num(Sar(Xor(x, Minus(x, One)), 1) \ (x \cap Top))

-----------------------------------------------------------------------------
(* What the names promise, for one input and one kind of machine. *)
Builds == {"portable", "carry", "select"}

(* Each mask is all ones or all zeros and each 01 is 1 or 0, as the condition
   in its name holds of the numbers, signed or not. *)
MasksRight(b, x, y) ==
  /\ \A f \in {
         <<crypto_int_negative_mask(b, x), crypto_int_negative_01(b, x), Signed(x) < 0>>,
         <<crypto_int_topbit_mask(b, x), crypto_int_topbit_01(b, x), N - 1 \in x>>,
         <<crypto_int_bottombit_mask(b, x), crypto_int_bottombit_01(b, x), Value(x) % 2 = 1>>,
         <<crypto_int_bitmod_mask(b, x, y), crypto_int_bitmod_01(b, x, y), Count(y) \in x>>,
         <<crypto_int_nonzero_mask(b, x), crypto_int_nonzero_01(b, x), Value(x) # 0>>,
         <<crypto_int_positive_mask(b, x), crypto_int_positive_01(b, x), Signed(x) > 0>>,
         <<crypto_int_zero_mask(b, x), crypto_int_zero_01(b, x), Value(x) = 0>>,
         <<crypto_int_unequal_mask(b, x, y), crypto_int_unequal_01(b, x, y), x # y>>,
         <<crypto_int_equal_mask(b, x, y), crypto_int_equal_01(b, x, y), x = y>>,
         <<crypto_int_smaller_mask(b, x, y), crypto_int_smaller_01(b, x, y), Signed(x) < Signed(y)>>,
         <<crypto_int_leq_mask(b, x, y), crypto_int_leq_01(b, x, y), Signed(x) <= Signed(y)>>,
         <<crypto_uint_topbit_mask(b, x), crypto_uint_topbit_01(b, x), N - 1 \in x>>,
         <<crypto_uint_bottombit_mask(b, x), crypto_uint_bottombit_01(b, x), Value(x) % 2 = 1>>,
         <<crypto_uint_bitmod_mask(b, x, y), crypto_uint_bitmod_01(b, x, y), Count(y) \in x>>,
         <<crypto_uint_nonzero_mask(b, x), crypto_uint_nonzero_01(b, x), Value(x) # 0>>,
         <<crypto_uint_zero_mask(b, x), crypto_uint_zero_01(b, x), Value(x) = 0>>,
         <<crypto_uint_unequal_mask(b, x, y), crypto_uint_unequal_01(b, x, y), x # y>>,
         <<crypto_uint_equal_mask(b, x, y), crypto_uint_equal_01(b, x, y), x = y>>,
         <<crypto_uint_smaller_mask(b, x, y), crypto_uint_smaller_01(b, x, y), Value(x) < Value(y)>>,
         <<crypto_uint_leq_mask(b, x, y), crypto_uint_leq_01(b, x, y), Value(x) <= Value(y)>>} :
       f[1] = Flag(f[3]) /\ f[2] = Bit(f[3])

(* Minimum and maximum order the numbers, also where their difference
   overflows. *)
MinMaxRight(b, x, y) ==
  LET lo == IF Signed(x) < Signed(y) THEN x ELSE y
      hi == IF Signed(x) < Signed(y) THEN y ELSE x
      ulo == IF Value(x) < Value(y) THEN x ELSE y
      uhi == IF Value(x) < Value(y) THEN y ELSE x
  IN /\ crypto_int_min(b, x, y) = lo /\ crypto_int_max(b, x, y) = hi
     /\ crypto_int_minmax(b, x, y) = <<lo, hi>>
     /\ crypto_uint_min(b, x, y) = ulo /\ crypto_uint_max(b, x, y) = uhi
     /\ crypto_uint_minmax(b, x, y) = <<ulo, uhi>>

(* A shift by a secret amount is the shift by that amount modulo the width:
   down, a signed number is divided, rounding down. *)
ShiftsRight(b, x, s) ==
  /\ Value(crypto_int_shlmod(b, x, s)) = (Value(x) * Power[Count(s)]) % Power[N]
  /\ Value(crypto_uint_shlmod(b, x, s)) = (Value(x) * Power[Count(s)]) % Power[N]
  /\ Signed(crypto_int_shrmod(b, x, s)) = Signed(x) \div Power[Count(s)]
  /\ Value(crypto_uint_shrmod(b, x, s)) = Value(x) \div Power[Count(s)]
  /\ Value(s) < N =>
       {crypto_int_bitinrangepublicpos_01(b, x, s), crypto_uint_bitinrangepublicpos_01(b, x, s)}
         = {IF Value(s) \in x THEN One ELSE {}}

(* Bits are counted and bytes stored and loaded, the zero word included. *)
CountsRight(b, x) ==
  /\ {crypto_int_ones_num(x), crypto_uint_ones_num(x)} = {Cardinality(x)}
  /\ {crypto_int_bottomzeros_num(b, x), crypto_uint_bottomzeros_num(b, x)}
       = {CHOOSE k \in 0..N : /\ 0..(k - 1) \cap x = {}
                              /\ k = N \/ k \in x}
  /\ {crypto_int_load(crypto_int_store(x)), crypto_uint_load(crypto_uint_store(x)),
      crypto_int_load_bigendian(crypto_int_store_bigendian(x)),
      crypto_uint_load_bigendian(crypto_uint_store_bigendian(x))} = {x}
  /\ crypto_uint_store(x)[1] = x \cap 0..7
  /\ crypto_uint_store_bigendian(x)[N \div 8] = x \cap 0..7
=============================================================================

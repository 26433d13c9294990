-------------------------------- MODULE Scalar --------------------------------
(***************************************************************************)
(* Numbers modulo the order of the base point in signed digits             *)
(* (sc25519.c). The program has D = 32 digits to the base 256 and          *)
(* L = 2^252 + c, whose last digit is 16 and whose digits between those of *)
(* c and the last are zero; here the base, the number of digits and L are  *)
(* parameters of that form. Digits may be negative and need not be below   *)
(* the base while they are worked on, and >> rounds down.                  *)
(***************************************************************************)
EXTENDS Integers, FiniteSetsExt, Sequences

CONSTANTS Base,   \* 256
          D,      \* 32
          Lead,   \* 16: the last digit of L
          Span,   \* 20: the digits the first loop works on: c and its carry
          Order   \* L

ScalarParameters ==
  /\ Base % Lead = 0 /\ Order \div Base^(D - 1) = Lead
  /\ Order % Base^(D - 1) < Base^(Span - 1)

L == [j \in 0..(D - 1) |-> (Order \div Base^j) % Base]

(* op(v), worked out once. *)
Bind(op(_), v) == CHOOSE t \in {op(u) : u \in {v}} : t = t

(* One round of the first loop: digit i is taken away, with Base/Lead times it
   times L from the digits below. *)
Fold(x, i) ==
  LET low == i - D
      y[j \in (low - 1)..(i - 1)] ==   \* the digits from low up, with the carry to the next
        IF j < low THEN [digit |-> 0, carry |-> 0]
        ELSE IF j < low + Span
        THEN LET v == x[j] + y[j - 1].carry - (Base \div Lead) * x[i] * L[j - low]
                 c == (v + Base \div 2) \div Base
             IN [digit |-> v - c * Base, carry |-> c]
        ELSE [digit |-> x[j] + y[j - 1].carry, carry |-> 0]
  IN [j \in DOMAIN x |-> IF j = i THEN 0 ELSE IF j \in low..(i - 1) THEN y[j].digit ELSE x[j]]

(* Then the multiple of L in the last digit is taken away, and L is added back
   if that was too much. *)
LastRound(x) ==
  LET y[j \in -1..(D - 1)] ==
        IF j = -1 THEN 0 ELSE x[j] + y[j - 1] \div Base - (x[D - 1] \div Lead) * L[j]
      carry == y[D - 1] \div Base
      z[j \in -1..(D - 1)] ==
        IF j = -1 THEN 0 ELSE (y[j] % Base) - carry * L[j] + z[j - 1] \div Base
  IN [j \in 0..(D - 1) |-> z[j] % Base]

modL(x0) ==
  LET f[i \in D..(2 * D)] == IF i = 2 * D THEN x0 ELSE Bind(LAMBDA s : Fold(s, i), f[i + 1])
  IN Bind(LastRound, f[D])

sc25519_reduce(s) == modL(s)

sc25519_muladd(a, b, c) ==
  modL([k \in 0..(2 * D - 1) |->
          MapThenSumSet(LAMBDA i : IF k - i \in 0..(D - 1) THEN a[i] * b[k - i] ELSE 0, 0..(D - 1))
            + (IF k < D THEN c[k] ELSE 0)])

-----------------------------------------------------------------------------
Number(x) == MapThenSumSet(LAMBDA j : x[j] * Base^j, DOMAIN x)
DigitsOf(v, n) == [j \in 0..(n - 1) |-> (v \div Base^j) % Base]

(* The result is the one reduced number, so that a signature's second half has
   one form only, for any hash and for the largest products. *)
ScalarRight(v, a, b) ==
  /\ Number(sc25519_reduce(DigitsOf(v, 2 * D))) = v % Order
  /\ Number(sc25519_muladd(DigitsOf(a, D), DigitsOf(b, D), DigitsOf(v, D)))
       = (((a * b) % Order) + (v % Base^D)) % Order
=============================================================================

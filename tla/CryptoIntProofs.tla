--------------------------- MODULE CryptoIntProofs ---------------------------
(***************************************************************************)
(* The constant-time integers are right for words of every width and for   *)
(* all of their values.                                                    *)
(***************************************************************************)
EXTENDS TrialIntegers, FiniteSetTheorems, WellFoundedInduction, TLAPS

-----------------------------------------------------------------------------
(* Counting up, and the functions defined that way. *)

(* A set of numbers that holds 0, and with each number below n the next one,
   holds all of them up to n. *)
LEMMA Climb ==
  ASSUME NEW n \in Nat, NEW S, 0 \in S, \A i \in 1..n : i - 1 \in S => i \in S
  PROVE  0..n \subseteq S
<1> SUFFICES ASSUME ~(0..n \subseteq S) PROVE FALSE
  OBVIOUS
<1> DEFINE T == {i \in 0..n : i \notin S}
           R == OpToRel(<, Nat)
<1>1. IsWellFoundedOn(R, Nat)
  BY NatLessThanWellFounded
<1>2. \A x, y \in Nat : <<y, x>> \in R <=> y < x
  BY DEF OpToRel
<1>3. T \subseteq Nat /\ T # {}
  OBVIOUS
<1> HIDE DEF R, T
<1>4. PICK x \in T : \A y \in T : ~(<<y, x>> \in R)
  BY <1>1, <1>3, WFMin
<1>5. x \in 0..n /\ x \notin S /\ \A y \in T : ~(y < x)
  BY <1>2, <1>3, <1>4 DEF T
<1>6. x \in 1..n /\ x - 1 \in 0..n /\ x - 1 < x
  BY <1>5
<1>7. x - 1 \in S
  BY <1>5, <1>6 DEF T
<1> QED
  BY <1>5, <1>6, <1>7

(* f starts with base and goes on with step, up to n. *)
Steps(f, n, S, base, step) ==
  f \in [0..n -> S] /\ f[0] = base /\ \A i \in 1..n : f[i] = step[<<i, f[i - 1]>>]

(* There is a function with the first value and the steps that are asked for. *)
LEMMA StepsExist ==
  ASSUME NEW n \in Nat, NEW S, NEW base \in S, NEW step \in [(1..n) \X S -> S]
  PROVE  \E f : Steps(f, n, S, base, step)
<1> DEFINE T == {m \in 0..n : \E f : Steps(f, m, S, base, step)}
<1>1. 0 \in T
  <2>1. Steps([i \in 0..0 |-> base], 0, S, base, step)
    BY DEF Steps
  <2> QED
    BY <2>1
<1>2. ASSUME NEW i \in 1..n, i - 1 \in T PROVE i \in T
  <2>1. PICK f : Steps(f, i - 1, S, base, step)
    BY <1>2
  <2> DEFINE g == [j \in 0..i |-> IF j = i THEN step[<<i, f[i - 1]>>] ELSE f[j]]
  <2>2. f \in [0..(i - 1) -> S] /\ f[0] = base
        /\ \A j \in 1..(i - 1) : f[j] = step[<<j, f[j - 1]>>]
    BY <2>1 DEF Steps
  <2>3. step[<<i, f[i - 1]>>] \in S
    BY <2>2
  <2>4. g \in [0..i -> S]
    BY <2>2, <2>3
  <2>5. g[i] = step[<<i, f[i - 1]>>] /\ \A j \in 0..(i - 1) : g[j] = f[j]
    OBVIOUS
  <2> HIDE DEF g
  <2>6. g[0] = base
    BY <2>2, <2>5
  <2>7. ASSUME NEW j \in 1..i PROVE g[j] = step[<<j, g[j - 1]>>]
    <3>1. j - 1 \in 0..(i - 1) /\ (j = i \/ j \in 1..(i - 1))
      OBVIOUS
    <3>2. g[j - 1] = f[j - 1]
      BY <2>5, <3>1
    <3> QED
      BY <2>2, <2>5, <3>1, <3>2
  <2>8. Steps(g, i, S, base, step)
    BY <2>4, <2>6, <2>7 DEF Steps
  <2> QED
    BY <2>8
<1>3. \A i \in 1..n : i - 1 \in T => i \in T
  BY <1>2
<1> HIDE DEF T
<1>4. n \in T
  BY <1>1, <1>3, Climb
<1> QED
  BY <1>4 DEF T

-----------------------------------------------------------------------------
(* Powers of two. *)

(* A number is twice a number, or one more. *)
LEMMA PowerIs ==
  ASSUME N \in Nat
  PROVE  /\ Power[0] = 1 /\ \A i \in 1..N : Power[i] = 2 * Power[i - 1]
         /\ \A i \in 0..N : Power[i] \in Nat
<1> DEFINE Rule(f) == f = [i \in 0..N |-> IF i = 0 THEN 1 ELSE 2 * f[i - 1]]
<1>1. PICK step : step = [p \in (1..N) \X Nat |-> 2 * p[2]]
  OBVIOUS
<1>2. step \in [(1..N) \X Nat -> Nat] /\ \A i \in 1..N, v \in Nat : step[<<i, v>>] = 2 * v
  BY <1>1
<1>3. PICK f : Steps(f, N, Nat, 1, step)
  BY <1>2, StepsExist
<1>4. f \in [0..N -> Nat] /\ f[0] = 1 /\ \A i \in 1..N : f[i] = step[<<i, f[i - 1]>>]
  BY <1>3 DEF Steps
<1>5. \A i \in 1..N : i - 1 \in 0..N /\ i # 0
  OBVIOUS
<1>6. \A i \in 1..N : f[i] = 2 * f[i - 1]
  BY <1>2, <1>4, <1>5
<1>7. Rule(f)
  <2>1. f = [i \in 0..N |-> f[i]]
    BY <1>4
  <2>2. \A i \in 0..N : f[i] = IF i = 0 THEN 1 ELSE 2 * f[i - 1]
    BY <1>4, <1>6
  <2> QED
    BY <2>1, <2>2, Zenon
<1>8. Power = CHOOSE g : Rule(g)
  BY Zenon DEF Power
<1>9. Rule(Power)
  BY <1>7, <1>8, Zenon
<1>10. \A i \in 0..N : Power[i] = IF i = 0 THEN 1 ELSE 2 * Power[i - 1]
  BY <1>9, Zenon
<1> HIDE DEF Rule
<1>11. Power[0] = 1 /\ \A i \in 1..N : Power[i] = 2 * Power[i - 1]
  <2>1. 0 \in 0..N
    OBVIOUS
  <2> QED
    BY <1>5, <1>10, <2>1
<1>12. \A i \in 0..N : Power[i] \in Nat
  <2> DEFINE S == {i \in 0..N : Power[i] \in Nat}
  <2>1. 0 \in S
    BY <1>11
  <2>2. \A i \in 1..N : i - 1 \in S => i \in S
    <3>1. ASSUME NEW i \in 1..N, Power[i - 1] \in Nat PROVE Power[i] \in Nat
      <4>1. Power[i] = 2 * Power[i - 1]
        BY <1>11
      <4> QED
        BY <3>1, <4>1
    <3> QED
      BY <3>1, <1>5
  <2> HIDE DEF S
  <2>3. 0..N \subseteq S
    BY <2>1, <2>2, Climb
  <2> QED
    BY <2>3 DEF S
<1> QED
  BY <1>11, <1>12

(* And so is at least 1. *)
LEMMA PowerPositive ==
  ASSUME N \in Nat
  PROVE  \A i \in 0..N : Power[i] \in Nat \ {0}
<1> DEFINE S == {i \in 0..N : Power[i] \in Nat \ {0}}
<1>1. 0 \in S
  BY PowerIs
<1>2. \A i \in 1..N : i - 1 \in S => i \in S
  <2>1. ASSUME NEW i \in 1..N, Power[i - 1] \in Nat \ {0} PROVE Power[i] \in Nat \ {0}
    <3>1. Power[i] = 2 * Power[i - 1]
      BY PowerIs
    <3> QED
      BY <2>1, <3>1
  <2> QED
    BY <2>1
<1> HIDE DEF S
<1>3. 0..N \subseteq S
  BY <1>1, <1>2, Climb
<1> QED
  BY <1>3 DEF S

(* Powers multiply by adding what they are powers of. *)
LEMMA PowerSum ==
  ASSUME N \in Nat, NEW k \in 0..N, NEW i \in 0..(N - k)
  PROVE  Power[k + i] = Power[k] * Power[i]
<1> DEFINE S == {j \in 0..(N - k) : Power[k + j] = Power[k] * Power[j]}
<1>1. 0 \in S
  BY PowerIs
<1>2. \A j \in 1..(N - k) : j - 1 \in S => j \in S
  <2>1. ASSUME NEW j \in 1..(N - k), Power[k + (j - 1)] = Power[k] * Power[j - 1]
        PROVE  Power[k + j] = Power[k] * Power[j]
    <3>1. j \in 1..N /\ k + j \in 1..N /\ k + (j - 1) = (k + j) - 1 /\ j - 1 \in 0..N
      OBVIOUS
    <3>2. Power[j] = 2 * Power[j - 1] /\ Power[k + j] = 2 * Power[(k + j) - 1]
      BY <3>1, PowerIs
    <3>3. PICK a, b \in Nat : a = Power[k] /\ b = Power[j - 1]
      BY <3>1, PowerIs
    <3>4. 2 * (a * b) = a * (2 * b)
      OBVIOUS
    <3> QED
      BY <2>1, <3>1, <3>2, <3>3, <3>4
  <2> QED
    BY <2>1
<1> HIDE DEF S
<1>3. 0..(N - k) \subseteq S
  BY <1>1, <1>2, Climb
<1> QED
  BY <1>3 DEF S

(* They are larger than what they are powers of. *)
LEMMA PowerLarge ==
  ASSUME N \in Nat
  PROVE  \A i \in 0..N : i < Power[i]
<1> DEFINE S == {i \in 0..N : i < Power[i]}
<1>1. 0 \in S
  BY PowerIs
<1>2. \A i \in 1..N : i - 1 \in S => i \in S
  <2>1. ASSUME NEW i \in 1..N, i - 1 < Power[i - 1] PROVE i < Power[i]
    <3>1. Power[i] = 2 * Power[i - 1] /\ Power[i - 1] \in Nat
      BY PowerIs
    <3> QED
      BY <2>1, <3>1
  <2> QED
    BY <2>1
<1> HIDE DEF S
<1>3. 0..N \subseteq S
  BY <1>1, <1>2, Climb
<1> QED
  BY <1>3 DEF S

-----------------------------------------------------------------------------
(* The number a word stands for. *)

(* What the lowest bits of x come to. *)
SumsRule(x, f) ==
  f = [i \in 0..N |-> IF i = 0 THEN 0 ELSE f[i - 1] + (IF i - 1 \in x THEN Power[i - 1] ELSE 0)]
Sums(x) == CHOOSE f : SumsRule(x, f)
Low(x, i) == Sums(x)[i]

(* They are what Value adds up. *)
LEMMA LowIs ==
  ASSUME N \in Nat, NEW x
  PROVE  /\ Low(x, 0) = 0 /\ Value(x) = Low(x, N)
         /\ \A i \in 1..N : Low(x, i) = Low(x, i - 1) + (IF i - 1 \in x THEN Power[i - 1] ELSE 0)
<1>1. PICK step : step = [p \in (1..N) \X Nat |-> p[2] + (IF p[1] - 1 \in x THEN Power[p[1] - 1] ELSE 0)]
  OBVIOUS
<1>2. /\ step \in [(1..N) \X Nat -> Nat]
      /\ \A i \in 1..N, v \in Nat : step[<<i, v>>] = v + (IF i - 1 \in x THEN Power[i - 1] ELSE 0)
  <2>1. \A i \in 1..N : (IF i - 1 \in x THEN Power[i - 1] ELSE 0) \in Nat
    <3>1. \A i \in 1..N : i - 1 \in 0..N
      OBVIOUS
    <3> QED
      BY <3>1, PowerIs
  <2> QED
    BY <1>1, <2>1
<1>3. PICK f : Steps(f, N, Nat, 0, step)
  BY <1>2, StepsExist
<1>4. f \in [0..N -> Nat] /\ f[0] = 0 /\ \A i \in 1..N : f[i] = step[<<i, f[i - 1]>>]
  BY <1>3 DEF Steps
<1>5. \A i \in 1..N : i - 1 \in 0..N /\ i # 0 /\ i \in 0..N
  OBVIOUS
<1>6. \A i \in 1..N : f[i] = f[i - 1] + (IF i - 1 \in x THEN Power[i - 1] ELSE 0)
  BY <1>2, <1>4, <1>5
<1>7. SumsRule(x, f)
  <2>1. f = [i \in 0..N |-> f[i]]
    BY <1>4
  <2>2. \A i \in 0..N : f[i] = IF i = 0 THEN 0 ELSE f[i - 1] + (IF i - 1 \in x THEN Power[i - 1] ELSE 0)
    <3>1. \A i \in 0..N : i = 0 \/ i \in 1..N
      OBVIOUS
    <3> QED
      BY <1>4, <1>5, <1>6, <3>1, Zenon
  <2> QED
    BY <2>1, <2>2, Zenon DEF SumsRule
<1>8. SumsRule(x, Sums(x))
  BY <1>7, Zenon DEF Sums
<1>9. \A i \in 0..N : Sums(x)[i] = IF i = 0 THEN 0
                                   ELSE Sums(x)[i - 1] + (IF i - 1 \in x THEN Power[i - 1] ELSE 0)
  BY <1>8, Zenon DEF SumsRule
<1>10. Value(x) = Sums(x)[N]
  BY Zenon DEF Value, Sums, SumsRule
<1>11. 0 \in 0..N
  OBVIOUS
<1>12. Sums(x)[0] = 0
  BY <1>9, <1>11, Zenon
<1>13. \A i \in 1..N : Sums(x)[i] = Sums(x)[i - 1] + (IF i - 1 \in x THEN Power[i - 1] ELSE 0)
  BY <1>5, <1>9, Zenon
<1> QED
  BY <1>10, <1>12, <1>13, Zenon DEF Low

(* Lower bits come to less than the next one. *)
LEMMA LowLess ==
  ASSUME N \in Nat, NEW x
  PROVE  \A i \in 0..N : Low(x, i) \in Nat /\ Low(x, i) < Power[i]
<1> DEFINE S == {i \in 0..N : Low(x, i) \in Nat /\ Low(x, i) < Power[i]}
<1>1. 0 \in S
  BY LowIs, PowerIs
<1>2. \A i \in 1..N : i - 1 \in S => i \in S
  <2>1. ASSUME NEW i \in 1..N, Low(x, i - 1) \in Nat, Low(x, i - 1) < Power[i - 1]
        PROVE  Low(x, i) \in Nat /\ Low(x, i) < Power[i]
    <3>1. Power[i] = 2 * Power[i - 1] /\ Power[i - 1] \in Nat
      BY PowerIs
    <3>2. Low(x, i) = Low(x, i - 1) + (IF i - 1 \in x THEN Power[i - 1] ELSE 0)
      BY LowIs
    <3> QED
      BY <2>1, <3>1, <3>2
  <2> QED
    BY <2>1
<1> HIDE DEF S
<1>3. 0..N \subseteq S
  BY <1>1, <1>2, Climb
<1> QED
  BY <1>3 DEF S

-----------------------------------------------------------------------------
(* Division by any number. *)

(* Quotient and remainder are what they should be. *)
LEMMA Divided ==
  ASSUME NEW a \in Int, NEW b \in Nat \ {0}
  PROVE  a \div b \in Int /\ a % b \in Nat /\ a % b < b /\ a = b * (a \div b) + (a % b)
OBVIOUS

(* There is only one pair of them. *)
LEMMA OnePair ==
  ASSUME NEW b \in Nat \ {0}, NEW q \in Int, NEW r \in Nat, NEW s \in Int, NEW t \in Nat,
         r < b, t < b, b * q + r = b * s + t
  PROVE  q = s /\ r = t
<1>1. b * (q - s) = t - r
  OBVIOUS
<1>2. ASSUME q > s PROVE FALSE
  <2>1. PICK d \in Nat : d = q - s /\ d >= 1
    BY <1>2
  <2>2. b * d >= b
    BY <2>1
  <2>3. b * d = t - r
    BY <1>1, <2>1, Zenon
  <2> QED
    BY <2>2, <2>3
<1>3. ASSUME q < s PROVE FALSE
  <2>1. PICK d \in Nat : d = s - q /\ d >= 1
    BY <1>3
  <2>2. b * d >= b
    BY <2>1
  <2>3. b * (q - s) = -(b * d)
    BY <2>1
  <2> QED
    BY <1>1, <2>2, <2>3
<1>4. q = s
  BY <1>2, <1>3
<1> QED
  BY <1>1, <1>4

DividesTo(a, b, q, r) == a \div b = q /\ a % b = r

(* So a sum of a multiple and something smaller is divided at sight. *)
LEMMA DivIs ==
  ASSUME NEW b \in Nat \ {0}, NEW q \in Int, NEW r \in Nat, r < b, NEW a, a = b * q + r
  PROVE  DividesTo(a, b, q, r)
<1>1. a \in Int
  OBVIOUS
<1>2. PICK s \in Int, t \in Nat : s = a \div b /\ t = a % b /\ t < b /\ a = b * s + t
  BY <1>1, Divided
<1>3. b * q + r = b * s + t
  BY <1>2
<1>4. q = s /\ r = t
  BY <1>2, <1>3, OnePair, Zenon
<1> QED
  BY <1>2, <1>4, Zenon DEF DividesTo

-----------------------------------------------------------------------------
(* Words and numbers. *)

(* Words that agree on the lowest bits come to the same there. *)
LEMMA LowSame ==
  ASSUME N \in Nat, NEW x, NEW y, NEW k \in 0..N, \A j \in 0..(k - 1) : j \in x <=> j \in y
  PROVE  \A i \in 0..k : Low(x, i) = Low(y, i)
<1> DEFINE S == {i \in 0..k : Low(x, i) = Low(y, i)}
<1>1. 0 \in S
  BY LowIs
<1>2. \A i \in 1..k : i - 1 \in S => i \in S
  <2>1. ASSUME NEW i \in 1..k, Low(x, i - 1) = Low(y, i - 1) PROVE Low(x, i) = Low(y, i)
    <3>1. i \in 1..N /\ i - 1 \in 0..(k - 1)
      OBVIOUS
    <3>2. /\ Low(x, i) = Low(x, i - 1) + (IF i - 1 \in x THEN Power[i - 1] ELSE 0)
          /\ Low(y, i) = Low(y, i - 1) + (IF i - 1 \in y THEN Power[i - 1] ELSE 0)
      BY <3>1, LowIs, Zenon
    <3> QED
      BY <2>1, <3>1, <3>2, Zenon
  <2> QED
    BY <2>1
<1> HIDE DEF S
<1>3. 0..k \subseteq S
  BY <1>1, <1>2, Climb
<1> QED
  BY <1>3 DEF S

(* Bits that are zero do not count. *)
LEMMA LowFlat ==
  ASSUME N \in Nat, NEW x, NEW k \in 0..N, \A j \in k..(N - 1) : j \notin x
  PROVE  Value(x) = Low(x, k)
<1> DEFINE S == {i \in 0..(N - k) : Low(x, k + i) = Low(x, k)}
<1>1. 0 \in S
  OBVIOUS
<1>2. \A i \in 1..(N - k) : i - 1 \in S => i \in S
  <2>1. ASSUME NEW i \in 1..(N - k), Low(x, k + (i - 1)) = Low(x, k) PROVE Low(x, k + i) = Low(x, k)
    <3>1. k + i \in 1..N /\ k + (i - 1) = (k + i) - 1 /\ (k + i) - 1 \in k..(N - 1) /\ (k + i) - 1 \in 0..N
      OBVIOUS
    <3>2. Low(x, k + i) = Low(x, (k + i) - 1) + 0
      BY <3>1, LowIs
    <3>3. Low(x, (k + i) - 1) \in Nat
      BY <3>1, LowLess
    <3> QED
      BY <2>1, <3>1, <3>2, <3>3
  <2> QED
    BY <2>1
<1> HIDE DEF S
<1>3. 0..(N - k) \subseteq S
  BY <1>1, <1>2, Climb
<1>4. N - k \in 0..(N - k) /\ k + (N - k) = N
  OBVIOUS
<1>5. Low(x, N) = Low(x, k)
  BY <1>3, <1>4 DEF S
<1> QED
  BY <1>5, LowIs, Zenon

(* What is above bit k, as many times as that bit counts. *)
LEMMA LowAbove ==
  ASSUME N \in Nat, NEW x, NEW k \in 0..N
  PROVE  \A i \in 0..(N - k) : Low(x, k + i) = Low(x, k) + Power[k] * Low(Shr(x, k), i)
<1> DEFINE S == {i \in 0..(N - k) : Low(x, k + i) = Low(x, k) + Power[k] * Low(Shr(x, k), i)}
<1>0. Low(x, k) \in Nat /\ Power[k] \in Nat
  BY LowLess, PowerIs
<1>1. 0 \in S
  BY <1>0, LowIs
<1>2. \A i \in 1..(N - k) : i - 1 \in S => i \in S
  <2>1. ASSUME NEW i \in 1..(N - k), Low(x, k + (i - 1)) = Low(x, k) + Power[k] * Low(Shr(x, k), i - 1)
        PROVE  Low(x, k + i) = Low(x, k) + Power[k] * Low(Shr(x, k), i)
    <3>1. /\ k + i \in 1..N /\ k + (i - 1) = (k + i) - 1 /\ i \in 1..N /\ i - 1 \in Bits /\ i - 1 \in 0..N
          /\ i - 1 \in 0..(N - k)
      BY DEF Bits
    <3>2. Low(x, k + i) = Low(x, k + (i - 1)) + (IF k + (i - 1) \in x THEN Power[k + (i - 1)] ELSE 0)
      <4>1. PICK j \in 1..N : j = k + i
        BY <3>1, Zenon
      <4>2. Low(x, j) = Low(x, j - 1) + (IF j - 1 \in x THEN Power[j - 1] ELSE 0)
        BY LowIs, Zenon
      <4> QED
        BY <3>1, <4>1, <4>2, Zenon
    <3>3. Low(Shr(x, k), i) = Low(Shr(x, k), i - 1) + (IF i - 1 \in Shr(x, k) THEN Power[i - 1] ELSE 0)
      BY <3>1, LowIs, Zenon
    <3>4. i - 1 \in Shr(x, k) <=> k + (i - 1) \in x
      <4>1. (i - 1) + k = k + (i - 1)
        OBVIOUS
      <4> QED
        BY <3>1, <4>1, Zenon DEF Shr
    <3>5. Power[k + (i - 1)] = Power[k] * Power[i - 1]
      BY <3>1, PowerSum
    <3>6. PICK a, b, c, d \in Nat : /\ a = Low(x, k) /\ b = Power[k] /\ c = Low(Shr(x, k), i - 1)
                                    /\ d = Power[i - 1]
      BY <1>0, <3>1, LowLess, PowerIs
    <3>7. (a + b * c) + b * d = a + b * (c + d) /\ (a + b * c) + 0 = a + b * (c + 0)
      OBVIOUS
    <3>8. CASE k + (i - 1) \in x
      <4>1. Low(x, k + i) = (a + b * c) + b * d
        BY <2>1, <3>2, <3>5, <3>6, <3>8, Zenon
      <4>2. Low(Shr(x, k), i) = c + d
        BY <3>3, <3>4, <3>6, <3>8, Zenon
      <4> QED
        BY <3>6, <3>7, <4>1, <4>2, Zenon
    <3>9. CASE k + (i - 1) \notin x
      <4>1. Low(x, k + i) = (a + b * c) + 0
        BY <2>1, <3>2, <3>6, <3>9, Zenon
      <4>2. Low(Shr(x, k), i) = c + 0
        BY <3>3, <3>4, <3>6, <3>9, Zenon
      <4> QED
        BY <3>6, <3>7, <4>1, <4>2, Zenon
    <3> QED
      BY <3>8, <3>9, Zenon
  <2> QED
    BY <2>1
<1> HIDE DEF S
<1>3. 0..(N - k) \subseteq S
  BY <1>1, <1>2, Climb
<1> QED
  BY <1>3 DEF S

(* A word's number, cut at any bit. *)
LEMMA ValueSplit ==
  ASSUME N \in Nat, NEW x \in Words, NEW k \in 0..N
  PROVE  /\ Value(Shr(x, k)) \in Nat /\ Value(x) = Power[k] * Value(Shr(x, k)) + Low(x, k)
         /\ Value(Shr(x, k)) = Low(Shr(x, k), N - k)
<1>1. N - k \in 0..N /\ N - k \in 0..(N - k) /\ k + (N - k) = N /\ N \in 0..N
  OBVIOUS
<1>2. Low(x, N) = Low(x, k) + Power[k] * Low(Shr(x, k), N - k)
  BY <1>1, LowAbove
<1>3. \A j \in (N - k)..(N - 1) : j \notin Shr(x, k)
  <2>1. \A j \in (N - k)..(N - 1) : j + k \notin Bits
    BY DEF Bits
  <2> QED
    BY <2>1 DEF Shr, Words
<1>4. Value(Shr(x, k)) = Low(Shr(x, k), N - k)
  BY <1>1, <1>3, LowFlat
<1>5. Value(x) = Low(x, N)
  BY LowIs, Zenon
<1>6. Low(x, k) \in Nat /\ Low(Shr(x, k), N - k) \in Nat /\ Power[k] \in Nat
  BY <1>1, LowLess, PowerIs
<1>7. Low(x, k) + Power[k] * Low(Shr(x, k), N - k) = Power[k] * Low(Shr(x, k), N - k) + Low(x, k)
  BY <1>6
<1> QED
  BY <1>2, <1>4, <1>5, <1>6, <1>7, Zenon

(* Shifting right divides, and the rest are the lowest bits. *)
LEMMA ValueDiv ==
  ASSUME N \in Nat, NEW x \in Words, NEW k \in 0..N
  PROVE  Value(x) \div Power[k] = Value(Shr(x, k)) /\ Value(x) % Power[k] = Low(x, k)
<1>1. PICK q \in Int, r \in Nat, b \in Nat \ {0}, v \in {Value(x)} :
        /\ q = Value(Shr(x, k)) /\ r = Low(x, k) /\ b = Power[k] /\ v = Value(x)
        /\ v = b * q + r /\ r < b
  <2>1. Value(Shr(x, k)) \in Int /\ Value(x) = Power[k] * Value(Shr(x, k)) + Low(x, k)
    BY ValueSplit
  <2>2. Low(x, k) \in Nat /\ Low(x, k) < Power[k] /\ Power[k] \in Nat \ {0}
    BY LowLess, PowerPositive
  <2> QED
    BY <2>1, <2>2, Zenon
<1>2. DividesTo(v, b, q, r)
  BY <1>1, DivIs, Zenon
<1> QED
  BY <1>1, <1>2, Zenon DEF DividesTo

(* A number is odd if its lowest bit is set. *)
LEMMA Odd ==
  ASSUME N \in Nat \ {0}, NEW x \in Words
  PROVE  Value(x) % 2 = IF 0 \in x THEN 1 ELSE 0
<1>1. 1 \in 0..N /\ 1 \in 1..N /\ 1 - 1 = 0
  OBVIOUS
<1>2. Power[1] = 2 /\ Power[0] = 1
  BY <1>1, PowerIs
<1>3. Low(x, 1) = IF 0 \in x THEN 1 ELSE 0
  BY <1>1, <1>2, LowIs
<1>4. Value(x) % Power[1] = Low(x, 1)
  BY <1>1, ValueDiv
<1> QED
  BY <1>2, <1>3, <1>4, Zenon

(* So a word is read off its number. *)
LEMMA WordValue ==
  ASSUME N \in Nat \ {0}, NEW x \in Words
  PROVE  Word(Value(x)) = x
<1>1. ASSUME NEW i \in Bits PROVE (Value(x) \div Power[i]) % 2 = 1 <=> i \in x
  <2>1. i \in 0..N /\ 0 + i = i /\ 0 \in Bits
    BY DEF Bits
  <2>2. Shr(x, i) \in Words
    BY DEF Shr, Words
  <2>3. Value(x) \div Power[i] = Value(Shr(x, i))
    BY <2>1, ValueDiv
  <2>4. Value(Shr(x, i)) % 2 = IF 0 \in Shr(x, i) THEN 1 ELSE 0
    BY <2>2, Odd, Zenon
  <2>5. 0 \in Shr(x, i) <=> i \in x
    BY <2>1, Zenon DEF Shr
  <2>6. 0 # 1
    OBVIOUS
  <2> QED
    BY <2>3, <2>4, <2>5, <2>6, Zenon
<1>2. x \subseteq Bits
  BY DEF Words
<1> QED
  BY <1>1, <1>2 DEF Word

(* And every number below 2^N is a word's. *)
LEMMA ValueWord ==
  ASSUME N \in Nat \ {0}, NEW v \in Nat, v < Power[N]
  PROVE  Word(v) \in Words /\ Value(Word(v)) = v
<1> DEFINE S == {i \in 0..N : Low(Word(v), i) = v % Power[i]}
<1>1. 0 \in S
  <2>1. Low(Word(v), 0) = 0 /\ Power[0] = 1 /\ v % 1 = 0 /\ 0 \in 0..N
    BY LowIs, PowerIs
  <2> QED
    BY <2>1
<1>2. \A i \in 1..N : i - 1 \in S => i \in S
  <2>1. ASSUME NEW i \in 1..N, Low(Word(v), i - 1) = v % Power[i - 1]
        PROVE  Low(Word(v), i) = v % Power[i]
    <3>1. i - 1 \in 0..N /\ i - 1 \in Bits
      BY DEF Bits
    <3>2. PICK b \in Nat \ {0}, q \in Int, r \in Nat :
            b = Power[i - 1] /\ q = v \div b /\ r = v % b /\ r < b /\ v = b * q + r
      <4>1. PICK b \in Nat \ {0} : b = Power[i - 1]
        BY <3>1, PowerPositive
      <4>2. PICK q, r : q = v \div b /\ r = v % b
        OBVIOUS
      <4>3. q \in Int /\ r \in Nat /\ r < b /\ v = b * q + r
        BY <4>2, Divided
      <4> QED
        BY <4>1, <4>2, <4>3, Zenon
    <3>3. Power[i] = 2 * b
      BY <3>2, PowerIs
    <3>4. PICK s \in Int, t \in 0..1 : q = 2 * s + t /\ t = q % 2
      OBVIOUS
    <3>5. PICK m \in Nat : m = b * t + r
      OBVIOUS
    <3>6. m < 2 * b /\ m = r + (IF t = 1 THEN b ELSE 0)
      <4>0. r < b
        BY <3>2, Zenon
      <4>1. CASE t = 0
        <5>1. m = r
          BY <3>5, <4>1
        <5>2. r < 2 * b /\ r = r + 0
          BY <4>0
        <5> QED
          BY <4>1, <5>1, <5>2
      <4>2. CASE t = 1
        <5>1. m = b + r
          BY <3>5, <4>2
        <5>2. b + r < 2 * b /\ b + r = r + b
          BY <4>0
        <5> QED
          BY <4>2, <5>1, <5>2
      <4>3. t = 0 \/ t = 1
        OBVIOUS
      <4> QED
        BY <4>1, <4>2, <4>3, Zenon
    <3>7. v = (2 * b) * s + m
      <4>1. b * (2 * s + t) = (2 * b) * s + b * t
        OBVIOUS
      <4>2. b * q = (2 * b) * s + b * t
        BY <3>4, <4>1, Zenon
      <4>3. PICK c, d, e \in Int : c = b * q /\ d = (2 * b) * s /\ e = b * t
        OBVIOUS
      <4>4. v = c + r /\ m = e + r /\ c = d + e
        BY <3>2, <3>5, <4>2, <4>3, Zenon
      <4>5. v = d + m
        BY <4>3, <4>4
      <4> QED
        BY <4>3, <4>5, Zenon
    <3>8. v % (2 * b) = m
      <4>1. PICK d \in Nat \ {0} : d = 2 * b
        OBVIOUS
      <4>2. m < d /\ v = d * s + m
        BY <3>6, <3>7, <4>1, Zenon
      <4>3. DividesTo(v, d, s, m)
        BY <4>2, DivIs, Zenon
      <4> QED
        BY <4>1, <4>3, Zenon DEF DividesTo
    <3>9. i - 1 \in Word(v) <=> t = 1
      BY <3>1, <3>2, <3>4, Zenon DEF Word
    <3>10. Low(Word(v), i) = r + (IF t = 1 THEN b ELSE 0)
      <4>1. Low(Word(v), i) = Low(Word(v), i - 1) + (IF i - 1 \in Word(v) THEN Power[i - 1] ELSE 0)
        BY LowIs, Zenon
      <4>2. Low(Word(v), i - 1) = r
        BY <2>1, <3>2, Zenon
      <4> QED
        BY <3>2, <3>9, <4>1, <4>2, Zenon
    <3> QED
      BY <3>3, <3>6, <3>8, <3>10, Zenon
  <2> QED
    BY <2>1
<1> HIDE DEF S
<1>3. 0..N \subseteq S
  BY <1>1, <1>2, Climb
<1>4. Low(Word(v), N) = v % Power[N]
  BY <1>3 DEF S
<1>5. v % Power[N] = v
  <2>1. PICK b \in Nat \ {0} : b = Power[N]
    BY PowerPositive
  <2>2. PICK z \in Int : z = 0 /\ v = b * z + v /\ v < b
    BY <2>1
  <2>3. DividesTo(v, b, z, v)
    BY <2>2, DivIs, Zenon
  <2> QED
    BY <2>1, <2>3, Zenon DEF DividesTo
<1>6. Value(Word(v)) = Low(Word(v), N)
  BY LowIs, Zenon
<1>7. Word(v) \in Words
  BY DEF Word, Words
<1> QED
  BY <1>4, <1>5, <1>6, <1>7, Zenon

-----------------------------------------------------------------------------
(* Arithmetic on words. *)

(* The width, and the number that its highest bit stands for. *)
LEMMA Width ==
  ASSUME CryptoIntParameters
  PROVE  /\ N \in Nat \ {0} /\ N >= 8 /\ N - 1 \in Bits /\ 0 \in Bits
         /\ Power[N - 1] \in Nat /\ Power[N] \in Nat /\ Power[N] = 2 * Power[N - 1] /\ Power[N - 1] >= 8
<1>1. N \in Nat /\ N >= 8
  BY DEF CryptoIntParameters
<1>2. N \in 1..N /\ N \in 0..N /\ N - 1 \in 0..N
  BY <1>1
<1>3. Power[N] = 2 * Power[N - 1] /\ Power[N - 1] \in Nat /\ Power[N] \in Nat
  BY <1>1, <1>2, PowerIs
<1>4. N - 1 < Power[N - 1]
  BY <1>1, <1>2, PowerLarge
<1> QED
  BY <1>1, <1>3, <1>4 DEF Bits

(* A word's number is below 2^N, and its highest bit is set from half of that on. *)
LEMMA ValueLess ==
  ASSUME CryptoIntParameters, NEW x \in Words
  PROVE  /\ Value(x) \in Nat /\ Value(x) < Power[N]
         /\ N - 1 \in x <=> Value(x) >= Power[N - 1]
<1>1. N \in 1..N /\ N \in 0..N /\ N - 1 \in 0..N /\ N \in Nat
  BY Width
<1>2. Value(x) = Low(x, N) /\ Low(x, N) \in Nat /\ Low(x, N) < Power[N]
  BY <1>1, LowIs, LowLess
<1>3. Low(x, N) = Low(x, N - 1) + (IF N - 1 \in x THEN Power[N - 1] ELSE 0)
  BY <1>1, LowIs, Zenon
<1>4. Low(x, N - 1) \in Nat /\ Low(x, N - 1) < Power[N - 1]
  BY <1>1, LowLess
<1>5. Power[N - 1] \in Nat
  BY Width
<1> QED
  BY <1>2, <1>3, <1>4, <1>5

(* Two words are one if they stand for the same number. *)
LEMMA SameValue ==
  ASSUME CryptoIntParameters, NEW x \in Words, NEW y \in Words
  PROVE  Value(x) = Value(y) <=> x = y
BY WordValue, Width, Zenon

(* The words the functions begin with. *)
LEMMA SimpleValues ==
  ASSUME CryptoIntParameters
  PROVE  /\ Zero \in Words /\ One \in Words /\ Ones \in Words
         /\ Value(Zero) = 0 /\ Value(One) = 1 /\ Value(Ones) = Power[N] - 1
<1>1. Zero \in Words /\ One \in Words /\ Ones \in Words
  BY Width DEF Zero, One, Ones, Words
<1>2. N \in Nat /\ 0 \in 0..N /\ 1 \in 0..N /\ 1 \in 1..N /\ N \in 0..N /\ 1 - 1 = 0
  BY Width
<1>3. Value(Zero) = 0
  BY <1>2, LowFlat, LowIs DEF Zero
<1>4. Value(One) = 1
  <2>1. \A j \in 1..(N - 1) : j \notin One
    BY DEF One
  <2>2. Value(One) = Low(One, 1)
    BY <1>2, <2>1, LowFlat
  <2>3. Low(One, 1) = 0 + Power[0]
    BY <1>2, LowIs DEF One
  <2> QED
    BY <1>2, <2>2, <2>3, PowerIs
<1>5. Value(Ones) = Power[N] - 1
  <2> DEFINE S == {i \in 0..N : Low(Ones, i) = Power[i] - 1}
  <2>1. 0 \in S
    BY <1>2, LowIs, PowerIs
  <2>2. \A i \in 1..N : i - 1 \in S => i \in S
    <3>1. ASSUME NEW i \in 1..N, Low(Ones, i - 1) = Power[i - 1] - 1 PROVE Low(Ones, i) = Power[i] - 1
      <4>1. i - 1 \in Ones /\ i - 1 \in 0..N
        BY <1>2 DEF Ones, Bits
      <4>2. Low(Ones, i) = Low(Ones, i - 1) + Power[i - 1]
        BY <1>2, <4>1, LowIs
      <4>3. Power[i] = 2 * Power[i - 1] /\ Power[i - 1] \in Nat
        BY <1>2, <4>1, PowerIs
      <4> QED
        BY <3>1, <4>2, <4>3
    <3> QED
      BY <3>1
  <2> HIDE DEF S
  <2>3. 0..N \subseteq S
    BY <1>2, <2>1, <2>2, Climb
  <2>4. Low(Ones, N) = Power[N] - 1
    BY <1>2, <2>3 DEF S
  <2> QED
    BY <1>2, <2>4, LowIs
<1> QED
  BY <1>1, <1>3, <1>4, <1>5

(* A difference wraps below zero. *)
LEMMA MinusIs ==
  ASSUME CryptoIntParameters, NEW x \in Words, NEW y \in Words
  PROVE  /\ Minus(x, y) \in Words
         /\ Value(Minus(x, y)) = IF Value(x) >= Value(y) THEN Value(x) - Value(y)
                                 ELSE Value(x) - Value(y) + Power[N]
<1>1. PICK a \in Nat, b \in Nat, t \in Nat \ {0} :
        a = Value(x) /\ b = Value(y) /\ t = Power[N] /\ a < t /\ b < t
  <2>1. Power[N] \in Nat \ {0}
    BY Width
  <2> QED
    BY <2>1, ValueLess
<1>2. PICK v : v = IF a >= b THEN a - b ELSE a - b + t
  OBVIOUS
<1>3. v \in Nat /\ v < t
  BY <1>1, <1>2
<1>4. ((a - b) + t) % t = v
  <2>1. PICK q \in Int : (a - b) + t = t * q + v
    <3>1. CASE a >= b
      <4>1. (a - b) + t = t * 1 + v
        BY <1>2, <3>1
      <4> QED
        BY <4>1
    <3>2. CASE ~(a >= b)
      <4>1. (a - b) + t = t * 0 + v
        BY <1>2, <3>2
      <4> QED
        BY <4>1
    <3> QED
      BY <3>1, <3>2, Zenon
  <2>2. DividesTo((a - b) + t, t, q, v)
    BY <1>1, <1>3, <2>1, DivIs, Zenon
  <2> QED
    BY <2>2, Zenon DEF DividesTo
<1>5. Minus(x, y) = Word(v)
  BY <1>1, <1>4, Zenon DEF Minus
<1>6. Word(v) \in Words /\ Value(Word(v)) = v
  BY <1>1, <1>3, ValueWord, Width, Zenon
<1> QED
  BY <1>1, <1>2, <1>5, <1>6, Zenon

-----------------------------------------------------------------------------
(* Masks and bits. *)

(* The three kinds of machine are three. *)
LEMMA Kinds ==
  ASSUME NEW b \in Builds
  PROVE  /\ b = "portable" \/ b = "select" \/ b = "carry"
         /\ b = "portable" => b # "select" /\ b # "carry"
         /\ b = "select" => b # "portable" /\ b # "carry"
         /\ b = "carry" => b # "portable" /\ b # "select"
BY DEF Builds

(* A mask is all ones or all zeros, a bit one or zero. *)
LEMMA FlagIs ==
  ASSUME CryptoIntParameters, NEW c \in BOOLEAN
  PROVE  /\ Flag(c) \in Words /\ Bit(c) \in Words
         /\ Value(Flag(c)) = (IF c THEN Power[N] - 1 ELSE 0) /\ Value(Bit(c)) = (IF c THEN 1 ELSE 0)
<1>1. CASE c
  <2>1. Flag(c) = Ones /\ Bit(c) = One
    BY <1>1, Zenon DEF Flag, Bit
  <2> QED
    BY <1>1, <2>1, SimpleValues, Zenon
<1>2. CASE ~c
  <2>1. Flag(c) = Zero /\ Bit(c) = Zero
    BY <1>2, Zenon DEF Flag, Bit
  <2> QED
    BY <1>2, <2>1, SimpleValues, Zenon
<1> QED
  BY <1>1, <1>2, Zenon

(* What subtracting makes of a bit. *)
LEMMA BitMinus ==
  ASSUME CryptoIntParameters, NEW c \in BOOLEAN
  PROVE  /\ Neg(Bit(c)) = Flag(c)
         /\ Minus(One, Bit(c)) = Bit(~c)
         /\ Minus(Bit(c), One) = Flag(~c)
<1>1. Power[N] \in Nat /\ Power[N] >= 8
  BY Width
<1>2. One \in Words /\ Zero \in Words /\ Bit(c) \in Words /\ Flag(c) \in Words
  BY SimpleValues, FlagIs
<1>3. (~c) \in BOOLEAN
  OBVIOUS
<1>4. Bit(~c) \in Words /\ Flag(~c) \in Words
  BY <1>3, FlagIs
<1>5. Value(Zero) = 0 /\ Value(One) = 1 /\ Value(Bit(c)) = (IF c THEN 1 ELSE 0)
  BY SimpleValues, FlagIs
<1>6. Neg(Bit(c)) = Flag(c)
  <2>1. Minus(Zero, Bit(c)) \in Words
    BY <1>2, MinusIs
  <2>2. Value(Minus(Zero, Bit(c))) = IF Value(Zero) >= Value(Bit(c)) THEN Value(Zero) - Value(Bit(c))
                                     ELSE Value(Zero) - Value(Bit(c)) + Power[N]
    BY <1>2, MinusIs
  <2>3. Value(Flag(c)) = IF c THEN Power[N] - 1 ELSE 0
    BY FlagIs
  <2>4. Value(Minus(Zero, Bit(c))) = Value(Flag(c))
    BY <1>1, <1>5, <2>2, <2>3
  <2>5. Minus(Zero, Bit(c)) = Flag(c)
    BY <1>2, <2>1, <2>4, SameValue, Zenon
  <2> QED
    BY <2>5, Zenon DEF Neg
<1>7. Minus(One, Bit(c)) = Bit(~c)
  <2>1. Minus(One, Bit(c)) \in Words
    BY <1>2, MinusIs
  <2>2. Value(Minus(One, Bit(c))) = IF Value(One) >= Value(Bit(c)) THEN Value(One) - Value(Bit(c))
                                     ELSE Value(One) - Value(Bit(c)) + Power[N]
    BY <1>2, MinusIs
  <2>3. Value(Bit(~c)) = IF ~c THEN 1 ELSE 0
    BY <1>3, FlagIs
  <2>4. Value(Minus(One, Bit(c))) = Value(Bit(~c))
    BY <1>1, <1>5, <2>2, <2>3
  <2> QED
    BY <1>4, <2>1, <2>4, SameValue, Zenon
<1>8. Minus(Bit(c), One) = Flag(~c)
  <2>1. Minus(Bit(c), One) \in Words
    BY <1>2, MinusIs
  <2>2. Value(Minus(Bit(c), One)) = IF Value(Bit(c)) >= Value(One) THEN Value(Bit(c)) - Value(One)
                                     ELSE Value(Bit(c)) - Value(One) + Power[N]
    BY <1>2, MinusIs
  <2>3. Value(Flag(~c)) = IF ~c THEN Power[N] - 1 ELSE 0
    BY <1>3, FlagIs
  <2>4. Value(Minus(Bit(c), One)) = Value(Flag(~c))
    BY <1>1, <1>5, <2>2, <2>3
  <2> QED
    BY <1>4, <2>1, <2>4, SameValue, Zenon
<1> QED
  BY <1>6, <1>7, <1>8

(* Its complement is the other one. *)
LEMMA NotFlag ==
  ASSUME NEW c \in BOOLEAN
  PROVE  Not(Flag(c)) = Flag(~c)
BY DEF Not, Flag, Ones, Zero

(* A mask and a bit say that c. *)
Says(mask, bit, c) == mask = Flag(c) /\ bit = Bit(c)

(* The highest bit, spread over the word or alone. *)
LEMMA TopSays ==
  ASSUME CryptoIntParameters, NEW b \in Builds, NEW x \in Words
  PROVE  /\ Says(crypto_int_negative_mask(b, x), crypto_int_unsigned_topbit_01(b, x), N - 1 \in x)
         /\ Says(crypto_uint_signed_negative_mask(b, x), crypto_uint_topbit_01(b, x), N - 1 \in x)
<1>1. N \in Nat /\ N >= 8
  BY Width
<1>2. Sar(x, N - 1) = Flag(N - 1 \in x)
  <2>1. \A i \in Bits : i + (N - 1) < N => i + (N - 1) = N - 1
    BY <1>1 DEF Bits
  <2>2. \A i \in Bits : i \in Sar(x, N - 1) <=> N - 1 \in x
    BY <2>1 DEF Sar
  <2>3. Sar(x, N - 1) \subseteq Bits
    BY DEF Sar
  <2> QED
    BY <2>2, <2>3 DEF Flag, Ones, Zero
<1>3. Sar(Sar(x, N - 6), 5) = Flag(N - 1 \in x)
  <2>1. \A i \in Bits : i + (N - 6) < N => i \in 0..5
    BY <1>1 DEF Bits
  <2>2. 5 \in Bits /\ 5 + (N - 6) = N - 1 /\ N - 1 \in Bits /\ ~((N - 1) + (N - 6) < N)
    BY <1>1 DEF Bits
  <2>3. N - 1 \in Sar(x, N - 6) <=> N - 1 \in x
    BY <2>2 DEF Sar
  <2>4. ASSUME NEW i \in Bits PROVE i \in Sar(Sar(x, N - 6), 5) <=> N - 1 \in x
    <3>1. CASE i + 5 < N
      <4>1. i + 5 \in Bits /\ (((i + 5) + (N - 6) < N) => (i + 5) + (N - 6) = N - 1)
        BY <1>1, <3>1 DEF Bits
      <4>2. i + 5 \in Sar(x, N - 6) <=> N - 1 \in x
        BY <4>1 DEF Sar
      <4> QED
        BY <3>1, <4>2 DEF Sar
    <3>2. CASE ~(i + 5 < N)
      <4>1. i \in Sar(Sar(x, N - 6), 5) <=> N - 1 \in Sar(x, N - 6)
        BY <3>2, Zenon DEF Sar
      <4> QED
        BY <2>3, <4>1, Zenon
    <3> QED
      BY <3>1, <3>2, Zenon
  <2>5. Sar(Sar(x, N - 6), 5) \subseteq Bits
    BY DEF Sar
  <2> QED
    BY <2>4, <2>5 DEF Flag, Ones, Zero
<1>4. Shr(x, N - 1) = Bit(N - 1 \in x)
  <2>1. ASSUME NEW i \in Bits PROVE i \in Shr(x, N - 1) <=> (i = 0 /\ N - 1 \in x)
    <3>1. CASE i = 0
      <4>1. i + (N - 1) = N - 1
        BY <1>1, <3>1
      <4> QED
        BY <3>1, <4>1, Zenon DEF Shr
    <3>2. CASE i # 0
      <4>1. i + (N - 1) \notin Bits
        BY <1>1, <3>2 DEF Bits
      <4> QED
        BY <3>2, <4>1 DEF Shr, Words
    <3> QED
      BY <3>1, <3>2, Zenon
  <2>2. Shr(x, N - 1) \subseteq Bits /\ 0 \in Bits
    BY <1>1 DEF Shr, Bits
  <2> QED
    BY <2>1, <2>2 DEF Bit, One, Zero
<1>5. Shr(Shr(x, N - 6), 5) = Bit(N - 1 \in x)
  <2>1. ASSUME NEW i \in Bits PROVE i \in Shr(Shr(x, N - 6), 5) <=> (i = 0 /\ N - 1 \in x)
    <3>1. CASE i = 0
      <4>1. i + 5 \in Bits /\ (i + 5) + (N - 6) = N - 1
        BY <1>1, <3>1 DEF Bits
      <4>2. i + 5 \in Shr(x, N - 6) <=> N - 1 \in x
        BY <4>1, Zenon DEF Shr
      <4> QED
        BY <3>1, <4>2, Zenon DEF Shr
    <3>2. CASE i # 0
      <4>1. (i + 5) + (N - 6) \notin Bits
        BY <1>1, <3>2 DEF Bits
      <4> QED
        BY <3>2, <4>1 DEF Shr, Words
    <3> QED
      BY <3>1, <3>2, Zenon
  <2>2. Shr(Shr(x, N - 6), 5) \subseteq Bits /\ 0 \in Bits
    BY <1>1 DEF Shr, Bits
  <2> QED
    BY <2>1, <2>2 DEF Bit, One, Zero
<1>6. Shr(x, N - 1) \cap One = Bit(N - 1 \in x)
  BY <1>4 DEF Bit, One, Zero
<1>7. CASE b = "portable"
  <2>1. /\ crypto_int_negative_mask(b, x) = Flag(N - 1 \in x)
        /\ crypto_uint_signed_negative_mask(b, x) = Flag(N - 1 \in x)
    BY <1>3, <1>7, Zenon DEF crypto_int_negative_mask, crypto_uint_signed_negative_mask
  <2>2. /\ crypto_int_unsigned_topbit_01(b, x) = Shr(Shr(x, N - 6), 5)
        /\ crypto_uint_topbit_01(b, x) = Shr(Shr(x, N - 6), 5)
    BY <1>7, Kinds DEF crypto_int_unsigned_topbit_01, crypto_uint_topbit_01
  <2> QED
    BY <1>5, <2>1, <2>2, Zenon DEF Says
<1>8. CASE b = "select"
  <2>1. /\ crypto_int_negative_mask(b, x) = Sar(x, N - 1)
        /\ crypto_uint_signed_negative_mask(b, x) = Sar(x, N - 1)
    BY <1>8, Kinds, Zenon DEF crypto_int_negative_mask, crypto_uint_signed_negative_mask
  <2>2. /\ crypto_int_unsigned_topbit_01(b, x) = Shr(x, N - 1) \cap One
        /\ crypto_uint_topbit_01(b, x) = Shr(x, N - 1) \cap One
    BY <1>8, Kinds DEF crypto_int_unsigned_topbit_01, crypto_uint_topbit_01
  <2> QED
    BY <1>2, <1>6, <2>1, <2>2, Zenon DEF Says
<1>9. CASE b = "carry"
  <2>1. /\ crypto_int_negative_mask(b, x) = Sar(x, N - 1)
        /\ crypto_uint_signed_negative_mask(b, x) = Sar(x, N - 1)
    BY <1>9, Kinds, Zenon DEF crypto_int_negative_mask, crypto_uint_signed_negative_mask
  <2>2. /\ crypto_int_unsigned_topbit_01(b, x) = Shr(x, N - 1)
        /\ crypto_uint_topbit_01(b, x) = Shr(x, N - 1)
    BY <1>9, Kinds DEF crypto_int_unsigned_topbit_01, crypto_uint_topbit_01
  <2> QED
    BY <1>2, <1>4, <2>1, <2>2, Zenon DEF Says
<1> QED
  BY <1>7, <1>8, <1>9, Kinds, Zenon

(* The lowest bit. *)
LEMMA BottomSays ==
  ASSUME CryptoIntParameters, NEW b, NEW x \in Words, NEW c \in BOOLEAN, c <=> 0 \in x
  PROVE  /\ Says(crypto_int_bottombit_mask(b, x), crypto_int_bottombit_01(b, x), c)
         /\ Says(crypto_uint_bottombit_mask(b, x), crypto_uint_bottombit_01(b, x), c)
<1>1. x \cap One = Bit(c)
  BY DEF Bit, One, Zero
<1>2. Neg(x \cap One) = Flag(c)
  BY <1>1, BitMinus, Zenon
<1> QED
  BY <1>1, <1>2, Zenon DEF Says, crypto_int_bottombit_mask, crypto_int_bottombit_01,
                           crypto_uint_bottombit_mask, crypto_uint_bottombit_01

(* A negative number has the number's bits or more, whatever its sign. *)
LEMMA NegIs ==
  ASSUME CryptoIntParameters, NEW x \in Words
  PROVE  /\ Neg(x) \in Words
         /\ Value(Neg(x)) = IF Value(x) = 0 THEN 0 ELSE Power[N] - Value(x)
<1>1. Zero \in Words /\ Value(Zero) = 0
  BY SimpleValues
<1>2. Minus(Zero, x) \in Words
  BY <1>1, MinusIs
<1>3. Value(Minus(Zero, x)) = IF Value(Zero) >= Value(x) THEN Value(Zero) - Value(x)
                              ELSE Value(Zero) - Value(x) + Power[N]
  BY <1>1, MinusIs
<1>4. Value(x) \in Nat /\ Power[N] \in Nat
  BY ValueLess, Width
<1>5. Value(Minus(Zero, x)) = IF Value(x) = 0 THEN 0 ELSE Power[N] - Value(x)
  BY <1>1, <1>3, <1>4
<1> QED
  BY <1>2, <1>5, Zenon DEF Neg

(* Only the word without bits is zero. *)
LEMMA ZeroIs ==
  ASSUME CryptoIntParameters, NEW x \in Words
  PROVE  x = Zero <=> Value(x) = 0
BY SimpleValues, SameValue, Zenon

(* Not zero. *)
LEMMA NonzeroSays ==
  ASSUME CryptoIntParameters, NEW b \in Builds, NEW x \in Words, NEW c \in BOOLEAN, c <=> Value(x) # 0
  PROVE  /\ Says(crypto_int_nonzero_mask(b, x), crypto_int_nonzero_01(b, x), c)
         /\ Says(crypto_uint_nonzero_mask(b, x), crypto_uint_nonzero_01(b, x), c)
<1>1. CASE b = "portable"
  <2>1. PICK w : w = x \cup Neg(x)
    OBVIOUS
  <2>2. w \in Words
    BY <2>1, NegIs DEF Words
  <2>3. N - 1 \in w <=> c
    <3>1. /\ Value(x) \in Nat /\ Value(x) < Power[N] /\ (N - 1 \in x <=> Value(x) >= Power[N - 1])
          /\ Value(Neg(x)) \in Nat /\ (N - 1 \in Neg(x) <=> Value(Neg(x)) >= Power[N - 1])
      BY NegIs, ValueLess
    <3>2. Value(Neg(x)) = IF Value(x) = 0 THEN 0 ELSE Power[N] - Value(x)
      BY NegIs
    <3>3. Power[N - 1] \in Nat /\ Power[N] = 2 * Power[N - 1] /\ Power[N - 1] >= 8
      BY Width
    <3>4. c <=> (N - 1 \in x \/ N - 1 \in Neg(x))
      BY <3>1, <3>2, <3>3
    <3> QED
      BY <2>1, <3>4
  <2>4. /\ Says(crypto_int_negative_mask(b, w), crypto_int_unsigned_topbit_01(b, w), c)
        /\ Says(crypto_uint_signed_negative_mask(b, w), crypto_uint_topbit_01(b, w), c)
    BY <2>2, <2>3, TopSays DEF Says, Flag, Bit
  <2>5. /\ crypto_int_nonzero_mask(b, x) = crypto_int_negative_mask(b, w)
        /\ crypto_int_nonzero_01(b, x) = crypto_int_unsigned_topbit_01(b, w)
        /\ crypto_uint_nonzero_mask(b, x) = crypto_uint_signed_negative_mask(b, w)
        /\ crypto_uint_nonzero_01(b, x) = crypto_uint_topbit_01(b, w)
    BY <1>1, <2>1, Kinds DEF crypto_int_nonzero_mask, crypto_int_nonzero_01,
                             crypto_uint_nonzero_mask, crypto_uint_nonzero_01
  <2> QED
    BY <2>4, <2>5, Zenon
<1>2. CASE b = "select"
  <2>1. /\ crypto_int_nonzero_mask(b, x) = Flag(x # Zero) /\ crypto_int_nonzero_01(b, x) = Bit(x # Zero)
        /\ crypto_uint_nonzero_mask(b, x) = Flag(x # Zero) /\ crypto_uint_nonzero_01(b, x) = Bit(x # Zero)
    BY <1>2, Kinds DEF crypto_int_nonzero_mask, crypto_int_nonzero_01,
                       crypto_uint_nonzero_mask, crypto_uint_nonzero_01
  <2>2. Flag(x # Zero) = Flag(c) /\ Bit(x # Zero) = Bit(c)
    BY ZeroIs, Zenon DEF Flag, Bit
  <2> QED
    BY <2>1, <2>2, Zenon DEF Says
<1>3. CASE b = "carry"
  <2>1. /\ crypto_int_nonzero_mask(b, x) = Neg(Bit(0 < Value(x)))
        /\ crypto_int_nonzero_01(b, x) = Bit(0 < Value(x))
        /\ crypto_uint_nonzero_mask(b, x) = Neg(Bit(0 < Value(x)))
        /\ crypto_uint_nonzero_01(b, x) = Bit(0 < Value(x))
    BY <1>3, Kinds DEF crypto_int_nonzero_mask, crypto_int_nonzero_01,
                       crypto_uint_nonzero_mask, crypto_uint_nonzero_01
  <2>2. 0 < Value(x) <=> c
    BY ValueLess
  <2>3. Bit(0 < Value(x)) = Bit(c)
    BY <2>2, Zenon DEF Bit
  <2>4. Neg(Bit(c)) = Flag(c)
    BY BitMinus
  <2> QED
    BY <2>1, <2>3, <2>4, Zenon DEF Says
<1> QED
  BY <1>1, <1>2, <1>3, Kinds, Zenon

(* Zero. *)
LEMMA ZeroSays ==
  ASSUME CryptoIntParameters, NEW b \in Builds, NEW x \in Words, NEW c \in BOOLEAN, c <=> Value(x) = 0
  PROVE  /\ Says(crypto_int_zero_mask(b, x), crypto_int_zero_01(b, x), c)
         /\ Says(crypto_uint_zero_mask(b, x), crypto_uint_zero_01(b, x), c)
<1>1. PICK d \in BOOLEAN : d <=> Value(x) # 0
  OBVIOUS
<1>2. Not(Flag(d)) = Flag(c) /\ Minus(One, Bit(d)) = Bit(c) /\ Minus(Bit(d), One) = Flag(c)
  <2>1. /\ Not(Flag(d)) = Flag(~d) /\ Minus(One, Bit(d)) = Bit(~d) /\ Minus(Bit(d), One) = Flag(~d)
    BY NotFlag, BitMinus
  <2>2. Flag(~d) = Flag(c) /\ Bit(~d) = Bit(c)
    BY <1>1, Zenon DEF Flag, Bit
  <2> QED
    BY <2>1, <2>2, Zenon
<1>3. /\ Says(crypto_int_nonzero_mask(b, x), crypto_int_nonzero_01(b, x), d)
      /\ Says(crypto_uint_nonzero_mask(b, x), crypto_uint_nonzero_01(b, x), d)
  BY <1>1, NonzeroSays
<1>4. CASE b = "portable"
  <2>1. /\ crypto_int_zero_mask(b, x) = Not(crypto_int_nonzero_mask(b, x))
        /\ crypto_int_zero_01(b, x) = Minus(One, crypto_int_nonzero_01(b, x))
        /\ crypto_uint_zero_mask(b, x) = Not(crypto_uint_nonzero_mask(b, x))
        /\ crypto_uint_zero_01(b, x) = Minus(One, crypto_uint_nonzero_01(b, x))
    BY <1>4, Kinds DEF crypto_int_zero_mask, crypto_int_zero_01, crypto_uint_zero_mask, crypto_uint_zero_01
  <2> QED
    BY <1>2, <1>3, <2>1, Zenon DEF Says
<1>5. CASE b = "select"
  <2>1. /\ crypto_int_zero_mask(b, x) = Flag(x = Zero) /\ crypto_int_zero_01(b, x) = Bit(x = Zero)
        /\ crypto_uint_zero_mask(b, x) = Flag(x = Zero) /\ crypto_uint_zero_01(b, x) = Bit(x = Zero)
    BY <1>5, Kinds DEF crypto_int_zero_mask, crypto_int_zero_01, crypto_uint_zero_mask, crypto_uint_zero_01
  <2>2. Flag(x = Zero) = Flag(c) /\ Bit(x = Zero) = Bit(c)
    BY ZeroIs, Zenon DEF Flag, Bit
  <2> QED
    BY <2>1, <2>2, Zenon DEF Says
<1>6. CASE b = "carry"
  <2>1. /\ crypto_int_zero_mask(b, x) = Minus(Bit(0 < Value(x)), One)
        /\ crypto_int_zero_01(b, x) = Minus(One, Bit(0 < Value(x)))
        /\ crypto_uint_zero_mask(b, x) = Minus(Bit(0 < Value(x)), One)
        /\ crypto_uint_zero_01(b, x) = Minus(One, Bit(0 < Value(x)))
    BY <1>6, Kinds DEF crypto_int_zero_mask, crypto_int_zero_01, crypto_uint_zero_mask, crypto_uint_zero_01
  <2>2. 0 < Value(x) <=> d
    BY <1>1, ValueLess
  <2>3. Bit(0 < Value(x)) = Bit(d)
    BY <2>2, Zenon DEF Bit
  <2> QED
    BY <1>2, <2>1, <2>3, Zenon DEF Says
<1> QED
  BY <1>4, <1>5, <1>6, Kinds, Zenon

(* The differing bits of two words. *)
LEMMA XorIs ==
  ASSUME CryptoIntParameters, NEW x \in Words, NEW y \in Words
  PROVE  /\ Xor(x, y) \in Words /\ (Value(Xor(x, y)) # 0 <=> x # y)
         /\ \A i : i \in Xor(x, y) <=> ~(i \in x <=> i \in y)
<1>1. Xor(x, y) \in Words /\ (Xor(x, y) = Zero <=> x = y) /\ \A i : i \in Xor(x, y) <=> ~(i \in x <=> i \in y)
  BY DEF Xor, Words, Zero
<1> QED
  BY <1>1, ZeroIs, Zenon

(* The same word, or another. *)
LEMMA EqualSays ==
  ASSUME CryptoIntParameters, NEW b \in Builds, NEW x \in Words, NEW y \in Words,
         NEW c \in BOOLEAN, c <=> x = y, NEW d \in BOOLEAN, d <=> x # y
  PROVE  /\ Says(crypto_int_equal_mask(b, x, y), crypto_int_equal_01(b, x, y), c)
         /\ Says(crypto_uint_equal_mask(b, x, y), crypto_uint_equal_01(b, x, y), c)
         /\ Says(crypto_int_unequal_mask(b, x, y), crypto_int_unequal_01(b, x, y), d)
         /\ Says(crypto_uint_unequal_mask(b, x, y), crypto_uint_unequal_01(b, x, y), d)
<1>1. PICK w \in Words : w = Xor(x, y) /\ (c <=> Value(w) = 0) /\ (d <=> Value(w) # 0)
  BY XorIs
<1>2. /\ Says(crypto_int_zero_mask(b, w), crypto_int_zero_01(b, w), c)
      /\ Says(crypto_uint_zero_mask(b, w), crypto_uint_zero_01(b, w), c)
  BY <1>1, ZeroSays
<1>3. /\ Says(crypto_int_nonzero_mask(b, w), crypto_int_nonzero_01(b, w), d)
      /\ Says(crypto_uint_nonzero_mask(b, w), crypto_uint_nonzero_01(b, w), d)
  BY <1>1, NonzeroSays
<1>4. Flag(x = y) = Flag(c) /\ Bit(x = y) = Bit(c) /\ Flag(x # y) = Flag(d) /\ Bit(x # y) = Bit(d)
  BY Zenon DEF Flag, Bit
<1>5. CASE b = "select"
  BY <1>4, <1>5, Zenon DEF Says, crypto_int_equal_mask, crypto_int_equal_01, crypto_uint_equal_mask,
       crypto_uint_equal_01, crypto_int_unequal_mask, crypto_int_unequal_01, crypto_uint_unequal_mask,
       crypto_uint_unequal_01
<1>6. CASE b # "select"
  BY <1>1, <1>2, <1>3, <1>6, Zenon DEF crypto_int_equal_mask, crypto_int_equal_01, crypto_uint_equal_mask,
       crypto_uint_equal_01, crypto_int_unequal_mask, crypto_int_unequal_01, crypto_uint_unequal_mask,
       crypto_uint_unequal_01
<1> QED
  BY <1>5, <1>6, Zenon

(* A word's number with its sign. *)
LEMMA SignedIs ==
  ASSUME CryptoIntParameters, NEW x \in Words
  PROVE  /\ Signed(x) \in Int
         /\ Signed(x) = IF Value(x) >= Power[N - 1] THEN Value(x) - Power[N] ELSE Value(x)
         /\ Signed(x) < 0 <=> N - 1 \in x
<1>1. Value(x) \in Nat /\ Value(x) < Power[N] /\ (N - 1 \in x <=> Value(x) >= Power[N - 1])
  BY ValueLess
<1>2. Power[N] \in Nat /\ Power[N - 1] \in Nat
  BY Width
<1> QED
  BY <1>1, <1>2 DEF Signed

(* More than zero. *)
LEMMA PositiveSays ==
  ASSUME CryptoIntParameters, NEW b \in Builds, NEW x \in Words, NEW c \in BOOLEAN, c <=> Signed(x) > 0
  PROVE  Says(crypto_int_positive_mask(b, x), crypto_int_positive_01(b, x), c)
<1>1. PICK h \in Nat, v \in Nat : /\ h = Power[N - 1] /\ v = Value(x) /\ Power[N] = 2 * h /\ h >= 8
                                  /\ v < 2 * h /\ (N - 1 \in x <=> v >= h)
  <2>1. Value(x) \in Nat /\ Value(x) < Power[N] /\ (N - 1 \in x <=> Value(x) >= Power[N - 1])
    BY ValueLess
  <2> QED
    BY <2>1, Width
<1>2. c <=> 0 < v /\ v < h
  <2>1. Signed(x) = IF v >= h THEN v - 2 * h ELSE v
    BY <1>1, SignedIs
  <2> QED
    BY <1>1, <2>1
<1>3. CASE b = "portable"
  <2>1. PICK z \in Words : z = Neg(x) /\ Value(z) = (IF v = 0 THEN 0 ELSE 2 * h - v)
    BY <1>1, NegIs
  <2>2. N - 1 \in z <=> Value(z) >= h
    BY <1>1, ValueLess
  <2>3. PICK w \in Words : w = Xor(z, x \cap z) /\ (N - 1 \in w <=> (N - 1 \in z /\ N - 1 \notin x))
    <3>1. x \cap z \in Words
      BY DEF Words
    <3>2. \A i : i \in Xor(z, x \cap z) <=> ~(i \in z <=> i \in x \cap z)
      BY <3>1, XorIs
    <3>3. Xor(z, x \cap z) \in Words
      BY <3>1, XorIs
    <3> QED
      BY <3>2, <3>3
  <2>4. N - 1 \in w <=> c
    BY <1>1, <1>2, <2>1, <2>2, <2>3
  <2>5. Says(crypto_int_negative_mask(b, w), crypto_int_unsigned_topbit_01(b, w), c)
    BY <2>4, TopSays DEF Says, Flag, Bit
  <2>6. /\ crypto_int_positive_mask(b, x) = crypto_int_negative_mask(b, w)
        /\ crypto_int_positive_01(b, x) = crypto_int_unsigned_topbit_01(b, w)
    BY <1>3, <2>1, <2>3, Kinds DEF crypto_int_positive_mask, crypto_int_positive_01
  <2> QED
    BY <2>5, <2>6, Zenon
<1>4. CASE b = "select"
  <2>1. /\ crypto_int_positive_mask(b, x) = Flag(Signed(x) > 0)
        /\ crypto_int_positive_01(b, x) = Bit(Signed(x) > 0)
    BY <1>4, Kinds DEF crypto_int_positive_mask, crypto_int_positive_01
  <2>2. Flag(Signed(x) > 0) = Flag(c) /\ Bit(Signed(x) > 0) = Bit(c)
    BY Zenon DEF Flag, Bit
  <2> QED
    BY <2>1, <2>2, Zenon DEF Says
<1>5. CASE b = "carry"
  <2>1. PICK d \in BOOLEAN : d <=> N - 1 \in x
    OBVIOUS
  <2>2. Sar(x, N - 1) = Flag(d)
    <3>1. crypto_int_negative_mask(b, x) = Sar(x, N - 1)
      BY <1>5, Kinds, Zenon DEF crypto_int_negative_mask
    <3>2. crypto_int_negative_mask(b, x) = Flag(N - 1 \in x)
      BY TopSays DEF Says
    <3> QED
      BY <2>1, <3>1, <3>2, Zenon DEF Flag
  <2>3. Flag(d) \in Words /\ Value(Flag(d)) = (IF d THEN 2 * h - 1 ELSE 0)
    BY <1>1, FlagIs
  <2>4. PICK w \in Words : /\ w = Minus(Flag(d), x)
                           /\ Value(w) = IF Value(Flag(d)) >= v THEN Value(Flag(d)) - v
                                         ELSE Value(Flag(d)) - v + 2 * h
    BY <1>1, <2>3, MinusIs
  <2>5. N - 1 \in w <=> Value(w) >= h
    BY <1>1, ValueLess
  <2>6. N - 1 \in w <=> c
    BY <1>1, <1>2, <2>1, <2>3, <2>4, <2>5
  <2>7. Says(crypto_int_negative_mask(b, w), crypto_int_unsigned_topbit_01(b, w), c)
    BY <2>6, TopSays DEF Says, Flag, Bit
  <2>8. crypto_int_negative_mask(b, w) = Sar(w, N - 1) /\ crypto_int_unsigned_topbit_01(b, w) = Shr(w, N - 1)
    BY <1>5, Kinds DEF crypto_int_negative_mask, crypto_int_unsigned_topbit_01
  <2>9. /\ crypto_int_positive_mask(b, x) = Sar(Minus(Sar(x, N - 1), x), N - 1)
        /\ crypto_int_positive_01(b, x) = Shr(Minus(Sar(x, N - 1), x), N - 1)
    BY <1>5, Kinds DEF crypto_int_positive_mask, crypto_int_positive_01
  <2> QED
    BY <2>2, <2>4, <2>7, <2>8, <2>9, Zenon
<1> QED
  BY <1>3, <1>4, <1>5, Kinds, Zenon

(* The sign of a difference, corrected, is the comparison's answer, also where
   the difference overflowed. *)
LEMMA BorrowIs ==
  ASSUME CryptoIntParameters, NEW x \in Words, NEW y \in Words
  PROVE  /\ crypto_int_borrow(x, y) \in Words
         /\ N - 1 \in crypto_int_borrow(x, y) <=> Signed(x) < Signed(y)
         /\ crypto_uint_borrow(x, y) \in Words
         /\ N - 1 \in crypto_uint_borrow(x, y) <=> Value(x) < Value(y)
<1>1. PICK h \in Nat, v \in Nat, u \in Nat :
        /\ h = Power[N - 1] /\ v = Value(x) /\ u = Value(y) /\ Power[N] = 2 * h /\ h >= 8
        /\ v < 2 * h /\ (N - 1 \in x <=> v >= h) /\ u < 2 * h /\ (N - 1 \in y <=> u >= h)
  <2>1. Value(x) \in Nat /\ Value(x) < Power[N] /\ (N - 1 \in x <=> Value(x) >= Power[N - 1])
    BY ValueLess
  <2>2. Value(y) \in Nat /\ Value(y) < Power[N] /\ (N - 1 \in y <=> Value(y) >= Power[N - 1])
    BY ValueLess
  <2> QED
    BY <2>1, <2>2, Width
<1>2. PICK z \in Words : z = Minus(x, y) /\ Value(z) = IF v >= u THEN v - u ELSE v - u + 2 * h
  BY <1>1, MinusIs
<1>3. N - 1 \in z <=> Value(z) >= h
  BY <1>1, ValueLess
<1>4. PICK s \in Words, t \in Words : /\ s = crypto_int_borrow(x, y) /\ t = crypto_uint_borrow(x, y)
                                      /\ s = Xor(z, Xor(x, y) \cap Xor(z, x))
                                      /\ t = Xor(z, Xor(x, y) \cap Xor(Xor(z, x), Top))
  <2>1. /\ crypto_int_borrow(x, y) = Xor(z, Xor(x, y) \cap Xor(z, x))
        /\ crypto_uint_borrow(x, y) = Xor(z, Xor(x, y) \cap Xor(Xor(z, x), Top))
    BY <1>2, Zenon DEF crypto_int_borrow, crypto_uint_borrow
  <2>2. Top \in Words
    BY Width DEF Top, Words
  <2>3. /\ Xor(z, Xor(x, y) \cap Xor(z, x)) \in Words
        /\ Xor(z, Xor(x, y) \cap Xor(Xor(z, x), Top)) \in Words
    BY <2>2 DEF Xor, Words
  <2> QED
    BY <2>1, <2>3, Zenon
<1>5. N - 1 \in s <=> (IF N - 1 \in x <=> N - 1 \in y THEN N - 1 \in z ELSE N - 1 \in x)
  BY <1>4 DEF Xor
<1>6. N - 1 \in t <=> (IF N - 1 \in x <=> N - 1 \in y THEN N - 1 \in z ELSE N - 1 \notin x)
  BY <1>4 DEF Xor, Top
<1>7. /\ Signed(x) = IF v >= h THEN v - 2 * h ELSE v
      /\ Signed(y) = IF u >= h THEN u - 2 * h ELSE u
  BY <1>1, SignedIs
<1>8. N - 1 \in s <=> Signed(x) < Signed(y)
  BY <1>1, <1>2, <1>3, <1>5, <1>7
<1>9. N - 1 \in t <=> v < u
  BY <1>1, <1>2, <1>3, <1>6
<1> QED
  BY <1>1, <1>4, <1>8, <1>9, Zenon

(* Smaller, and not larger, with and without sign. *)
LEMMA SmallerSays ==
  ASSUME CryptoIntParameters, NEW b \in Builds, NEW x \in Words, NEW y \in Words,
         NEW c \in BOOLEAN, c <=> Signed(x) < Signed(y), NEW d \in BOOLEAN, d <=> Value(x) < Value(y)
  PROVE  /\ Says(crypto_int_smaller_mask(b, x, y), crypto_int_smaller_01(b, x, y), c)
         /\ Says(crypto_uint_smaller_mask(b, x, y), crypto_uint_smaller_01(b, x, y), d)
<1>1. CASE b = "select"
  <2>1. /\ Flag(Signed(x) < Signed(y)) = Flag(c) /\ Bit(Signed(x) < Signed(y)) = Bit(c)
        /\ Flag(Value(x) < Value(y)) = Flag(d) /\ Bit(Value(x) < Value(y)) = Bit(d)
    BY Zenon DEF Flag, Bit
  <2> QED
    BY <1>1, <2>1, Zenon DEF Says, crypto_int_smaller_mask, crypto_int_smaller_01,
                             crypto_uint_smaller_mask, crypto_uint_smaller_01
<1>2. CASE b # "select"
  <2>1. PICK s \in Words, t \in Words : /\ s = crypto_int_borrow(x, y) /\ t = crypto_uint_borrow(x, y)
                                        /\ (N - 1 \in s <=> c) /\ (N - 1 \in t <=> d)
    BY BorrowIs
  <2>2. /\ Says(crypto_int_negative_mask(b, s), crypto_int_unsigned_topbit_01(b, s), N - 1 \in s)
        /\ Says(crypto_uint_signed_negative_mask(b, t), crypto_uint_topbit_01(b, t), N - 1 \in t)
    BY TopSays
  <2>3. /\ Says(crypto_int_negative_mask(b, s), crypto_int_unsigned_topbit_01(b, s), c)
        /\ Says(crypto_uint_signed_negative_mask(b, t), crypto_uint_topbit_01(b, t), d)
    BY <2>1, <2>2, Zenon DEF Says, Flag, Bit
  <2> QED
    BY <1>2, <2>1, <2>3, Zenon DEF crypto_int_smaller_mask, crypto_int_smaller_01,
                             crypto_uint_smaller_mask, crypto_uint_smaller_01
<1> QED
  BY <1>1, <1>2, Zenon

(* Not larger. *)
LEMMA LeqSays ==
  ASSUME CryptoIntParameters, NEW b \in Builds, NEW x \in Words, NEW y \in Words,
         NEW c \in BOOLEAN, c <=> Signed(x) <= Signed(y), NEW d \in BOOLEAN, d <=> Value(x) <= Value(y)
  PROVE  /\ Says(crypto_int_leq_mask(b, x, y), crypto_int_leq_01(b, x, y), c)
         /\ Says(crypto_uint_leq_mask(b, x, y), crypto_uint_leq_01(b, x, y), d)
<1>1. CASE b = "select"
  <2>1. /\ Flag(Signed(x) <= Signed(y)) = Flag(c) /\ Bit(Signed(x) <= Signed(y)) = Bit(c)
        /\ Flag(Value(x) <= Value(y)) = Flag(d) /\ Bit(Value(x) <= Value(y)) = Bit(d)
    BY Zenon DEF Flag, Bit
  <2> QED
    BY <1>1, <2>1, Zenon DEF Says, crypto_int_leq_mask, crypto_int_leq_01,
                             crypto_uint_leq_mask, crypto_uint_leq_01
<1>2. CASE b # "select"
  <2>1. PICK e \in BOOLEAN, f \in BOOLEAN : (e <=> Signed(y) < Signed(x)) /\ (f <=> Value(y) < Value(x))
    OBVIOUS
  <2>2. Signed(x) \in Int /\ Signed(y) \in Int /\ Value(x) \in Nat /\ Value(y) \in Nat
    BY SignedIs, ValueLess
  <2>3. (c <=> ~e) /\ (d <=> ~f)
    BY <2>1, <2>2
  <2>4. /\ Says(crypto_int_smaller_mask(b, y, x), crypto_int_smaller_01(b, y, x), e)
        /\ Says(crypto_uint_smaller_mask(b, y, x), crypto_uint_smaller_01(b, y, x), f)
    BY <2>1, SmallerSays
  <2>5. /\ Not(Flag(e)) = Flag(~e) /\ Minus(One, Bit(e)) = Bit(~e)
        /\ Not(Flag(f)) = Flag(~f) /\ Minus(One, Bit(f)) = Bit(~f)
    BY NotFlag, BitMinus
  <2>6. Flag(~e) = Flag(c) /\ Bit(~e) = Bit(c) /\ Flag(~f) = Flag(d) /\ Bit(~f) = Bit(d)
    BY <2>3, Zenon DEF Flag, Bit
  <2> QED
    BY <1>2, <2>4, <2>5, <2>6, Zenon DEF Says, crypto_int_leq_mask, crypto_int_leq_01,
                             crypto_uint_leq_mask, crypto_uint_leq_01
<1> QED
  BY <1>1, <1>2, Zenon

(* Masking a difference chooses between two words. *)
LEMMA Chosen ==
  ASSUME NEW c \in BOOLEAN, NEW x \in Words, NEW y \in Words
  PROVE  Xor(x, Xor(x, y) \cap Flag(c)) = IF c THEN y ELSE x
<1>1. CASE c
  <2>1. Flag(c) = Bits
    BY <1>1 DEF Flag, Ones
  <2>2. Xor(x, Xor(x, y) \cap Bits) = y
    BY DEF Xor, Words
  <2> QED
    BY <1>1, <2>1, <2>2
<1>2. CASE ~c
  <2>1. Flag(c) = {}
    BY <1>2 DEF Flag, Zero
  <2>2. Xor(x, Xor(x, y) \cap {}) = x
    BY DEF Xor, Words
  <2> QED
    BY <1>2, <2>1, <2>2
<1> QED
  BY <1>1, <1>2

(* A shifted word is a word, and two shifts are one by the sum. *)
LEMMA ShiftsAdd ==
  ASSUME CryptoIntParameters, NEW x \in Words, NEW k \in Nat, NEW m \in Nat
  PROVE  /\ Shl(x, k) \in Words /\ Shr(x, k) \in Words /\ Sar(x, k) \in Words
         /\ Shl(x, 0) = x /\ Shr(x, 0) = x /\ Sar(x, 0) = x
         /\ Shl(Shl(x, k), m) = Shl(x, k + m)
         /\ Shr(Shr(x, k), m) = Shr(x, k + m)
         /\ Sar(Sar(x, k), m) = Sar(x, k + m)
<1>1. N \in Nat /\ N >= 8
  BY Width
<1>2. x \subseteq Bits
  BY DEF Words
<1>3. Shl(x, k) \in Words /\ Shr(x, k) \in Words /\ Sar(x, k) \in Words
  BY DEF Words, Shl, Shr, Sar
<1>4. Shl(x, 0) = x
  <2>1. \A i \in Bits : i - 0 = i
    BY <1>1 DEF Bits
  <2> QED
    BY <1>2, <2>1 DEF Shl
<1>5. Shr(x, 0) = x /\ Sar(x, 0) = x
  <2>1. \A i \in Bits : i + 0 = i /\ i < N
    BY <1>1 DEF Bits
  <2> QED
    BY <1>2, <2>1 DEF Shr, Sar
<1>6. Shl(Shl(x, k), m) = Shl(x, k + m)
  <2>1. \A i \in Bits : (i - m) - k = i - (k + m) /\ ((i - m) - k \in Bits => i - m \in Bits)
    BY <1>1 DEF Bits
  <2> QED
    BY <1>2, <2>1 DEF Shl
<1>7. Shr(Shr(x, k), m) = Shr(x, k + m)
  <2>1. \A i \in Bits : (i + m) + k = i + (k + m) /\ ((i + m) + k \in Bits => i + m \in Bits)
    BY <1>1 DEF Bits
  <2> QED
    BY <1>2, <2>1 DEF Shr
<1>8. Sar(Sar(x, k), m) = Sar(x, k + m)
  <2>1. ASSUME NEW i \in Bits PROVE i \in Sar(Sar(x, k), m) <=> i \in Sar(x, k + m)
    <3>1. i \in Nat /\ i < N /\ N - 1 \in Bits
      BY <1>1 DEF Bits
    <3>2. N - 1 \in Sar(x, k) <=> N - 1 \in x
      <4>1. CASE k = 0
        BY <4>1, <1>5
      <4>2. CASE k # 0
        <5>1. ~((N - 1) + k < N)
          BY <1>1, <4>2
        <5> QED
          BY <3>1, <5>1 DEF Sar
      <4> QED
        BY <4>1, <4>2
    <3>3. CASE i + m < N
      <4>1. i + m \in Bits /\ (i + m) + k = i + (k + m)
        BY <1>1, <3>1, <3>3 DEF Bits
      <4>2. i \in Sar(Sar(x, k), m) <=> i + m \in Sar(x, k)
        BY <3>3 DEF Sar
      <4>3. i + m \in Sar(x, k) <=> IF (i + m) + k < N THEN (i + m) + k \in x ELSE N - 1 \in x
        BY <4>1 DEF Sar
      <4>4. i \in Sar(x, k + m) <=> IF i + (k + m) < N THEN i + (k + m) \in x ELSE N - 1 \in x
        BY DEF Sar
      <4> QED
        BY <4>1, <4>2, <4>3, <4>4, Zenon
    <3>4. CASE ~(i + m < N)
      <4>1. ~(i + (k + m) < N)
        BY <1>1, <3>1, <3>4
      <4>2. i \in Sar(Sar(x, k), m) <=> N - 1 \in Sar(x, k)
        BY <3>4 DEF Sar
      <4>3. i \in Sar(x, k + m) <=> N - 1 \in x
        BY <4>1 DEF Sar
      <4> QED
        BY <3>2, <4>2, <4>3, Zenon
    <3> QED
      BY <3>3, <3>4
  <2>2. Sar(Sar(x, k), m) \subseteq Bits /\ Sar(x, k + m) \subseteq Bits
    BY DEF Sar
  <2> QED
    BY <2>1, <2>2
<1> QED
  BY <1>3, <1>4, <1>5, <1>6, <1>7, <1>8

(* One bit at a place that is not secret, as a mask and alone. *)
LEMMA BitSays ==
  ASSUME CryptoIntParameters, NEW b, NEW x \in Words, NEW s \in Words, NEW k \in Bits, Value(s) = k,
         NEW c \in BOOLEAN, c <=> k \in x
  PROVE  /\ Says(crypto_int_bitinrangepublicpos_mask(b, x, s), crypto_int_bitinrangepublicpos_01(b, x, s), c)
         /\ Says(crypto_uint_bitinrangepublicpos_mask(b, x, s), crypto_uint_bitinrangepublicpos_01(b, x, s), c)
<1>1. k \in Nat /\ 0 \in Bits /\ 0 + k = k /\ k < N
  BY Width DEF Bits
<1>2. Sar(x, k) \in Words /\ Shr(x, k) \in Words
  BY <1>1, ShiftsAdd
<1>3. (c <=> 0 \in Sar(x, k)) /\ (c <=> 0 \in Shr(x, k))
  BY <1>1 DEF Sar, Shr
<1>4. /\ Says(crypto_int_bottombit_mask(b, Sar(x, k)), crypto_int_bottombit_01(b, Sar(x, k)), c)
      /\ Says(crypto_uint_bottombit_mask(b, Shr(x, k)), crypto_uint_bottombit_01(b, Shr(x, k)), c)
  BY <1>2, <1>3, BottomSays
<1> QED
  BY <1>4, Zenon DEF crypto_int_bitinrangepublicpos_mask, crypto_int_bitinrangepublicpos_01,
                     crypto_uint_bitinrangepublicpos_mask, crypto_uint_bitinrangepublicpos_01

(* Masking the difference of two words takes the second if c, the first if not. *)
Turns(y, z, mask, c) == Xor(y, Xor(y, z) \cap mask) = IF c THEN z ELSE y

(* One turn of the loop: the word is shifted by the power, if the bit of the
   amount is there. *)
LEMMA TurnIs ==
  ASSUME CryptoIntParameters, NEW b, NEW y \in Words, NEW s \in Words, NEW l \in 1..N, NEW z \in Words
  PROVE  /\ Turns(y, z, crypto_int_bitinrangepublicpos_mask(b, s, Word(l - 1)), l - 1 \in s)
         /\ Turns(y, z, crypto_uint_bitinrangepublicpos_mask(b, s, Word(l - 1)), l - 1 \in s)
<1>1. l - 1 \in Bits /\ l - 1 \in Nat /\ l - 1 \in 0..N /\ N \in Nat \ {0}
  BY Width DEF Bits
<1>2. l - 1 < Power[N]
  BY <1>1, PowerLarge, Width
<1>3. PICK w \in Words : w = Word(l - 1) /\ Value(w) = l - 1
  BY <1>1, <1>2, ValueWord
<1>4. PICK c \in BOOLEAN : c <=> l - 1 \in s
  OBVIOUS
<1>5. /\ crypto_int_bitinrangepublicpos_mask(b, s, w) = Flag(c)
      /\ crypto_uint_bitinrangepublicpos_mask(b, s, w) = Flag(c)
  BY <1>1, <1>3, <1>4, BitSays DEF Says
<1>6. Xor(y, Xor(y, z) \cap Flag(c)) = IF c THEN z ELSE y
  BY Chosen
<1> QED
  BY <1>3, <1>4, <1>5, <1>6, Zenon DEF Turns

(* The amount modulo the width: its lowest bits. *)
LEMMA CountIs ==
  ASSUME CryptoIntParameters, NEW s \in Words, NEW l \in 0..N, Power[l] = N
  PROVE  Count(s) = Low(s, l) /\ Count(s) \in Bits /\ l <= N - 1
<1>1. N \in Nat \ {0} /\ l < Power[l]
  BY Width, PowerLarge
<1>2. Value(s) % Power[l] = Low(s, l)
  BY <1>1, ValueDiv
<1>3. Low(s, l) \in Nat /\ Low(s, l) < Power[l]
  BY <1>1, LowLess
<1>4. Low(s, l) \in Bits
  BY <1>1, <1>3 DEF Bits
<1>5. Count(s) = Low(s, l)
  BY <1>2 DEF Count
<1> QED
  BY <1>1, <1>4, <1>5

(* What defines the words of crypto_int_shlmod's loop. *)
IntLeftRule(b, x, s, f) ==
  f = [l \in 0..N |->
         IF l = 0 THEN x
         ELSE LET y == f[l - 1]
              IN Xor(y, Xor(y, Shl(y, Power[l - 1])) \cap crypto_int_bitinrangepublicpos_mask(b, s, Word(l - 1)))]

(* After some turns the word has been shifted by the bits used so far, and in
   the end by the amount modulo the width, as every machine shifts it. *)
LEMMA IntLeft ==
  ASSUME CryptoIntParameters, NEW b \in Builds, NEW x \in Words, NEW s \in Words
  PROVE  crypto_int_shlmod(b, x, s) = Shl(x, Count(s))
<1>1. PICK e \in 0..N : e = CHOOSE l \in 0..N : Power[l] = N
  BY DEF CryptoIntParameters
<1>2. Power[e] = N
  BY <1>1 DEF CryptoIntParameters
<1>3. N \in Nat \ {0} /\ Count(s) = Low(s, e) /\ e <= N - 1
  BY <1>2, CountIs, Width
<1>4. \A l \in 0..N : Low(s, l) \in Nat /\ Power[l] \in Nat
  BY <1>3, LowLess, PowerIs
<1>5. ASSUME NEW l \in 1..N, NEW y, y = Shl(x, Low(s, l - 1))
      PROVE  Xor(y, Xor(y, Shl(y, Power[l - 1])) \cap crypto_int_bitinrangepublicpos_mask(b, s, Word(l - 1)))
               = Shl(x, Low(s, l))
  <2>1. PICK a \in Nat, p \in Nat : a = Low(s, l - 1) /\ p = Power[l - 1]
    BY <1>3, <1>4
  <2>2. y \in Words /\ Shl(y, p) \in Words /\ Shl(y, p) = Shl(x, a + p)
    <3>1. y = Shl(x, a)
      BY <1>5, <2>1, Zenon
    <3>2. y \in Words /\ Shl(Shl(x, a), p) = Shl(x, a + p)
      BY <3>1, ShiftsAdd
    <3>3. Shl(y, p) \in Words
      BY <3>2, ShiftsAdd
    <3> QED
      BY <3>1, <3>2, <3>3, Zenon
  <2>3. Xor(y, Xor(y, Shl(y, p)) \cap crypto_int_bitinrangepublicpos_mask(b, s, Word(l - 1)))
          = IF l - 1 \in s THEN Shl(y, p) ELSE y
    <3>1. Turns(y, Shl(y, p), crypto_int_bitinrangepublicpos_mask(b, s, Word(l - 1)), l - 1 \in s)
      BY <2>2, TurnIs, Zenon
    <3> QED
      BY <3>1, Zenon DEF Turns
  <2>4. Low(s, l) = IF l - 1 \in s THEN a + p ELSE a
    BY <1>3, <2>1, LowIs
  <2> QED
    BY <1>5, <2>1, <2>2, <2>3, <2>4, Zenon
<1>6. Low(s, 0) = 0 /\ Shl(x, 0) = x
  BY <1>3, LowIs, ShiftsAdd
<1>7. \E f : IntLeftRule(b, x, s, f)
  <2>1. PICK g : g = [l \in 0..N |-> Shl(x, Low(s, l))]
    OBVIOUS
  <2>2. \A l \in 1..N : l - 1 \in 0..N /\ l \in 0..N
    BY <1>3
  <2>3. ASSUME NEW l \in 0..N
        PROVE  g[l] = IF l = 0 THEN x
                      ELSE LET y == g[l - 1]
                           IN Xor(y, Xor(y, Shl(y, Power[l - 1]))
                                       \cap crypto_int_bitinrangepublicpos_mask(b, s, Word(l - 1)))
    <3>1. CASE l = 0
      BY <1>6, <2>1, <3>1
    <3>2. CASE l # 0
      <4>1. l \in 1..N
        BY <1>3, <3>2
      <4>2. g[l - 1] = Shl(x, Low(s, l - 1)) /\ g[l] = Shl(x, Low(s, l))
        BY <2>1, <2>2, <4>1
      <4> QED
        BY <1>5, <3>2, <4>1, <4>2, Zenon
    <3> QED
      BY <3>1, <3>2
  <2>4. IntLeftRule(b, x, s, g)
    BY <2>1, <2>3, Zenon DEF IntLeftRule
  <2> QED
    BY <2>4
<1>8. PICK f : IntLeftRule(b, x, s, f) /\ f = CHOOSE h : IntLeftRule(b, x, s, h)
  BY <1>7
<1>9. \A l \in 0..N : f[l] = Shl(x, Low(s, l))
  <2>1. f[0] = x
    BY <1>3, <1>8 DEF IntLeftRule
  <2>2. \A l \in 1..N : f[l] = LET y == f[l - 1]
                               IN Xor(y, Xor(y, Shl(y, Power[l - 1]))
                                           \cap crypto_int_bitinrangepublicpos_mask(b, s, Word(l - 1)))
    <3>1. SUFFICES ASSUME NEW l \in 1..N
                   PROVE  f[l] = LET y == f[l - 1]
                                 IN Xor(y, Xor(y, Shl(y, Power[l - 1]))
                                             \cap crypto_int_bitinrangepublicpos_mask(b, s, Word(l - 1)))
      OBVIOUS
    <3>2. l \in 0..N /\ l # 0
      BY <1>3
    <3>3. f[l] = IF l = 0 THEN x
                 ELSE LET y == f[l - 1]
                      IN Xor(y, Xor(y, Shl(y, Power[l - 1]))
                                  \cap crypto_int_bitinrangepublicpos_mask(b, s, Word(l - 1)))
      BY <1>8, <3>2, Zenon DEF IntLeftRule
    <3> QED
      BY <3>2, <3>3, Zenon
  <2>3. ASSUME NEW l \in 1..N, f[l - 1] = Shl(x, Low(s, l - 1)) PROVE f[l] = Shl(x, Low(s, l))
    BY <1>5, <2>2, <2>3, Zenon
  <2> DEFINE S == {l \in 0..N : f[l] = Shl(x, Low(s, l))}
  <2>4. 0 \in S
    BY <1>3, <1>6, <2>1
  <2>5. ASSUME NEW l \in 1..N, l - 1 \in S PROVE l \in S
    <3>1. l \in 0..N /\ f[l - 1] = Shl(x, Low(s, l - 1))
      BY <1>3, <2>5
    <3> QED
      BY <2>3, <3>1
  <2> HIDE DEF S
  <2>6. 0..N \subseteq S
    BY <1>3, <2>4, <2>5, Climb
  <2> QED
    BY <2>6 DEF S
<1>10. f[e] = Shl(x, Count(s))
  BY <1>3, <1>9
<1>11. CASE b = "portable"
  <2>1. crypto_int_shlmod(b, x, s) = (CHOOSE h : IntLeftRule(b, x, s, h))[e]
    BY <1>1, <1>11 DEF crypto_int_shlmod, IntLeftRule
  <2> QED
    BY <1>8, <1>10, <2>1, Zenon
<1>12. CASE b # "portable"
  BY <1>12, Zenon DEF crypto_int_shlmod
<1> QED
  BY <1>11, <1>12, Zenon

(* What defines the words of crypto_uint_shlmod's loop. *)
UintLeftRule(b, x, s, f) ==
  f = [l \in 0..N |->
         IF l = 0 THEN x
         ELSE LET y == f[l - 1]
              IN Xor(y, Xor(y, Shl(y, Power[l - 1])) \cap crypto_uint_bitinrangepublicpos_mask(b, s, Word(l - 1)))]

(* After some turns the word has been shifted by the bits used so far, and in
   the end by the amount modulo the width, as every machine shifts it. *)
LEMMA UintLeft ==
  ASSUME CryptoIntParameters, NEW b \in Builds, NEW x \in Words, NEW s \in Words
  PROVE  crypto_uint_shlmod(b, x, s) = Shl(x, Count(s))
<1>1. PICK e \in 0..N : e = CHOOSE l \in 0..N : Power[l] = N
  BY DEF CryptoIntParameters
<1>2. Power[e] = N
  BY <1>1 DEF CryptoIntParameters
<1>3. N \in Nat \ {0} /\ Count(s) = Low(s, e) /\ e <= N - 1
  BY <1>2, CountIs, Width
<1>4. \A l \in 0..N : Low(s, l) \in Nat /\ Power[l] \in Nat
  BY <1>3, LowLess, PowerIs
<1>5. ASSUME NEW l \in 1..N, NEW y, y = Shl(x, Low(s, l - 1))
      PROVE  Xor(y, Xor(y, Shl(y, Power[l - 1])) \cap crypto_uint_bitinrangepublicpos_mask(b, s, Word(l - 1)))
               = Shl(x, Low(s, l))
  <2>1. PICK a \in Nat, p \in Nat : a = Low(s, l - 1) /\ p = Power[l - 1]
    BY <1>3, <1>4
  <2>2. y \in Words /\ Shl(y, p) \in Words /\ Shl(y, p) = Shl(x, a + p)
    <3>1. y = Shl(x, a)
      BY <1>5, <2>1, Zenon
    <3>2. y \in Words /\ Shl(Shl(x, a), p) = Shl(x, a + p)
      BY <3>1, ShiftsAdd
    <3>3. Shl(y, p) \in Words
      BY <3>2, ShiftsAdd
    <3> QED
      BY <3>1, <3>2, <3>3, Zenon
  <2>3. Xor(y, Xor(y, Shl(y, p)) \cap crypto_uint_bitinrangepublicpos_mask(b, s, Word(l - 1)))
          = IF l - 1 \in s THEN Shl(y, p) ELSE y
    <3>1. Turns(y, Shl(y, p), crypto_uint_bitinrangepublicpos_mask(b, s, Word(l - 1)), l - 1 \in s)
      BY <2>2, TurnIs, Zenon
    <3> QED
      BY <3>1, Zenon DEF Turns
  <2>4. Low(s, l) = IF l - 1 \in s THEN a + p ELSE a
    BY <1>3, <2>1, LowIs
  <2> QED
    BY <1>5, <2>1, <2>2, <2>3, <2>4, Zenon
<1>6. Low(s, 0) = 0 /\ Shl(x, 0) = x
  BY <1>3, LowIs, ShiftsAdd
<1>7. \E f : UintLeftRule(b, x, s, f)
  <2>1. PICK g : g = [l \in 0..N |-> Shl(x, Low(s, l))]
    OBVIOUS
  <2>2. \A l \in 1..N : l - 1 \in 0..N /\ l \in 0..N
    BY <1>3
  <2>3. ASSUME NEW l \in 0..N
        PROVE  g[l] = IF l = 0 THEN x
                      ELSE LET y == g[l - 1]
                           IN Xor(y, Xor(y, Shl(y, Power[l - 1]))
                                       \cap crypto_uint_bitinrangepublicpos_mask(b, s, Word(l - 1)))
    <3>1. CASE l = 0
      BY <1>6, <2>1, <3>1
    <3>2. CASE l # 0
      <4>1. l \in 1..N
        BY <1>3, <3>2
      <4>2. g[l - 1] = Shl(x, Low(s, l - 1)) /\ g[l] = Shl(x, Low(s, l))
        BY <2>1, <2>2, <4>1
      <4> QED
        BY <1>5, <3>2, <4>1, <4>2, Zenon
    <3> QED
      BY <3>1, <3>2
  <2>4. UintLeftRule(b, x, s, g)
    BY <2>1, <2>3, Zenon DEF UintLeftRule
  <2> QED
    BY <2>4
<1>8. PICK f : UintLeftRule(b, x, s, f) /\ f = CHOOSE h : UintLeftRule(b, x, s, h)
  BY <1>7
<1>9. \A l \in 0..N : f[l] = Shl(x, Low(s, l))
  <2>1. f[0] = x
    BY <1>3, <1>8 DEF UintLeftRule
  <2>2. \A l \in 1..N : f[l] = LET y == f[l - 1]
                               IN Xor(y, Xor(y, Shl(y, Power[l - 1]))
                                           \cap crypto_uint_bitinrangepublicpos_mask(b, s, Word(l - 1)))
    <3>1. SUFFICES ASSUME NEW l \in 1..N
                   PROVE  f[l] = LET y == f[l - 1]
                                 IN Xor(y, Xor(y, Shl(y, Power[l - 1]))
                                             \cap crypto_uint_bitinrangepublicpos_mask(b, s, Word(l - 1)))
      OBVIOUS
    <3>2. l \in 0..N /\ l # 0
      BY <1>3
    <3>3. f[l] = IF l = 0 THEN x
                 ELSE LET y == f[l - 1]
                      IN Xor(y, Xor(y, Shl(y, Power[l - 1]))
                                  \cap crypto_uint_bitinrangepublicpos_mask(b, s, Word(l - 1)))
      BY <1>8, <3>2, Zenon DEF UintLeftRule
    <3> QED
      BY <3>2, <3>3, Zenon
  <2>3. ASSUME NEW l \in 1..N, f[l - 1] = Shl(x, Low(s, l - 1)) PROVE f[l] = Shl(x, Low(s, l))
    BY <1>5, <2>2, <2>3, Zenon
  <2> DEFINE S == {l \in 0..N : f[l] = Shl(x, Low(s, l))}
  <2>4. 0 \in S
    BY <1>3, <1>6, <2>1
  <2>5. ASSUME NEW l \in 1..N, l - 1 \in S PROVE l \in S
    <3>1. l \in 0..N /\ f[l - 1] = Shl(x, Low(s, l - 1))
      BY <1>3, <2>5
    <3> QED
      BY <2>3, <3>1
  <2> HIDE DEF S
  <2>6. 0..N \subseteq S
    BY <1>3, <2>4, <2>5, Climb
  <2> QED
    BY <2>6 DEF S
<1>10. f[e] = Shl(x, Count(s))
  BY <1>3, <1>9
<1>11. CASE b = "portable"
  <2>1. crypto_uint_shlmod(b, x, s) = (CHOOSE h : UintLeftRule(b, x, s, h))[e]
    BY <1>1, <1>11 DEF crypto_uint_shlmod, UintLeftRule
  <2> QED
    BY <1>8, <1>10, <2>1, Zenon
<1>12. CASE b # "portable"
  BY <1>12, Zenon DEF crypto_uint_shlmod
<1> QED
  BY <1>11, <1>12, Zenon

(* What defines the words of crypto_int_shrmod's loop. *)
IntRightRule(b, x, s, f) ==
  f = [l \in 0..N |->
         IF l = 0 THEN x
         ELSE LET y == f[l - 1]
              IN Xor(y, Xor(y, Sar(y, Power[l - 1])) \cap crypto_int_bitinrangepublicpos_mask(b, s, Word(l - 1)))]

(* After some turns the word has been shifted by the bits used so far, and in
   the end by the amount modulo the width, as every machine shifts it. *)
LEMMA IntRight ==
  ASSUME CryptoIntParameters, NEW b \in Builds, NEW x \in Words, NEW s \in Words
  PROVE  crypto_int_shrmod(b, x, s) = Sar(x, Count(s))
<1>1. PICK e \in 0..N : e = CHOOSE l \in 0..N : Power[l] = N
  BY DEF CryptoIntParameters
<1>2. Power[e] = N
  BY <1>1 DEF CryptoIntParameters
<1>3. N \in Nat \ {0} /\ Count(s) = Low(s, e) /\ e <= N - 1
  BY <1>2, CountIs, Width
<1>4. \A l \in 0..N : Low(s, l) \in Nat /\ Power[l] \in Nat
  BY <1>3, LowLess, PowerIs
<1>5. ASSUME NEW l \in 1..N, NEW y, y = Sar(x, Low(s, l - 1))
      PROVE  Xor(y, Xor(y, Sar(y, Power[l - 1])) \cap crypto_int_bitinrangepublicpos_mask(b, s, Word(l - 1)))
               = Sar(x, Low(s, l))
  <2>1. PICK a \in Nat, p \in Nat : a = Low(s, l - 1) /\ p = Power[l - 1]
    BY <1>3, <1>4
  <2>2. y \in Words /\ Sar(y, p) \in Words /\ Sar(y, p) = Sar(x, a + p)
    <3>1. y = Sar(x, a)
      BY <1>5, <2>1, Zenon
    <3>2. y \in Words /\ Sar(Sar(x, a), p) = Sar(x, a + p)
      BY <3>1, ShiftsAdd
    <3>3. Sar(y, p) \in Words
      BY <3>2, ShiftsAdd
    <3> QED
      BY <3>1, <3>2, <3>3, Zenon
  <2>3. Xor(y, Xor(y, Sar(y, p)) \cap crypto_int_bitinrangepublicpos_mask(b, s, Word(l - 1)))
          = IF l - 1 \in s THEN Sar(y, p) ELSE y
    <3>1. Turns(y, Sar(y, p), crypto_int_bitinrangepublicpos_mask(b, s, Word(l - 1)), l - 1 \in s)
      BY <2>2, TurnIs, Zenon
    <3> QED
      BY <3>1, Zenon DEF Turns
  <2>4. Low(s, l) = IF l - 1 \in s THEN a + p ELSE a
    BY <1>3, <2>1, LowIs
  <2> QED
    BY <1>5, <2>1, <2>2, <2>3, <2>4, Zenon
<1>6. Low(s, 0) = 0 /\ Sar(x, 0) = x
  BY <1>3, LowIs, ShiftsAdd
<1>7. \E f : IntRightRule(b, x, s, f)
  <2>1. PICK g : g = [l \in 0..N |-> Sar(x, Low(s, l))]
    OBVIOUS
  <2>2. \A l \in 1..N : l - 1 \in 0..N /\ l \in 0..N
    BY <1>3
  <2>3. ASSUME NEW l \in 0..N
        PROVE  g[l] = IF l = 0 THEN x
                      ELSE LET y == g[l - 1]
                           IN Xor(y, Xor(y, Sar(y, Power[l - 1]))
                                       \cap crypto_int_bitinrangepublicpos_mask(b, s, Word(l - 1)))
    <3>1. CASE l = 0
      BY <1>6, <2>1, <3>1
    <3>2. CASE l # 0
      <4>1. l \in 1..N
        BY <1>3, <3>2
      <4>2. g[l - 1] = Sar(x, Low(s, l - 1)) /\ g[l] = Sar(x, Low(s, l))
        BY <2>1, <2>2, <4>1
      <4> QED
        BY <1>5, <3>2, <4>1, <4>2, Zenon
    <3> QED
      BY <3>1, <3>2
  <2>4. IntRightRule(b, x, s, g)
    BY <2>1, <2>3, Zenon DEF IntRightRule
  <2> QED
    BY <2>4
<1>8. PICK f : IntRightRule(b, x, s, f) /\ f = CHOOSE h : IntRightRule(b, x, s, h)
  BY <1>7
<1>9. \A l \in 0..N : f[l] = Sar(x, Low(s, l))
  <2>1. f[0] = x
    BY <1>3, <1>8 DEF IntRightRule
  <2>2. \A l \in 1..N : f[l] = LET y == f[l - 1]
                               IN Xor(y, Xor(y, Sar(y, Power[l - 1]))
                                           \cap crypto_int_bitinrangepublicpos_mask(b, s, Word(l - 1)))
    <3>1. SUFFICES ASSUME NEW l \in 1..N
                   PROVE  f[l] = LET y == f[l - 1]
                                 IN Xor(y, Xor(y, Sar(y, Power[l - 1]))
                                             \cap crypto_int_bitinrangepublicpos_mask(b, s, Word(l - 1)))
      OBVIOUS
    <3>2. l \in 0..N /\ l # 0
      BY <1>3
    <3>3. f[l] = IF l = 0 THEN x
                 ELSE LET y == f[l - 1]
                      IN Xor(y, Xor(y, Sar(y, Power[l - 1]))
                                  \cap crypto_int_bitinrangepublicpos_mask(b, s, Word(l - 1)))
      BY <1>8, <3>2, Zenon DEF IntRightRule
    <3> QED
      BY <3>2, <3>3, Zenon
  <2>3. ASSUME NEW l \in 1..N, f[l - 1] = Sar(x, Low(s, l - 1)) PROVE f[l] = Sar(x, Low(s, l))
    BY <1>5, <2>2, <2>3, Zenon
  <2> DEFINE S == {l \in 0..N : f[l] = Sar(x, Low(s, l))}
  <2>4. 0 \in S
    BY <1>3, <1>6, <2>1
  <2>5. ASSUME NEW l \in 1..N, l - 1 \in S PROVE l \in S
    <3>1. l \in 0..N /\ f[l - 1] = Sar(x, Low(s, l - 1))
      BY <1>3, <2>5
    <3> QED
      BY <2>3, <3>1
  <2> HIDE DEF S
  <2>6. 0..N \subseteq S
    BY <1>3, <2>4, <2>5, Climb
  <2> QED
    BY <2>6 DEF S
<1>10. f[e] = Sar(x, Count(s))
  BY <1>3, <1>9
<1>11. CASE b = "portable"
  <2>1. crypto_int_shrmod(b, x, s) = (CHOOSE h : IntRightRule(b, x, s, h))[e]
    BY <1>1, <1>11 DEF crypto_int_shrmod, IntRightRule
  <2> QED
    BY <1>8, <1>10, <2>1, Zenon
<1>12. CASE b # "portable"
  BY <1>12, Zenon DEF crypto_int_shrmod
<1> QED
  BY <1>11, <1>12, Zenon

(* What defines the words of crypto_uint_shrmod's loop. *)
UintRightRule(b, x, s, f) ==
  f = [l \in 0..N |->
         IF l = 0 THEN x
         ELSE LET y == f[l - 1]
              IN Xor(y, Xor(y, Shr(y, Power[l - 1])) \cap crypto_uint_bitinrangepublicpos_mask(b, s, Word(l - 1)))]

(* After some turns the word has been shifted by the bits used so far, and in
   the end by the amount modulo the width, as every machine shifts it. *)
LEMMA UintRight ==
  ASSUME CryptoIntParameters, NEW b \in Builds, NEW x \in Words, NEW s \in Words
  PROVE  crypto_uint_shrmod(b, x, s) = Shr(x, Count(s))
<1>1. PICK e \in 0..N : e = CHOOSE l \in 0..N : Power[l] = N
  BY DEF CryptoIntParameters
<1>2. Power[e] = N
  BY <1>1 DEF CryptoIntParameters
<1>3. N \in Nat \ {0} /\ Count(s) = Low(s, e) /\ e <= N - 1
  BY <1>2, CountIs, Width
<1>4. \A l \in 0..N : Low(s, l) \in Nat /\ Power[l] \in Nat
  BY <1>3, LowLess, PowerIs
<1>5. ASSUME NEW l \in 1..N, NEW y, y = Shr(x, Low(s, l - 1))
      PROVE  Xor(y, Xor(y, Shr(y, Power[l - 1])) \cap crypto_uint_bitinrangepublicpos_mask(b, s, Word(l - 1)))
               = Shr(x, Low(s, l))
  <2>1. PICK a \in Nat, p \in Nat : a = Low(s, l - 1) /\ p = Power[l - 1]
    BY <1>3, <1>4
  <2>2. y \in Words /\ Shr(y, p) \in Words /\ Shr(y, p) = Shr(x, a + p)
    <3>1. y = Shr(x, a)
      BY <1>5, <2>1, Zenon
    <3>2. y \in Words /\ Shr(Shr(x, a), p) = Shr(x, a + p)
      BY <3>1, ShiftsAdd
    <3>3. Shr(y, p) \in Words
      BY <3>2, ShiftsAdd
    <3> QED
      BY <3>1, <3>2, <3>3, Zenon
  <2>3. Xor(y, Xor(y, Shr(y, p)) \cap crypto_uint_bitinrangepublicpos_mask(b, s, Word(l - 1)))
          = IF l - 1 \in s THEN Shr(y, p) ELSE y
    <3>1. Turns(y, Shr(y, p), crypto_uint_bitinrangepublicpos_mask(b, s, Word(l - 1)), l - 1 \in s)
      BY <2>2, TurnIs, Zenon
    <3> QED
      BY <3>1, Zenon DEF Turns
  <2>4. Low(s, l) = IF l - 1 \in s THEN a + p ELSE a
    BY <1>3, <2>1, LowIs
  <2> QED
    BY <1>5, <2>1, <2>2, <2>3, <2>4, Zenon
<1>6. Low(s, 0) = 0 /\ Shr(x, 0) = x
  BY <1>3, LowIs, ShiftsAdd
<1>7. \E f : UintRightRule(b, x, s, f)
  <2>1. PICK g : g = [l \in 0..N |-> Shr(x, Low(s, l))]
    OBVIOUS
  <2>2. \A l \in 1..N : l - 1 \in 0..N /\ l \in 0..N
    BY <1>3
  <2>3. ASSUME NEW l \in 0..N
        PROVE  g[l] = IF l = 0 THEN x
                      ELSE LET y == g[l - 1]
                           IN Xor(y, Xor(y, Shr(y, Power[l - 1]))
                                       \cap crypto_uint_bitinrangepublicpos_mask(b, s, Word(l - 1)))
    <3>1. CASE l = 0
      BY <1>6, <2>1, <3>1
    <3>2. CASE l # 0
      <4>1. l \in 1..N
        BY <1>3, <3>2
      <4>2. g[l - 1] = Shr(x, Low(s, l - 1)) /\ g[l] = Shr(x, Low(s, l))
        BY <2>1, <2>2, <4>1
      <4> QED
        BY <1>5, <3>2, <4>1, <4>2, Zenon
    <3> QED
      BY <3>1, <3>2
  <2>4. UintRightRule(b, x, s, g)
    BY <2>1, <2>3, Zenon DEF UintRightRule
  <2> QED
    BY <2>4
<1>8. PICK f : UintRightRule(b, x, s, f) /\ f = CHOOSE h : UintRightRule(b, x, s, h)
  BY <1>7
<1>9. \A l \in 0..N : f[l] = Shr(x, Low(s, l))
  <2>1. f[0] = x
    BY <1>3, <1>8 DEF UintRightRule
  <2>2. \A l \in 1..N : f[l] = LET y == f[l - 1]
                               IN Xor(y, Xor(y, Shr(y, Power[l - 1]))
                                           \cap crypto_uint_bitinrangepublicpos_mask(b, s, Word(l - 1)))
    <3>1. SUFFICES ASSUME NEW l \in 1..N
                   PROVE  f[l] = LET y == f[l - 1]
                                 IN Xor(y, Xor(y, Shr(y, Power[l - 1]))
                                             \cap crypto_uint_bitinrangepublicpos_mask(b, s, Word(l - 1)))
      OBVIOUS
    <3>2. l \in 0..N /\ l # 0
      BY <1>3
    <3>3. f[l] = IF l = 0 THEN x
                 ELSE LET y == f[l - 1]
                      IN Xor(y, Xor(y, Shr(y, Power[l - 1]))
                                  \cap crypto_uint_bitinrangepublicpos_mask(b, s, Word(l - 1)))
      BY <1>8, <3>2, Zenon DEF UintRightRule
    <3> QED
      BY <3>2, <3>3, Zenon
  <2>3. ASSUME NEW l \in 1..N, f[l - 1] = Shr(x, Low(s, l - 1)) PROVE f[l] = Shr(x, Low(s, l))
    BY <1>5, <2>2, <2>3, Zenon
  <2> DEFINE S == {l \in 0..N : f[l] = Shr(x, Low(s, l))}
  <2>4. 0 \in S
    BY <1>3, <1>6, <2>1
  <2>5. ASSUME NEW l \in 1..N, l - 1 \in S PROVE l \in S
    <3>1. l \in 0..N /\ f[l - 1] = Shr(x, Low(s, l - 1))
      BY <1>3, <2>5
    <3> QED
      BY <2>3, <3>1
  <2> HIDE DEF S
  <2>6. 0..N \subseteq S
    BY <1>3, <2>4, <2>5, Climb
  <2> QED
    BY <2>6 DEF S
<1>10. f[e] = Shr(x, Count(s))
  BY <1>3, <1>9
<1>11. CASE b = "portable"
  <2>1. crypto_uint_shrmod(b, x, s) = (CHOOSE h : UintRightRule(b, x, s, h))[e]
    BY <1>1, <1>11 DEF crypto_uint_shrmod, UintRightRule
  <2> QED
    BY <1>8, <1>10, <2>1, Zenon
<1>12. CASE b # "portable"
  BY <1>12, Zenon DEF crypto_uint_shrmod
<1> QED
  BY <1>11, <1>12, Zenon

(* The complement of a word is what is missing to the largest one. *)
LEMMA NotIs ==
  ASSUME CryptoIntParameters, NEW x \in Words
  PROVE  Not(x) \in Words /\ Value(Not(x)) = Power[N] - 1 - Value(x)
<1>1. N \in Nat /\ N \in 0..N
  BY Width
<1>2. PICK y : y = Not(x)
  OBVIOUS
<1>3. y \in Words /\ \A j \in Bits : j \in y <=> j \notin x
  BY <1>2 DEF Not, Words
<1>4. \A i \in 0..N : Low(x, i) \in Nat /\ Low(y, i) \in Nat
  BY <1>1, LowLess
<1>5. \A i \in 0..N : Low(y, i) + Low(x, i) = Power[i] - 1
  <2> DEFINE S == {i \in 0..N : Low(y, i) + Low(x, i) = Power[i] - 1}
  <2>1. 0 \in S
    BY <1>1, LowIs, PowerIs
  <2>2. \A i \in 1..N : i - 1 \in S => i \in S
    <3>1. ASSUME NEW i \in 1..N, Low(y, i - 1) + Low(x, i - 1) = Power[i - 1] - 1
          PROVE  Low(y, i) + Low(x, i) = Power[i] - 1
      <4>1. Power[i] = 2 * Power[i - 1] /\ Power[i - 1] \in Nat /\ i - 1 \in 0..N /\ i - 1 \in Bits
        BY <1>1, PowerIs DEF Bits
      <4>2. /\ Low(x, i) = Low(x, i - 1) + (IF i - 1 \in x THEN Power[i - 1] ELSE 0)
            /\ Low(y, i) = Low(y, i - 1) + (IF i - 1 \in y THEN Power[i - 1] ELSE 0)
        BY <1>1, LowIs
      <4>3. Low(x, i - 1) \in Nat /\ Low(y, i - 1) \in Nat /\ (i - 1 \in y <=> i - 1 \notin x)
        BY <1>3, <1>4, <4>1
      <4> QED
        BY <3>1, <4>1, <4>2, <4>3
    <3> QED
      BY <3>1
  <2> HIDE DEF S
  <2>3. 0..N \subseteq S
    BY <1>1, <2>1, <2>2, Climb
  <2> QED
    BY <2>3 DEF S
<1>6. Value(x) = Low(x, N) /\ Value(y) = Low(y, N) /\ Power[N] \in Nat
  BY <1>1, LowIs, Width
<1>7. Low(y, N) + Low(x, N) = Power[N] - 1 /\ Low(x, N) \in Nat /\ Low(y, N) \in Nat
  BY <1>1, <1>4, <1>5
<1>8. Value(y) = Power[N] - 1 - Value(x)
  BY <1>6, <1>7
<1> QED
  BY <1>2, <1>3, <1>8, Zenon

(* A shift up multiplies, modulo the word. *)
LEMMA LeftValue ==
  ASSUME CryptoIntParameters, NEW x \in Words, NEW k \in Bits
  PROVE  Value(Shl(x, k)) = (Value(x) * Power[k]) % Power[N]
<1>1. N \in Nat /\ k \in Nat /\ k \in 0..N /\ N - k \in 0..N /\ k + (N - k) = N /\ N - (N - k) = k
  BY Width DEF Bits
<1>2. PICK w \in Words : w = Shl(x, k)
  BY <1>1, ShiftsAdd
<1>3. Low(w, k) = 0
  <2>1. \A j \in 0..(k - 1) : j \in w <=> j \in {}
    BY <1>1, <1>2 DEF Shl, Words, Bits
  <2>2. Low(w, k) = Low({}, k)
    <3>1. PICK e : e = {}
      OBVIOUS
    <3>2. \A j \in 0..(k - 1) : j \in w <=> j \in e
      BY <2>1, <3>1
    <3>3. \A i \in 0..k : Low(w, i) = Low(e, i)
      BY <1>1, <3>2, LowSame
    <3>4. k \in 0..k
      BY <1>1
    <3> QED
      BY <3>1, <3>3, <3>4, Zenon
  <2>4. Low({}, k) = 0
    <3> DEFINE S == {i \in 0..N : Low({}, i) = 0}
    <3>1. 0 \in S
      BY <1>1, LowIs
    <3>2. \A i \in 1..N : i - 1 \in S => i \in S
      <4>1. ASSUME NEW i \in 1..N, Low({}, i - 1) = 0 PROVE Low({}, i) = 0
        BY <1>1, <4>1, LowIs
      <4> QED
        BY <4>1
    <3> HIDE DEF S
    <3>3. 0..N \subseteq S
      BY <1>1, <3>1, <3>2, Climb
    <3> QED
      BY <1>1, <3>3 DEF S
  <2> QED
    BY <2>2, <2>4
<1>4. Low(Shr(w, k), N - k) = Low(x, N - k)
  <2>1. \A j \in 0..((N - k) - 1) : j \in Shr(w, k) <=> j \in x
    <3>1. ASSUME NEW j \in 0..((N - k) - 1) PROVE j \in Shr(w, k) <=> j \in x
      <4>1. j \in Bits /\ j + k \in Bits /\ (j + k) - k = j
        BY <1>1, <3>1 DEF Bits
      <4> QED
        BY <1>2, <4>1 DEF Shr, Shl
    <3> QED
      BY <3>1
  <2>2. N - k \in 0..(N - k)
    BY <1>1
  <2> QED
    <3>1. PICK m \in 0..N : m = N - k
      BY <1>1, <2>2
    <3>2. \A j \in 0..(m - 1) : j \in Shr(w, k) <=> j \in x
      BY <2>1, <3>1, Zenon
    <3>3. \A i \in 0..m : Low(Shr(w, k), i) = Low(x, i)
      BY <1>1, <3>2, LowSame, Zenon
    <3> QED
      BY <2>2, <3>1, <3>3, Zenon
<1>5. PICK p \in Nat \ {0}, m \in Nat \ {0}, q \in Nat, r \in Nat :
        p = Power[k] /\ m = Power[N - k] /\ q = Value(Shr(x, N - k)) /\ r = Low(x, N - k) /\ r < m
  <2>1. Power[k] \in Nat \ {0} /\ Power[N - k] \in Nat \ {0}
    BY <1>1, PowerPositive
  <2>2. Value(Shr(x, N - k)) \in Nat
    BY <1>1, ValueSplit
  <2>3. Low(x, N - k) \in Nat /\ Low(x, N - k) < Power[N - k]
    BY <1>1, LowLess
  <2> QED
    BY <2>1, <2>2, <2>3
<1>6. Value(w) = p * r
  <2>1. Value(w) = Power[k] * Value(Shr(w, k)) + Low(w, k) /\ Value(Shr(w, k)) = Low(Shr(w, k), N - k)
    BY <1>1, ValueSplit
  <2> QED
    BY <1>3, <1>4, <1>5, <2>1
<1>7. Value(x) = m * q + r
  BY <1>1, <1>5, ValueSplit
<1>8. PICK t \in Nat \ {0} : t = Power[N] /\ t = p * m
  <2>1. Power[k + (N - k)] = Power[k] * Power[N - k]
    <3>1. N - k \in 0..(N - k)
      BY <1>1
    <3> QED
      BY <1>1, <3>1, PowerSum
  <2>2. Power[N] \in Nat \ {0}
    BY <1>1, PowerPositive
  <2> QED
    BY <1>1, <1>5, <2>1, <2>2
<1>9. PICK a \in Nat, c \in Nat : a = (m * q + r) * p /\ c = p * r
  OBVIOUS
<1>10. a = t * q + c
  <2>1. (m * q + r) * p = (p * m) * q + p * r
    OBVIOUS
  <2> QED
    BY <1>8, <1>9, <2>1
<1>11. c < t
  BY <1>5, <1>8, <1>9
<1>12. DividesTo(a, t, q, c)
  BY <1>10, <1>11, DivIs
<1>13. a % t = c
  BY <1>12 DEF DividesTo
<1>14. a = Value(x) * Power[k]
  BY <1>5, <1>7, <1>9, Zenon
<1>15. Value(w) = c
  BY <1>6, <1>9, Zenon
<1> QED
  BY <1>2, <1>8, <1>13, <1>14, <1>15, Zenon

(* A shift down divides a signed number too, rounding down. *)
LEMMA RightValue ==
  ASSUME CryptoIntParameters, NEW x \in Words, NEW k \in Bits
  PROVE  Signed(Sar(x, k)) = Signed(x) \div Power[k]
<1>1. N \in Nat /\ k \in Nat /\ k \in 0..N /\ N - 1 \in Bits /\ N \in Nat \ {0}
  BY Width DEF Bits
<1>2. PICK w \in Words : w = Sar(x, k)
  BY <1>1, ShiftsAdd
<1>3. N - 1 \in w <=> N - 1 \in x
  <2>1. (N - 1) + k < N => (N - 1) + k = N - 1
    BY <1>1
  <2> QED
    BY <1>1, <1>2, <2>1 DEF Sar
<1>4. CASE N - 1 \notin x
  <2>1. w = Shr(x, k)
    <3>1. \A i \in Bits : ~(i + k < N) => i + k \notin Bits
      BY <1>1 DEF Bits
    <3> QED
      BY <1>2, <1>4, <3>1 DEF Sar, Shr, Words
  <2>2. Signed(x) = Value(x) /\ Signed(w) = Value(w)
    BY <1>3, <1>4 DEF Signed
  <2>3. Value(x) \div Power[k] = Value(Shr(x, k))
    BY <1>1, ValueDiv
  <2> QED
    BY <1>2, <2>1, <2>2, <2>3, Zenon
<1>5. CASE N - 1 \in x
  <2>1. PICK y \in Words, u \in Words : y = Not(x) /\ u = Not(w)
    BY NotIs
  <2>2. u = Shr(y, k)
    <3>1. ASSUME NEW i \in Bits PROVE i \in u <=> i \in Shr(y, k)
      <4>1. i \in u <=> i \notin w
        BY <2>1 DEF Not
      <4>2. i \in w <=> (i + k < N => i + k \in x)
        BY <1>2, <1>5 DEF Sar
      <4>3. i + k \in y <=> i + k \in Bits /\ i + k \notin x
        BY <2>1 DEF Not
      <4>4. i + k \in Bits <=> i + k < N
        BY <1>1 DEF Bits
      <4>5. i \in Shr(y, k) <=> i + k \in y
        BY DEF Shr
      <4> QED
        BY <4>1, <4>2, <4>3, <4>4, <4>5, Zenon
    <3>2. u \subseteq Bits /\ Shr(y, k) \subseteq Bits
      BY DEF Words, Shr
    <3> QED
      BY <3>1, <3>2
  <2>3. PICK t \in Nat, v \in Nat, vy \in Nat, vu \in Nat, vw \in Nat, p \in Nat \ {0} :
          /\ t = Power[N] /\ v = Value(x) /\ vy = Value(y) /\ vu = Value(u) /\ vw = Value(w) /\ p = Power[k]
          /\ vy = t - 1 - v /\ vu = t - 1 - vw
    <3>1. Value(x) \in Nat /\ Value(y) \in Nat /\ Value(u) \in Nat /\ Value(w) \in Nat
      BY ValueLess
    <3>2. Value(Not(x)) = Power[N] - 1 - Value(x) /\ Value(Not(w)) = Power[N] - 1 - Value(w)
      BY NotIs
    <3>3. Power[N] \in Nat /\ Power[k] \in Nat \ {0}
      BY <1>1, PowerPositive, Width
    <3> QED
      BY <2>1, <3>1, <3>2, <3>3
  <2>4. PICK r \in Nat : r < p /\ vy = p * vu + r
    <3>1. Value(y) = Power[k] * Value(Shr(y, k)) + Low(y, k) /\ Low(y, k) \in Nat /\ Low(y, k) < Power[k]
      BY <1>1, ValueSplit, LowLess
    <3> QED
      BY <2>2, <2>3, <3>1
  <2>5. Signed(x) = v - t /\ Signed(w) = vw - t
    BY <1>3, <1>5, <2>3 DEF Signed
  <2>6. PICK a \in Int, q \in Int, s \in Nat : a = v - t /\ q = vw - t /\ s = p - 1 - r
    BY <2>3, <2>4
  <2>7. a = p * q + s
    <3>1. a = -1 - vy /\ q = -1 - vu
      BY <2>3, <2>6
    <3>2. p * (-1 - vu) = -p - p * vu
      OBVIOUS
    <3>3. PICK c \in Int : c = p * vu
      OBVIOUS
    <3> QED
      BY <2>4, <2>6, <3>1, <3>2, <3>3
  <2>8. s < p
    BY <2>4, <2>6
  <2>9. DividesTo(a, p, q, s)
    BY <2>7, <2>8, DivIs
  <2>10. a \div p = q
    BY <2>9 DEF DividesTo
  <2> QED
    BY <1>2, <2>3, <2>5, <2>6, <2>10, Zenon
<1> QED
  BY <1>4, <1>5

(* Different words have different numbers, with a sign too. *)
LEMMA SameSigned ==
  ASSUME CryptoIntParameters, NEW x \in Words, NEW y \in Words
  PROVE  /\ Signed(x) = Signed(y) => x = y
         /\ Value(x) = Value(y) => x = y
         /\ Signed(x) \in Int /\ Signed(y) \in Int /\ Value(x) \in Nat /\ Value(y) \in Nat
<1>1. /\ Value(x) \in Nat /\ Value(x) < Power[N] /\ Value(y) \in Nat /\ Value(y) < Power[N] /\ Power[N] \in Nat
      /\ (N - 1 \in x <=> Value(x) >= Power[N - 1]) /\ (N - 1 \in y <=> Value(y) >= Power[N - 1])
  BY ValueLess, Width
<1>2. /\ Signed(x) = IF Value(x) >= Power[N - 1] THEN Value(x) - Power[N] ELSE Value(x)
      /\ Signed(y) = IF Value(y) >= Power[N - 1] THEN Value(y) - Power[N] ELSE Value(y)
  BY SignedIs
<1>3. Signed(x) = Signed(y) => Value(x) = Value(y)
  BY <1>1, <1>2
<1>4. Value(x) = Value(y) => x = y
  BY SameValue
<1>5. Signed(x) \in Int /\ Signed(y) \in Int
  BY SignedIs
<1> QED
  BY <1>1, <1>3, <1>4, <1>5, Zenon

(* The first two words, or the same two in the other order if c. *)
Sorted(x, y, mask, c) ==
  /\ Xor(x, mask \cap Xor(y, x)) = IF c THEN y ELSE x
  /\ Xor(y, mask \cap Xor(y, x)) = IF c THEN x ELSE y

(* Minimum and maximum by the mask of the second being smaller. *)
LEMMA Ordered ==
  ASSUME NEW x \in Words, NEW y \in Words, NEW c \in BOOLEAN
  PROVE  Sorted(x, y, Flag(c), c)
<1>1. Flag(c) \cap Xor(y, x) = Xor(x, y) \cap Flag(c) /\ Flag(c) \cap Xor(y, x) = Xor(y, x) \cap Flag(c)
  BY DEF Xor
<1>2. Xor(x, Xor(x, y) \cap Flag(c)) = IF c THEN y ELSE x
  BY Chosen
<1>3. Xor(y, Xor(y, x) \cap Flag(c)) = IF c THEN x ELSE y
  BY Chosen
<1> QED
  BY <1>1, <1>2, <1>3, Zenon DEF Sorted

(* crypto_intN_min, _max and _minmax and their unsigned sisters put every two
   words of every width in order on every kind of machine, also where their
   difference overflows. *)
THEOREM WordsOrdered ==
  ASSUME CryptoIntParameters, NEW b \in Builds, NEW x \in Words, NEW y \in Words
  PROVE  MinMaxRight(b, x, y)
<1>1. PICK c \in BOOLEAN, d \in BOOLEAN : (c <=> Signed(y) < Signed(x)) /\ (d <=> Value(y) < Value(x))
  OBVIOUS
<1>2. /\ (IF Signed(x) < Signed(y) THEN x ELSE y) = (IF c THEN y ELSE x)
      /\ (IF Signed(x) < Signed(y) THEN y ELSE x) = (IF c THEN x ELSE y)
      /\ (IF Value(x) < Value(y) THEN x ELSE y) = (IF d THEN y ELSE x)
      /\ (IF Value(x) < Value(y) THEN y ELSE x) = (IF d THEN x ELSE y)
  BY <1>1, SameSigned
<1>3. CASE b = "select"
  <2>1. /\ Signed(x) > Signed(y) <=> c
        /\ Value(x) > Value(y) <=> d
    BY <1>1, SameSigned
  <2>2. /\ crypto_int_min(b, x, y) = (IF c THEN y ELSE x) /\ crypto_uint_min(b, x, y) = (IF d THEN y ELSE x)
        /\ crypto_int_minmax(b, x, y) = (IF c THEN <<y, x>> ELSE <<x, y>>)
        /\ crypto_uint_minmax(b, x, y) = (IF d THEN <<y, x>> ELSE <<x, y>>)
    BY <1>3, <2>1, Zenon DEF crypto_int_min, crypto_uint_min, crypto_int_minmax, crypto_uint_minmax
  <2>3. /\ crypto_int_max(b, x, y) = (IF c THEN x ELSE y)
        /\ crypto_uint_max(b, x, y) = (IF d THEN x ELSE y)
    <3>1. /\ crypto_int_max(b, x, y) = IF Signed(x) < Signed(y) THEN y ELSE x
          /\ crypto_uint_max(b, x, y) = IF Value(x) < Value(y) THEN y ELSE x
      BY <1>3, Zenon DEF crypto_int_max, crypto_uint_max
    <3> QED
      BY <1>2, <3>1
  <2> QED
    BY <1>2, <2>2, <2>3 DEF MinMaxRight
<1>4. CASE b # "select"
  <2>1. PICK s \in Words, t \in Words : /\ s = crypto_int_borrow(y, x) /\ t = crypto_uint_borrow(y, x)
                                        /\ (N - 1 \in s <=> c) /\ (N - 1 \in t <=> d)
    BY <1>1, BorrowIs
  <2>2. /\ Says(crypto_int_negative_mask(b, s), crypto_int_unsigned_topbit_01(b, s), N - 1 \in s)
        /\ Says(crypto_uint_signed_negative_mask(b, t), crypto_uint_topbit_01(b, t), N - 1 \in t)
    BY TopSays
  <2>3. /\ crypto_int_negative_mask(b, crypto_int_borrow(y, x)) = Flag(c)
        /\ crypto_uint_signed_negative_mask(b, crypto_uint_borrow(y, x)) = Flag(d)
    BY <2>1, <2>2, Zenon DEF Says, Flag
  <2>4. /\ Xor(x, Flag(c) \cap Xor(y, x)) = (IF c THEN y ELSE x)
        /\ Xor(y, Flag(c) \cap Xor(y, x)) = (IF c THEN x ELSE y)
        /\ Xor(x, Flag(d) \cap Xor(y, x)) = (IF d THEN y ELSE x)
        /\ Xor(y, Flag(d) \cap Xor(y, x)) = (IF d THEN x ELSE y)
    <3>1. Sorted(x, y, Flag(c), c) /\ Sorted(x, y, Flag(d), d)
      BY Ordered, Zenon
    <3> QED
      BY <3>1, Zenon DEF Sorted
  <2>5. /\ crypto_int_min(b, x, y) = (IF c THEN y ELSE x) /\ crypto_uint_min(b, x, y) = (IF d THEN y ELSE x)
        /\ crypto_int_max(b, x, y) = (IF c THEN x ELSE y) /\ crypto_uint_max(b, x, y) = (IF d THEN x ELSE y)
    BY <1>4, <2>3, <2>4, Zenon DEF crypto_int_min, crypto_uint_min, crypto_int_max, crypto_uint_max
  <2>6. /\ crypto_int_minmax(b, x, y) = <<IF c THEN y ELSE x, IF c THEN x ELSE y>>
        /\ crypto_uint_minmax(b, x, y) = <<IF d THEN y ELSE x, IF d THEN x ELSE y>>
    BY <1>4, <2>3, <2>4, Zenon DEF crypto_int_minmax, crypto_uint_minmax
  <2> QED
    BY <1>2, <2>5, <2>6 DEF MinMaxRight
<1> QED
  BY <1>3, <1>4

(* crypto_intN_shlmod and _shrmod and their unsigned sisters shift by the amount
   modulo the width on every kind of machine, the loop of masked shifts and the
   machine's own instruction alike: up is a multiplication, down a division that
   rounds down. A bit at a public place in range is that bit. *)
THEOREM ShiftsModulo ==
  ASSUME CryptoIntParameters, NEW b \in Builds, NEW x \in Words, NEW s \in Words
  PROVE  ShiftsRight(b, x, s)
<1>1. PICK k \in Bits : k = Count(s)
  BY CountIs DEF CryptoIntParameters
<1>2. /\ Value(crypto_int_shlmod(b, x, s)) = (Value(x) * Power[Count(s)]) % Power[N]
      /\ Value(crypto_uint_shlmod(b, x, s)) = (Value(x) * Power[Count(s)]) % Power[N]
  <2>1. Value(Shl(x, k)) = (Value(x) * Power[k]) % Power[N]
    BY LeftValue
  <2>2. crypto_int_shlmod(b, x, s) = Shl(x, Count(s)) /\ crypto_uint_shlmod(b, x, s) = Shl(x, Count(s))
    BY IntLeft, UintLeft
  <2> QED
    BY <1>1, <2>1, <2>2, Zenon
<1>3. Signed(crypto_int_shrmod(b, x, s)) = Signed(x) \div Power[Count(s)]
  <2>1. Signed(Sar(x, k)) = Signed(x) \div Power[k]
    BY RightValue
  <2>2. crypto_int_shrmod(b, x, s) = Sar(x, Count(s))
    BY IntRight
  <2> QED
    BY <1>1, <2>1, <2>2, Zenon
<1>4. Value(crypto_uint_shrmod(b, x, s)) = Value(x) \div Power[Count(s)]
  <2>1. N \in Nat /\ k \in 0..N
    BY Width DEF Bits
  <2>2. Value(x) \div Power[k] = Value(Shr(x, k))
    BY <2>1, ValueDiv
  <2>3. crypto_uint_shrmod(b, x, s) = Shr(x, Count(s))
    BY UintRight
  <2> QED
    BY <1>1, <2>2, <2>3, Zenon
<1>5. ASSUME Value(s) < N
      PROVE  {crypto_int_bitinrangepublicpos_01(b, x, s), crypto_uint_bitinrangepublicpos_01(b, x, s)}
               = {IF Value(s) \in x THEN One ELSE {}}
  <2>1. PICK m \in Bits : m = Value(s)
    BY <1>5, Width, ValueLess DEF Bits
  <2>2. PICK c \in BOOLEAN : c <=> m \in x
    OBVIOUS
  <2>3. /\ crypto_int_bitinrangepublicpos_01(b, x, s) = Bit(c)
        /\ crypto_uint_bitinrangepublicpos_01(b, x, s) = Bit(c)
    BY <2>1, <2>2, BitSays DEF Says
  <2>4. Bit(c) = IF Value(s) \in x THEN One ELSE {}
    BY <2>1, <2>2, Zenon DEF Bit, Zero
  <2> QED
    BY <2>3, <2>4
<1> QED
  BY <1>2, <1>3, <1>4, <1>5, Zenon DEF ShiftsRight

(* The bit at a secret place, taken modulo the width. *)
LEMMA BitmodSays ==
  ASSUME CryptoIntParameters, NEW b \in Builds, NEW x \in Words, NEW s \in Words, NEW c \in BOOLEAN,
         c <=> Count(s) \in x
  PROVE  /\ Says(crypto_int_bitmod_mask(b, x, s), crypto_int_bitmod_01(b, x, s), c)
         /\ Says(crypto_uint_bitmod_mask(b, x, s), crypto_uint_bitmod_01(b, x, s), c)
<1>1. PICK k \in Bits : k = Count(s)
  BY CountIs DEF CryptoIntParameters
<1>2. k \in Nat /\ 0 \in Bits /\ 0 + k = k /\ k < N
  BY Width DEF Bits
<1>3. Sar(x, k) \in Words /\ Shr(x, k) \in Words
  BY <1>2, ShiftsAdd
<1>4. (c <=> 0 \in Sar(x, k)) /\ (c <=> 0 \in Shr(x, k))
  BY <1>1, <1>2 DEF Sar, Shr
<1>5. /\ Says(crypto_int_bottombit_mask(b, Sar(x, k)), crypto_int_bottombit_01(b, Sar(x, k)), c)
      /\ Says(crypto_uint_bottombit_mask(b, Shr(x, k)), crypto_uint_bottombit_01(b, Shr(x, k)), c)
  BY <1>3, <1>4, BottomSays
<1>6. crypto_int_shrmod(b, x, s) = Sar(x, Count(s)) /\ crypto_uint_shrmod(b, x, s) = Shr(x, Count(s))
  BY IntRight, UintRight
<1> QED
  BY <1>1, <1>5, <1>6, Zenon DEF crypto_int_bitmod_mask, crypto_int_bitmod_01,
                                crypto_uint_bitmod_mask, crypto_uint_bitmod_01

(* Every mask function and its 01 sister answers what its name asks, signed or
   not, of every two words of every width on every kind of machine: all ones or
   all zeros, one or zero. *)
THEOREM MasksSay ==
  ASSUME CryptoIntParameters, NEW b \in Builds, NEW x \in Words, NEW y \in Words
  PROVE  MasksRight(b, x, y)
<1>1. PICK c1 \in BOOLEAN : c1 <=> Signed(x) < 0
  OBVIOUS
<1>2. PICK c2 \in BOOLEAN : c2 <=> N - 1 \in x
  OBVIOUS
<1>3. PICK c3 \in BOOLEAN : c3 <=> Value(x) % 2 = 1
  OBVIOUS
<1>4. PICK c4 \in BOOLEAN : c4 <=> Count(y) \in x
  OBVIOUS
<1>5. PICK c5 \in BOOLEAN : c5 <=> Value(x) # 0
  OBVIOUS
<1>6. PICK c6 \in BOOLEAN : c6 <=> Signed(x) > 0
  OBVIOUS
<1>7. PICK c7 \in BOOLEAN : c7 <=> Value(x) = 0
  OBVIOUS
<1>8. PICK c8 \in BOOLEAN : c8 <=> x # y
  OBVIOUS
<1>9. PICK c9 \in BOOLEAN : c9 <=> x = y
  OBVIOUS
<1>10. PICK c10 \in BOOLEAN : c10 <=> Signed(x) < Signed(y)
  OBVIOUS
<1>11. PICK c11 \in BOOLEAN : c11 <=> Signed(x) <= Signed(y)
  OBVIOUS
<1>12. PICK c12 \in BOOLEAN : c12 <=> Value(x) < Value(y)
  OBVIOUS
<1>13. PICK c13 \in BOOLEAN : c13 <=> Value(x) <= Value(y)
  OBVIOUS
<1>14. Says(crypto_int_negative_mask(b, x), crypto_int_negative_01(b, x), c1)
  <2>1. Says(crypto_int_negative_mask(b, x), crypto_int_unsigned_topbit_01(b, x), N - 1 \in x)
    BY TopSays
  <2>2. c1 <=> N - 1 \in x
    BY <1>1, SignedIs
  <2> QED
    BY <2>1, <2>2, Zenon DEF Says, Flag, Bit, crypto_int_negative_01
<1>15. Says(crypto_int_topbit_mask(b, x), crypto_int_topbit_01(b, x), c2)
  <2>1. Says(crypto_int_negative_mask(b, x), crypto_int_unsigned_topbit_01(b, x), N - 1 \in x)
    BY TopSays
  <2>2. c2 <=> N - 1 \in x
    BY <1>2
  <2> QED
    BY <2>1, <2>2, Zenon DEF Says, Flag, Bit, crypto_int_topbit_mask, crypto_int_topbit_01
<1>16. Says(crypto_int_bottombit_mask(b, x), crypto_int_bottombit_01(b, x), c3)
  <2>1. c3 <=> 0 \in x
    BY <1>3, Odd, Width
  <2> QED
    BY <2>1, BottomSays
<1>17. Says(crypto_int_bitmod_mask(b, x, y), crypto_int_bitmod_01(b, x, y), c4)
  BY <1>4, BitmodSays
<1>18. Says(crypto_int_nonzero_mask(b, x), crypto_int_nonzero_01(b, x), c5)
  BY <1>5, NonzeroSays
<1>19. Says(crypto_int_positive_mask(b, x), crypto_int_positive_01(b, x), c6)
  BY <1>6, PositiveSays
<1>20. Says(crypto_int_zero_mask(b, x), crypto_int_zero_01(b, x), c7)
  BY <1>7, ZeroSays
<1>21. Says(crypto_int_unequal_mask(b, x, y), crypto_int_unequal_01(b, x, y), c8)
  BY <1>8, EqualSays
<1>22. Says(crypto_int_equal_mask(b, x, y), crypto_int_equal_01(b, x, y), c9)
  BY <1>9, EqualSays
<1>23. Says(crypto_int_smaller_mask(b, x, y), crypto_int_smaller_01(b, x, y), c10)
  BY <1>10, SmallerSays
<1>24. Says(crypto_int_leq_mask(b, x, y), crypto_int_leq_01(b, x, y), c11)
  BY <1>11, LeqSays
<1>25. Says(crypto_uint_topbit_mask(b, x), crypto_uint_topbit_01(b, x), c2)
  <2>1. Says(crypto_uint_signed_negative_mask(b, x), crypto_uint_topbit_01(b, x), N - 1 \in x)
    BY TopSays
  <2>2. c2 <=> N - 1 \in x
    BY <1>2
  <2> QED
    BY <2>1, <2>2, Zenon DEF Says, Flag, Bit, crypto_uint_topbit_mask
<1>26. Says(crypto_uint_bottombit_mask(b, x), crypto_uint_bottombit_01(b, x), c3)
  <2>1. c3 <=> 0 \in x
    BY <1>3, Odd, Width
  <2> QED
    BY <2>1, BottomSays
<1>27. Says(crypto_uint_bitmod_mask(b, x, y), crypto_uint_bitmod_01(b, x, y), c4)
  BY <1>4, BitmodSays
<1>28. Says(crypto_uint_nonzero_mask(b, x), crypto_uint_nonzero_01(b, x), c5)
  BY <1>5, NonzeroSays
<1>29. Says(crypto_uint_zero_mask(b, x), crypto_uint_zero_01(b, x), c7)
  BY <1>7, ZeroSays
<1>30. Says(crypto_uint_unequal_mask(b, x, y), crypto_uint_unequal_01(b, x, y), c8)
  BY <1>8, EqualSays
<1>31. Says(crypto_uint_equal_mask(b, x, y), crypto_uint_equal_01(b, x, y), c9)
  BY <1>9, EqualSays
<1>32. Says(crypto_uint_smaller_mask(b, x, y), crypto_uint_smaller_01(b, x, y), c12)
  BY <1>12, SmallerSays
<1>33. Says(crypto_uint_leq_mask(b, x, y), crypto_uint_leq_01(b, x, y), c13)
  BY <1>13, LeqSays
<1>34. SUFFICES
        ASSUME NEW f \in {
                 <<crypto_int_negative_mask(b, x), crypto_int_negative_01(b, x), Signed(x) < 0>>,
                 <<crypto_int_topbit_mask(b, x), crypto_int_topbit_01(b, x), N - 1 \in x>>,
                 <<crypto_int_bottombit_mask(b, x), crypto_int_bottombit_01(b, x), Value(x) % 2 = 1>>,
                 <<crypto_int_bitmod_mask(b, x, y), crypto_int_bitmod_01(b, x, y), Count(y) \in x>>,
                 <<crypto_int_nonzero_mask(b, x), crypto_int_nonzero_01(b, x), Value(x) # 0>>,
                 <<crypto_int_positive_mask(b, x), crypto_int_positive_01(b, x), Signed(x) > 0>>,
                 <<crypto_int_zero_mask(b, x), crypto_int_zero_01(b, x), Value(x) = 0>>,
                 <<crypto_int_unequal_mask(b, x, y), crypto_int_unequal_01(b, x, y), x # y>>,
                 <<crypto_int_equal_mask(b, x, y), crypto_int_equal_01(b, x, y), x = y>>,
                 <<crypto_int_smaller_mask(b, x, y), crypto_int_smaller_01(b, x, y), Signed(x) < Signed(y)>>,
                 <<crypto_int_leq_mask(b, x, y), crypto_int_leq_01(b, x, y), Signed(x) <= Signed(y)>>,
                 <<crypto_uint_topbit_mask(b, x), crypto_uint_topbit_01(b, x), N - 1 \in x>>,
                 <<crypto_uint_bottombit_mask(b, x), crypto_uint_bottombit_01(b, x), Value(x) % 2 = 1>>,
                 <<crypto_uint_bitmod_mask(b, x, y), crypto_uint_bitmod_01(b, x, y), Count(y) \in x>>,
                 <<crypto_uint_nonzero_mask(b, x), crypto_uint_nonzero_01(b, x), Value(x) # 0>>,
                 <<crypto_uint_zero_mask(b, x), crypto_uint_zero_01(b, x), Value(x) = 0>>,
                 <<crypto_uint_unequal_mask(b, x, y), crypto_uint_unequal_01(b, x, y), x # y>>,
                 <<crypto_uint_equal_mask(b, x, y), crypto_uint_equal_01(b, x, y), x = y>>,
                 <<crypto_uint_smaller_mask(b, x, y), crypto_uint_smaller_01(b, x, y), Value(x) < Value(y)>>,
                 <<crypto_uint_leq_mask(b, x, y), crypto_uint_leq_01(b, x, y), Value(x) <= Value(y)>>}
        PROVE  f[1] = Flag(f[3]) /\ f[2] = Bit(f[3])
  BY Zenon DEF MasksRight
<1>35. CASE f = <<crypto_int_negative_mask(b, x), crypto_int_negative_01(b, x), Signed(x) < 0>>
  <2>1. f[1] = crypto_int_negative_mask(b, x) /\ f[2] = crypto_int_negative_01(b, x) /\ f[3] = (Signed(x) < 0)
    BY <1>35
  <2> QED
    BY <1>1, <1>14, <2>1, Zenon DEF Says, Flag, Bit
<1>36. CASE f = <<crypto_int_topbit_mask(b, x), crypto_int_topbit_01(b, x), N - 1 \in x>>
  <2>1. f[1] = crypto_int_topbit_mask(b, x) /\ f[2] = crypto_int_topbit_01(b, x) /\ f[3] = (N - 1 \in x)
    BY <1>36
  <2> QED
    BY <1>2, <1>15, <2>1, Zenon DEF Says, Flag, Bit
<1>37. CASE f = <<crypto_int_bottombit_mask(b, x), crypto_int_bottombit_01(b, x), Value(x) % 2 = 1>>
  <2>1. f[1] = crypto_int_bottombit_mask(b, x) /\ f[2] = crypto_int_bottombit_01(b, x) /\ f[3] = (Value(x) % 2 = 1)
    BY <1>37
  <2> QED
    BY <1>3, <1>16, <2>1, Zenon DEF Says, Flag, Bit
<1>38. CASE f = <<crypto_int_bitmod_mask(b, x, y), crypto_int_bitmod_01(b, x, y), Count(y) \in x>>
  <2>1. f[1] = crypto_int_bitmod_mask(b, x, y) /\ f[2] = crypto_int_bitmod_01(b, x, y) /\ f[3] = (Count(y) \in x)
    BY <1>38
  <2> QED
    BY <1>4, <1>17, <2>1, Zenon DEF Says, Flag, Bit
<1>39. CASE f = <<crypto_int_nonzero_mask(b, x), crypto_int_nonzero_01(b, x), Value(x) # 0>>
  <2>1. f[1] = crypto_int_nonzero_mask(b, x) /\ f[2] = crypto_int_nonzero_01(b, x) /\ f[3] = (Value(x) # 0)
    BY <1>39
  <2> QED
    BY <1>5, <1>18, <2>1, Zenon DEF Says, Flag, Bit
<1>40. CASE f = <<crypto_int_positive_mask(b, x), crypto_int_positive_01(b, x), Signed(x) > 0>>
  <2>1. f[1] = crypto_int_positive_mask(b, x) /\ f[2] = crypto_int_positive_01(b, x) /\ f[3] = (Signed(x) > 0)
    BY <1>40
  <2> QED
    BY <1>6, <1>19, <2>1, Zenon DEF Says, Flag, Bit
<1>41. CASE f = <<crypto_int_zero_mask(b, x), crypto_int_zero_01(b, x), Value(x) = 0>>
  <2>1. f[1] = crypto_int_zero_mask(b, x) /\ f[2] = crypto_int_zero_01(b, x) /\ f[3] = (Value(x) = 0)
    BY <1>41
  <2> QED
    BY <1>7, <1>20, <2>1, Zenon DEF Says, Flag, Bit
<1>42. CASE f = <<crypto_int_unequal_mask(b, x, y), crypto_int_unequal_01(b, x, y), x # y>>
  <2>1. f[1] = crypto_int_unequal_mask(b, x, y) /\ f[2] = crypto_int_unequal_01(b, x, y) /\ f[3] = (x # y)
    BY <1>42
  <2> QED
    BY <1>8, <1>21, <2>1, Zenon DEF Says, Flag, Bit
<1>43. CASE f = <<crypto_int_equal_mask(b, x, y), crypto_int_equal_01(b, x, y), x = y>>
  <2>1. f[1] = crypto_int_equal_mask(b, x, y) /\ f[2] = crypto_int_equal_01(b, x, y) /\ f[3] = (x = y)
    BY <1>43
  <2> QED
    BY <1>9, <1>22, <2>1, Zenon DEF Says, Flag, Bit
<1>44. CASE f = <<crypto_int_smaller_mask(b, x, y), crypto_int_smaller_01(b, x, y), Signed(x) < Signed(y)>>
  <2>1. f[1] = crypto_int_smaller_mask(b, x, y) /\ f[2] = crypto_int_smaller_01(b, x, y) /\ f[3] = (Signed(x) < Signed(y))
    BY <1>44
  <2> QED
    BY <1>10, <1>23, <2>1, Zenon DEF Says, Flag, Bit
<1>45. CASE f = <<crypto_int_leq_mask(b, x, y), crypto_int_leq_01(b, x, y), Signed(x) <= Signed(y)>>
  <2>1. f[1] = crypto_int_leq_mask(b, x, y) /\ f[2] = crypto_int_leq_01(b, x, y) /\ f[3] = (Signed(x) <= Signed(y))
    BY <1>45
  <2> QED
    BY <1>11, <1>24, <2>1, Zenon DEF Says, Flag, Bit
<1>46. CASE f = <<crypto_uint_topbit_mask(b, x), crypto_uint_topbit_01(b, x), N - 1 \in x>>
  <2>1. f[1] = crypto_uint_topbit_mask(b, x) /\ f[2] = crypto_uint_topbit_01(b, x) /\ f[3] = (N - 1 \in x)
    BY <1>46
  <2> QED
    BY <1>2, <1>25, <2>1, Zenon DEF Says, Flag, Bit
<1>47. CASE f = <<crypto_uint_bottombit_mask(b, x), crypto_uint_bottombit_01(b, x), Value(x) % 2 = 1>>
  <2>1. f[1] = crypto_uint_bottombit_mask(b, x) /\ f[2] = crypto_uint_bottombit_01(b, x) /\ f[3] = (Value(x) % 2 = 1)
    BY <1>47
  <2> QED
    BY <1>3, <1>26, <2>1, Zenon DEF Says, Flag, Bit
<1>48. CASE f = <<crypto_uint_bitmod_mask(b, x, y), crypto_uint_bitmod_01(b, x, y), Count(y) \in x>>
  <2>1. f[1] = crypto_uint_bitmod_mask(b, x, y) /\ f[2] = crypto_uint_bitmod_01(b, x, y) /\ f[3] = (Count(y) \in x)
    BY <1>48
  <2> QED
    BY <1>4, <1>27, <2>1, Zenon DEF Says, Flag, Bit
<1>49. CASE f = <<crypto_uint_nonzero_mask(b, x), crypto_uint_nonzero_01(b, x), Value(x) # 0>>
  <2>1. f[1] = crypto_uint_nonzero_mask(b, x) /\ f[2] = crypto_uint_nonzero_01(b, x) /\ f[3] = (Value(x) # 0)
    BY <1>49
  <2> QED
    BY <1>5, <1>28, <2>1, Zenon DEF Says, Flag, Bit
<1>50. CASE f = <<crypto_uint_zero_mask(b, x), crypto_uint_zero_01(b, x), Value(x) = 0>>
  <2>1. f[1] = crypto_uint_zero_mask(b, x) /\ f[2] = crypto_uint_zero_01(b, x) /\ f[3] = (Value(x) = 0)
    BY <1>50
  <2> QED
    BY <1>7, <1>29, <2>1, Zenon DEF Says, Flag, Bit
<1>51. CASE f = <<crypto_uint_unequal_mask(b, x, y), crypto_uint_unequal_01(b, x, y), x # y>>
  <2>1. f[1] = crypto_uint_unequal_mask(b, x, y) /\ f[2] = crypto_uint_unequal_01(b, x, y) /\ f[3] = (x # y)
    BY <1>51
  <2> QED
    BY <1>8, <1>30, <2>1, Zenon DEF Says, Flag, Bit
<1>52. CASE f = <<crypto_uint_equal_mask(b, x, y), crypto_uint_equal_01(b, x, y), x = y>>
  <2>1. f[1] = crypto_uint_equal_mask(b, x, y) /\ f[2] = crypto_uint_equal_01(b, x, y) /\ f[3] = (x = y)
    BY <1>52
  <2> QED
    BY <1>9, <1>31, <2>1, Zenon DEF Says, Flag, Bit
<1>53. CASE f = <<crypto_uint_smaller_mask(b, x, y), crypto_uint_smaller_01(b, x, y), Value(x) < Value(y)>>
  <2>1. f[1] = crypto_uint_smaller_mask(b, x, y) /\ f[2] = crypto_uint_smaller_01(b, x, y) /\ f[3] = (Value(x) < Value(y))
    BY <1>53
  <2> QED
    BY <1>12, <1>32, <2>1, Zenon DEF Says, Flag, Bit
<1>54. CASE f = <<crypto_uint_leq_mask(b, x, y), crypto_uint_leq_01(b, x, y), Value(x) <= Value(y)>>
  <2>1. f[1] = crypto_uint_leq_mask(b, x, y) /\ f[2] = crypto_uint_leq_01(b, x, y) /\ f[3] = (Value(x) <= Value(y))
    BY <1>54
  <2> QED
    BY <1>13, <1>33, <2>1, Zenon DEF Says, Flag, Bit
<1> QED
  BY <1>35, <1>36, <1>37, <1>38, <1>39, <1>40, <1>41, <1>42, <1>43, <1>44, <1>45, <1>46, <1>47, <1>48, <1>49, <1>50, <1>51, <1>52, <1>53, <1>54, Zenon

(* A power is smaller than the next ones, and the higher is a multiple of the lower. *)
LEMMA PowerGrows ==
  ASSUME N \in Nat, NEW k \in 0..N, NEW m \in 0..N, k < m
  PROVE  /\ Power[k] < Power[m] /\ m - k \in 0..N
         /\ Power[m] = Power[k] * Power[m - k]
<1>1. m - k \in 1..(N - k) /\ m - k \in 0..(N - k) /\ m - k \in 0..N /\ k + (m - k) = m
  OBVIOUS
<1>2. Power[k + (m - k)] = Power[k] * Power[m - k]
  BY <1>1, PowerSum
<1>3. PICK a \in Nat \ {0}, c \in Nat \ {0} : a = Power[k] /\ c = Power[m - k]
  BY <1>1, PowerPositive
<1>4. 1 < c
  BY <1>1, <1>3, PowerLarge
<1>5. a < a * c
  BY <1>3, <1>4
<1> QED
  BY <1>1, <1>2, <1>3, <1>5

(* The first powers. *)
LEMMA SmallPowers ==
  ASSUME N \in Nat, N >= 8
  PROVE  Power[0] = 1 /\ Power[1] = 2 /\ Power[2] = 4 /\ Power[3] = 8
<1>1. Power[0] = 1 /\ \A i \in 1..N : Power[i] = 2 * Power[i - 1]
  BY PowerIs
<1>2. Power[1] = 2 * Power[1 - 1] /\ Power[2] = 2 * Power[2 - 1] /\ Power[3] = 2 * Power[3 - 1]
  BY <1>1
<1> QED
  BY <1>1, <1>2

(* The width is some number of bytes. *)
LEMMA WidthBytes ==
  ASSUME CryptoIntParameters
  PROVE  /\ N \div 8 \in Nat /\ N = 8 * (N \div 8) /\ N \div 8 >= 1
         /\ \E l \in 3..N : Power[l] = N /\ l < N
<1>1. N \in Nat /\ N >= 8
  BY Width
<1>2. PICK l \in 0..N : Power[l] = N
  BY DEF CryptoIntParameters
<1>3. Power[0] = 1 /\ Power[1] = 2 /\ Power[2] = 4 /\ Power[3] = 8 /\ l < N
  BY <1>1, <1>2, SmallPowers, PowerLarge
<1>4. l >= 3
  BY <1>1, <1>2, <1>3
<1>5. \E m \in Nat : N = 8 * m
  <2>1. CASE l = 3
    BY <1>2, <1>3, <2>1
  <2>2. CASE l # 3
    <3>1. 3 \in 0..N /\ 3 < l
      BY <1>1, <1>4, <2>2
    <3>2. PICK k \in 0..N : k = 3
      BY <3>1
    <3>3. Power[l] = Power[k] * Power[l - k] /\ l - k \in 0..N
      BY <1>1, <3>1, <3>2, PowerGrows
    <3>4. Power[l - k] \in Nat
      BY <1>1, <3>3, PowerIs
    <3> QED
      BY <1>2, <1>3, <3>2, <3>3, <3>4
  <2> QED
    BY <2>1, <2>2
<1> QED
  BY <1>1, <1>2, <1>3, <1>4, <1>5

(* A word stored in bytes, the lowest or the highest first, loads again. *)
LEMMA LoadStored ==
  ASSUME CryptoIntParameters, NEW x \in Words
  PROVE  /\ crypto_int_load(crypto_int_store(x)) = x /\ crypto_uint_load(crypto_uint_store(x)) = x
         /\ crypto_int_load_bigendian(crypto_int_store_bigendian(x)) = x
         /\ crypto_uint_load_bigendian(crypto_uint_store_bigendian(x)) = x
         /\ crypto_uint_store(x)[1] = x \cap 0..7
         /\ crypto_uint_store_bigendian(x)[N \div 8] = x \cap 0..7
<1>1. PICK m \in Nat : m = N \div 8 /\ N = 8 * m /\ m >= 1
  BY WidthBytes
<1>2. N \in Nat /\ N >= 8 /\ x \subseteq Bits
  BY Width DEF Words
<1>3. Octets = 0..(m - 1)
  BY <1>1 DEF Octets
<1>4. \A j \in Bits : \E k \in 0..(m - 1), i \in 0..7 : j = 8 * k + i
  <2>1. SUFFICES ASSUME NEW j \in Bits PROVE \E k \in 0..(m - 1), i \in 0..7 : j = 8 * k + i
    OBVIOUS
  <2>2. j \in Nat /\ j < 8 * m
    BY <1>1, <1>2 DEF Bits
  <2>3. j = 8 * (j \div 8) + (j % 8) /\ j \div 8 \in Int /\ j % 8 \in 0..7
    BY <2>2
  <2>4. j \div 8 \in 0..(m - 1)
    BY <2>2, <2>3
  <2> QED
    BY <2>3, <2>4
<1>5. \A k \in 0..(m - 1), i \in 0..7 : 8 * k + i \in Bits /\ i + 8 * k \in Bits /\ 8 * k + i = i + 8 * k /\ i + 8 * k < N
  BY <1>1, <1>2 DEF Bits
<1>6. \A k \in 0..(m - 1), i \in 0..7 : i \in Bits /\ (i \in Shr(x, 8 * k) <=> 8 * k + i \in x)
                                        /\ (i \in Sar(x, 8 * k) <=> 8 * k + i \in x)
  <2>1. SUFFICES ASSUME NEW k \in 0..(m - 1), NEW i \in 0..7
                 PROVE  i \in Bits /\ (i \in Shr(x, 8 * k) <=> 8 * k + i \in x)
                                   /\ (i \in Sar(x, 8 * k) <=> 8 * k + i \in x)
    OBVIOUS
  <2>2. i \in Bits
    BY <1>2 DEF Bits
  <2> QED
    BY <1>5, <2>2 DEF Shr, Sar
<1>7. PICK a, c, d, e : /\ a = crypto_int_store(x) /\ c = crypto_uint_store(x)
                        /\ d = crypto_int_store_bigendian(x) /\ e = crypto_uint_store_bigendian(x)
  OBVIOUS
<1>8. /\ \A k \in 0..(m - 1) : a[k + 1] = {i \in 0..7 : 8 * k + i \in x}
      /\ \A k \in 0..(m - 1) : c[k + 1] = {i \in 0..7 : 8 * k + i \in x}
  <2>1. SUFFICES ASSUME NEW k \in 0..(m - 1)
                 PROVE  /\ a[k + 1] = {i \in 0..7 : 8 * k + i \in x}
                        /\ c[k + 1] = {i \in 0..7 : 8 * k + i \in x}
    OBVIOUS
  <2>2. k + 1 \in 1..m /\ 8 * ((k + 1) - 1) = 8 * k
    BY <1>1
  <2>3. a[k + 1] = Sar(x, 8 * k) \cap 0..7 /\ c[k + 1] = Shr(x, 8 * k) \cap 0..7
    BY <1>1, <1>7, <2>2 DEF crypto_int_store, crypto_uint_store
  <2> QED
    BY <1>6, <2>3
<1>9. /\ \A k \in 0..(m - 1) : d[k + 1] = {i \in 0..7 : 8 * ((m - 1) - k) + i \in x}
      /\ \A k \in 0..(m - 1) : e[k + 1] = {i \in 0..7 : 8 * ((m - 1) - k) + i \in x}
  <2>1. SUFFICES ASSUME NEW k \in 0..(m - 1)
                 PROVE  /\ d[k + 1] = {i \in 0..7 : 8 * ((m - 1) - k) + i \in x}
                        /\ e[k + 1] = {i \in 0..7 : 8 * ((m - 1) - k) + i \in x}
    OBVIOUS
  <2>2. k + 1 \in 1..m /\ (m - 1) - k \in 0..(m - 1) /\ N - 8 * (k + 1) = 8 * ((m - 1) - k)
    BY <1>1
  <2>3. d[k + 1] = Sar(x, 8 * ((m - 1) - k)) \cap 0..7 /\ e[k + 1] = Shr(x, 8 * ((m - 1) - k)) \cap 0..7
    BY <1>1, <1>7, <2>2 DEF crypto_int_store_bigendian, crypto_uint_store_bigendian
  <2> QED
    BY <1>6, <2>2, <2>3
<1>10. ASSUME NEW s, \A k \in 0..(m - 1) : s[k + 1] = {i \in 0..7 : 8 * k + i \in x}
       PROVE  UNION {{8 * k + i : i \in s[k + 1]} : k \in Octets} = x
  <2>1. ASSUME NEW j \in x PROVE \E k \in 0..(m - 1) : j \in {8 * k + i : i \in s[k + 1]}
    <3>1. PICK k \in 0..(m - 1), i \in 0..7 : j = 8 * k + i
      BY <1>2, <1>4
    <3>2. i \in s[k + 1]
      BY <1>10, <3>1
    <3> QED
      BY <3>1, <3>2
  <2>2. ASSUME NEW k \in 0..(m - 1), NEW j \in {8 * k + i : i \in s[k + 1]} PROVE j \in x
    BY <1>10
  <2> QED
    BY <1>3, <2>1, <2>2
<1>11. ASSUME NEW s, \A k \in 0..(m - 1) : s[k + 1] = {i \in 0..7 : 8 * ((m - 1) - k) + i \in x}
       PROVE  UNION {{N - 8 - 8 * k + i : i \in s[k + 1]} : k \in Octets} = x
  <2>1. ASSUME NEW j \in x PROVE \E k \in 0..(m - 1) : j \in {N - 8 - 8 * k + i : i \in s[k + 1]}
    <3>1. PICK n \in 0..(m - 1), i \in 0..7 : j = 8 * n + i
      BY <1>2, <1>4
    <3>2. PICK k \in 0..(m - 1) : k = (m - 1) - n
      BY <1>1
    <3>3. (m - 1) - k = n /\ N - 8 - 8 * k = 8 * n
      BY <1>1, <3>2
    <3>4. i \in s[k + 1]
      BY <1>11, <3>1, <3>3
    <3> QED
      BY <3>1, <3>3, <3>4
  <2>2. ASSUME NEW k \in 0..(m - 1), NEW j \in {N - 8 - 8 * k + i : i \in s[k + 1]} PROVE j \in x
    <3>1. N - 8 - 8 * k = 8 * ((m - 1) - k)
      BY <1>1
    <3> QED
      BY <1>11, <2>2, <3>1
  <2> QED
    BY <1>3, <2>1, <2>2
<1>12. /\ UNION {{8 * k + i : i \in a[k + 1]} : k \in Octets} = x
       /\ UNION {{8 * k + i : i \in c[k + 1]} : k \in Octets} = x
  BY <1>8, <1>10
<1>13. /\ UNION {{N - 8 - 8 * k + i : i \in d[k + 1]} : k \in Octets} = x
       /\ UNION {{N - 8 - 8 * k + i : i \in e[k + 1]} : k \in Octets} = x
  BY <1>9, <1>11
<1>14. /\ crypto_int_load(a) = x /\ crypto_uint_load(c) = x
       /\ crypto_int_load_bigendian(d) = x /\ crypto_uint_load_bigendian(e) = x
  BY <1>12, <1>13, Zenon DEF crypto_int_load, crypto_uint_load, crypto_int_load_bigendian, crypto_uint_load_bigendian
<1>15. c[1] = x \cap 0..7 /\ e[N \div 8] = x \cap 0..7
  <2>1. 0 \in 0..(m - 1) /\ m - 1 \in 0..(m - 1) /\ 0 + 1 = 1 /\ (m - 1) + 1 = m /\ (m - 1) - (m - 1) = 0
    BY <1>1
  <2>2. c[0 + 1] = {i \in 0..7 : 8 * 0 + i \in x}
    BY <1>8, <2>1
  <2>3. e[(m - 1) + 1] = {i \in 0..7 : 8 * ((m - 1) - (m - 1)) + i \in x}
    BY <1>9, <2>1
  <2>4. \A i \in 0..7 : 8 * 0 + i = i
    OBVIOUS
  <2> QED
    BY <1>1, <2>1, <2>2, <2>3, <2>4
<1> QED
  BY <1>7, <1>14, <1>15, Zenon

(* A sum, modulo the word. *)
LEMMA PlusIs ==
  ASSUME CryptoIntParameters, NEW x \in Words, NEW y \in Words
  PROVE  /\ Plus(x, y) \in Words
         /\ \E c \in {0, 1} : Value(x) + Value(y) = Power[N] * c + Value(Plus(x, y))
<1>1. PICK a \in Nat, b \in Nat, t \in Nat \ {0} :
        a = Value(x) /\ b = Value(y) /\ t = Power[N] /\ a < t /\ b < t
  <2>1. Power[N] \in Nat \ {0}
    BY Width
  <2>2. Value(x) \in Nat /\ Value(x) < Power[N] /\ Value(y) \in Nat /\ Value(y) < Power[N]
    BY ValueLess
  <2> QED
    BY <2>1, <2>2
<1>2. PICK c \in {0, 1}, v \in Nat : v < t /\ a + b = t * c + v
  <2>1. CASE a + b < t
    <3>1. a + b = t * 0 + (a + b)
      OBVIOUS
    <3> QED
      BY <2>1, <3>1
  <2>2. CASE ~(a + b < t)
    <3>1. a + b = t * 1 + (a + b - t) /\ a + b - t \in Nat /\ a + b - t < t
      BY <1>1, <2>2
    <3> QED
      BY <3>1
  <2> QED
    BY <2>1, <2>2
<1>3. c \in Int
  OBVIOUS
<1>4. PICK s : s = a + b /\ s = t * c + v
  BY <1>2
<1>5. DividesTo(s, t, c, v)
  BY <1>2, <1>3, <1>4, DivIs
<1>6. s % t = v
  BY <1>5 DEF DividesTo
<1>7. Plus(x, y) = Word(v)
  BY <1>1, <1>4, <1>6, Zenon DEF Plus
<1>8. Word(v) \in Words /\ Value(Word(v)) = v
  BY <1>1, <1>2, ValueWord, Width
<1> QED
  BY <1>1, <1>2, <1>7, <1>8

(* Where the low bits of two words do not carry, they add up. *)
LEMMA AddLow ==
  ASSUME CryptoIntParameters, NEW x \in Words, NEW y \in Words, NEW k \in 0..N,
         Low(x, k) + Low(y, k) < Power[k]
  PROVE  Low(Plus(x, y), k) = Low(x, k) + Low(y, k)
<1>1. N \in Nat
  BY Width
<1>2. PICK z \in Words, c \in {0, 1} : z = Plus(x, y) /\ Value(x) + Value(y) = Power[N] * c + Value(z)
  BY PlusIs
<1>3. PICK p \in Nat \ {0}, h \in Nat \ {0} : p = Power[k] /\ Power[N] = p * h
  <2>1. Power[k] \in Nat \ {0}
    BY <1>1, PowerPositive
  <2>2. CASE k = N
    <3>1. Power[k] = Power[k] * 1
      BY <2>1
    <3> QED
      BY <2>1, <2>2, <3>1
  <2>3. CASE k # N
    <3>1. N \in 0..N /\ k < N
      BY <1>1, <2>3
    <3>2. Power[N] = Power[k] * Power[N - k] /\ N - k \in 0..N
      BY <1>1, <3>1, PowerGrows
    <3>3. Power[N - k] \in Nat \ {0}
      BY <1>1, <3>2, PowerPositive
    <3> QED
      BY <2>1, <3>2, <3>3
  <2> QED
    BY <2>2, <2>3
<1>4. PICK xh \in Nat, xl \in Nat : Value(x) = p * xh + xl /\ xl = Low(x, k)
  BY <1>1, <1>3, ValueSplit, LowLess
<1>5. PICK yh \in Nat, yl \in Nat : Value(y) = p * yh + yl /\ yl = Low(y, k)
  BY <1>1, <1>3, ValueSplit, LowLess
<1>6. PICK zh \in Nat, zl \in Nat : Value(z) = p * zh + zl /\ zl = Low(z, k) /\ zl < p
  BY <1>1, <1>3, ValueSplit, LowLess
<1>7. PICK q \in Int, s \in Int, r \in Nat : q = h * c + zh /\ s = xh + yh /\ r = xl + yl
  OBVIOUS
<1>8. r < p
  BY <1>3, <1>4, <1>5, <1>7
<1>9. p * q + zl = p * s + r
  <2>1. p * q = (p * h) * c + p * zh
    <3>1. p * (h * c + zh) = (p * h) * c + p * zh
      OBVIOUS
    <3> QED
      BY <1>7, <3>1, Zenon
  <2>2. p * s = p * xh + p * yh
    BY <1>7
  <2>3. (p * xh + xl) + (p * yh + yl) = (p * h) * c + (p * zh + zl)
    BY <1>2, <1>3, <1>4, <1>5, <1>6, Zenon
  <2>4. PICK a \in Int, b \in Int, d \in Int, e \in Int : a = p * xh /\ b = p * yh /\ d = (p * h) * c /\ e = p * zh
    OBVIOUS
  <2> QED
    BY <1>7, <2>1, <2>2, <2>3, <2>4
<1>10. zl = r
  BY <1>6, <1>8, <1>9, OnePair
<1> QED
  BY <1>2, <1>4, <1>5, <1>6, <1>7, <1>10, Zenon

(* The number in the w bits of a word from bit k on. *)
Lane(x, k, w) == Low(Shr(x, k), w)

(* Lanes are what the word is made of. *)
LEMMA LaneIs ==
  ASSUME CryptoIntParameters, NEW x \in Words, NEW k \in 0..N, NEW w \in 0..(N - k)
  PROVE  /\ Lane(x, k, w) \in Nat /\ Lane(x, k, w) < Power[w]
         /\ Low(x, k + w) = Low(x, k) + Power[k] * Lane(x, k, w)
         /\ Power[k + w] = Power[k] * Power[w]
         /\ k + w \in 0..N /\ w \in 0..N /\ Power[k] \in Nat \ {0} /\ Power[w] \in Nat \ {0}
         /\ Low(x, k) \in Nat /\ Low(x, k) < Power[k]
<1>1. N \in Nat /\ k + w \in 0..N /\ w \in 0..N
  BY Width
<1>2. Low(Shr(x, k), w) \in Nat /\ Low(Shr(x, k), w) < Power[w] /\ Low(x, k) \in Nat /\ Low(x, k) < Power[k]
  BY <1>1, LowLess
<1>3. Low(x, k + w) = Low(x, k) + Power[k] * Low(Shr(x, k), w)
  BY <1>1, LowAbove
<1>4. Power[k + w] = Power[k] * Power[w]
  BY <1>1, PowerSum
<1>5. Power[k] \in Nat \ {0} /\ Power[w] \in Nat \ {0}
  BY <1>1, PowerPositive
<1> QED
  BY <1>1, <1>2, <1>3, <1>4, <1>5, Zenon DEF Lane

(* Where neither the bits below a field nor those of the field carry, the
   lanes add up too, and what follows gets no carry. *)
LEMMA AddLane ==
  ASSUME CryptoIntParameters, NEW x \in Words, NEW y \in Words, NEW k \in 0..N, NEW w \in 0..(N - k),
         Low(x, k) + Low(y, k) < Power[k], Lane(x, k, w) + Lane(y, k, w) < Power[w]
  PROVE  /\ Low(x, k + w) + Low(y, k + w) < Power[k + w]
         /\ Lane(Plus(x, y), k, w) = Lane(x, k, w) + Lane(y, k, w)
<1>1. PICK p \in Nat \ {0}, h \in Nat \ {0}, xl \in Nat, yl \in Nat, xf \in Nat, yf \in Nat :
        /\ p = Power[k] /\ h = Power[w] /\ xl = Low(x, k) /\ yl = Low(y, k)
        /\ xf = Lane(x, k, w) /\ yf = Lane(y, k, w)
        /\ xl + yl < p /\ xf + yf < h
  BY LaneIs
<1>2. /\ Low(x, k + w) = xl + p * xf /\ Low(y, k + w) = yl + p * yf
      /\ Power[k + w] = p * h /\ k + w \in 0..N
  BY <1>1, LaneIs
<1>3. PICK s \in Nat, d \in Nat : s = xl + yl /\ d = xf + yf /\ s < p /\ d + 1 <= h
  BY <1>1
<1>4. (xl + p * xf) + (yl + p * yf) = s + p * d
  <2>1. p * d = p * xf + p * yf
    BY <1>3
  <2>2. PICK a \in Int, b \in Int : a = p * xf /\ b = p * yf
    OBVIOUS
  <2> QED
    BY <1>3, <2>1, <2>2
<1>5. s + p * d < p * h
  <2>1. p * (d + 1) <= p * h
    <3>1. PICK e \in Nat : h = (d + 1) + e
      BY <1>3
    <3>2. p * h = p * (d + 1) + p * e /\ p * e >= 0 /\ p * (d + 1) \in Int /\ p * e \in Int
      BY <3>1
    <3> QED
      BY <3>2
  <2>2. p * (d + 1) = p * d + p
    OBVIOUS
  <2>3. PICK a \in Int, b \in Int : a = p * d /\ b = p * h
    OBVIOUS
  <2> QED
    BY <1>3, <2>1, <2>2, <2>3
<1>6. Low(x, k + w) + Low(y, k + w) < Power[k + w]
  BY <1>2, <1>4, <1>5, Zenon
<1>7. PICK z \in Words : z = Plus(x, y)
  BY PlusIs
<1>8. PICK n \in 0..N : n = k + w
  BY <1>2
<1>9. Low(z, n) = s + p * d
  <2>1. Low(x, n) + Low(y, n) < Power[n]
    BY <1>6, <1>8, Zenon
  <2>2. Low(Plus(x, y), n) = Low(x, n) + Low(y, n)
    BY <2>1, AddLow
  <2> QED
    BY <1>2, <1>4, <1>7, <1>8, <2>2, Zenon
<1>10. Low(z, k) = s
  <2>1. Low(Plus(x, y), k) = Low(x, k) + Low(y, k)
    BY AddLow
  <2> QED
    BY <1>1, <1>3, <1>7, <2>1, Zenon
<1>11. PICK zf \in Nat : zf = Lane(z, k, w) /\ Low(z, n) = s + p * zf
  BY <1>1, <1>8, <1>10, LaneIs
<1>12. zf = d
  <2>1. p * zf + s = p * d + s
    <3>1. PICK a \in Int, b \in Int : a = p * zf /\ b = p * d
      OBVIOUS
    <3> QED
      BY <1>9, <1>11, <3>1
  <2> QED
    BY <1>3, <2>1, OnePair
<1> QED
  BY <1>1, <1>3, <1>6, <1>7, <1>11, <1>12, Zenon

(* The first n lanes of two words do not carry. *)
NoCarry(x, y, w, n) == \A t \in 0..(n - 1) : Lane(x, w * t, w) + Lane(y, w * t, w) < Power[w]

(* They add up side by side. *)
SideBySide(x, y, w, n) ==
  \A t \in 0..(n - 1) : Lane(Plus(x, y), w * t, w) = Lane(x, w * t, w) + Lane(y, w * t, w)

(* Lanes of one width that do not carry add up side by side. *)
LEMMA AddLanes ==
  ASSUME CryptoIntParameters, NEW x \in Words, NEW y \in Words, NEW w \in Nat, NEW n \in Nat, w * n <= N,
         NoCarry(x, y, w, n)
  PROVE  SideBySide(x, y, w, n)
<1>0. \A t \in 0..(n - 1) : Lane(x, w * t, w) + Lane(y, w * t, w) < Power[w]
  BY DEF NoCarry
<1>1. N \in Nat
  BY Width
<1>2. ASSUME NEW t \in 0..(n - 1)
      PROVE  w * t \in 0..N /\ w \in 0..(N - w * t) /\ w * (t + 1) = w * t + w /\ w * t \in Nat
  <2>1. PICK k \in Nat, e \in Nat : k = w * t /\ n = (t + 1) + e
    <3>1. n - (t + 1) \in Nat /\ w * t \in Nat
      OBVIOUS
    <3> QED
      BY <3>1
  <2>2. w * ((t + 1) + e) = (w * t + w) + w * e /\ w * e \in Nat
    BY <2>1
  <2>3. w * (t + 1) = w * t + w
    OBVIOUS
  <2>4. PICK f \in Nat : f = w * e
    BY <2>2
  <2>5. k + w <= N
    BY <1>1, <2>1, <2>2, <2>4
  <2> QED
    BY <1>1, <2>1, <2>3, <2>5
<1> DEFINE S == {t \in 0..n : Low(x, w * t) + Low(y, w * t) < Power[w * t]}
<1>3. 0 \in S
  <2>1. Low(x, 0) = 0 /\ Low(y, 0) = 0 /\ Power[0] = 1
    BY <1>1, LowIs, PowerIs
  <2>2. w * 0 = 0
    OBVIOUS
  <2> QED
    BY <2>1, <2>2
<1>4. \A t \in 1..n : t - 1 \in S => t \in S
  <2>1. ASSUME NEW t \in 1..n, t - 1 \in S PROVE t \in S
    <3>1. PICK u \in 0..(n - 1) : u = t - 1 /\ t = u + 1
      OBVIOUS
    <3>2. PICK k \in 0..N : k = w * u
      BY <1>2
    <3>3. w \in 0..(N - k) /\ w * (u + 1) = k + w
      BY <1>2, <3>2
    <3>4. Low(x, k) + Low(y, k) < Power[k] /\ Lane(x, k, w) + Lane(y, k, w) < Power[w]
      BY <1>0, <2>1, <3>1, <3>2
    <3>5. Low(x, k + w) + Low(y, k + w) < Power[k + w]
      BY <3>3, <3>4, AddLane
    <3>6. w * t = k + w
      BY <3>1, <3>3
    <3>7. t \in 0..n
      OBVIOUS
    <3> QED
      BY <3>5, <3>6, <3>7
  <2> QED
    BY <2>1
<1> HIDE DEF S
<1>5. 0..n \subseteq S
  BY <1>3, <1>4, Climb
<1>6. ASSUME NEW t \in 0..(n - 1)
      PROVE  Lane(Plus(x, y), w * t, w) = Lane(x, w * t, w) + Lane(y, w * t, w)
  <2>1. PICK k \in 0..N : k = w * t
    BY <1>2
  <2>2. w \in 0..(N - k) /\ Lane(x, k, w) + Lane(y, k, w) < Power[w]
    BY <1>0, <1>2, <2>1
  <2>3. t \in 0..n
    OBVIOUS
  <2>4. Low(x, k) + Low(y, k) < Power[k]
    BY <1>5, <2>1, <2>3 DEF S
  <2>5. Lane(Plus(x, y), k, w) = Lane(x, k, w) + Lane(y, k, w)
    BY <2>2, <2>4, AddLane
  <2> QED
    BY <2>1, <2>5
<1> QED
  BY <1>6 DEF SideBySide

-----------------------------------------------------------------------------
(* Counting bits. *)

(* How many of the w bits of a word from bit k on are 1. *)
Part(x, k, w) == Cardinality(x \cap k..(k + w - 1))

(* There are not more than the part has places. *)
LEMMA PartIs ==
  ASSUME NEW x, NEW k \in Nat, NEW w \in Nat
  PROVE  /\ Part(x, k, w) \in Nat /\ Part(x, k, w) <= w
         /\ IsFiniteSet(x \cap k..(k + w - 1))
<1>1. ASSUME NEW i \in Nat, NEW v \in Nat
      PROVE  /\ IsFiniteSet(x \cap i..(i + v - 1))
             /\ Cardinality(x \cap i..(i + v - 1)) \in Nat
             /\ Cardinality(x \cap i..(i + v - 1)) <= v
  <2>1. IsFiniteSet(i..(i + v - 1)) /\ Cardinality(i..(i + v - 1)) = v
    <3>1. i \in Int /\ i + v - 1 \in Int
      OBVIOUS
    <3>2. /\ IsFiniteSet(i..(i + v - 1))
          /\ Cardinality(i..(i + v - 1)) = IF i > i + v - 1 THEN 0 ELSE (i + v - 1) - i + 1
      BY <3>1, FS_Interval
    <3> QED
      BY <3>2
  <2>2. PICK T : T = x \cap i..(i + v - 1)
    OBVIOUS
  <2>3. T \in SUBSET (i..(i + v - 1))
    BY <2>2
  <2>4. IsFiniteSet(T) /\ Cardinality(T) <= Cardinality(i..(i + v - 1))
    BY <2>1, <2>3, FS_Subset
  <2>5. Cardinality(T) \in Nat
    BY <2>4, FS_CardinalityType
  <2> QED
    BY <2>1, <2>2, <2>4, <2>5
<1> QED
  BY <1>1 DEF Part

(* One bit. *)
LEMMA PartOne ==
  ASSUME NEW x, NEW k \in Nat
  PROVE  Part(x, k, 1) = IF k \in x THEN 1 ELSE 0
<1>1. k..(k + 1 - 1) = {k}
  OBVIOUS
<1>2. CASE k \in x
  <2>1. x \cap k..(k + 1 - 1) = {k}
    BY <1>1, <1>2
  <2>2. Cardinality({k}) = 1
    BY FS_Singleton
  <2> QED
    BY <1>2, <2>1, <2>2 DEF Part
<1>3. CASE k \notin x
  <2>1. x \cap k..(k + 1 - 1) = {}
    BY <1>1, <1>3
  <2>2. Cardinality({}) = 0
    BY FS_EmptySet
  <2> QED
    BY <1>3, <2>1, <2>2 DEF Part
<1> QED
  BY <1>2, <1>3

(* Two parts side by side, and both together. *)
Both(x, k, w) ==
  /\ Part(x, k, w) \in Nat /\ Part(x, k, w) <= w
  /\ Part(x, k + w, w) \in Nat /\ Part(x, k + w, w) <= w
  /\ Part(x, k, 2 * w) = Part(x, k, w) + Part(x, k + w, w)

(* Two parts of one width add up. *)
LEMMA BothIs ==
  ASSUME NEW x, NEW k \in Nat, NEW w \in Nat
  PROVE  Both(x, k, w)
<1>1. Part(x, k, w) \in Nat /\ Part(x, k, w) <= w /\ IsFiniteSet(x \cap k..(k + w - 1))
  BY PartIs
<1>2. PICK i \in Nat : i = k + w
  OBVIOUS
<1>3. Part(x, i, w) \in Nat /\ Part(x, i, w) <= w /\ IsFiniteSet(x \cap i..(i + w - 1))
  BY PartIs
<1>4. PICK S, T : S = x \cap k..(k + w - 1) /\ T = x \cap i..(i + w - 1)
  OBVIOUS
<1>5. S \cup T = x \cap k..(k + 2 * w - 1) /\ S \cap T = {}
  BY <1>2, <1>4
<1>6. Cardinality(S \cup T) = Cardinality(S) + Cardinality(T) - Cardinality(S \cap T)
  BY <1>1, <1>3, <1>4, FS_Union, Zenon
<1>7. Cardinality(S \cap T) = 0
  BY <1>5, FS_EmptySet
<1>8. Cardinality(S) = Part(x, k, w) /\ Cardinality(T) = Part(x, i, w)
  BY <1>4, Zenon DEF Part
<1>9. Cardinality(S \cup T) = Part(x, k, 2 * w)
  BY <1>5, Zenon DEF Part
<1>10. Part(x, k, 2 * w) = Part(x, k, w) + Part(x, i, w)
  BY <1>1, <1>3, <1>6, <1>7, <1>8, <1>9
<1> QED
  BY <1>1, <1>2, <1>3, <1>10, Zenon DEF Both

(* Without bits there is no number. *)
LEMMA LowNone ==
  ASSUME N \in Nat, NEW x, NEW k \in 0..N, \A j \in 0..(k - 1) : j \notin x
  PROVE  Low(x, k) = 0
<1> DEFINE S == {i \in 0..k : Low(x, i) = 0}
<1>1. 0 \in S
  BY LowIs
<1>2. \A i \in 1..k : i - 1 \in S => i \in S
  <2>1. ASSUME NEW i \in 1..k, Low(x, i - 1) = 0 PROVE Low(x, i) = 0
    <3>1. i \in 1..N /\ i - 1 \notin x
      OBVIOUS
    <3> QED
      BY <2>1, <3>1, LowIs
  <2> QED
    BY <2>1
<1> HIDE DEF S
<1>3. 0..k \subseteq S
  BY <1>1, <1>2, Climb
<1> QED
  BY <1>3 DEF S

(* The lower halves of the lanes of two times w bits. *)
Halves(w) == {i \in Bits : i % (2 * w) < w}

(* With the upper halves masked out, a lane holds the number of its lower half. *)
LEMMA HalfLane ==
  ASSUME CryptoIntParameters, NEW x \in Words, NEW w \in Nat \ {0}, NEW t \in Nat, (2 * w) * t + 2 * w <= N
  PROVE  Lane(x \cap Halves(w), (2 * w) * t, 2 * w) = Lane(x, (2 * w) * t, w)
<1>1. N \in Nat
  BY Width
<1>2. PICK k \in Nat, d \in Nat \ {0} : k = d * t /\ d = 2 * w /\ k + d <= N /\ k \in 0..N /\ w \in 0..N /\ w + w = d
  <2>1. (2 * w) * t \in Nat /\ 2 * w \in Nat \ {0}
    OBVIOUS
  <2>2. PICK k \in Nat, d \in Nat \ {0} : k = (2 * w) * t /\ d = 2 * w
    BY <2>1
  <2> QED
    BY <1>1, <2>2
<1>3. PICK m, y, z : m = x \cap Halves(w) /\ y = Shr(m, k) /\ z = Shr(x, k)
  OBVIOUS
<1>4. ASSUME NEW j \in 0..(d - 1)
      PROVE  (j + k) % d = j /\ j \in Bits /\ j + k \in Bits
  <2>1. d * t + j = j + k /\ j \in Nat /\ j < d
    BY <1>2
  <2>2. PICK a : a = j + k
    OBVIOUS
  <2>3. DividesTo(a, d, t, j)
    <3>1. t \in Int /\ a = d * t + j /\ d \in Nat \ {0}
      BY <2>1, <2>2
    <3> QED
      BY <2>1, <3>1, DivIs, Zenon
  <2>4. j \in Bits /\ j + k \in Bits
    BY <1>1, <1>2 DEF Bits
  <2> QED
    BY <2>2, <2>3, <2>4 DEF DividesTo
<1>5. ASSUME NEW j \in 0..(d - 1) PROVE j \in y <=> j \in z /\ j < w
  <2>1. j \in y <=> j + k \in m
    BY <1>3, <1>4 DEF Shr
  <2>2. j \in z <=> j + k \in x
    BY <1>3, <1>4 DEF Shr
  <2>3. j + k \in m <=> j + k \in x /\ (j + k) % d < w
    BY <1>2, <1>3, <1>4 DEF Halves
  <2> QED
    BY <1>4, <2>1, <2>2, <2>3
<1>6. Low(y, w) = Low(z, w)
  <2>1. \A j \in 0..(w - 1) : j \in y <=> j \in z
    BY <1>2, <1>5
  <2>2. w \in 0..w
    OBVIOUS
  <2> QED
    BY <1>1, <1>2, <2>1, <2>2, LowSame
<1>7. Low(Shr(y, w), w) = 0
  <2>1. \A j \in 0..(w - 1) : j \notin Shr(y, w)
    <3>1. ASSUME NEW j \in 0..(w - 1) PROVE j + w \notin y
      <4>1. j + w \in 0..(d - 1) /\ ~(j + w < w)
        BY <1>2
      <4> QED
        BY <1>5, <4>1
    <3> QED
      BY <3>1 DEF Shr
  <2> QED
    BY <1>1, <1>2, <2>1, LowNone
<1>8. Low(y, w + w) = Low(y, w)
  <2>1. w \in 0..(N - w)
    BY <1>1, <1>2
  <2>2. Low(y, w + w) = Low(y, w) + Power[w] * Low(Shr(y, w), w)
    BY <1>1, <1>2, <2>1, LowAbove
  <2>3. Power[w] \in Nat /\ Low(y, w) \in Nat
    BY <1>1, <1>2, PowerIs, LowLess
  <2> QED
    BY <1>7, <2>2, <2>3
<1>9. Low(y, d) = Low(z, w)
  BY <1>2, <1>6, <1>8
<1> QED
  BY <1>2, <1>3, <1>9, Zenon DEF Lane

(* A lane of a shifted word is a lane further up. *)
LEMMA ShiftedLane ==
  ASSUME CryptoIntParameters, NEW x \in Words, NEW w \in Nat, NEW k \in Nat, NEW v
  PROVE  Lane(Shr(x, w), k, v) = Lane(x, k + w, v)
<1>1. Shr(Shr(x, w), k) = Shr(x, w + k)
  BY ShiftsAdd
<1>2. w + k = k + w
  OBVIOUS
<1> QED
  BY <1>1, <1>2 DEF Lane

(* The first n lanes of w bits of y say how many bits of x are 1 there. *)
Counted(y, x, w, n) == \A t \in 0..(n - 1) : Lane(y, w * t, w) = Part(x, w * t, w)

(* A bit is how many bits are 1 there. *)
LEMMA BitsCounted ==
  ASSUME CryptoIntParameters, NEW x \in Words, NEW n \in Nat, n <= N
  PROVE  Counted(x, x, 1, n)
<1>1. SUFFICES ASSUME NEW t \in 0..(n - 1) PROVE Lane(x, 1 * t, 1) = Part(x, 1 * t, 1)
  BY DEF Counted
<1>2. N \in Nat /\ t \in Nat /\ 1 * t = t /\ 0 + t = t /\ 0 \in Bits
  BY Width
<1>3. Low(Shr(x, t), 1) = Low(Shr(x, t), 1 - 1) + (IF 1 - 1 \in Shr(x, t) THEN Power[1 - 1] ELSE 0)
  <2>1. 1 \in 1..N
    BY Width
  <2> QED
    BY <1>2, <2>1, LowIs
<1>4. Low(Shr(x, t), 0) = 0 /\ Power[0] = 1
  BY <1>2, LowIs, PowerIs
<1>5. 0 \in Shr(x, t) <=> t \in x
  BY <1>2 DEF Shr
<1>6. 1 - 1 = 0
  OBVIOUS
<1>7. Low(Shr(x, t), 1) = IF t \in x THEN 1 ELSE 0
  BY <1>3, <1>4, <1>5, <1>6
<1>8. Part(x, t, 1) = IF t \in x THEN 1 ELSE 0
  BY <1>2, PartOne
<1> QED
  BY <1>2, <1>7, <1>8 DEF Lane

(* Where two lanes and the lane they join lie. *)
LEMMA Places ==
  ASSUME NEW w \in Nat, NEW n \in Nat, NEW t \in 0..(n - 1)
  PROVE  /\ (2 * w) * t \in Nat /\ (2 * w) * t = w * (2 * t) /\ (2 * w) * t + w = w * (2 * t + 1)
         /\ (2 * w) * t + 2 * w <= (2 * w) * n
         /\ 2 * t \in 0..(2 * n - 1) /\ 2 * t + 1 \in 0..(2 * n - 1)
<1>1. (2 * w) * t \in Nat /\ (2 * w) * t = w * (2 * t) /\ (2 * w) * t + w = w * (2 * t + 1)
  OBVIOUS
<1>2. PICK e \in Nat : n = (t + 1) + e
  <2>1. n - (t + 1) \in Nat
    OBVIOUS
  <2> QED
    BY <2>1
<1>3. (2 * w) * ((t + 1) + e) = (2 * w) * t + 2 * w + (2 * w) * e /\ (2 * w) * e \in Nat
  OBVIOUS
<1>4. PICK a \in Nat, b \in Nat : a = (2 * w) * t /\ b = (2 * w) * e
  BY <1>1, <1>3
<1>5. (2 * w) * t + 2 * w <= (2 * w) * n
  BY <1>2, <1>3, <1>4
<1> QED
  BY <1>1, <1>5

(* Lanes joined two by two count twice as far. *)
LEMMA Joined ==
  ASSUME CryptoIntParameters, NEW x \in Words, NEW y \in Words, NEW w \in Nat \ {0}, NEW n \in Nat,
         (2 * w) * n <= N, Counted(y, x, w, 2 * n)
  PROVE  Counted(Plus(y \cap Halves(w), Shr(y, w) \cap Halves(w)), x, 2 * w, n)
<1>1. N \in Nat
  BY Width
<1>2. PICK a \in Words, b \in Words, s \in Words : a = y \cap Halves(w) /\ b = Shr(y, w) \cap Halves(w) /\ s = Shr(y, w)
  BY DEF Words, Shr
<1>3. ASSUME NEW t \in 0..(n - 1)
      PROVE  /\ Lane(a, (2 * w) * t, 2 * w) + Lane(b, (2 * w) * t, 2 * w) = Part(x, (2 * w) * t, 2 * w)
             /\ Lane(a, (2 * w) * t, 2 * w) + Lane(b, (2 * w) * t, 2 * w) < Power[2 * w]
  <2>1. PICK k \in Nat : k = (2 * w) * t
    BY Places
  <2>2. /\ k = w * (2 * t) /\ k + w = w * (2 * t + 1) /\ k + 2 * w <= N /\ t \in Nat
        /\ 2 * t \in 0..(2 * n - 1) /\ 2 * t + 1 \in 0..(2 * n - 1)
    <3>1. PICK c \in Nat : c = (2 * w) * n /\ c <= N
      OBVIOUS
    <3> QED
      BY <1>1, <2>1, <3>1, Places
  <2>3. Lane(a, (2 * w) * t, 2 * w) = Lane(y, (2 * w) * t, w) /\ Lane(b, (2 * w) * t, 2 * w) = Lane(s, (2 * w) * t, w)
    <3>1. (2 * w) * t + 2 * w <= N
      BY <2>1, <2>2
    <3> QED
      BY <1>2, <2>2, <3>1, HalfLane, ZenonT(60)
  <2>4. Lane(y, k, w) = Part(x, k, w) /\ Lane(y, k + w, w) = Part(x, k + w, w)
    BY <2>2 DEF Counted
  <2>5. Lane(s, k, w) = Lane(y, k + w, w)
    BY <1>2, ShiftedLane
  <2>6. Both(x, k, w) /\ w \in Nat
    <3>1. w \in Nat
      OBVIOUS
    <3> QED
      BY <3>1, BothIs, Zenon
  <2>7. /\ Part(x, k, w) \in Nat /\ Part(x, k, w) <= w
        /\ Part(x, k + w, w) \in Nat /\ Part(x, k + w, w) <= w
    BY <2>6, Zenon DEF Both
  <2>8. 2 * w \in 0..N
    BY <1>1, <2>2
  <2>9. 2 * w < Power[2 * w] /\ Power[2 * w] \in Nat
    BY <1>1, <2>8, PowerLarge, PowerIs
  <2>10. Lane(a, (2 * w) * t, 2 * w) + Lane(b, (2 * w) * t, 2 * w) = Part(x, k, w) + Part(x, k + w, w)
    BY <2>1, <2>3, <2>4, <2>5, Zenon
  <2>11. Part(x, k, w) + Part(x, k + w, w) < Power[2 * w]
    BY <2>7, <2>9
  <2>12. Part(x, (2 * w) * t, 2 * w) = Part(x, k, w) + Part(x, k + w, w)
    BY <2>1, <2>6, Zenon DEF Both
  <2> QED
    BY <2>10, <2>11, <2>12, Zenon
<1>4. PICK d \in Nat : d = 2 * w /\ d * n <= N
  OBVIOUS
<1>5. SideBySide(a, b, d, n)
  <2>1. NoCarry(a, b, d, n)
    BY <1>3, <1>4, Zenon DEF NoCarry
  <2> QED
    BY <1>4, <2>1, AddLanes, Zenon
<1>6. \A t \in 0..(n - 1) : Lane(Plus(a, b), (2 * w) * t, 2 * w) = Part(x, (2 * w) * t, 2 * w)
  BY <1>3, <1>4, <1>5, Zenon DEF SideBySide
<1> QED
  BY <1>2, <1>6, Zenon DEF Counted

(* Where the counts of two lanes fit in one, they are added before the mask. *)
LEMMA Merged ==
  ASSUME CryptoIntParameters, NEW x \in Words, NEW y \in Words, NEW w \in Nat \ {0}, NEW n \in Nat,
         (2 * w) * n <= N, 2 * w < Power[w], Counted(y, x, w, 2 * n)
  PROVE  Counted(Plus(y, Shr(y, w)) \cap Halves(w), x, 2 * w, n)
<1>1. N \in Nat
  BY Width
<1>2. SUFFICES ASSUME NEW u \in 0..(n - 1)
               PROVE  Lane(Plus(y, Shr(y, w)) \cap Halves(w), (2 * w) * u, 2 * w) = Part(x, (2 * w) * u, 2 * w)
  BY DEF Counted
<1>3. PICK s \in Words, z \in Words : s = Shr(y, w) /\ z = Plus(y, s)
  BY ShiftsAdd, PlusIs
<1>4. PICK m \in Nat : m = 2 * n - 1
  OBVIOUS
<1>5. PICK c \in Nat : c = (2 * w) * n /\ c <= N
  OBVIOUS
<1>6. w * m <= N
  <2>1. w * (2 * n - 1) = (2 * w) * n - w
    OBVIOUS
  <2> QED
    BY <1>1, <1>4, <1>5, <2>1
<1>7. w \in 0..N
  <2>1. (2 * w) * u + 2 * w <= (2 * w) * n /\ (2 * w) * u \in Nat
    BY Places
  <2>2. PICK b \in Nat : b = (2 * w) * u
    BY <2>1
  <2> QED
    BY <1>1, <1>5, <2>1, <2>2
<1>8. ASSUME NEW t \in 0..(m - 1)
      PROVE  /\ Lane(y, w * t, w) + Lane(s, w * t, w) = Part(x, w * t, 2 * w)
             /\ Lane(y, w * t, w) + Lane(s, w * t, w) < Power[w]
  <2>1. PICK k \in Nat : k = w * t
    OBVIOUS
  <2>2. t \in 0..(2 * n - 1) /\ t + 1 \in 0..(2 * n - 1) /\ w * (t + 1) = k + w
    BY <1>4, <2>1
  <2>3. Lane(y, k, w) = Part(x, k, w) /\ Lane(y, k + w, w) = Part(x, k + w, w)
    BY <2>1, <2>2 DEF Counted
  <2>4. Lane(s, k, w) = Lane(y, k + w, w)
    BY <1>3, ShiftedLane
  <2>5. Both(x, k, w)
    <3>1. w \in Nat
      OBVIOUS
    <3> QED
      BY <3>1, BothIs, Zenon
  <2>6. /\ Part(x, k, w) \in Nat /\ Part(x, k, w) <= w
        /\ Part(x, k + w, w) \in Nat /\ Part(x, k + w, w) <= w
    BY <2>5, Zenon DEF Both
  <2>7. Power[w] \in Nat
    BY <1>1, <1>7, PowerIs
  <2>8. Part(x, k, w) + Part(x, k + w, w) < Power[w]
    BY <2>6, <2>7
  <2> QED
    BY <2>1, <2>3, <2>4, <2>5, <2>8, Zenon DEF Both
<1>9. SideBySide(y, s, w, m)
  <2>1. NoCarry(y, s, w, m)
    BY <1>8, Zenon DEF NoCarry
  <2>2. w \in Nat
    OBVIOUS
  <2> QED
    BY <1>6, <2>1, <2>2, AddLanes, Zenon
<1>10. 2 * u \in 0..(m - 1) /\ (2 * w) * u = w * (2 * u) /\ (2 * w) * u + 2 * w <= N /\ u \in Nat
  <2>1. (2 * w) * u = w * (2 * u) /\ (2 * w) * u + 2 * w <= (2 * w) * n /\ (2 * w) * u \in Nat
    BY Places
  <2>2. PICK b \in Nat : b = (2 * w) * u
    BY <2>1
  <2>3. (2 * w) * u + 2 * w <= N
    BY <1>1, <1>5, <2>1, <2>2
  <2>4. 2 * u \in 0..(m - 1)
    BY <1>4
  <2> QED
    BY <2>1, <2>3, <2>4
<1>11. Lane(z \cap Halves(w), (2 * w) * u, 2 * w) = Lane(z, (2 * w) * u, w)
  BY <1>10, HalfLane
<1>12. Lane(z, w * (2 * u), w) = Part(x, w * (2 * u), 2 * w)
  BY <1>3, <1>8, <1>9, <1>10, Zenon DEF SideBySide
<1> QED
  BY <1>3, <1>10, <1>11, <1>12, Zenon

(* The bits two by two: their number less the upper bit is how many they are. *)
LEMMA Pairs ==
  ASSUME CryptoIntParameters, NEW x \in Words
  PROVE  Minus(x, Shr(x, 1) \cap Halves(1)) = Plus(x \cap Halves(1), Shr(x, 1) \cap Halves(1))
<1>1. PICK m \in Nat : N \in Nat /\ N = 2 * m
  <2>1. N \in Nat /\ N \div 8 \in Nat /\ N = 8 * (N \div 8)
    BY Width, WidthBytes
  <2>2. N = 2 * (4 * (N \div 8)) /\ 4 * (N \div 8) \in Nat
    BY <2>1
  <2> QED
    BY <2>1, <2>2
<1>2. PICK u \in Words, y \in Words : u = x \cap Halves(1) /\ y = Shr(x, 1) \cap Halves(1)
  BY DEF Words, Shr
<1>3. ASSUME NEW i \in 1..m
      PROVE  Low(x, 2 * i) - Low(x, 2 * (i - 1))
               = (Low(u, 2 * i) - Low(u, 2 * (i - 1))) + 2 * (Low(y, 2 * i) - Low(y, 2 * (i - 1)))
  <2>1. PICK k \in Nat : /\ k = 2 * (i - 1) /\ 2 * i = k + 2 /\ k \in Bits /\ k + 1 \in Bits /\ k + 2 \in 0..N
                         /\ k \in 0..N /\ k + 1 \in 1..N /\ k + 2 \in 1..N
    BY <1>1 DEF Bits
  <2>2. k % 2 = 0 /\ (k + 1) % 2 = 1
    BY <2>1
  <2>3. (k \in u <=> k \in x) /\ k + 1 \notin u /\ (k \in y <=> k + 1 \in x) /\ k + 1 \notin y
    BY <1>2, <2>1, <2>2 DEF Halves, Shr
  <2>4. PICK p \in Nat : p = Power[k] /\ Power[k + 1] = 2 * p
    <3>1. Power[k] \in Nat /\ Power[k + 1] = 2 * Power[(k + 1) - 1] /\ (k + 1) - 1 = k
      BY <1>1, <2>1, PowerIs
    <3> QED
      BY <3>1
  <2>5. ASSUME NEW z
        PROVE  /\ Low(z, k) \in Nat
               /\ Low(z, k + 2) = Low(z, k) + (IF k \in z THEN p ELSE 0) + (IF k + 1 \in z THEN 2 * p ELSE 0)
    <3>1. Low(z, k) \in Nat
      BY <1>1, <2>1, LowLess
    <3>2. Low(z, k + 1) = Low(z, (k + 1) - 1) + (IF (k + 1) - 1 \in z THEN Power[(k + 1) - 1] ELSE 0)
      BY <1>1, <2>1, LowIs
    <3>3. Low(z, k + 2) = Low(z, (k + 2) - 1) + (IF (k + 2) - 1 \in z THEN Power[(k + 2) - 1] ELSE 0)
      BY <1>1, <2>1, LowIs
    <3>4. (k + 1) - 1 = k /\ (k + 2) - 1 = k + 1
      OBVIOUS
    <3>5. Low(z, k + 1) = Low(z, k) + (IF k \in z THEN p ELSE 0)
      BY <2>4, <3>2, <3>4, Zenon
    <3>6. Low(z, k + 2) = Low(z, k + 1) + (IF k + 1 \in z THEN 2 * p ELSE 0)
      BY <2>4, <3>3, <3>4, Zenon
    <3> QED
      BY <3>1, <3>5, <3>6
  <2>6. /\ Low(x, k) \in Nat /\ Low(u, k) \in Nat /\ Low(y, k) \in Nat
        /\ Low(x, k + 2) = Low(x, k) + (IF k \in x THEN p ELSE 0) + (IF k + 1 \in x THEN 2 * p ELSE 0)
        /\ Low(u, k + 2) = Low(u, k) + (IF k \in u THEN p ELSE 0) + (IF k + 1 \in u THEN 2 * p ELSE 0)
        /\ Low(y, k + 2) = Low(y, k) + (IF k \in y THEN p ELSE 0) + (IF k + 1 \in y THEN 2 * p ELSE 0)
    BY <2>5
  <2> QED
    BY <2>1, <2>3, <2>6
<1>4. \A i \in 0..m : Low(x, 2 * i) \in Nat /\ Low(u, 2 * i) \in Nat /\ Low(y, 2 * i) \in Nat
  <2>1. \A i \in 0..m : 2 * i \in 0..N
    BY <1>1
  <2> QED
    BY <1>1, <2>1, LowLess
<1>5. Low(x, 2 * m) = Low(u, 2 * m) + 2 * Low(y, 2 * m)
  <2> DEFINE S == {i \in 0..m : Low(x, 2 * i) = Low(u, 2 * i) + 2 * Low(y, 2 * i)}
  <2>1. 0 \in S
    <3>1. Low(x, 0) = 0 /\ Low(u, 0) = 0 /\ Low(y, 0) = 0
      BY <1>1, LowIs
    <3>2. 2 * 0 = 0
      OBVIOUS
    <3> QED
      BY <3>1, <3>2
  <2>2. \A i \in 1..m : i - 1 \in S => i \in S
    <3>1. ASSUME NEW i \in 1..m, i - 1 \in S PROVE i \in S
      <4>1. i - 1 \in 0..m /\ i \in 0..m
        OBVIOUS
      <4>2. Low(x, 2 * (i - 1)) = Low(u, 2 * (i - 1)) + 2 * Low(y, 2 * (i - 1))
        BY <3>1
      <4>3. PICK x1 \in Nat, x2 \in Nat, u1 \in Nat, u2 \in Nat, y1 \in Nat, y2 \in Nat :
              /\ x1 = Low(x, 2 * (i - 1)) /\ u1 = Low(u, 2 * (i - 1)) /\ y1 = Low(y, 2 * (i - 1))
              /\ x2 = Low(x, 2 * i) /\ u2 = Low(u, 2 * i) /\ y2 = Low(y, 2 * i)
        BY <1>4, <4>1
      <4>4. x1 = u1 + 2 * y1 /\ x2 - x1 = (u2 - u1) + 2 * (y2 - y1)
        BY <1>3, <4>2, <4>3, Zenon
      <4>5. x2 = u2 + 2 * y2
        BY <4>4
      <4>6. Low(x, 2 * i) = Low(u, 2 * i) + 2 * Low(y, 2 * i)
        BY <4>3, <4>5, Zenon
      <4> QED
        BY <4>1, <4>6
    <3> QED
      BY <3>1
  <2> HIDE DEF S
  <2>3. 0..m \subseteq S
    BY <2>1, <2>2, Climb
  <2>4. m \in S
    BY <2>3
  <2> QED
    BY <2>4 DEF S
<1>6. PICK a \in Nat, b \in Nat, v \in Nat, t \in Nat \ {0} :
        a = Value(u) /\ b = Value(y) /\ v = Value(x) /\ t = Power[N] /\ v = a + 2 * b /\ v < t
  <2>1. Value(x) = Low(x, N) /\ Value(u) = Low(u, N) /\ Value(y) = Low(y, N)
    BY <1>1, LowIs
  <2>2. Value(x) \in Nat /\ Value(u) \in Nat /\ Value(y) \in Nat /\ Value(x) < Power[N] /\ Power[N] \in Nat \ {0}
    BY Width, ValueLess
  <2> QED
    BY <1>1, <1>5, <2>1, <2>2
<1>7. Value(Minus(x, y)) = a + b /\ Minus(x, y) \in Words
  <2>1. v >= b /\ v - b = a + b
    BY <1>6
  <2>2. Value(Minus(x, y)) = IF v >= b THEN v - b ELSE v - b + t
    BY <1>6, MinusIs
  <2>3. Minus(x, y) \in Words
    BY MinusIs
  <2> QED
    BY <2>1, <2>2, <2>3
<1>8. Value(Plus(u, y)) = a + b /\ Plus(u, y) \in Words
  <2>1. PICK z \in Words, c \in {0, 1} : z = Plus(u, y) /\ a + b = t * c + Value(z) /\ Value(z) \in Nat
    <3>1. Plus(u, y) \in Words /\ Value(Plus(u, y)) \in Nat
      BY PlusIs, ValueLess
    <3>2. \E c \in {0, 1} : Value(u) + Value(y) = Power[N] * c + Value(Plus(u, y))
      BY PlusIs
    <3> QED
      BY <1>6, <3>1, <3>2
  <2>2. t * c = IF c = 0 THEN 0 ELSE t
    OBVIOUS
  <2>3. c = 0
    BY <1>6, <2>1, <2>2
  <2> QED
    BY <2>1, <2>2, <2>3
<1>9. Minus(x, y) = Plus(u, y)
  BY <1>7, <1>8, SameValue
<1> QED
  BY <1>2, <1>9, Zenon

(* The three masked sums, and the counts they leave in the bytes. *)
Nibbles(a) == Plus(a \cap Halves(2), Shr(a, 2) \cap Halves(2))
Octet(c) == Plus(c, Shr(c, 4)) \cap Halves(4)
ByteSums(x) == Octet(Nibbles(Minus(x, Shr(x, 1) \cap Halves(1))))

(* Each byte counts its own bits. *)
LEMMA BytesCounted ==
  ASSUME CryptoIntParameters, NEW x \in Words, NEW m \in Nat, N = 8 * m
  PROVE  Counted(ByteSums(x), x, 8, m) /\ ByteSums(x) \in Words
<1>1. N \in Nat /\ N >= 8
  BY Width
<1>2. PICK a \in Words, c \in Words, d \in Words :
        a = Plus(x \cap Halves(1), Shr(x, 1) \cap Halves(1)) /\ c = Nibbles(a) /\ d = Octet(c)
  <2>1. ASSUME NEW z \in Words, NEW w \in Nat
        PROVE  z \cap Halves(w) \in Words /\ Shr(z, w) \cap Halves(w) \in Words /\ Shr(z, w) \in Words
    BY DEF Words, Shr
  <2>2. Plus(x \cap Halves(1), Shr(x, 1) \cap Halves(1)) \in Words
    BY <2>1, PlusIs
  <2>3. \A z \in Words : Nibbles(z) \in Words
    BY <2>1, PlusIs DEF Nibbles
  <2>4. \A z \in Words : Octet(z) \in Words
    <3>1. \A z \in Words : Plus(z, Shr(z, 4)) \in Words
      BY <2>1, PlusIs
    <3> QED
      BY <2>1, <3>1 DEF Octet
  <2> QED
    BY <2>2, <2>3, <2>4
<1>3. ByteSums(x) = d
  BY <1>2, Pairs, Zenon DEF ByteSums
<1>4. Counted(a, x, 2, 4 * m)
  <2>1. PICK w \in Nat \ {0}, n \in Nat : w = 1 /\ n = 4 * m /\ (2 * w) * n <= N /\ 2 * n = 8 * m /\ 2 * w = 2
    BY <1>1
  <2>2. Counted(x, x, w, 2 * n)
    <3>1. PICK k \in Nat : k = 8 * m /\ k <= N
      BY <1>1
    <3>2. Counted(x, x, 1, k)
      BY <3>1, BitsCounted, Zenon
    <3> QED
      BY <2>1, <3>1, <3>2, Zenon
  <2>3. Counted(Plus(x \cap Halves(w), Shr(x, w) \cap Halves(w)), x, 2 * w, n)
    BY <2>1, <2>2, Joined, Zenon
  <2> QED
    BY <1>2, <2>1, <2>3, Zenon
<1>5. Counted(c, x, 4, 2 * m)
  <2>1. PICK w \in Nat \ {0}, n \in Nat : w = 2 /\ n = 2 * m /\ (2 * w) * n <= N /\ 2 * n = 4 * m /\ 2 * w = 4
    BY <1>1
  <2>2. Counted(a, x, w, 2 * n)
    BY <1>4, <2>1, Zenon
  <2>3. Counted(Plus(a \cap Halves(w), Shr(a, w) \cap Halves(w)), x, 2 * w, n)
    BY <2>1, <2>2, Joined, Zenon
  <2> QED
    BY <1>2, <2>1, <2>3, Zenon DEF Nibbles
<1>6. Counted(d, x, 8, m)
  <2>1. PICK w \in Nat \ {0}, n \in Nat : w = 4 /\ n = m /\ (2 * w) * n <= N /\ 2 * n = 2 * m /\ 2 * w = 8
    BY <1>1
  <2>2. Counted(c, x, w, 2 * n)
    BY <1>5, <2>1, Zenon
  <2>3. 2 * w < Power[w]
    <3>1. Power[4] = 2 * Power[4 - 1] /\ Power[3] = 8 /\ 4 - 1 = 3
      BY <1>1, PowerIs, SmallPowers
    <3> QED
      BY <2>1, <3>1
  <2>4. Counted(Plus(c, Shr(c, w)) \cap Halves(w), x, 2 * w, n)
    BY <2>1, <2>2, <2>3, Merged, Zenon
  <2> QED
    BY <1>2, <2>1, <2>4, Zenon DEF Octet
<1> QED
  BY <1>3, <1>6, Zenon

(* The remainder by half as much. *)
LEMMA HalfRemainder ==
  ASSUME NEW i \in Nat, NEW p \in Nat \ {0}
  PROVE  /\ i % (2 * p) \in Nat /\ i % (2 * p) < 2 * p
         /\ i % p = IF i % (2 * p) < p THEN i % (2 * p) ELSE (i % (2 * p)) - p
<1>1. PICK d \in Nat \ {0} : d = 2 * p
  OBVIOUS
<1>2. i \div d \in Int /\ i % d \in Nat /\ i % d < d /\ i = d * (i \div d) + (i % d)
  BY Divided
<1>3. PICK q \in Int, r \in Nat : q = i \div d /\ r = i % d /\ r < d /\ i = d * q + r
  BY <1>2
<1>4. d * q = p * (2 * q)
  BY <1>1
<1>5. CASE r < p
  <2>1. 2 * q \in Int /\ i = p * (2 * q) + r
    BY <1>3, <1>4
  <2>2. DividesTo(i, p, 2 * q, r)
    BY <1>5, <2>1, DivIs, Zenon
  <2> QED
    BY <1>1, <1>3, <1>5, <2>2, Zenon DEF DividesTo
<1>6. CASE ~(r < p)
  <2>1. PICK s \in Nat, a \in Int : s = r - p /\ s < p /\ a = 2 * q + 1
    <3>1. r - p \in Nat /\ r - p < p
      BY <1>1, <1>3, <1>6
    <3>2. 2 * q + 1 \in Int
      OBVIOUS
    <3> QED
      BY <3>1, <3>2
  <2>2. i = p * a + s
    <3>1. p * (2 * q + 1) = p * (2 * q) + p
      OBVIOUS
    <3>2. PICK b \in Int : b = p * (2 * q)
      OBVIOUS
    <3> QED
      BY <1>3, <1>4, <2>1, <3>1, <3>2
  <2>3. DividesTo(i, p, a, s)
    BY <2>1, <2>2, DivIs, Zenon
  <2> QED
    BY <1>1, <1>3, <1>6, <2>1, <2>3, Zenon DEF DividesTo
<1> QED
  BY <1>5, <1>6

(* The bits of x in every byte that falls on byte t when the word is folded
   to 2^k bits. *)
Strided(x, t, k) == {i \in x : i % Power[k] \in (8 * t)..(8 * t + 7)}

(* Folding once more brings two of these sets together, which share no bit. *)
LEMMA StridedHalves ==
  ASSUME CryptoIntParameters, NEW x \in Words, NEW k \in 0..(N - 1), NEW n \in Nat, Power[k] = 8 * n, NEW t \in 0..(n - 1)
  PROVE  /\ Cardinality(Strided(x, t, k)) = Cardinality(Strided(x, t, k + 1)) + Cardinality(Strided(x, t + n, k + 1))
         /\ Cardinality(Strided(x, t, k)) \in Nat /\ Cardinality(Strided(x, t, k)) <= N
<1>1. N \in Nat /\ k + 1 \in 1..N /\ (k + 1) - 1 = k /\ k \in 0..N
  BY Width
<1>2. PICK p \in Nat \ {0} : p = Power[k] /\ p = 8 * n /\ Power[k + 1] = 2 * p
  <2>1. Power[k] \in Nat \ {0} /\ Power[k + 1] = 2 * Power[(k + 1) - 1]
    BY <1>1, PowerPositive, PowerIs
  <2> QED
    BY <1>1, <2>1
<1>3. PICK S, A, B : S = Strided(x, t, k) /\ A = Strided(x, t, k + 1) /\ B = Strided(x, t + n, k + 1)
  OBVIOUS
<1>4. ASSUME NEW i \in x
      PROVE  (i \in S <=> (i \in A \/ i \in B)) /\ ~(i \in A /\ i \in B)
  <2>1. i \in Nat
    BY <1>1 DEF Words, Bits
  <2>2. PICK r \in Nat, s \in Nat : /\ r = i % (2 * p) /\ r < 2 * p /\ s = i % p
                                    /\ s = IF r < p THEN r ELSE r - p
    <3>1. /\ i % (2 * p) \in Nat /\ i % (2 * p) < 2 * p
          /\ i % p = IF i % (2 * p) < p THEN i % (2 * p) ELSE (i % (2 * p)) - p
      BY <2>1, HalfRemainder
    <3> QED
      BY <3>1
  <2>3. i \in S <=> s \in (8 * t)..(8 * t + 7)
    BY <1>2, <1>3, <2>2 DEF Strided
  <2>4. i \in A <=> r \in (8 * t)..(8 * t + 7)
    BY <1>2, <1>3, <2>2 DEF Strided
  <2>5. i \in B <=> r \in (8 * (t + n))..(8 * (t + n) + 7)
    BY <1>2, <1>3, <2>2 DEF Strided
  <2>6. 8 * (t + n) = 8 * t + p /\ 8 * t + 7 < p
    BY <1>2
  <2> QED
    BY <2>2, <2>3, <2>4, <2>5, <2>6
<1>5. S \subseteq x /\ A \subseteq x /\ B \subseteq x
  BY <1>3 DEF Strided
<1>6. S = A \cup B /\ A \cap B = {}
  BY <1>4, <1>5
<1>7. /\ IsFiniteSet(S) /\ Cardinality(S) \in Nat /\ Cardinality(S) <= N
      /\ IsFiniteSet(A) /\ Cardinality(A) \in Nat /\ IsFiniteSet(B) /\ Cardinality(B) \in Nat
  <2>1. IsFiniteSet(Bits) /\ Cardinality(Bits) = N
    <3>1. 0 \in Int /\ N - 1 \in Int
      BY <1>1
    <3>2. IsFiniteSet(0..(N - 1)) /\ Cardinality(0..(N - 1)) = IF 0 > N - 1 THEN 0 ELSE (N - 1) - 0 + 1
      BY <3>1, FS_Interval
    <3> QED
      BY <3>2, Width DEF Bits
  <2>2. ASSUME NEW T \in SUBSET Bits
        PROVE  IsFiniteSet(T) /\ Cardinality(T) <= Cardinality(Bits) /\ Cardinality(T) \in Nat
    BY <2>1, FS_Subset, FS_CardinalityType
  <2>3. S \in SUBSET Bits /\ A \in SUBSET Bits /\ B \in SUBSET Bits
    BY <1>5 DEF Words
  <2> QED
    BY <2>1, <2>2, <2>3
<1>8. Cardinality(A \cup B) = Cardinality(A) + Cardinality(B) - Cardinality(A \cap B)
  BY <1>7, FS_Union
<1>9. Cardinality(A \cap B) = 0
  BY <1>6, FS_EmptySet
<1>10. Cardinality(S) = Cardinality(A) + Cardinality(B)
  BY <1>6, <1>7, <1>8, <1>9
<1> QED
  BY <1>3, <1>7, <1>10, Zenon

(* The first n bytes of y say how many bits of x fall on them. *)
Gathered(y, x, k, n) == \A t \in 0..(n - 1) : Lane(y, 8 * t, 8) = Cardinality(Strided(x, t, k))

(* The upper half of the bytes is added to the lower. *)
LEMMA Folded ==
  ASSUME CryptoIntParameters, N <= 128, NEW x \in Words, NEW e \in Words, NEW k \in 0..(N - 1), NEW n \in Nat,
         Power[k] = 8 * n, 8 * n <= N, Gathered(e, x, k + 1, 2 * n)
  PROVE  Plus(e, Shr(e, Power[k])) \in Words /\ Gathered(Plus(e, Shr(e, Power[k])), x, k, n)
<1>1. N \in Nat /\ N >= 8
  BY Width
<1>2. PICK p \in Nat, s \in Words : p = Power[k] /\ p = 8 * n /\ s = Shr(e, p)
  <2>1. PICK p \in Nat : p = 8 * n
    OBVIOUS
  <2> QED
    BY <2>1, ShiftsAdd
<1>3. PICK w \in Nat : w = 8 /\ Power[w] = 256
  <2>1. /\ Power[4] = 2 * Power[4 - 1] /\ Power[5] = 2 * Power[5 - 1] /\ Power[6] = 2 * Power[6 - 1]
        /\ Power[7] = 2 * Power[7 - 1] /\ Power[8] = 2 * Power[8 - 1] /\ Power[3] = 8
    BY <1>1, PowerIs, SmallPowers
  <2> QED
    BY <2>1
<1>4. ASSUME NEW t \in 0..(n - 1)
      PROVE  /\ Lane(e, w * t, w) + Lane(s, w * t, w) = Cardinality(Strided(x, t, k))
             /\ Lane(e, w * t, w) + Lane(s, w * t, w) < Power[w]
  <2>1. PICK c \in Nat : c = 8 * t /\ c + p = 8 * (t + n) /\ t \in 0..(2 * n - 1) /\ t + n \in 0..(2 * n - 1)
    BY <1>2
  <2>2. Lane(e, c, 8) = Cardinality(Strided(x, t, k + 1)) /\ Lane(e, c + p, 8) = Cardinality(Strided(x, t + n, k + 1))
    BY <2>1 DEF Gathered
  <2>3. Lane(s, c, 8) = Lane(e, c + p, 8)
    BY <1>2, ShiftedLane
  <2>4. /\ Cardinality(Strided(x, t, k)) = Cardinality(Strided(x, t, k + 1)) + Cardinality(Strided(x, t + n, k + 1))
        /\ Cardinality(Strided(x, t, k)) \in Nat /\ Cardinality(Strided(x, t, k)) <= N
    BY StridedHalves
  <2>5. Cardinality(Strided(x, t, k)) < Power[w]
    BY <1>1, <1>3, <2>4
  <2> QED
    BY <1>3, <2>1, <2>2, <2>3, <2>4, <2>5, Zenon
<1>5. SideBySide(e, s, w, n)
  <2>1. NoCarry(e, s, w, n)
    BY <1>4, Zenon DEF NoCarry
  <2>2. w * n <= N
    BY <1>3
  <2> QED
    BY <2>1, <2>2, AddLanes, Zenon
<1>6. \A t \in 0..(n - 1) : Lane(Plus(e, s), 8 * t, 8) = Cardinality(Strided(x, t, k))
  BY <1>3, <1>4, <1>5, Zenon DEF SideBySide
<1>7. Plus(e, s) \in Words
  BY PlusIs
<1> QED
  BY <1>2, <1>6, <1>7, Zenon DEF Gathered

(* Unfolded, each byte gathers its own bits; folded to one byte, all. *)
LEMMA Gathers ==
  ASSUME CryptoIntParameters, NEW x \in Words, NEW y \in Words
  PROVE  /\ \A l \in 0..N, m \in Nat : Power[l] = N /\ N = 8 * m /\ Counted(y, x, 8, m) => Gathered(y, x, l, m)
         /\ Gathered(y, x, 3, 1) => Lane(y, 0, 8) = Cardinality(x)
<1>1. N \in Nat /\ N >= 8
  BY Width
<1>2. ASSUME NEW l \in 0..N, NEW m \in Nat, Power[l] = N, N = 8 * m, Counted(y, x, 8, m)
      PROVE  Gathered(y, x, l, m)
  <2>1. SUFFICES ASSUME NEW t \in 0..(m - 1) PROVE Lane(y, 8 * t, 8) = Cardinality(Strided(x, t, l))
    BY DEF Gathered
  <2>2. Lane(y, 8 * t, 8) = Cardinality(x \cap (8 * t)..(8 * t + 8 - 1))
    BY <1>2 DEF Counted, Part
  <2>3. \A i \in x : i % N = i
    BY <1>1 DEF Words, Bits
  <2>4. 8 * t + 8 - 1 = 8 * t + 7
    OBVIOUS
  <2>5. Strided(x, t, l) = x \cap (8 * t)..(8 * t + 8 - 1)
    BY <1>2, <2>3, <2>4 DEF Strided
  <2> QED
    BY <2>2, <2>5
<1>3. ASSUME Gathered(y, x, 3, 1) PROVE Lane(y, 0, 8) = Cardinality(x)
  <2>1. 0 \in 0..(1 - 1) /\ 8 * 0 = 0
    OBVIOUS
  <2>2. Lane(y, 0, 8) = Cardinality(Strided(x, 0, 3))
    BY <1>3, <2>1 DEF Gathered
  <2>3. Power[3] = 8
    BY <1>1, SmallPowers
  <2>4. \A i \in x : i % 8 \in 0..(0 + 7)
    BY <1>1 DEF Words, Bits
  <2>5. Strided(x, 0, 3) = x
    BY <2>1, <2>3, <2>4 DEF Strided
  <2> QED
    BY <2>2, <2>5
<1> QED
  BY <1>2, <1>3

(* What defines the words of the loop that folds the bytes. *)
OnesRule(d, f) ==
  f = [k \in 0..N |-> IF Power[k] >= N THEN d ELSE LET e == f[k + 1] IN Plus(e, Shr(e, Power[k]))]

(* There are such words. *)
LEMMA OnesExist ==
  ASSUME CryptoIntParameters, NEW d \in Words
  PROVE  \E f : OnesRule(d, f)
<1>1. PICK l \in 3..N : Power[l] = N /\ l < N
  BY WidthBytes
<1>2. N \in Nat /\ l \in 0..N /\ l \in Nat
  BY Width
<1>3. \A k \in 0..N : (Power[k] >= N <=> k >= l) /\ Power[k] \in Nat
  <2>1. SUFFICES ASSUME NEW k \in 0..N PROVE (Power[k] >= N <=> k >= l) /\ Power[k] \in Nat
    OBVIOUS
  <2>2. Power[k] \in Nat
    BY <1>2, PowerIs
  <2>3. CASE k < l
    BY <1>1, <1>2, <2>2, <2>3, PowerGrows
  <2>4. CASE k = l
    BY <1>1, <1>2, <2>4
  <2>5. CASE k > l
    <3>1. Power[l] < Power[k]
      BY <1>2, <2>5, PowerGrows
    <3> QED
      BY <1>1, <1>2, <2>2, <2>5, <3>1
  <2> QED
    BY <1>2, <2>2, <2>3, <2>4, <2>5
<1>4. PICK step \in [(1..l) \X Words -> Words] :
        \A i \in 1..l, v \in Words : step[<<i, v>>] = Plus(v, Shr(v, Power[l - i]))
  <2>1. \A i \in 1..l, v \in Words : Plus(v, Shr(v, Power[l - i])) \in Words
    <3>1. SUFFICES ASSUME NEW i \in 1..l, NEW v \in Words PROVE Plus(v, Shr(v, Power[l - i])) \in Words
      OBVIOUS
    <3>2. l - i \in 0..N
      BY <1>2
    <3>3. Shr(v, Power[l - i]) \in Words
      BY <1>3, <3>2, ShiftsAdd
    <3> QED
      BY <3>3, PlusIs
  <2>2. PICK st : st = [q \in (1..l) \X Words |-> Plus(q[2], Shr(q[2], Power[l - q[1]]))]
    OBVIOUS
  <2>3. st \in [(1..l) \X Words -> Words]
    BY <2>1, <2>2
  <2>4. \A i \in 1..l, v \in Words : st[<<i, v>>] = Plus(v, Shr(v, Power[l - i]))
    BY <2>2
  <2> QED
    BY <2>3, <2>4
<1>5. PICK h : Steps(h, l, Words, d, step)
  BY <1>2, StepsExist
<1>6. h[0] = d /\ \A i \in 1..l : h[i - 1] \in Words /\ h[i] = Plus(h[i - 1], Shr(h[i - 1], Power[l - i]))
  <2>1. h \in [0..l -> Words] /\ h[0] = d /\ \A i \in 1..l : h[i] = step[<<i, h[i - 1]>>]
    BY <1>5 DEF Steps
  <2>2. \A i \in 1..l : h[i - 1] \in Words
    <3>1. \A i \in 1..l : i - 1 \in 0..l
      BY <1>2
    <3> QED
      BY <2>1, <3>1
  <2> QED
    BY <1>4, <2>1, <2>2
<1>7. PICK g : g = [k \in 0..N |-> IF Power[k] >= N THEN d ELSE h[l - k]]
  OBVIOUS
<1>8. ASSUME NEW k \in 0..N
      PROVE  g[k] = IF Power[k] >= N THEN d ELSE LET e == g[k + 1] IN Plus(e, Shr(e, Power[k]))
  <2>1. CASE Power[k] >= N
    BY <1>7, <2>1
  <2>2. CASE ~(Power[k] >= N)
    <3>1. k < l /\ k + 1 \in 0..N /\ l - k \in 1..l /\ l - (l - k) = k /\ (l - k) - 1 = l - (k + 1)
      BY <1>2, <1>3, <2>2
    <3>2. h[l - k] = Plus(h[l - (k + 1)], Shr(h[l - (k + 1)], Power[k]))
      BY <1>6, <3>1
    <3>3. g[k] = h[l - k]
      BY <1>7, <2>2
    <3>4. g[k + 1] = h[l - (k + 1)]
      <4>1. CASE k + 1 >= l
        <5>1. k + 1 = l /\ l - (k + 1) = 0
          BY <1>2, <3>1, <4>1
        <5>2. Power[k + 1] >= N
          BY <1>3, <3>1, <4>1
        <5> QED
          BY <1>6, <1>7, <3>1, <5>1, <5>2
      <4>2. CASE ~(k + 1 >= l)
        <5>1. ~(Power[k + 1] >= N)
          BY <1>3, <3>1, <4>2
        <5> QED
          BY <1>7, <3>1, <5>1
      <4> QED
        BY <4>1, <4>2
    <3> QED
      BY <2>2, <3>2, <3>3, <3>4, Zenon
  <2> QED
    BY <2>1, <2>2
<1>9. OnesRule(d, g)
  BY <1>7, <1>8, Zenon DEF OnesRule
<1> QED
  BY <1>9

(* Folded down to one byte, the word gathers all of its bits there. *)
LEMMA FoldedWhole ==
  ASSUME CryptoIntParameters, N <= 128, NEW x \in Words, NEW f, OnesRule(ByteSums(x), f)
  PROVE  f[3] \in Words /\ Gathered(f[3], x, 3, 1)
<1>1. PICK l \in 3..N : Power[l] = N /\ l < N
  BY WidthBytes
<1>2. N \in Nat /\ N >= 8 /\ l \in 0..N
  BY Width
<1>3. PICK m \in Nat : N = 8 * m
  BY WidthBytes
<1>4. PICK d \in Words : d = ByteSums(x) /\ Counted(d, x, 8, m)
  BY <1>3, BytesCounted
<1>5. ASSUME NEW k \in 0..N
      PROVE  f[k] = IF Power[k] >= N THEN d ELSE Plus(f[k + 1], Shr(f[k + 1], Power[k]))
  <2>1. f = [j \in 0..N |-> IF Power[j] >= N THEN d ELSE LET e == f[j + 1] IN Plus(e, Shr(e, Power[j]))]
    BY <1>4, Zenon DEF OnesRule
  <2> QED
    BY <2>1, Zenon
<1>6. \A k \in 3..l : \E n \in Nat : Power[k] = 8 * n /\ (k < l => Power[k + 1] = 8 * (2 * n) /\ 8 * n < N)
  <2>1. SUFFICES ASSUME NEW k \in 3..l
                 PROVE  \E n \in Nat : Power[k] = 8 * n /\ (k < l => Power[k + 1] = 8 * (2 * n) /\ 8 * n < N)
    OBVIOUS
  <2>0. PICK j \in 0..N : j = 3
    BY <1>2
  <2>2. PICK i \in 0..(N - j) : i = k - 3 /\ j + i = k
    BY <1>2, <2>0
  <2>3. Power[j + i] = Power[j] * Power[i]
    BY <1>2, PowerSum
  <2>4. Power[3] = 8 /\ i \in 0..N
    BY <1>2, SmallPowers
  <2>5. PICK n \in Nat : n = Power[i]
    BY <1>2, <2>4, PowerIs
  <2>6. Power[k] = 8 * n
    BY <2>0, <2>2, <2>3, <2>4, <2>5
  <2>7. ASSUME k < l PROVE Power[k + 1] = 8 * (2 * n) /\ 8 * n < N
    <3>1. k + 1 \in 1..N /\ (k + 1) - 1 = k /\ k \in 0..N
      BY <1>2, <2>7
    <3>2. Power[k + 1] = 2 * Power[(k + 1) - 1]
      BY <1>2, <3>1, PowerIs
    <3>3. Power[k] < Power[l]
      BY <1>2, <2>7, <3>1, PowerGrows
    <3> QED
      BY <1>1, <2>6, <3>1, <3>2, <3>3
  <2> QED
    BY <2>6, <2>7
<1> DEFINE S == {i \in 0..(l - 3) :
                   /\ f[l - i] \in Words
                   /\ \E n \in Nat : Power[l - i] = 8 * n /\ Gathered(f[l - i], x, l - i, n)}
<1>7. 0 \in S
  <2>1. f[l] = d
    BY <1>1, <1>2, <1>5
  <2>2. Gathered(d, x, l, m)
    BY <1>1, <1>2, <1>3, <1>4, Gathers
  <2>3. l - 0 = l /\ 0 \in 0..(l - 3)
    BY <1>2
  <2> QED
    BY <1>1, <1>3, <2>1, <2>2, <2>3
<1>8. \A i \in 1..(l - 3) : i - 1 \in S => i \in S
  <2>1. ASSUME NEW i \in 1..(l - 3), i - 1 \in S PROVE i \in S
    <3>1. PICK k \in 3..(l - 1) : k = l - i /\ k + 1 = l - (i - 1)
      BY <1>2
    <3>2. k \in 0..(N - 1) /\ k \in 3..l /\ k < l /\ k \in 0..N /\ i \in 0..(l - 3)
      BY <1>2
    <3>3. PICK e \in Words, v \in Nat : e = f[k + 1] /\ Power[k + 1] = 8 * v /\ Gathered(e, x, k + 1, v)
      BY <2>1, <3>1
    <3>4. PICK n \in Nat : Power[k] = 8 * n /\ Power[k + 1] = 8 * (2 * n) /\ 8 * n < N
      BY <1>6, <3>2
    <3>5. v = 2 * n
      BY <3>3, <3>4
    <3>6. Gathered(e, x, k + 1, 2 * n) /\ 8 * n <= N
      BY <1>2, <3>3, <3>4, <3>5
    <3>7. Plus(e, Shr(e, Power[k])) \in Words /\ Gathered(Plus(e, Shr(e, Power[k])), x, k, n)
      BY <3>2, <3>4, <3>6, Folded
    <3>8. f[k] = Plus(e, Shr(e, Power[k]))
      <4>1. ~(Power[k] >= N)
        BY <1>2, <3>4
      <4> QED
        BY <1>5, <3>2, <3>3, <4>1
    <3>9. f[k] \in Words /\ Power[k] = 8 * n /\ Gathered(f[k], x, k, n)
      BY <3>4, <3>7, <3>8, Zenon
    <3> QED
      BY <3>1, <3>2, <3>9
  <2> QED
    BY <2>1
<1> HIDE DEF S
<1>9. 0..(l - 3) \subseteq S
  <2>1. l - 3 \in Nat
    OBVIOUS
  <2> QED
    BY <1>7, <1>8, <2>1, Climb
<1>10. l - 3 \in S
  BY <1>9
<1>11. f[3] \in Words /\ \E n \in Nat : Power[3] = 8 * n /\ Gathered(f[3], x, 3, n)
  <2>1. l - (l - 3) = 3
    BY <1>2
  <2> QED
    BY <1>10, <2>1 DEF S
<1>12. PICK n \in Nat : Power[3] = 8 * n /\ Gathered(f[3], x, 3, n)
  BY <1>11
<1>13. n = 1
  BY <1>2, <1>12, SmallPowers
<1> QED
  BY <1>11, <1>12, <1>13, Zenon

(* Counting the bits that are 1 counts them, in words of up to 128 bits. *)
LEMMA OnesCounted ==
  ASSUME CryptoIntParameters, N <= 128, NEW x \in Words
  PROVE  crypto_int_ones_num(x) = Cardinality(x) /\ crypto_uint_ones_num(x) = Cardinality(x)
<1>1. N \in Nat /\ N >= 8
  BY Width
<1>2. PICK d : d = ByteSums(x) /\ d \in Words
  BY WidthBytes, BytesCounted
<1>3. PICK f : OnesRule(d, f) /\ f = CHOOSE g : OnesRule(d, g)
  BY <1>2, OnesExist
<1>4. PICK y \in Words : y = f[3] /\ Gathered(y, x, 3, 1)
  BY <1>2, <1>3, FoldedWhole
<1>5. PICK k \in 0..N, z \in Words : k = 8 /\ z = y \cap 0..7
  <2>1. 8 \in 0..N
    BY <1>1
  <2>2. y \cap 0..7 \in Words
    BY DEF Words
  <2> QED
    BY <2>1, <2>2
<1>6. Value(z) = Low(z, k)
  <2>1. \A j \in k..(N - 1) : j \notin z
    BY <1>5
  <2> QED
    BY <1>1, <2>1, LowFlat
<1>7. Low(z, k) = Low(y, k)
  <2>1. \A j \in 0..(k - 1) : j \in z <=> j \in y
    BY <1>5
  <2>2. \A i \in 0..k : Low(z, i) = Low(y, i)
    BY <1>1, <2>1, LowSame
  <2>3. k \in 0..k
    BY <1>5
  <2> QED
    BY <2>2, <2>3
<1>8. Low(y, k) = Lane(y, 0, 8)
  <2>1. Shr(y, 0) = y
    <3>1. 0 \in Nat
      OBVIOUS
    <3> QED
      BY <3>1, ShiftsAdd
  <2> QED
    BY <1>5, <2>1, Zenon DEF Lane
<1>9. Lane(y, 0, 8) = Cardinality(x)
  BY <1>4, Gathers
<1>10. Value(f[3] \cap 0..7) = Cardinality(x)
  BY <1>4, <1>5, <1>6, <1>7, <1>8, <1>9, Zenon
<1>11. /\ crypto_int_ones_num(x) = Value((CHOOSE g : OnesRule(ByteSums(x), g))[3] \cap 0..7)
       /\ crypto_uint_ones_num(x) = Value((CHOOSE g : OnesRule(ByteSums(x), g))[3] \cap 0..7)
  BY Zenon DEF crypto_int_ones_num, crypto_uint_ones_num, OnesRule, ByteSums, Octet, Nibbles, Halves
<1> QED
  BY <1>2, <1>3, <1>10, <1>11, Zenon

(* The place of the lowest bit that is 1, or the width. *)
First(x, k) == 0..(k - 1) \cap x = {} /\ (k = N \/ k \in x)

(* There is one, and only one. *)
LEMMA FirstIs ==
  ASSUME CryptoIntParameters, NEW x \in Words
  PROVE  /\ \E k \in 0..N : First(x, k)
         /\ \A k \in 0..N, m \in 0..N : First(x, k) /\ First(x, m) => k = m
<1>1. N \in Nat /\ x \subseteq 0..(N - 1)
  BY Width DEF Words, Bits
<1>2. \E k \in 0..N : First(x, k)
  <2>1. SUFFICES ASSUME ~ \E k \in 0..N : First(x, k) PROVE FALSE
    OBVIOUS
  <2> DEFINE S == {i \in 0..N : 0..(i - 1) \cap x = {}}
  <2>2. 0 \in S
    BY <1>1
  <2>3. \A i \in 1..N : i - 1 \in S => i \in S
    <3>1. ASSUME NEW i \in 1..N, 0..((i - 1) - 1) \cap x = {} PROVE 0..(i - 1) \cap x = {}
      <4>1. i - 1 \in 0..N
        BY <1>1
      <4>2. i - 1 \notin x
        BY <2>1, <3>1, <4>1 DEF First
      <4>3. 0..(i - 1) = 0..((i - 1) - 1) \cup {i - 1}
        BY <1>1
      <4> QED
        BY <3>1, <4>2, <4>3
    <3> QED
      BY <1>1, <3>1
  <2> HIDE DEF S
  <2>4. 0..N \subseteq S
    BY <1>1, <2>2, <2>3, Climb
  <2>5. N \in S
    BY <1>1, <2>4
  <2>6. First(x, N) /\ N \in 0..N
    BY <1>1, <2>5 DEF S, First
  <2> QED
    BY <2>1, <2>6
<1>3. ASSUME NEW k \in 0..N, NEW m \in 0..N, First(x, k), First(x, m), k < m PROVE FALSE
  <2>1. k \in 0..(m - 1) /\ k \in x
    BY <1>1, <1>3 DEF First
  <2> QED
    BY <1>3, <2>1 DEF First
<1>4. \A k \in 0..N, m \in 0..N : First(x, k) /\ First(x, m) => k = m
  <2>1. SUFFICES ASSUME NEW k \in 0..N, NEW m \in 0..N, First(x, k), First(x, m) PROVE k = m
    OBVIOUS
  <2>2. ~(k < m) /\ ~(m < k)
    BY <1>3, <2>1
  <2> QED
    BY <1>1, <2>2
<1> QED
  BY <1>2, <1>4

(* One less turns the lowest 1 to 0 and the 0s below it to 1s. *)
LEMMA OneLess ==
  ASSUME CryptoIntParameters, NEW x \in Words, NEW k \in 0..N, First(x, k)
  PROVE  Xor(x, Minus(x, One)) = IF k = N THEN Bits ELSE 0..k
<1>1. N \in Nat /\ x \subseteq 0..(N - 1) /\ N - 1 \in Bits
  BY Width DEF Words, Bits
<1>2. CASE k = N
  <2>1. x = Zero
    BY <1>1, <1>2 DEF First, Zero
  <2>2. Minus(Bit(FALSE), One) = Flag(~FALSE)
    BY BitMinus
  <2>3. Bit(FALSE) = Zero /\ Flag(~FALSE) = Ones
    BY Zenon DEF Bit, Flag
  <2>4. Minus(x, One) = Bits
    BY <2>1, <2>2, <2>3 DEF Ones
  <2> QED
    BY <1>2, <2>1, <2>4 DEF Xor, Zero
<1>3. CASE k # N
  <2>1. k \in x /\ k \in Nat /\ k + 1 \in 1..N /\ k + 1 \in 0..N /\ (k + 1) - 1 = k /\ \A j \in 0..(k - 1) : j \notin x
    BY <1>1, <1>3 DEF First
  <2>2. PICK y \in Words : y = (x \ {k}) \cup 0..(k - 1)
    <3>1. 0..(k - 1) \subseteq Bits
      BY <1>1, <2>1 DEF Bits
    <3>2. (x \ {k}) \cup 0..(k - 1) \in Words
      BY <1>1, <3>1 DEF Words, Bits
    <3> QED
      BY <3>2
  <2>3. Low(x, k) = 0
    BY <1>1, <2>1, LowNone
  <2>4. PICK p \in Nat \ {0} : p = Power[k]
    BY <1>1, PowerPositive
  <2>5. Low(y, k) = p - 1
    <3> DEFINE S == {i \in 0..k : Low(y, i) = Power[i] - 1}
    <3>1. 0 \in S
      BY <1>1, <2>1, LowIs, PowerIs
    <3>2. \A i \in 1..k : i - 1 \in S => i \in S
      <4>1. ASSUME NEW i \in 1..k, Low(y, i - 1) = Power[i - 1] - 1 PROVE Low(y, i) = Power[i] - 1
        <5>1. i \in 1..N /\ i - 1 \in 0..N /\ i - 1 \in y
          BY <1>1, <2>1, <2>2
        <5>2. Low(y, i) = Low(y, i - 1) + Power[i - 1]
          BY <1>1, <5>1, LowIs
        <5>3. Power[i] = 2 * Power[i - 1] /\ Power[i - 1] \in Nat
          BY <1>1, <5>1, PowerIs
        <5> QED
          BY <4>1, <5>2, <5>3
      <4> QED
        BY <2>1, <4>1
    <3> HIDE DEF S
    <3>3. 0..k \subseteq S
      BY <2>1, <3>1, <3>2, Climb
    <3>4. k \in S
      BY <2>1, <3>3
    <3> QED
      BY <2>4, <3>4 DEF S
  <2>6. Low(x, k + 1) = p /\ Low(y, k + 1) = p - 1
    <3>1. k \notin y
      BY <2>1, <2>2
    <3>2. /\ Low(x, k + 1) = Low(x, (k + 1) - 1) + (IF (k + 1) - 1 \in x THEN Power[(k + 1) - 1] ELSE 0)
          /\ Low(y, k + 1) = Low(y, (k + 1) - 1) + (IF (k + 1) - 1 \in y THEN Power[(k + 1) - 1] ELSE 0)
      BY <1>1, <2>1, LowIs
    <3>3. Low(x, k + 1) = 0 + p /\ Low(y, k + 1) = p - 1 + 0
      BY <2>1, <2>3, <2>4, <2>5, <3>1, <3>2, Zenon
    <3> QED
      BY <3>3
  <2>7. Shr(x, k + 1) = Shr(y, k + 1)
    <3>1. \A i \in Bits : i + (k + 1) \in x <=> i + (k + 1) \in y
      <4>1. \A i \in Bits : i + (k + 1) # k /\ i + (k + 1) \notin 0..(k - 1)
        BY <1>1, <2>1 DEF Bits
      <4> QED
        BY <2>2, <4>1
    <3> QED
      BY <3>1 DEF Shr
  <2>8. Value(x) = Value(y) + 1
    <3>1. /\ Value(x) = Power[k + 1] * Value(Shr(x, k + 1)) + Low(x, k + 1)
          /\ Value(y) = Power[k + 1] * Value(Shr(y, k + 1)) + Low(y, k + 1)
          /\ Value(Shr(x, k + 1)) \in Nat
      BY <1>1, <2>1, ValueSplit
    <3>2. Power[k + 1] \in Nat
      BY <1>1, <2>1, PowerIs
    <3>3. PICK c \in Nat : c = Power[k + 1] * Value(Shr(x, k + 1))
      BY <3>1, <3>2
    <3>4. Value(x) = c + p /\ Value(y) = c + (p - 1)
      BY <2>6, <2>7, <3>1, <3>3, Zenon
    <3> QED
      BY <3>4
  <2>9. Minus(x, One) = y
    <3>1. One \in Words /\ Value(One) = 1
      BY SimpleValues
    <3>2. Value(x) \in Nat /\ Value(y) \in Nat
      BY ValueLess
    <3>3. /\ Minus(x, One) \in Words
          /\ Value(Minus(x, One)) = IF Value(x) >= Value(One) THEN Value(x) - Value(One)
                                    ELSE Value(x) - Value(One) + Power[N]
      BY <3>1, MinusIs
    <3>4. Value(Minus(x, One)) = Value(y)
      BY <2>8, <3>1, <3>2, <3>3
    <3> QED
      BY <3>3, <3>4, SameValue
  <2>10. Xor(x, y) = 0..k
    <3>1. 0..k = 0..(k - 1) \cup {k}
      BY <2>1
    <3>2. k \notin 0..(k - 1)
      BY <2>1
    <3> QED
      BY <2>1, <2>2, <3>1, <3>2 DEF Xor
  <2> QED
    BY <1>3, <2>9, <2>10
<1> QED
  BY <1>2, <1>3

(* The 0s below the lowest 1 are counted, or found at once. *)
LEMMA ZerosCounted ==
  ASSUME CryptoIntParameters, N <= 128, NEW b \in Builds, NEW x \in Words, NEW k \in 0..N, First(x, k)
  PROVE  crypto_int_bottomzeros_num(b, x) = k /\ crypto_uint_bottomzeros_num(b, x) = k
<1>1. N \in Nat /\ N >= 8 /\ x \subseteq 0..(N - 1) /\ N - 1 \in Bits
  BY Width DEF Words, Bits
<1>2. CASE b # "select"
  <2>1. PICK w : w = Sar(Xor(x, Minus(x, One)), 1) \ (x \cap Top)
    OBVIOUS
  <2>2. w = 0..(k - 1)
    <3>1. CASE k = N
      <4>1. Sar(Bits, 1) = Bits
        BY <1>1 DEF Sar, Bits
      <4>2. x = {}
        BY <1>1, <3>1 DEF First
      <4>3. Xor(x, Minus(x, One)) = Bits
        BY <3>1, OneLess
      <4> QED
        BY <2>1, <3>1, <4>1, <4>2, <4>3 DEF Bits
    <3>2. CASE k = N - 1
      <4>1. 0..k = Bits /\ k # N
        BY <1>1, <3>2 DEF Bits
      <4>2. Xor(x, Minus(x, One)) = Bits
        BY <4>1, OneLess
      <4>3. Sar(Bits, 1) = Bits
        BY <1>1 DEF Sar, Bits
      <4>4. x \cap Top = {k}
        BY <1>1, <3>2, <4>1 DEF First, Top
      <4>5. 0..k \ {k} = 0..(k - 1)
        BY <1>1
      <4> QED
        BY <2>1, <4>1, <4>2, <4>3, <4>4, <4>5
    <3>3. CASE k < N - 1
      <4>1. Xor(x, Minus(x, One)) = 0..k
        BY <1>1, <3>3, OneLess
      <4>2. Sar(0..k, 1) = 0..(k - 1)
        <5>1. \A i \in Bits : (IF i + 1 < N THEN i + 1 \in 0..k ELSE N - 1 \in 0..k) <=> i \in 0..(k - 1)
          BY <1>1, <3>3 DEF Bits
        <5>2. 0..(k - 1) \subseteq Bits
          BY <1>1 DEF Bits
        <5> QED
          BY <5>1, <5>2 DEF Sar
      <4>3. 0..(k - 1) \cap Top = {}
        BY <1>1, <3>3 DEF Top
      <4> QED
        BY <2>1, <4>1, <4>2, <4>3
    <3> QED
      BY <1>1, <3>1, <3>2, <3>3
  <2>3. w \in Words
    BY <1>1, <2>2 DEF Words, Bits
  <2>4. Cardinality(w) = k
    <3>1. 0 \in Int /\ k - 1 \in Int
      BY <1>1
    <3>2. Cardinality(0..(k - 1)) = IF 0 > k - 1 THEN 0 ELSE (k - 1) - 0 + 1
      BY <3>1, FS_Interval
    <3> QED
      BY <1>1, <2>2, <3>2
  <2>5. crypto_int_ones_num(w) = Cardinality(w) /\ crypto_uint_ones_num(w) = Cardinality(w)
    BY <2>3, OnesCounted
  <2>6. /\ crypto_int_bottomzeros_num(b, x) = crypto_int_ones_num(w)
        /\ crypto_uint_bottomzeros_num(b, x) = crypto_uint_ones_num(w)
    BY <1>2, <2>1, Zenon DEF crypto_int_bottomzeros_num, crypto_uint_bottomzeros_num
  <2> QED
    BY <2>4, <2>5, <2>6, Zenon
<1>3. CASE b = "select"
  <2>1. /\ crypto_int_bottomzeros_num(b, x) = IF x = Zero THEN N ELSE Min(x)
        /\ crypto_uint_bottomzeros_num(b, x) = IF x = Zero THEN N ELSE Min(x)
    BY <1>3, Zenon DEF crypto_int_bottomzeros_num, crypto_uint_bottomzeros_num
  <2>2. CASE x = Zero
    <3>1. k = N
      BY <2>2 DEF First, Zero
    <3> QED
      BY <2>1, <2>2, <3>1, Zenon
  <2>3. CASE x # Zero
    <3>1. k \in x
      <4>1. CASE k = N
        BY <1>1, <2>3, <4>1 DEF First, Zero
      <4> QED
        BY <4>1 DEF First
    <3>2. \A y \in x : k <= y
      <4>1. SUFFICES ASSUME NEW y \in x PROVE k <= y
        OBVIOUS
      <4>2. y \in 0..(N - 1) /\ y \notin 0..(k - 1)
        BY <1>1 DEF First
      <4> QED
        BY <1>1, <4>2
    <3>3. \A m \in x : (\A y \in x : m <= y) => m = k
      BY <1>1, <3>1, <3>2
    <3>4. Min(x) = k
      BY <3>1, <3>2, <3>3 DEF Min
    <3> QED
      BY <2>1, <2>3, <3>4, Zenon
  <2> QED
    BY <2>2, <2>3
<1> QED
  BY <1>2, <1>3

(* crypto_intN_ones_num and _bottomzeros_num and their unsigned sisters count, on
   every kind of machine, the zero word included, and what _store and
   _store_bigendian wrote, _load and _load_bigendian read back. One byte holds
   the count of bits only in words of less than 256, so the theorem is about
   words of up to 128: the headers are for 8, 16, 32 and 64. *)
THEOREM BitsAndBytesCounted ==
  ASSUME CryptoIntParameters, N <= 128, NEW b \in Builds, NEW x \in Words
  PROVE  CountsRight(b, x)
<1>1. PICK k \in 0..N : First(x, k)
  BY FirstIs
<1>2. (CHOOSE m \in 0..N : 0..(m - 1) \cap x = {} /\ (m = N \/ m \in x)) = k
  BY <1>1, FirstIs DEF First
<1>3. crypto_int_ones_num(x) = Cardinality(x) /\ crypto_uint_ones_num(x) = Cardinality(x)
  BY OnesCounted
<1>4. crypto_int_bottomzeros_num(b, x) = k /\ crypto_uint_bottomzeros_num(b, x) = k
  BY <1>1, ZerosCounted
<1>5. /\ {crypto_int_ones_num(x), crypto_uint_ones_num(x)} = {Cardinality(x)}
      /\ {crypto_int_bottomzeros_num(b, x), crypto_uint_bottomzeros_num(b, x)} = {k}
  BY <1>3, <1>4
<1>6. /\ crypto_int_load(crypto_int_store(x)) = x /\ crypto_uint_load(crypto_uint_store(x)) = x
      /\ crypto_int_load_bigendian(crypto_int_store_bigendian(x)) = x
      /\ crypto_uint_load_bigendian(crypto_uint_store_bigendian(x)) = x
      /\ crypto_uint_store(x)[1] = x \cap 0..7
      /\ crypto_uint_store_bigendian(x)[N \div 8] = x \cap 0..7
  BY LoadStored
<1>7. {crypto_int_load(crypto_int_store(x)), crypto_uint_load(crypto_uint_store(x)),
       crypto_int_load_bigendian(crypto_int_store_bigendian(x)),
       crypto_uint_load_bigendian(crypto_uint_store_bigendian(x))} = {x}
  BY <1>6
<1> QED
  BY <1>2, <1>5, <1>6, <1>7, Zenon DEF CountsRight

(* Every trial of the integers ends well, at every width up to 128 that is a
   power of two, on every kind of machine and with any two words. *)
THEOREM IntegersAreRight ==
  ASSUME CryptoIntParameters, N <= 128, Of("int") => input \in Builds \X Words \X Words
  PROVE  IntegersRight
<1> SUFFICES ASSUME Of("int")
             PROVE  /\ MasksRight(input[1], input[2], input[3])
                    /\ MinMaxRight(input[1], input[2], input[3])
                    /\ ShiftsRight(input[1], input[2], input[3])
                    /\ CountsRight(input[1], input[2])
  BY Zenon DEF IntegersRight
<1>1. input[1] \in Builds /\ input[2] \in Words /\ input[3] \in Words
  OBVIOUS
<1>2. MasksRight(input[1], input[2], input[3])
  BY <1>1, MasksSay
<1>3. MinMaxRight(input[1], input[2], input[3])
  BY <1>1, WordsOrdered
<1>4. ShiftsRight(input[1], input[2], input[3])
  BY <1>1, ShiftsModulo
<1>5. CountsRight(input[1], input[2])
  BY <1>1, BitsAndBytesCounted
<1> QED
  BY <1>2, <1>3, <1>4, <1>5
==============================================================================

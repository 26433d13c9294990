----------------------------- MODULE BytesProofs -----------------------------
(***************************************************************************)
(* What the buffers, parsers and conversions of Bytes do with every input. *)
(***************************************************************************)
EXTENDS TrialBytes, SequenceTheorems, FiniteSetTheorems, WellFoundedInduction, TLAPS

-----------------------------------------------------------------------------
(* Counting up, and the functions defined that way. *)

(* A set of numbers that holds 0, and with each number below n the next one,
   holds all of them up to n. *)
LEMMA Climb ==
  ASSUME NEW n \in Nat, NEW S, 0 \in S, \A i \in 1..n : i - 1 \in S => i \in S
  PROVE  0..n \subseteq S
<1> SUFFICES ASSUME ~(0..n \subseteq S) PROVE FALSE
  OBVIOUS
<1> DEFINE T == {i \in 0..n : i \notin S}
           R == OpToRel(<, Nat)
<1>1. IsWellFoundedOn(R, Nat)
  BY NatLessThanWellFounded
<1>2. \A x, y \in Nat : <<y, x>> \in R <=> y < x
  BY DEF OpToRel
<1>3. T \subseteq Nat /\ T # {}
  OBVIOUS
<1> HIDE DEF R, T
<1>4. PICK x \in T : \A y \in T : ~(<<y, x>> \in R)
  BY <1>1, <1>3, WFMin
<1>5. x \in 0..n /\ x \notin S /\ \A y \in T : ~(y < x)
  BY <1>2, <1>3, <1>4 DEF T
<1>6. x \in 1..n /\ x - 1 \in 0..n /\ x - 1 < x
  BY <1>5
<1>7. x - 1 \in S
  BY <1>5, <1>6 DEF T
<1> QED
  BY <1>5, <1>6, <1>7

(* f starts with base and goes on with step, up to n. *)
Steps(f, n, S, base, step) ==
  f \in [0..n -> S] /\ f[0] = base /\ \A i \in 1..n : f[i] = step[<<i, f[i - 1]>>]

(* There is a function with the first value and the steps that are asked for. *)
LEMMA StepsExist ==
  ASSUME NEW n \in Nat, NEW S, NEW base \in S, NEW step \in [(1..n) \X S -> S]
  PROVE  \E f : Steps(f, n, S, base, step)
<1> DEFINE T == {m \in 0..n : \E f : Steps(f, m, S, base, step)}
<1>1. 0 \in T
  <2>1. Steps([i \in 0..0 |-> base], 0, S, base, step)
    BY DEF Steps
  <2> QED
    BY <2>1
<1>2. ASSUME NEW i \in 1..n, i - 1 \in T PROVE i \in T
  <2>1. PICK f : Steps(f, i - 1, S, base, step)
    BY <1>2
  <2> DEFINE g == [j \in 0..i |-> IF j = i THEN step[<<i, f[i - 1]>>] ELSE f[j]]
  <2>2. f \in [0..(i - 1) -> S] /\ f[0] = base
        /\ \A j \in 1..(i - 1) : f[j] = step[<<j, f[j - 1]>>]
    BY <2>1 DEF Steps
  <2>3. step[<<i, f[i - 1]>>] \in S
    BY <2>2
  <2>4. g \in [0..i -> S]
    BY <2>2, <2>3
  <2>5. g[i] = step[<<i, f[i - 1]>>] /\ \A j \in 0..(i - 1) : g[j] = f[j]
    OBVIOUS
  <2> HIDE DEF g
  <2>6. g[0] = base
    BY <2>2, <2>5
  <2>7. ASSUME NEW j \in 1..i PROVE g[j] = step[<<j, g[j - 1]>>]
    <3>1. j - 1 \in 0..(i - 1) /\ (j = i \/ j \in 1..(i - 1))
      OBVIOUS
    <3>2. g[j - 1] = f[j - 1]
      BY <2>5, <3>1
    <3> QED
      BY <2>2, <2>5, <3>1, <3>2
  <2>8. Steps(g, i, S, base, step)
    BY <2>4, <2>6, <2>7 DEF Steps
  <2> QED
    BY <2>8
<1>3. \A i \in 1..n : i - 1 \in T => i \in T
  BY <1>2
<1> HIDE DEF T
<1>4. n \in T
  BY <1>1, <1>3, Climb
<1> QED
  BY <1>4 DEF T

-----------------------------------------------------------------------------
(* Sequences. *)

(* Two sequences with the same elements at the same places are the same. *)
LEMMA SameElements ==
  ASSUME NEW S, NEW x \in Seq(S), NEW T, NEW y \in Seq(T), Len(x) = Len(y),
         \A i \in 1..Len(x) : x[i] = y[i]
  PROVE  x = y
<1>1. x \in [1..Len(x) -> S] /\ y \in [1..Len(y) -> T]
  BY LenProperties
<1> QED
  BY <1>1

(* A function on 1..n is a sequence of that length. *)
LEMMA Listed ==
  ASSUME NEW S, NEW n \in Nat, NEW f \in [1..n -> S]
  PROVE  f \in Seq(S) /\ Len(f) = n
<1>1. f \in Seq(S)
  OBVIOUS
<1>2. DOMAIN f = 1..n
  OBVIOUS
<1>3. DOMAIN f = 1..Len(f) /\ Len(f) \in Nat
  BY <1>1, LenProperties
<1>4. 1..n = 1..Len(f)
  BY <1>2, <1>3
<1>5. \A i \in Nat : i \in 1..n <=> i \in 1..Len(f)
  BY <1>4
<1>6. n \in 1..n \/ n = 0
  OBVIOUS
<1>7. Len(f) \in 1..Len(f) \/ Len(f) = 0
  BY <1>3
<1> QED
  BY <1>1, <1>3, <1>5, <1>6, <1>7

(* A piece of a sequence, from an element to another, or empty. *)
LEMMA Piece ==
  ASSUME NEW S, NEW x \in Seq(S), NEW m \in 1..(Len(x) + 1), NEW n \in (m - 1)..Len(x)
  PROVE  /\ SubSeq(x, m, n) \in Seq(S) /\ Len(SubSeq(x, m, n)) = n - m + 1
         /\ \A i \in 1..(n - m + 1) : SubSeq(x, m, n)[i] = x[m + i - 1]
<1>1. SubSeq(x, m, n) = [i \in 1..(n - m + 1) |-> x[i + m - 1]]
  BY SubSeqProperties
<1>2. Len(x) \in Nat /\ \A i \in 1..Len(x) : x[i] \in S
  BY LenProperties, ElementOfSeq
<1>3. \A i \in 1..(n - m + 1) : i + m - 1 \in 1..Len(x)
  BY <1>2
<1>4. SubSeq(x, m, n) \in [1..(n - m + 1) -> S] /\ n - m + 1 \in Nat
  BY <1>1, <1>2, <1>3
<1>5. SubSeq(x, m, n) \in Seq(S) /\ Len(SubSeq(x, m, n)) = n - m + 1
  BY <1>4, Listed
<1> QED
  BY <1>1, <1>5

(* Two sequences, one behind the other. *)
LEMMA Joint ==
  ASSUME NEW S, NEW x \in Seq(S), NEW y \in Seq(S)
  PROVE  /\ x \o y \in Seq(S) /\ Len(x \o y) = Len(x) + Len(y)
         /\ \A i \in 1..Len(x) : (x \o y)[i] = x[i]
         /\ \A i \in 1..Len(y) : (x \o y)[Len(x) + i] = y[i]
  OBVIOUS

(* The same, for an element of the first. *)
LEMMA JointFirst ==
  ASSUME NEW S, NEW x \in Seq(S), NEW y \in Seq(S), NEW k \in 1..Len(x)
  PROVE  (x \o y)[k] = x[k]
  OBVIOUS

(* An element of the second, counted on from the first. *)
LEMMA JointSecond ==
  ASSUME NEW S, NEW x \in Seq(S), NEW y \in Seq(S), NEW k \in 1..Len(y)
  PROVE  (x \o y)[Len(x) + k] = y[k]
  OBVIOUS

-----------------------------------------------------------------------------
(* Numbers of 32 bits as four bytes. *)
Octet == 0..255
Word32 == 0..(256^4 - 1)

(* The number four bytes stand for. *)
Joined(a, b, c, d) == a * 256^3 + b * 256^2 + c * 256 + d

(* Big gives four bytes. *)
LEMMA BigOctets ==
  ASSUME NEW x \in Nat
  PROVE  /\ Big(x) \in Seq(Octet) /\ Len(Big(x)) = 4
         /\ Big(x)[1] = (x \div 256^3) % 256 /\ Big(x)[2] = (x \div 256^2) % 256
         /\ Big(x)[3] = (x \div 256) % 256 /\ Big(x)[4] = x % 256
<1>1. Big(x) = [i \in 1..4 |-> (x \div 256^(4 - i)) % 256]
  BY DEF Big
<1>2. Big(x)[1] = (x \div 256^3) % 256 /\ Big(x)[2] = (x \div 256^2) % 256
      /\ Big(x)[3] = (x \div 256) % 256 /\ Big(x)[4] = x % 256
  BY <1>1, SMT
<1>3. Big(x)[1] \in Octet /\ Big(x)[2] \in Octet /\ Big(x)[3] \in Octet /\ Big(x)[4] \in Octet
  BY <1>2, SMT DEF Octet
<1>4. Big(x) \in [1..4 -> Octet]
  BY <1>1, <1>3, SMT
<1>5. Big(x) \in Seq(Octet) /\ Len(Big(x)) = 4
  BY <1>4, Listed
<1> QED
  BY <1>2, <1>5

(* The four bytes stand for the number. *)
LEMMA BigBack ==
  ASSUME NEW x \in Word32
  PROVE  Joined(Big(x)[1], Big(x)[2], Big(x)[3], Big(x)[4]) = x
<1>1. x \in Nat /\ x < 256^4
  BY SMT DEF Word32
<1>2. Joined((x \div 256^3) % 256, (x \div 256^2) % 256, (x \div 256) % 256, x % 256) = x
  BY <1>1, SMT DEF Joined
<1> QED
  BY <1>1, <1>2, BigOctets, ZenonT(40)

(* Quotient and remainder for the powers of 256. *)
LEMMA Divided ==
  ASSUME NEW x \in Nat, NEW q \in Nat, NEW r \in Nat
  PROVE  /\ x = q * 256 + r /\ r < 256 => x \div 256 = q /\ x % 256 = r
         /\ x = q * 256^2 + r /\ r < 256^2 => x \div 256^2 = q
         /\ x = q * 256^3 + r /\ r < 256^3 => x \div 256^3 = q
<1>1. x = q * 256 + r /\ r < 256 => x \div 256 = q /\ x % 256 = r
  BY SMT
<1>2. x = q * 256^2 + r /\ r < 256^2 => x \div 256^2 = q
  BY SMT
<1>3. x = q * 256^3 + r /\ r < 256^3 => x \div 256^3 = q
  BY SMT
<1> QED
  BY <1>1, <1>2, <1>3

(* Any four bytes are those of the number they stand for. *)
LEMMA BackBig ==
  ASSUME NEW a \in Octet, NEW b \in Octet, NEW c \in Octet, NEW d \in Octet
  PROVE  Joined(a, b, c, d) \in Word32 /\ Big(Joined(a, b, c, d)) = <<a, b, c, d>>
<1> DEFINE x == Joined(a, b, c, d)
<1>1. x \in Nat /\ x < 256^4
  BY SMT DEF Joined, Octet
<1>2. x % 256 = d
  <2> DEFINE q == a * 256^2 + b * 256 + c
  <2>1. x = q * 256 + d /\ d < 256 /\ q \in Nat /\ d \in Nat
    BY SMT DEF Joined, Octet
  <2> HIDE DEF q, x
  <2> QED
    BY <1>1, <2>1, Divided
<1>3. (x \div 256) % 256 = c
  <2> DEFINE p == a * 256 + b
             q == p * 256 + c
  <2>1. x = q * 256 + d /\ d < 256 /\ q \in Nat /\ d \in Nat
    BY SMT DEF Joined, Octet
  <2>2. q = p * 256 + c /\ c < 256 /\ p \in Nat /\ c \in Nat
    BY SMT DEF Octet
  <2> HIDE DEF p, q, x
  <2>3. x \div 256 = q
    BY <1>1, <2>1, Divided
  <2>4. q % 256 = c
    BY <2>1, <2>2, Divided
  <2> QED
    BY <2>3, <2>4
<1>4. (x \div 256^2) % 256 = b
  <2> DEFINE q == a * 256 + b
             r == c * 256 + d
  <2>1. x = q * 256^2 + r /\ r < 256^2 /\ q \in Nat /\ r \in Nat
    BY SMT DEF Joined, Octet
  <2>2. q = a * 256 + b /\ b < 256 /\ a \in Nat /\ b \in Nat
    BY SMT DEF Octet
  <2> HIDE DEF q, r, x
  <2>3. x \div 256^2 = q
    BY <1>1, <2>1, Divided
  <2>4. q % 256 = b
    BY <2>1, <2>2, Divided
  <2> QED
    BY <2>3, <2>4
<1>5. (x \div 256^3) % 256 = a
  <2> DEFINE r == b * 256^2 + c * 256 + d
  <2>1. x = a * 256^3 + r /\ r < 256^3 /\ a \in Nat /\ r \in Nat /\ a < 256
    BY SMT DEF Joined, Octet
  <2> HIDE DEF r, x
  <2>2. x \div 256^3 = a
    BY <1>1, <2>1, Divided
  <2>3. a % 256 = a
    BY <2>1, SMT
  <2> QED
    BY <2>2, <2>3
<1>6. x \in Word32
  BY <1>1, SMT DEF Word32
<1> HIDE DEF x
<1>6a. /\ Big(x) \in Seq(Octet) /\ Len(Big(x)) = 4
       /\ Big(x)[1] = (x \div 256^3) % 256 /\ Big(x)[2] = (x \div 256^2) % 256
       /\ Big(x)[3] = (x \div 256) % 256 /\ Big(x)[4] = x % 256
  BY <1>1, BigOctets, Zenon
<1>7. Big(x) \in Seq(Octet) /\ Len(Big(x)) = 4
      /\ Big(x)[1] = a /\ Big(x)[2] = b /\ Big(x)[3] = c /\ Big(x)[4] = d
  BY <1>2, <1>3, <1>4, <1>5, <1>6a, Zenon
<1>8. Big(x) = <<a, b, c, d>>
  <2>1. <<a, b, c, d>> \in Seq(Octet) /\ Len(<<a, b, c, d>>) = 4
    OBVIOUS
  <2>2. \A i \in 1..4 : Big(x)[i] = <<a, b, c, d>>[i]
    BY <1>7
  <2> QED
    BY <1>7, <2>1, <2>2, SameElements
<1> QED
  BY <1>6, <1>8 DEF x

-----------------------------------------------------------------------------
(* Packets: writing. *)

(* What a packet is made of: a byte, a number, a string, zeros or padding. *)
Item == ({"num8"} \X Octet) \cup ({"num32"} \X Word32) \cup ({"string"} \X Seq(Octet))
          \cup ({"zeros"} \X Nat) \cup ({"padding"} \X Seq(Octet))

(* The bytes it becomes. *)
Code(item) ==
  CASE item[1] = "num8" -> <<item[2]>>
    [] item[1] = "num32" -> Big(item[2])
    [] item[1] = "string" -> Big(Len(item[2])) \o item[2]
    [] item[1] = "zeros" -> [i \in 1..item[2] |-> 0]
    [] item[1] = "padding" -> item[2]

(* An item is of one of the five kinds. *)
LEMMA Kinds ==
  ASSUME NEW item \in Item
  PROVE  \/ item[1] = "num8" /\ item[2] \in Octet
         \/ item[1] = "num32" /\ item[2] \in Word32
         \/ item[1] = "string" /\ item[2] \in Seq(Octet)
         \/ item[1] = "zeros" /\ item[2] \in Nat
         \/ item[1] = "padding" /\ item[2] \in Seq(Octet)
  BY DEF Item

(* Those bytes are as many as the size says. *)
LEMMA CodeSize ==
  ASSUME NEW item \in Item
  PROVE  Code(item) \in Seq(Octet) /\ Len(Code(item)) = ItemSize(item) /\ ItemSize(item) \in Nat
<1>1. CASE item[1] = "num8" /\ item[2] \in Octet
  <2>1. <<item[2]>> \in Seq(Octet) /\ Len(<<item[2]>>) = 1
    BY <1>1
  <2> QED
    BY <1>1, <2>1 DEF Code, ItemSize
<1>2. CASE item[1] = "num32" /\ item[2] \in Word32
  <2>1. item[2] \in Nat
    BY <1>2, SMT DEF Word32
  <2>2. Big(item[2]) \in Seq(Octet) /\ Len(Big(item[2])) = 4
    BY <2>1, BigOctets, ZenonT(40)
  <2> QED
    BY <1>2, <2>2 DEF Code, ItemSize
<1>3. CASE item[1] = "string" /\ item[2] \in Seq(Octet)
  <2> DEFINE x == item[2]
             h == Big(Len(x))
  <2>1. Code(item) = h \o x /\ ItemSize(item) = 4 + Len(x)
    BY <1>3 DEF Code, ItemSize
  <2>2. x \in Seq(Octet) /\ Len(x) \in Nat
    BY <1>3
  <2> HIDE DEF x
  <2>3. h \in Seq(Octet) /\ Len(h) = 4
    BY <2>2, BigOctets, ZenonT(40)
  <2> HIDE DEF h
  <2>4. h \o x \in Seq(Octet) /\ Len(h \o x) = 4 + Len(x)
    <3>1. h \o x \in Seq(Octet)
      BY <2>2, <2>3, Joint
    <3>2. Len(h \o x) = Len(h) + Len(x)
      BY <2>2, <2>3, Joint
    <3> QED
      BY <2>2, <2>3, <3>1, <3>2
  <2> QED
    BY <2>1, <2>2, <2>4
<1>4. CASE item[1] = "zeros" /\ item[2] \in Nat
  <2>1. [i \in 1..item[2] |-> 0] \in [1..item[2] -> Octet]
    BY DEF Octet
  <2>2. [i \in 1..item[2] |-> 0] \in Seq(Octet) /\ Len([i \in 1..item[2] |-> 0]) = item[2]
    BY <1>4, <2>1, Listed
  <2> QED
    BY <1>4, <2>2 DEF Code, ItemSize
<1>5. CASE item[1] = "padding" /\ item[2] \in Seq(Octet)
  BY <1>5 DEF Code, ItemSize
<1> QED
  BY <1>1, <1>2, <1>3, <1>4, <1>5, Kinds

(* Bytes are never what stands for a dead process. *)
LEMMA NotDead == \A b \in Seq(Octet) : b # Dead
<1> SUFFICES ASSUME Dead \in Seq(Octet) PROVE FALSE
  OBVIOUS
<1>1. Len(Dead) = 1 /\ Dead[1] = -1
  BY DEF Dead
<1>2. Dead[1] \in Octet
  BY <1>1, ElementOfSeq
<1> QED
  BY <1>1, <1>2 DEF Octet

(* Putting one thing: all of it, or the process dies; the dead put nothing. *)
LEMMA PutOne ==
  ASSUME NEW b \in Seq(Octet), NEW x \in Seq(Octet), Alloc \in Nat
  PROVE  /\ Len(b) + Len(x) < Alloc => /\ buf_put(b, x) = b \o x
                                       /\ buf_put(b, x) \in Seq(Octet)
                                       /\ Len(buf_put(b, x)) = Len(b) + Len(x)
         /\ Len(b) + Len(x) >= Alloc => buf_put(b, x) = Dead
         /\ buf_put(Dead, x) = Dead
<1>1. Len(b) \in Nat /\ Len(x) \in Nat
  OBVIOUS
<1>2. Len(b) + Len(x) < Alloc => buf_put(b, x) = b \o x
  BY NotDead DEF buf_put, buf_ready
<1>3. Len(b) + Len(x) >= Alloc => buf_put(b, x) = Dead
  BY <1>1 DEF buf_put, buf_ready
<1>4. buf_put(Dead, x) = Dead
  BY DEF buf_put
<1>5. b \o x \in Seq(Octet) /\ Len(b \o x) = Len(b) + Len(x)
  OBVIOUS
<1> QED
  BY <1>2, <1>3, <1>4, <1>5

(* Putting an item: all of its bytes, or the process dies, also when only the
   length of a string fits. *)
LEMMA PutWhole ==
  ASSUME NEW b \in Seq(Octet), NEW item \in Item, Alloc \in Nat
  PROVE  /\ Len(b) + ItemSize(item) < Alloc => PutItem(b, item) = b \o Code(item)
         /\ Len(b) + ItemSize(item) >= Alloc => PutItem(b, item) = Dead
         /\ PutItem(Dead, item) = Dead
<1>0. Code(item) \in Seq(Octet) /\ Len(Code(item)) = ItemSize(item) /\ ItemSize(item) \in Nat
  BY CodeSize
<1>1. ASSUME item[1] # "string" PROVE \A d : PutItem(d, item) = buf_put(d, Code(item))
  BY <1>1, Kinds DEF PutItem, Code, buf_putnum8, buf_putnum32, buf_putzerobytes, buf_putpadding
<1>2. CASE item[1] # "string"
  BY <1>0, <1>1, <1>2, PutOne
<1>3. CASE item[1] = "string" /\ item[2] \in Seq(Octet)
  <2> DEFINE x == item[2]
             h == Big(Len(x))
  <2>1. \A d : PutItem(d, item) = buf_put(buf_put(d, h), x)
    BY <1>3 DEF PutItem, buf_putstringlen, buf_putnum32
  <2>2. Code(item) = h \o x /\ ItemSize(item) = 4 + Len(x)
    BY <1>3 DEF Code, ItemSize
  <2>3a. x \in Seq(Octet) /\ Len(x) \in Nat
    BY <1>3
  <2> HIDE DEF x
  <2>3b. h \in Seq(Octet) /\ Len(h) = 4
    BY <2>3a, BigOctets, ZenonT(40)
  <2> HIDE DEF h
  <2>3. h \in Seq(Octet) /\ Len(h) = 4 /\ x \in Seq(Octet) /\ Len(x) \in Nat
    BY <2>3a, <2>3b
  <2>4. PutItem(Dead, item) = Dead
    BY <2>1, <2>3, PutOne
  <2>5. ASSUME Len(b) + ItemSize(item) < Alloc PROVE PutItem(b, item) = b \o Code(item)
    <3>1. Len(b) + Len(h) < Alloc /\ Len(b) \in Nat
      BY <2>2, <2>3, <2>5
    <3>2. buf_put(b, h) = b \o h /\ b \o h \in Seq(Octet) /\ Len(b \o h) = Len(b) + 4
      BY <2>3, <3>1, PutOne
    <3>3. Len(b \o h) + Len(x) < Alloc
      BY <2>2, <2>3, <2>5, <3>1, <3>2
    <3>4. buf_put(b \o h, x) = (b \o h) \o x
      BY <2>3, <3>2, <3>3, PutOne
    <3>5. (b \o h) \o x = b \o (h \o x)
      BY <2>3, ConcatAssociative
    <3> QED
      BY <2>1, <2>2, <3>2, <3>4, <3>5
  <2>6. ASSUME Len(b) + ItemSize(item) >= Alloc PROVE PutItem(b, item) = Dead
    <3>1. CASE Len(b) + Len(h) < Alloc
      <4>1. buf_put(b, h) = b \o h /\ b \o h \in Seq(Octet) /\ Len(b \o h) = Len(b) + 4
        BY <2>3, <3>1, PutOne
      <4>2. Len(b \o h) + Len(x) >= Alloc
        BY <2>2, <2>3, <2>6, <4>1
      <4>3. buf_put(b \o h, x) = Dead
        BY <2>3, <4>1, <4>2, PutOne
      <4> QED
        BY <2>1, <4>1, <4>3
    <3>2. CASE Len(b) + Len(h) >= Alloc
      <4>1. buf_put(b, h) = Dead
        BY <2>3, <3>2, PutOne
      <4> QED
        BY <2>1, <2>3, <4>1, PutOne
    <3>3. Len(b) + Len(h) \in Nat
      BY <2>3
    <3> QED
      BY <3>1, <3>2, <3>3
  <2> QED
    BY <2>4, <2>5, <2>6
<1> QED
  BY <1>2, <1>3, Kinds

(* The values that a packet's bytes and their number take while it is written:
   what was put first, or nothing but a dead process. *)
Sums(s, items) ==
  /\ s \in [0..Len(items) -> Nat] /\ s[0] = 0
  /\ \A i \in 1..Len(items) : s[i] = s[i - 1] + ItemSize(items[i])
Buffers(w, items) ==
  /\ w \in [0..Len(items) -> Seq(Octet) \cup {Dead}] /\ w[0] = <<>>
  /\ \A i \in 1..Len(items) : w[i] = PutItem(w[i - 1], items[i])

(* The size of a packet is the last of those sums. *)
LEMMA SizeIs ==
  ASSUME NEW items \in Seq(Item)
  PROVE  \E s : Sums(s, items) /\ Size(items) = s[Len(items)]
<1> DEFINE n == Len(items)
           step == [p \in (1..n) \X Nat |-> p[2] + ItemSize(items[p[1]])]
           Rule(f) == f = [i \in 0..n |-> IF i = 0 THEN 0 ELSE f[i - 1] + ItemSize(items[i])]
<1>1. n \in Nat /\ \A i \in 1..n : items[i] \in Item /\ ItemSize(items[i]) \in Nat
  BY CodeSize, ElementOfSeq
<1>2. step \in [(1..n) \X Nat -> Nat]
  BY <1>1
<1>3. \A i \in 1..n, v \in Nat : step[<<i, v>>] = v + ItemSize(items[i])
  OBVIOUS
<1> HIDE DEF step
<1>4. PICK s : Steps(s, n, Nat, 0, step)
  BY <1>1, <1>2, StepsExist
<1>5. s \in [0..n -> Nat] /\ s[0] = 0 /\ \A i \in 1..n : s[i] = step[<<i, s[i - 1]>>]
  BY <1>4 DEF Steps
<1>6. \A i \in 1..n : s[i - 1] \in Nat
  BY <1>1, <1>5, SMTT(30)
<1>7. \A i \in 1..n : s[i] = s[i - 1] + ItemSize(items[i])
  BY <1>3, <1>5, <1>6
<1>8. Sums(s, items) /\ Rule(s)
  BY <1>1, <1>5, <1>7 DEF Sums
<1>9. ASSUME NEW f, Rule(f) PROVE f = s
  <2> DEFINE T == {i \in 0..n : f[i] = s[i]}
  <2>1. 0 \in T
    BY <1>1, <1>5, <1>9
  <2>2. \A i \in 1..n : i - 1 \in T => i \in T
    BY <1>1, <1>7, <1>9
  <2> HIDE DEF T
  <2>3. 0..n \subseteq T
    BY <1>1, <2>1, <2>2, Climb
  <2>4. \A i \in 0..n : f[i] = s[i]
    BY <2>3 DEF T
  <2> QED
    BY <1>5, <1>9, <2>4
<1>10. Size(items) = (CHOOSE f : Rule(f))[n]
  BY Zenon DEF Size
<1>11. Rule(CHOOSE f : Rule(f))
  BY <1>8
<1> HIDE DEF Rule
<1>12. (CHOOSE f : Rule(f)) = s
  BY <1>9, <1>11
<1> QED
  BY <1>8, <1>10, <1>12

(* What is written is the last of those buffers. *)
LEMMA WrittenIs ==
  ASSUME NEW items \in Seq(Item), Alloc \in Nat
  PROVE  \E w : Buffers(w, items) /\ Written(items) = w[Len(items)]
<1> DEFINE n == Len(items)
           S == Seq(Octet) \cup {Dead}
           step == [p \in (1..n) \X S |-> PutItem(p[2], items[p[1]])]
           Rule(f) == f = [i \in 0..n |-> IF i = 0 THEN <<>> ELSE PutItem(f[i - 1], items[i])]
<1>1. n \in Nat /\ \A i \in 1..n : items[i] \in Item
  BY ElementOfSeq
<1>2. ASSUME NEW item \in Item, NEW b \in S PROVE PutItem(b, item) \in S
  <2>1. Code(item) \in Seq(Octet) /\ ItemSize(item) \in Nat
    BY CodeSize
  <2>2. CASE b = Dead
    BY <2>2, PutWhole, EmptySeq
  <2>3. CASE b \in Seq(Octet)
    <3>1. Len(b) \in Nat /\ b \o Code(item) \in Seq(Octet)
      BY <2>1, <2>3
    <3>2. Len(b) + ItemSize(item) < Alloc \/ Len(b) + ItemSize(item) >= Alloc
      BY <2>1, <3>1
    <3> QED
      BY <2>3, <3>1, <3>2, PutWhole
  <2> QED
    BY <2>2, <2>3
<1>3. step \in [(1..n) \X S -> S]
  BY <1>1, <1>2
<1>4. \A i \in 1..n, b \in S : step[<<i, b>>] = PutItem(b, items[i])
  OBVIOUS
<1>5. <<>> \in S
  BY EmptySeq
<1> HIDE DEF step
<1>6. PICK w : Steps(w, n, S, <<>>, step)
  BY <1>1, <1>3, <1>5, StepsExist
<1>7. w \in [0..n -> S] /\ w[0] = <<>> /\ \A i \in 1..n : w[i] = step[<<i, w[i - 1]>>]
  BY <1>6 DEF Steps
<1>8. \A i \in 1..n : w[i - 1] \in S
  BY <1>1, <1>7
<1>9. \A i \in 1..n : w[i] = PutItem(w[i - 1], items[i])
  BY <1>4, <1>7, <1>8
<1>10. Buffers(w, items) /\ Rule(w)
  BY <1>1, <1>7, <1>9 DEF Buffers
<1>11. ASSUME NEW f, Rule(f) PROVE f = w
  <2> DEFINE T == {i \in 0..n : f[i] = w[i]}
  <2>0. f[0] = <<>> /\ \A i \in 1..n : f[i] = PutItem(f[i - 1], items[i])
    BY <1>1, <1>11
  <2>1. 0 \in T
    BY <1>1, <1>7, <2>0
  <2>2. \A i \in 1..n : i - 1 \in T => i \in T
    BY <1>1, <1>9, <2>0
  <2> HIDE DEF T
  <2>3. 0..n \subseteq T
    BY <1>1, <2>1, <2>2, Climb
  <2>4. \A i \in 0..n : f[i] = w[i]
    BY <2>3 DEF T
  <2> QED
    BY <1>7, <1>11, <2>4
<1>12. Written(items) = (CHOOSE f : Rule(f))[n]
  BY Zenon DEF Written
<1>13. Rule(CHOOSE f : Rule(f))
  BY <1>10
<1> HIDE DEF Rule
<1>14. (CHOOSE f : Rule(f)) = w
  BY <1>11, <1>13
<1> QED
  BY <1>10, <1>12, <1>14

(* The sums grow with the items. *)
LEMMA SumsGrow ==
  ASSUME NEW items \in Seq(Item), NEW s, Sums(s, items), NEW m \in 0..Len(items)
  PROVE  \A i \in 0..m : s[i] <= s[m]
<1> DEFINE n == Len(items)
           T == {j \in 0..m : \A i \in 0..j : s[i] <= s[j]}
<1>1. /\ n \in Nat /\ s \in [0..n -> Nat]
      /\ \A i \in 1..n : s[i] = s[i - 1] + ItemSize(items[i]) /\ ItemSize(items[i]) \in Nat
  BY CodeSize, ElementOfSeq DEF Sums
<1>2. 0 \in T
  BY <1>1
<1>3. ASSUME NEW j \in 1..m, j - 1 \in T PROVE j \in T
  <2>1. s[j - 1] <= s[j] /\ s[j - 1] \in Nat /\ s[j] \in Nat
    BY <1>1, SMTT(30)
  <2>2. \A i \in 0..(j - 1) : s[i] <= s[j - 1] /\ s[i] \in Nat
    <3>1. \A i \in 0..(j - 1) : s[i] <= s[j - 1]
      BY <1>3
    <3>2. \A i \in 0..(j - 1) : i \in 0..n
      BY <1>1
    <3> QED
      BY <1>1, <3>1, <3>2
  <2>3. \A i \in 0..j : s[i] <= s[j]
    BY <2>1, <2>2
  <2> QED
    BY <2>3
<1> HIDE DEF T
<1>4. 0..m \subseteq T
  BY <1>2, <1>3, Climb
<1>5. m \in T
  BY <1>4
<1> QED
  BY <1>5 DEF T

(* A buffer holds as many bytes as were put, unless they do not fit: then the
   process is dead. *)
Fits(b, size) ==
  /\ size < Alloc => b \in Seq(Octet) /\ Len(b) = size
  /\ size >= Alloc => b = Dead

(* That stays so when an item is put. *)
LEMMA FitsOn ==
  ASSUME NEW b, NEW size \in Nat, Fits(b, size), NEW item \in Item, Alloc \in Nat \ {0}
  PROVE  Fits(PutItem(b, item), size + ItemSize(item))
<1> DEFINE c == Code(item)
<1>1. c \in Seq(Octet) /\ Len(c) = ItemSize(item) /\ ItemSize(item) \in Nat
  BY CodeSize
<1>2. CASE size >= Alloc
  <2>1. PutItem(b, item) = Dead
    BY <1>2, PutWhole, EmptySeq DEF Fits
  <2>2. size + ItemSize(item) >= Alloc /\ ~(size + ItemSize(item) < Alloc)
    BY <1>1, <1>2
  <2> QED
    BY <2>1, <2>2, Zenon DEF Fits
<1>3. CASE size < Alloc
  <2>1. b \in Seq(Octet) /\ Len(b) = size
    BY <1>3 DEF Fits
  <2>2. size + ItemSize(item) < Alloc => PutItem(b, item) = b \o c
    BY <2>1, PutWhole
  <2>3. size + ItemSize(item) >= Alloc => PutItem(b, item) = Dead
    BY <2>1, PutWhole
  <2> HIDE DEF c
  <2>4. b \o c \in Seq(Octet)
    BY <1>1, <2>1, Joint
  <2>5. Len(b \o c) = Len(b) + Len(c)
    BY <1>1, <2>1, Joint
  <2>6. Len(b \o c) = size + ItemSize(item)
    BY <1>1, <2>1, <2>5
  <2> QED
    BY <2>2, <2>3, <2>4, <2>6 DEF Fits
<1> QED
  BY <1>2, <1>3

(* The buffers of a packet, one after the other, hold the sums of the sizes. *)
LEMMA Fitting ==
  ASSUME NEW items \in Seq(Item), NEW s, NEW w, Sums(s, items), Buffers(w, items),
         Alloc \in Nat \ {0}
  PROVE  \A i \in 0..Len(items) : Fits(w[i], s[i])
<1> DEFINE n == Len(items)
           T == {i \in 0..n : Fits(w[i], s[i])}
<1>1. /\ n \in Nat /\ s \in [0..n -> Nat] /\ s[0] = 0 /\ w[0] = <<>>
      /\ \A i \in 1..n : /\ s[i] = s[i - 1] + ItemSize(items[i]) /\ ItemSize(items[i]) \in Nat
                         /\ w[i] = PutItem(w[i - 1], items[i]) /\ items[i] \in Item
  BY CodeSize, ElementOfSeq DEF Sums, Buffers
<1>2. 0 \in T
  <2>1. Fits(<<>>, 0)
    BY EmptySeq DEF Fits
  <2> QED
    BY <1>1, <2>1
<1>3. ASSUME NEW i \in 1..n, i - 1 \in T PROVE i \in T
  <2>1. Fits(w[i - 1], s[i - 1]) /\ s[i - 1] \in Nat
    BY <1>1, <1>3
  <2>2. Fits(PutItem(w[i - 1], items[i]), s[i - 1] + ItemSize(items[i]))
    BY <1>1, <2>1, FitsOn
  <2> QED
    BY <1>1, <2>2
<1> HIDE DEF T
<1>4. 0..n \subseteq T
  BY <1>1, <1>2, <1>3, Climb
<1> QED
  BY <1>4 DEF T

(* An item's bytes stay where they were put. *)
LEMMA Places ==
  ASSUME NEW items \in Seq(Item), NEW s, NEW w, Sums(s, items), Buffers(w, items),
         Alloc \in Nat \ {0}, NEW m \in 0..Len(items), s[m] < Alloc
  PROVE  \A i \in 1..m : \A k \in 1..ItemSize(items[i]) : w[m][s[i - 1] + k] = Code(items[i])[k]
<1> DEFINE n == Len(items)
           In(j) == \A i \in 1..j : \A k \in 1..ItemSize(items[i]) :
                      w[j][s[i - 1] + k] = Code(items[i])[k]
           T == {j \in 0..m : In(j)}
<1>1. /\ n \in Nat /\ s \in [0..n -> Nat]
      /\ \A i \in 1..n : /\ s[i] = s[i - 1] + ItemSize(items[i]) /\ ItemSize(items[i]) \in Nat
                         /\ w[i] = PutItem(w[i - 1], items[i]) /\ items[i] \in Item
                         /\ Code(items[i]) \in Seq(Octet) /\ Len(Code(items[i])) = ItemSize(items[i])
  BY CodeSize, ElementOfSeq DEF Sums, Buffers
<1>2. 0 \in T
  OBVIOUS
<1>3. \A j \in 0..m : s[j] < Alloc /\ s[j] \in Nat /\ w[j] \in Seq(Octet) /\ Len(w[j]) = s[j]
  <2>0. \A j \in 0..m : j \in 0..n
    BY <1>1
  <2>0a. \A j \in 0..m : s[j] <= s[m]
    BY SumsGrow
  <2>1. \A j \in 0..m : s[j] < Alloc /\ s[j] \in Nat
    <3>1. s[m] \in Nat /\ \A j \in 0..m : s[j] \in Nat
      BY <1>1, <2>0
    <3> QED
      BY <2>0a, <3>1
  <2>2a. \A j \in 0..n : Fits(w[j], s[j])
    BY Fitting
  <2>2. \A j \in 0..m : Fits(w[j], s[j])
    BY <2>0, <2>2a
  <2> QED
    BY <2>1, <2>2 DEF Fits
<1>4. ASSUME NEW j \in 1..m, j - 1 \in T PROVE j \in T
  <2> DEFINE b == w[j - 1]
             c == Code(items[j])
  <2>1. j \in 1..n /\ j - 1 \in 0..m /\ j \in 0..m
    BY <1>1
  <2>2. b \in Seq(Octet) /\ Len(b) = s[j - 1] /\ c \in Seq(Octet) /\ Len(c) = ItemSize(items[j])
        /\ s[j - 1] \in Nat /\ ItemSize(items[j]) \in Nat
    BY <1>1, <1>3, <2>1
  <2>3. w[j] = b \o c
    <3>1. s[j] < Alloc /\ s[j] = s[j - 1] + ItemSize(items[j]) /\ w[j] = PutItem(b, items[j])
          /\ items[j] \in Item
      BY <1>1, <1>3, <2>1
    <3> HIDE DEF b
    <3> QED
      BY <2>2, <3>1, PutWhole, SMTT(30)
  <2>4. ASSUME NEW i \in 1..j, NEW k \in 1..ItemSize(items[i])
        PROVE  w[j][s[i - 1] + k] = Code(items[i])[k]
    <3>1. CASE i = j
      <4>1. k \in 1..Len(c)
        BY <2>2, <3>1
      <4> HIDE DEF b, c
      <4>2. (b \o c)[Len(b) + k] = c[k]
        BY <2>2, <4>1, JointSecond
      <4> QED
        BY <2>2, <2>3, <3>1, <4>2 DEF c
    <3>2. CASE i # j
      <4>1. i \in 1..(j - 1) /\ i \in 1..n /\ i \in 0..(j - 1) /\ i - 1 \in 0..n /\ j - 1 \in 0..n
        BY <2>1, <3>2
      <4>2. b[s[i - 1] + k] = Code(items[i])[k]
        <5>1. In(j - 1)
          BY <1>4
        <5> QED
          BY <4>1, <5>1
      <4>3. s[i] <= s[j - 1] /\ s[i] = s[i - 1] + ItemSize(items[i]) /\ s[i - 1] \in Nat
            /\ ItemSize(items[i]) \in Nat
        BY <1>1, <4>1, SumsGrow
      <4>4. s[i - 1] + k \in 1..Len(b)
        BY <2>2, <4>3, SMTT(30)
      <4> HIDE DEF b, c
      <4>5. (b \o c)[s[i - 1] + k] = b[s[i - 1] + k]
        BY <2>2, <4>4, JointFirst
      <4> QED
        BY <2>3, <4>2, <4>5
    <3> QED
      BY <3>1, <3>2
  <2>5. In(j)
    BY <2>4
  <2> HIDE DEF In
  <2> QED
    BY <2>1, <2>5
<1> HIDE DEF T, In
<1>5. m \in T
  <2>1. m \in Nat
    BY <1>1
  <2>2. 0..m \subseteq T
    BY <1>2, <1>4, <2>1, Climb
  <2> QED
    BY <2>1, <2>2
<1> QED
  BY <1>5 DEF T, In

-----------------------------------------------------------------------------
(* Packets: reading. *)

(* Bytes that are where the reader stands are what it copies, if they are all
   there; otherwise it dies. *)
LEMMA Copied ==
  ASSUME NEW c \in Seq(Octet), Len(c) <= Largest, NEW pos \in 0..Len(c), NEW x \in Seq(Octet),
         \A k \in 1..Len(x) : pos + k <= Len(c) => c[pos + k] = x[k]
  PROVE  /\ pos + Len(x) <= Len(c) =>
              packetparser_copy(c, pos, Len(x)) = [pos |-> pos + Len(x), out |-> x]
         /\ pos + Len(x) > Len(c) => packetparser_copy(c, pos, Len(x)) = DeadAt
<1>1. Len(c) \in Nat /\ Len(x) \in Nat /\ Largest \in Nat /\ pos \in Nat /\ pos <= Len(c)
  BY DEF Largest
<1>2. pos + Len(x) > Len(c) => packetparser_copy(c, pos, Len(x)) = DeadAt
  BY DEF packetparser_copy
<1>3. ASSUME pos + Len(x) <= Len(c)
      PROVE  packetparser_copy(c, pos, Len(x)) = [pos |-> pos + Len(x), out |-> x]
  <2>1. pos \in 0..Largest /\ Len(x) \in 0..Largest /\ ~(pos + Len(x) > Len(c))
    BY <1>1, <1>3
  <2> DEFINE y == SubSeq(c, pos + 1, pos + Len(x))
  <2>2. pos + 1 \in 1..(Len(c) + 1) /\ pos + Len(x) \in (pos + 1 - 1)..Len(c)
        /\ pos + Len(x) - (pos + 1) + 1 = Len(x)
    BY <1>1, <1>3
  <2>3. y \in Seq(Octet) /\ Len(y) = Len(x) /\ \A i \in 1..Len(x) : y[i] = c[pos + 1 + i - 1]
    BY <2>2, Piece
  <2>4. \A i \in 1..Len(x) : pos + 1 + i - 1 = pos + i /\ pos + i <= Len(c)
    BY <1>1, <1>3
  <2>5. y = x
    <3> HIDE DEF y
    <3>1. \A i \in 1..Len(y) : y[i] = x[i]
      BY <2>3, <2>4
    <3> QED
      BY <2>3, <3>1, SameElements
  <2>6. packetparser_copy(c, pos, Len(x)) = [pos |-> pos + Len(x), out |-> y]
    BY <2>1, Zenon DEF packetparser_copy
  <2> QED
    BY <2>5, <2>6
<1> QED
  BY <1>2, <1>3

(* The same for a number. *)
LEMMA Numbered ==
  ASSUME NEW c \in Seq(Octet), Len(c) <= Largest, NEW pos \in 0..Len(c), NEW v \in Word32,
         \A k \in 1..4 : pos + k <= Len(c) => c[pos + k] = Big(v)[k]
  PROVE  /\ pos + 4 <= Len(c) => packetparser_uint32(c, pos) = [pos |-> pos + 4, out |-> <<v>>]
         /\ pos + 4 > Len(c) => packetparser_uint32(c, pos) = DeadAt
<1> DEFINE x == Big(v)
           r == packetparser_copy(c, pos, 4)
<1>1. v \in Nat
  BY SMT DEF Word32
<1>2. x \in Seq(Octet) /\ Len(x) = 4
  BY <1>1, BigOctets, Zenon
<1>3. Joined(x[1], x[2], x[3], x[4]) = v
  BY BigBack
<1>4. \A k \in 1..Len(x) : pos + k <= Len(c) => c[pos + k] = x[k]
  BY <1>2
<1> HIDE DEF x
<1>5. /\ pos + 4 <= Len(c) => r = [pos |-> pos + 4, out |-> x]
      /\ pos + 4 > Len(c) => r = DeadAt
  <2>1. pos + Len(x) <= Len(c) =>
          packetparser_copy(c, pos, Len(x)) = [pos |-> pos + Len(x), out |-> x]
    BY <1>2, <1>4, Copied
  <2>2. pos + Len(x) > Len(c) => packetparser_copy(c, pos, Len(x)) = DeadAt
    BY <1>2, <1>4, Copied
  <2> QED
    BY <1>2, <2>1, <2>2, Zenon
<1>6. packetparser_uint32(c, pos)
        = IF r = DeadAt THEN r ELSE [r EXCEPT !.out = <<Joined(@[1], @[2], @[3], @[4])>>]
  BY Zenon DEF packetparser_uint32, Joined
<1> HIDE DEF r
<1>7. ASSUME pos + 4 <= Len(c) PROVE packetparser_uint32(c, pos) = [pos |-> pos + 4, out |-> <<v>>]
  <2>1. r = [pos |-> pos + 4, out |-> x]
    BY <1>5, <1>7
  <2>2. r # DeadAt
    <3>1. DeadAt.pos = -1 /\ r.pos = pos + 4
      BY <2>1 DEF DeadAt
    <3> QED
      BY <3>1
  <2>3. [r EXCEPT !.out = <<Joined(@[1], @[2], @[3], @[4])>>]
          = [pos |-> pos + 4, out |-> <<Joined(x[1], x[2], x[3], x[4])>>]
    BY <2>1
  <2> QED
    BY <1>3, <1>6, <2>2, <2>3
<1>8. pos + 4 > Len(c) => packetparser_uint32(c, pos) = DeadAt
  BY <1>5, <1>6
<1> QED
  BY <1>7, <1>8

(* The same for a string: its length and itself. *)
LEMMA TakenString ==
  ASSUME NEW c \in Seq(Octet), Len(c) <= Largest, NEW pos \in 0..Len(c), NEW v \in Seq(Octet),
         4 + Len(v) <= Largest,
         \A k \in 1..(4 + Len(v)) : pos + k <= Len(c) => c[pos + k] = (Big(Len(v)) \o v)[k]
  PROVE  /\ pos + (4 + Len(v)) <= Len(c) => String(c, pos) = [pos |-> pos + (4 + Len(v)), out |-> v]
         /\ pos + (4 + Len(v)) > Len(c) => String(c, pos) = DeadAt
<1>1. Len(c) \in Nat /\ pos \in Nat /\ pos <= Len(c) /\ Largest \in Nat /\ Len(v) \in Nat
  BY DEF Largest
<1>2. PICK h : h = Big(Len(v))
  OBVIOUS
<1>3. h \in Seq(Octet) /\ Len(h) = 4
  BY <1>1, <1>2, BigOctets, ZenonT(40)
<1>4. Len(v) \in Word32
  <2>1. Len(v) <= 2^30
    BY <1>1 DEF Largest
  <2> QED
    BY <1>1, <2>1, SMT DEF Word32
<1>5. \A k \in 1..4 : pos + k <= Len(c) => c[pos + k] = Big(Len(v))[k]
  <2> SUFFICES ASSUME NEW k \in 1..4, pos + k <= Len(c) PROVE c[pos + k] = h[k]
    BY <1>2
  <2>1. k \in 1..(4 + Len(v)) /\ k \in 1..Len(h)
    BY <1>1, <1>3
  <2>2. (h \o v)[k] = h[k]
    BY <1>3, <2>1, JointFirst
  <2> QED
    BY <1>2, <2>1, <2>2
<1>6. PICK g : g = packetparser_uint32(c, pos)
  OBVIOUS
<1>7. /\ pos + 4 <= Len(c) => g = [pos |-> pos + 4, out |-> <<Len(v)>>]
      /\ pos + 4 > Len(c) => g = DeadAt
  BY <1>4, <1>5, <1>6, Numbered
<1>8. String(c, pos) = IF g = DeadAt THEN g ELSE packetparser_copy(c, g.pos, g.out[1])
  BY <1>6, Zenon DEF String, packetparser_skip
<1>9. CASE pos + 4 > Len(c)
  <2>1. g = DeadAt
    BY <1>7, <1>9
  <2>2. pos + (4 + Len(v)) > Len(c) /\ ~(pos + (4 + Len(v)) <= Len(c))
    BY <1>1, <1>9
  <2> QED
    BY <1>8, <2>1, <2>2, Zenon
<1>10. CASE pos + 4 <= Len(c)
  <2>1. g.pos = pos + 4 /\ g.out[1] = Len(v)
    BY <1>7, <1>10
  <2>2. g # DeadAt
    BY <1>1, <2>1 DEF DeadAt
  <2>3. String(c, pos) = packetparser_copy(c, pos + 4, Len(v))
    BY <1>8, <2>1, <2>2, Zenon
  <2>4. pos + 4 \in 0..Len(c)
    BY <1>1, <1>10
  <2>5. \A k \in 1..Len(v) : (pos + 4) + k <= Len(c) => c[(pos + 4) + k] = v[k]
    <3> SUFFICES ASSUME NEW k \in 1..Len(v), (pos + 4) + k <= Len(c)
                 PROVE  c[(pos + 4) + k] = v[k]
      OBVIOUS
    <3>1. 4 + k \in 1..(4 + Len(v)) /\ pos + (4 + k) = (pos + 4) + k
      BY <1>1
    <3>2. c[pos + (4 + k)] = (h \o v)[4 + k]
      BY <1>2, <3>1
    <3>3. (h \o v)[Len(h) + k] = v[k]
      <4>1. h \in Seq(Octet)
        BY <1>3
      <4> QED
        BY <4>1, JointSecond
    <3> QED
      BY <1>3, <3>1, <3>2, <3>3
  <2>6. (pos + 4) + Len(v) <= Len(c) =>
          packetparser_copy(c, pos + 4, Len(v)) = [pos |-> (pos + 4) + Len(v), out |-> v]
    BY <2>4, <2>5, Copied
  <2>7. (pos + 4) + Len(v) > Len(c) => packetparser_copy(c, pos + 4, Len(v)) = DeadAt
    BY <2>4, <2>5, Copied
  <2>8. (pos + 4) + Len(v) = pos + (4 + Len(v))
    BY <1>1
  <2> QED
    BY <2>3, <2>6, <2>7, <2>8, Zenon
<1> QED
  BY <1>1, <1>9, <1>10

(* The bytes of an item, or as many of them as there are, are where the reader
   stands. *)
Ahead(c, pos, item) ==
  \A k \in 1..ItemSize(item) : pos + k <= Len(c) => c[pos + k] = Code(item)[k]

(* An item that is there whole is what the reader takes, and it comes to stand
   behind it; of one that is cut short it dies. *)
LEMMA Taken ==
  ASSUME NEW c \in Seq(Octet), Len(c) <= Largest, NEW pos \in 0..Len(c), NEW item \in Item,
         ItemSize(item) <= Largest, Ahead(c, pos, item)
  PROVE  /\ pos + ItemSize(item) <= Len(c) =>
              TakeItem(c, pos, item) = [pos |-> pos + ItemSize(item), out |-> Content(item)]
         /\ pos + ItemSize(item) > Len(c) => TakeItem(c, pos, item) = DeadAt
<1> DEFINE x == Code(item)
           v == item[2]
<1>1. x \in Seq(Octet) /\ Len(x) = ItemSize(item) /\ ItemSize(item) \in Nat
  BY CodeSize
<1>2. Len(c) \in Nat /\ pos \in Nat /\ pos <= Len(c) /\ Largest \in Nat
  BY DEF Largest
<1>3. \A k \in 1..Len(x) : pos + k <= Len(c) => c[pos + k] = x[k]
  BY <1>1 DEF Ahead
<1>4. /\ pos + Len(x) <= Len(c) =>
           packetparser_copy(c, pos, Len(x)) = [pos |-> pos + Len(x), out |-> x]
      /\ pos + Len(x) > Len(c) => packetparser_copy(c, pos, Len(x)) = DeadAt
  BY <1>1, <1>3, Copied
<1>5. ASSUME item[1] \in {"num8", "zeros", "padding"}
      PROVE  Content(item) = x /\ TakeItem(c, pos, item) = packetparser_copy(c, pos, Len(x))
  <2>1. CASE item[1] = "num8" /\ v \in Octet
    <3>1. Content(item) = <<v>> /\ x = <<v>> /\ Len(x) = 1
      BY <1>1, <2>1 DEF Content, Code, ItemSize
    <3>2. TakeItem(c, pos, item) = packetparser_copy(c, pos, 1)
      BY <2>1 DEF TakeItem, packetparser_uint8
    <3> QED
      BY <3>1, <3>2
  <2>2. CASE item[1] = "zeros" /\ v \in Nat
    <3>1. Content(item) = x /\ Len(x) = v
      BY <1>1, <2>2 DEF Content, Code, ItemSize
    <3>2. TakeItem(c, pos, item) = packetparser_copy(c, pos, v)
      BY <2>2 DEF TakeItem, packetparser_skip
    <3> QED
      BY <3>1, <3>2
  <2>3. CASE item[1] = "padding" /\ v \in Seq(Octet)
    <3>1. Content(item) = x /\ x = v
      BY <2>3 DEF Content, Code
    <3>2. TakeItem(c, pos, item) = packetparser_copy(c, pos, Len(v))
      BY <2>3 DEF TakeItem
    <3> QED
      BY <3>1, <3>2
  <2> QED
    BY <1>5, <2>1, <2>2, <2>3, Kinds
<1>6. CASE item[1] \in {"num8", "zeros", "padding"}
  <2> HIDE DEF x
  <2> QED
    BY <1>1, <1>4, <1>5, <1>6, Zenon
<1>7. CASE item[1] = "num32" /\ v \in Word32
  <2>1. x = Big(v) /\ ItemSize(item) = 4 /\ Content(item) = <<v>>
    BY <1>7 DEF Code, ItemSize, Content
  <2>2. TakeItem(c, pos, item) = packetparser_uint32(c, pos)
    BY <1>7 DEF TakeItem
  <2>3. \A k \in 1..4 : pos + k <= Len(c) => c[pos + k] = Big(v)[k]
    BY <2>1 DEF Ahead
  <2>4. /\ pos + 4 <= Len(c) => packetparser_uint32(c, pos) = [pos |-> pos + 4, out |-> <<v>>]
        /\ pos + 4 > Len(c) => packetparser_uint32(c, pos) = DeadAt
    BY <1>7, <2>3, Numbered
  <2> HIDE DEF x, v
  <2> QED
    BY <2>1, <2>2, <2>4, Zenon
<1>8. CASE item[1] = "string" /\ v \in Seq(Octet)
  <2>1. x = Big(Len(v)) \o v /\ ItemSize(item) = 4 + Len(v) /\ Content(item) = v
    BY <1>8 DEF Code, ItemSize, Content
  <2>2. TakeItem(c, pos, item) = String(c, pos)
    BY <1>8 DEF TakeItem
  <2>3. 4 + Len(v) <= Largest
        /\ \A k \in 1..(4 + Len(v)) : pos + k <= Len(c) => c[pos + k] = (Big(Len(v)) \o v)[k]
    BY <2>1 DEF Ahead
  <2>4. pos + (4 + Len(v)) <= Len(c) => String(c, pos) = [pos |-> pos + (4 + Len(v)), out |-> v]
    BY <1>8, <2>3, TakenString
  <2>5. pos + (4 + Len(v)) > Len(c) => String(c, pos) = DeadAt
    BY <1>8, <2>3, TakenString
  <2> QED
    BY <2>1, <2>2, <2>4, <2>5, Zenon
<1> QED
  BY <1>6, <1>7, <1>8, Kinds

(* Where the reader stands after each item of the first m bytes of a packet,
   and what it took. *)
Reads(s, items, m) ==
  [i \in 0..Len(items) |->
     IF i = 0 THEN [pos |-> 0, out |-> <<>>]
     ELSE IF s[i] <= m THEN [pos |-> s[i], out |-> Content(items[i])] ELSE DeadAt]

(* Behind each item that the bytes hold whole, the reader stands at its end;
   from the first on that they do not, it is dead. *)
LEMMA ReadIs ==
  ASSUME NEW items \in Seq(Item), NEW s, Sums(s, items), NEW c \in Seq(Octet),
         Len(c) <= Largest, s[Len(items)] <= Largest,
         \A i \in 1..Len(items) : Ahead(c, s[i - 1], items[i])
  PROVE  Read(c, items) = Reads(s, items, Len(c))
<1> DEFINE n == Len(items)
           R == Reads(s, items, Len(c))
           First == [pos |-> 0, out |-> <<>>]
           On(r, i) == IF r.pos < 0 THEN DeadAt ELSE TakeItem(c, r.pos, items[i])
           Rule(f) == f = [i \in 0..n |-> IF i = 0 THEN First ELSE On(f[i - 1], i)]
<1>1. /\ n \in Nat /\ Len(c) \in Nat /\ s \in [0..n -> Nat] /\ s[0] = 0
      /\ \A i \in 1..n : /\ s[i] = s[i - 1] + ItemSize(items[i]) /\ ItemSize(items[i]) \in Nat
                         /\ items[i] \in Item
  BY CodeSize, ElementOfSeq DEF Sums
<1>2. ASSUME NEW i \in 1..n PROVE R[i] = On(R[i - 1], i)
  <2>1. i - 1 \in 0..n /\ i \in 0..n /\ i # 0 /\ s[i - 1] \in Nat /\ s[i] \in Nat /\ items[i] \in Item
        /\ s[i] = s[i - 1] + ItemSize(items[i]) /\ ItemSize(items[i]) \in Nat
    <3>1. i - 1 \in 0..n /\ i \in 0..n /\ i # 0
      BY <1>1
    <3>2. s[i - 1] \in Nat /\ s[i] \in Nat
      BY <1>1, <3>1
    <3> QED
      BY <1>1, <3>1, <3>2
  <2>2. R[i] = IF s[i] <= Len(c) THEN [pos |-> s[i], out |-> Content(items[i])] ELSE DeadAt
    BY <2>1, Zenon DEF Reads
  <2>3. CASE s[i - 1] <= Len(c)
    <3>1. R[i - 1].pos = s[i - 1]
      <4>1. CASE i - 1 = 0
        BY <1>1, <2>1, <4>1 DEF Reads
      <4>2. CASE i - 1 # 0
        BY <2>1, <2>3, <4>2 DEF Reads
      <4> QED
        BY <4>1, <4>2
    <3>2. s[i - 1] \in 0..Len(c) /\ ~(s[i - 1] < 0)
      BY <1>1, <2>1, <2>3
    <3>3. ItemSize(items[i]) <= Largest
      <4>1. s[i] <= s[n]
        BY <1>1, SumsGrow
      <4>2. n \in 0..n /\ s[n] \in Nat /\ Largest \in Nat
        BY <1>1 DEF Largest
      <4>3. ItemSize(items[i]) <= s[i]
        BY <2>1
      <4> QED
        BY <2>1, <4>1, <4>2, <4>3
    <3>4. On(R[i - 1], i) = TakeItem(c, s[i - 1], items[i])
      BY <3>1, <3>2, Zenon
    <3>5. s[i - 1] + ItemSize(items[i]) <= Len(c) =>
            TakeItem(c, s[i - 1], items[i])
              = [pos |-> s[i - 1] + ItemSize(items[i]), out |-> Content(items[i])]
      BY <2>1, <3>2, <3>3, Taken
    <3>6. s[i - 1] + ItemSize(items[i]) > Len(c) => TakeItem(c, s[i - 1], items[i]) = DeadAt
      BY <2>1, <3>2, <3>3, Taken
    <3>7. s[i] <= Len(c) \/ (s[i] > Len(c) /\ ~(s[i] <= Len(c)))
      BY <1>1, <2>1
    <3> HIDE DEF R
    <3> QED
      BY <2>1, <2>2, <3>4, <3>5, <3>6, <3>7, Zenon
  <2>4. CASE ~(s[i - 1] <= Len(c))
    <3>1. i - 1 # 0 /\ ~(s[i] <= Len(c))
      BY <1>1, <2>1, <2>4
    <3>2. R[i - 1] = DeadAt
      BY <2>1, <2>4, <3>1, Zenon DEF Reads
    <3>3. R[i - 1].pos < 0
      BY <3>2 DEF DeadAt
    <3> HIDE DEF R
    <3> QED
      BY <2>2, <3>1, <3>3, Zenon
  <2> QED
    BY <2>3, <2>4
<1>3. R[0] = First /\ R = [i \in 0..n |-> R[i]]
  BY <1>1 DEF Reads
<1> HIDE DEF R, On, First
<1>4. Rule(R)
  <2>1. \A i \in 0..n : R[i] = IF i = 0 THEN First ELSE On(R[i - 1], i)
    <3>1. \A i \in 0..n : i = 0 \/ (i # 0 /\ i \in 1..n)
      BY <1>1
    <3> QED
      BY <1>2, <1>3, <3>1, Zenon
  <2> QED
    BY <1>3, <2>1
<1>5. ASSUME NEW f, Rule(f) PROVE f = R
  <2> DEFINE T == {i \in 0..n : f[i] = R[i]}
  <2>0. f[0] = First /\ \A i \in 1..n : f[i] = On(f[i - 1], i)
    BY <1>1, <1>5
  <2>1. 0 \in T
    BY <1>1, <1>3, <2>0
  <2>2. \A i \in 1..n : i - 1 \in T => i \in T
    BY <1>1, <1>2, <2>0
  <2> HIDE DEF T
  <2>3. 0..n \subseteq T
    BY <1>1, <2>1, <2>2, Climb
  <2>4. \A i \in 0..n : f[i] = R[i]
    BY <2>3 DEF T
  <2> QED
    BY <1>3, <1>5, <2>4
<1>6. Read(c, items) = (CHOOSE f : Rule(f))
  BY Zenon DEF Read, On, First
<1>7. Rule(CHOOSE f : Rule(f))
  BY <1>4
<1> HIDE DEF Rule
<1>8. (CHOOSE f : Rule(f)) = R
  BY <1>5, <1>7
<1> QED
  BY <1>6, <1>8 DEF R

(* buf.c, packetparser.c: for every packet of any items and every number of
   bytes cut from its end, what is written reads back, a packet that does not
   fit kills the writer, and one cut short kills the reader before it stands
   beyond the end of what it has. *)
THEOREM PacketsReadBack ==
  ASSUME BytesParameters, NEW items \in Seq(Item), NEW cut \in Nat
  PROVE  WireRight(items, cut)
<1> DEFINE n == Len(items)
<1>1. Alloc \in Nat \ {0} /\ Alloc <= Largest /\ Largest \in Nat
  BY DEF BytesParameters, Largest
<1>2. PICK s : Sums(s, items) /\ Size(items) = s[n]
  BY SizeIs
<1>3. PICK w : Buffers(w, items) /\ Written(items) = w[n]
  BY <1>1, WrittenIs
<1>4. n \in Nat /\ s \in [0..n -> Nat] /\ s[0] = 0 /\ s[n] \in Nat
  BY <1>2 DEF Sums
<1>5. Fits(w[n], s[n])
  BY <1>1, <1>2, <1>3, <1>4, Fitting
<1> DEFINE b == Written(items)
           m == IF cut <= Len(b) THEN Len(b) - cut ELSE 0
           c == SubSeq(b, 1, Len(b) - cut)
<1>6. CASE s[n] >= Alloc
  BY <1>2, <1>3, <1>5, <1>6 DEF WireRight, Fits
<1>7. CASE s[n] < Alloc
  <2>1. b \in Seq(Octet) /\ Len(b) = s[n] /\ Len(b) \in Nat
    BY <1>3, <1>4, <1>5, <1>7 DEF Fits
  <2> HIDE DEF b
  <2>2. m \in Nat /\ m <= Len(b) /\ (cut > 0 /\ Len(b) > 0 => m < Len(b)) /\ (cut = 0 => m = Len(b))
    BY <2>1
  <2>3. c \in Seq(Octet) /\ Len(c) = m /\ \A i \in 1..m : c[i] = b[i]
    <3>1. CASE cut <= Len(b)
      <4>1. Len(b) - cut \in (1 - 1)..Len(b) /\ 1 \in 1..(Len(b) + 1) /\ Len(b) - cut - 1 + 1 = m
        BY <2>1, <3>1
      <4>2. c \in Seq(Octet) /\ Len(c) = m /\ \A i \in 1..m : c[i] = b[1 + i - 1]
        BY <2>1, <4>1, Piece
      <4>3. \A i \in 1..m : 1 + i - 1 = i
        BY <2>2
      <4> QED
        BY <4>2, <4>3
    <3>2. CASE cut > Len(b)
      <4>1. m = 0 /\ Len(b) - cut \in Int /\ Len(b) - cut < 1
        BY <2>1, <3>2
      <4>2. c = <<>>
        BY <4>1, SubSeqEmpty
      <4> QED
        BY <4>1, <4>2, EmptySeq
    <3> QED
      BY <2>1, <3>1, <3>2
  <2> HIDE DEF c, m
  <2>4. ASSUME NEW i \in 1..n PROVE Ahead(c, s[i - 1], items[i])
    <3>1. \A k \in 1..ItemSize(items[i]) : b[s[i - 1] + k] = Code(items[i])[k]
      <4>1. n \in 0..n
        BY <1>4
      <4> QED
        BY <1>1, <1>2, <1>3, <1>7, <4>1, Places DEF b
    <3>2. s[i - 1] \in Nat /\ ItemSize(items[i]) \in Nat
      <4>1. i - 1 \in 0..n /\ items[i] \in Item
        BY <1>4, ElementOfSeq
      <4> QED
        BY <1>4, <4>1, CodeSize
    <3>3. \A k \in 1..ItemSize(items[i]) : s[i - 1] + k <= Len(c) => s[i - 1] + k \in 1..m
      BY <2>2, <2>3, <3>2
    <3> QED
      BY <2>3, <3>1, <3>3 DEF Ahead
  <2>5. Read(c, items) = Reads(s, items, m)
    <3>1. Len(c) <= Largest /\ s[n] <= Largest
      BY <1>1, <1>4, <1>7, <2>1, <2>2, <2>3
    <3>2. Read(c, items) = Reads(s, items, Len(c))
      BY <1>2, <2>3, <2>4, <3>1, ReadIs
    <3> QED
      BY <2>3, <3>2
  <2> DEFINE r == Reads(s, items, m)
  <2>6. ASSUME NEW i \in 0..n PROVE r[i].pos <= m
    <3>1. CASE i = 0
      BY <1>4, <2>2, <3>1 DEF Reads
    <3>2. CASE i # 0 /\ s[i] <= m
      BY <3>2 DEF Reads
    <3>3. CASE i # 0 /\ ~(s[i] <= m)
      BY <2>2, <3>3 DEF Reads, DeadAt
    <3> QED
      BY <3>1, <3>2, <3>3
  <2>7. ASSUME cut > 0 /\ Len(b) > 0 PROVE r[n].pos < 0
    <3>1. n # 0 /\ n \in 0..n /\ ~(s[n] <= m)
      BY <1>4, <2>1, <2>2, <2>7
    <3> QED
      BY <3>1 DEF Reads, DeadAt
  <2>8. ASSUME cut = 0 PROVE packetparser_end(c, r[n].pos) # DeadAt
    <3>1. r[n].pos = Len(c)
      <4>1. s[n] = m /\ n \in 0..n
        BY <1>4, <2>1, <2>2, <2>8
      <4> QED
        BY <1>4, <2>2, <2>3, <4>1 DEF Reads
    <3>2. packetparser_end(c, r[n].pos).pos = Len(c)
      BY <3>1 DEF packetparser_end
    <3> QED
      BY <2>2, <2>3, <3>2 DEF DeadAt
  <2>9. ASSUME cut = 0, NEW i \in 1..n PROVE r[i].out = Content(items[i])
    <3>1. i \in 0..n /\ i # 0 /\ n \in 0..n
      BY <1>4
    <3>2. s[i] <= s[n] /\ s[n] = m
      BY <1>2, <2>1, <2>2, <2>9, <3>1, SumsGrow
    <3> QED
      BY <3>1, <3>2 DEF Reads
  <2> HIDE DEF r
  <2>10. /\ Len(b) = Size(items)
         /\ \A i \in 0..n : r[i].pos <= Len(c)
         /\ cut > 0 /\ Len(b) > 0 => r[n].pos < 0
         /\ cut = 0 => /\ packetparser_end(c, r[n].pos) # DeadAt
                       /\ \A i \in 1..n : r[i].out = Content(items[i])
    BY <1>2, <2>1, <2>3, <2>6, <2>7, <2>8, <2>9
  <2>11. Read(c, items) = r /\ ~(Size(items) >= Alloc)
    BY <1>1, <1>2, <1>4, <1>7, <2>5 DEF r
  <2> QED
    BY <2>10, <2>11, Zenon DEF WireRight, b, c
<1> QED
  BY <1>1, <1>4, <1>6, <1>7

-----------------------------------------------------------------------------
(* Key blobs. *)

(* A number that was read is in its four bytes. *)
LEMMA NumberGot ==
  ASSUME NEW c \in Seq(Octet), NEW pos \in Nat, NEW g, g = packetparser_uint32(c, pos), g # DeadAt
  PROVE  /\ pos + 4 <= Len(c) /\ g.pos = pos + 4
         /\ g.out[1] \in Word32 /\ g.out = <<g.out[1]>>
         /\ \A k \in 1..4 : c[pos + k] = Big(g.out[1])[k]
<1> DEFINE r == packetparser_copy(c, pos, 4)
           y == SubSeq(c, pos + 1, pos + 4)
<1>1. g = IF r = DeadAt THEN r ELSE [r EXCEPT !.out = <<Joined(@[1], @[2], @[3], @[4])>>]
  BY Zenon DEF packetparser_uint32, Joined
<1>2. r # DeadAt
  BY <1>1, Zenon
<1>3. Len(c) \in Nat /\ \A i \in 1..Len(c) : c[i] \in Octet
  BY ElementOfSeq
<1>4. ~(pos \notin 0..Largest \/ 4 \notin 0..Largest \/ pos + 4 > Len(c))
      /\ r = [pos |-> pos + 4, out |-> y]
  BY <1>2, Zenon DEF packetparser_copy
<1>5. pos + 4 <= Len(c)
  BY <1>3, <1>4
<1>6. y[1] = c[pos + 1] /\ y[2] = c[pos + 2] /\ y[3] = c[pos + 3] /\ y[4] = c[pos + 4]
  <2>1. pos + 1 \in 1..(Len(c) + 1) /\ pos + 4 \in (pos + 1 - 1)..Len(c) /\ pos + 4 - (pos + 1) + 1 = 4
    BY <1>3, <1>5
  <2>2. \A i \in 1..4 : y[i] = c[pos + 1 + i - 1]
    BY <2>1, Piece
  <2> QED
    BY <2>2
<1>7. c[pos + 1] \in Octet /\ c[pos + 2] \in Octet /\ c[pos + 3] \in Octet /\ c[pos + 4] \in Octet
  BY <1>3, <1>5
<1> HIDE DEF r, y
<1>8. PICK v : v = Joined(c[pos + 1], c[pos + 2], c[pos + 3], c[pos + 4])
  OBVIOUS
<1>9. g = [pos |-> pos + 4, out |-> <<v>>]
  <2>1. [r EXCEPT !.out = <<Joined(@[1], @[2], @[3], @[4])>>]
          = [pos |-> pos + 4, out |-> <<Joined(y[1], y[2], y[3], y[4])>>]
    BY <1>4
  <2> QED
    BY <1>1, <1>2, <1>6, <1>8, <2>1
<1>10. v \in Word32 /\ Big(v) = <<c[pos + 1], c[pos + 2], c[pos + 3], c[pos + 4]>>
  BY <1>7, <1>8, BackBig, Zenon
<1>11. \A k \in 1..4 : c[pos + k] = Big(v)[k]
  BY <1>10
<1> QED
  BY <1>5, <1>9, <1>10, <1>11

(* A piece that was copied is there. *)
LEMMA CopyGot ==
  ASSUME NEW c \in Seq(Octet), NEW pos \in Nat, NEW n \in Nat, NEW g,
         g = packetparser_copy(c, pos, n), g # DeadAt
  PROVE  /\ pos + n <= Len(c) /\ g.pos = pos + n
         /\ g.out \in Seq(Octet) /\ Len(g.out) = n
         /\ \A k \in 1..n : c[pos + k] = g.out[k]
<1> DEFINE y == SubSeq(c, pos + 1, pos + n)
<1>1. Len(c) \in Nat
  OBVIOUS
<1>2. ~(pos \notin 0..Largest \/ n \notin 0..Largest \/ pos + n > Len(c))
      /\ g = [pos |-> pos + n, out |-> y]
  BY Zenon DEF packetparser_copy
<1>3. pos + n <= Len(c)
  BY <1>1, <1>2
<1>4. y \in Seq(Octet) /\ Len(y) = n /\ \A k \in 1..n : y[k] = c[pos + k]
  <2>1. pos + 1 \in 1..(Len(c) + 1) /\ pos + n \in (pos + 1 - 1)..Len(c) /\ pos + n - (pos + 1) + 1 = n
    BY <1>1, <1>3
  <2>2. y \in Seq(Octet) /\ Len(y) = n /\ \A k \in 1..n : y[k] = c[pos + 1 + k - 1]
    BY <2>1, Piece
  <2>3. \A k \in 1..n : pos + 1 + k - 1 = pos + k
    OBVIOUS
  <2> QED
    BY <2>2, <2>3
<1> HIDE DEF y
<1> QED
  BY <1>2, <1>3, <1>4

(* g is the string at pos in c, behind its length. *)
HoldsString(c, pos, g) ==
  /\ g.out \in Seq(Octet) /\ pos + 4 + Len(g.out) <= Len(c) /\ g.pos = pos + 4 + Len(g.out)
  /\ \A k \in 1..4 : c[pos + k] = Big(Len(g.out))[k]
  /\ \A k \in 1..Len(g.out) : c[pos + 4 + k] = g.out[k]

(* A string that was read is there. *)
LEMMA StringGot ==
  ASSUME NEW c \in Seq(Octet), NEW pos \in Nat, NEW g, g = String(c, pos), g # DeadAt
  PROVE  HoldsString(c, pos, g)
<1>1. PICK h : h = packetparser_uint32(c, pos)
  OBVIOUS
<1>2. g = IF h = DeadAt THEN h ELSE packetparser_copy(c, h.pos, h.out[1])
  BY <1>1, Zenon DEF String, packetparser_skip
<1>3. h # DeadAt
  BY <1>2, Zenon
<1>4. /\ pos + 4 <= Len(c) /\ h.pos = pos + 4
      /\ h.out[1] \in Word32 /\ h.out = <<h.out[1]>>
      /\ \A k \in 1..4 : c[pos + k] = Big(h.out[1])[k]
  BY <1>1, <1>3, NumberGot
<1>5. PICK n : n = h.out[1]
  OBVIOUS
<1>6. n \in Nat
  BY <1>4, <1>5, SMT DEF Word32
<1>7. g = packetparser_copy(c, pos + 4, n) /\ pos + 4 \in Nat
  BY <1>2, <1>3, <1>4, <1>5
<1>8. /\ pos + 4 + n <= Len(c) /\ g.pos = pos + 4 + n
      /\ g.out \in Seq(Octet) /\ Len(g.out) = n
      /\ \A k \in 1..n : c[pos + 4 + k] = g.out[k]
  <2>1. PICK p \in Nat : p = pos + 4
    BY <1>7
  <2>2. g = packetparser_copy(c, p, n)
    BY <1>7, <2>1, Zenon
  <2>3. /\ p + n <= Len(c) /\ g.pos = p + n
        /\ g.out \in Seq(Octet) /\ Len(g.out) = n
        /\ \A k \in 1..n : c[p + k] = g.out[k]
    BY <1>6, <2>2, CopyGot, SMTT(30)
  <2> QED
    BY <2>1, <2>3, Zenon
<1> QED
  BY <1>4, <1>5, <1>8 DEF HoldsString

(* x holds the key k and what a blob puts in front of it. *)
BlobOf(x, k) ==
  /\ Len(x) = 8 + Len(KeyName) + KeyBytes
  /\ \A i \in 1..4 : x[i] = Big(Len(KeyName))[i]
  /\ \A i \in 1..Len(KeyName) : x[4 + i] = KeyName[i]
  /\ \A i \in 1..4 : x[4 + Len(KeyName) + i] = Big(KeyBytes)[i]
  /\ \A i \in 1..KeyBytes : x[8 + Len(KeyName) + i] = k[i]

(* The numbers of such a blob, and what keeps their sums in range. *)
LEMMA BlobNumbers ==
  ASSUME BytesParameters, BlobFits
  PROVE  /\ Len(KeyName) \in Nat /\ KeyBytes \in Nat \ {0} /\ KeyName \in Seq(Octet)
         /\ Len(KeyName) \in Word32 /\ KeyBytes \in Word32 /\ Alloc \in Nat
         /\ 12 + Len(KeyName) + KeyBytes <= Largest
<1>1. Len(KeyName) \in Nat /\ KeyBytes \in Nat \ {0} /\ Alloc \in Nat /\ Alloc <= 2^30
      /\ KeyName \in Seq(1..255)
  BY DEF BytesParameters, Largest
<1>2. Len(KeyName) \in Word32 /\ KeyBytes \in Word32
  BY <1>1, SMT DEF Word32, BlobFits
<1>3. KeyName \in Seq(Octet)
  <2>1. KeyName \in [1..Len(KeyName) -> 1..255]
    BY <1>1, LenProperties
  <2>2. KeyName \in [1..Len(KeyName) -> Octet]
    BY <2>1 DEF Octet
  <2> QED
    BY <1>1, <2>2, Listed
<1>4. 12 + Len(KeyName) + KeyBytes <= Largest
  BY <1>1 DEF BlobFits, Largest
<1> QED
  BY <1>1, <1>2, <1>3, <1>4

(* Name and key fix a blob. *)
LEMMA OneBlob ==
  ASSUME BytesParameters, BlobFits, NEW k, NEW x \in Seq(Octet), NEW y \in Seq(Octet),
         BlobOf(x, k), BlobOf(y, k)
  PROVE  x = y
<1> DEFINE L == Len(KeyName)
<1>1. L \in Nat /\ KeyBytes \in Nat /\ Len(x) = 8 + L + KeyBytes /\ Len(y) = Len(x)
  BY BlobNumbers DEF BlobOf
<1>2. ASSUME NEW i \in 1..Len(x) PROVE x[i] = y[i]
  <2>1. CASE i <= 4
    <3>1. i \in 1..4
      BY <1>1, <2>1
    <3>2. x[i] = Big(Len(KeyName))[i] /\ y[i] = Big(Len(KeyName))[i]
      BY <3>1, Zenon DEF BlobOf
    <3> QED
      BY <3>2
  <2>2. CASE 4 < i /\ i <= 4 + L
    <3>1. i - 4 \in 1..L /\ i = 4 + (i - 4)
      BY <1>1, <2>2
    <3>2. x[4 + (i - 4)] = KeyName[i - 4] /\ y[4 + (i - 4)] = KeyName[i - 4]
      BY <3>1 DEF BlobOf
    <3> QED
      BY <3>1, <3>2
  <2>3. CASE 4 + L < i /\ i <= 8 + L
    <3>1. i - (4 + L) \in 1..4 /\ i = 4 + L + (i - (4 + L))
      BY <1>1, <2>3
    <3>2. x[4 + L + (i - (4 + L))] = Big(KeyBytes)[i - (4 + L)]
          /\ y[4 + L + (i - (4 + L))] = Big(KeyBytes)[i - (4 + L)]
      BY <3>1 DEF BlobOf
    <3> QED
      BY <3>1, <3>2
  <2>4. CASE 8 + L < i
    <3>1. i - (8 + L) \in 1..KeyBytes /\ i = 8 + L + (i - (8 + L))
      BY <1>1, <2>4
    <3>2. x[8 + L + (i - (8 + L))] = k[i - (8 + L)] /\ y[8 + L + (i - (8 + L))] = k[i - (8 + L)]
      BY <3>1 DEF BlobOf
    <3> QED
      BY <3>1, <3>2
  <2> QED
    BY <1>1, <2>1, <2>2, <2>3, <2>4
<1> QED
  BY <1>1, <1>2, SameElements

(* A blob is read as the key it holds. *)
LEMMA BlobRead ==
  ASSUME BytesParameters, BlobFits, NEW x \in Seq(Octet), NEW k \in Seq(Octet),
         Len(k) = KeyBytes, BlobOf(x, k)
  PROVE  ed25519_parsesignpk(x) = k
<1>1. PICK L : L = Len(KeyName)
  OBVIOUS
<1>2. /\ L \in Nat /\ KeyBytes \in Nat \ {0} /\ KeyName \in Seq(Octet)
      /\ L \in Word32 /\ KeyBytes \in Word32 /\ 12 + L + KeyBytes <= Largest
      /\ Len(x) = 8 + L + KeyBytes /\ Largest \in Nat
  BY <1>1, BlobNumbers DEF BlobOf, Largest
<1>3. PICK name : name = String(x, 0)
  OBVIOUS
<1>4. name = [pos |-> 4 + L, out |-> KeyName]
  <2>1. PICK h : h = Big(L)
    OBVIOUS
  <2>2. h \in Seq(Octet) /\ Len(h) = 4
    BY <1>2, <2>1, BigOctets, ZenonT(40)
  <2>3. \A j \in 1..(4 + L) : x[j] = (h \o KeyName)[j]
    <3> SUFFICES ASSUME NEW j \in 1..(4 + L) PROVE x[j] = (h \o KeyName)[j]
      OBVIOUS
    <3>1. CASE j <= 4
      <4>1. j \in 1..4 /\ j \in 1..Len(h)
        BY <2>2, <3>1
      <4>2. (h \o KeyName)[j] = h[j]
        BY <1>2, <2>2, <4>1, JointFirst
      <4> QED
        BY <1>1, <2>1, <4>1, <4>2 DEF BlobOf
    <3>2. CASE j > 4
      <4>1. PICK i \in 1..L : j = 4 + i
        <5>1. j - 4 \in 1..L /\ j = 4 + (j - 4)
          BY <1>2, <3>2
        <5> QED
          BY <5>1
      <4>2. (h \o KeyName)[Len(h) + i] = KeyName[i]
        <5>1. h \in Seq(Octet) /\ KeyName \in Seq(Octet) /\ i \in 1..Len(KeyName)
          BY <1>1, <1>2, <2>2
        <5> QED
          BY <5>1, JointSecond
      <4> QED
        BY <1>1, <2>2, <4>1, <4>2 DEF BlobOf
    <3>3. j <= 4 \/ j > 4
      BY <1>2
    <3> QED
      BY <3>1, <3>2, <3>3
  <2>4. \A j \in 1..(4 + Len(KeyName)) : 0 + j <= Len(x) => x[0 + j] = (Big(Len(KeyName)) \o KeyName)[j]
    <3> SUFFICES ASSUME NEW j \in 1..(4 + Len(KeyName))
                 PROVE  x[0 + j] = (Big(Len(KeyName)) \o KeyName)[j]
      OBVIOUS
    <3>1. 0 + j = j /\ j \in 1..(4 + L)
      BY <1>1, <1>2
    <3>2. x[j] = (h \o KeyName)[j]
      BY <2>3, <3>1, Zenon
    <3>3. h = Big(Len(KeyName))
      BY <1>1, <2>1, Zenon
    <3> QED
      BY <3>1, <3>2, <3>3, Zenon
  <2>5. 0 \in 0..Len(x) /\ Len(x) <= Largest /\ 4 + Len(KeyName) <= Largest
        /\ 0 + (4 + Len(KeyName)) <= Len(x) /\ 0 + (4 + Len(KeyName)) = 4 + L
    BY <1>1, <1>2
  <2>6. String(x, 0) = [pos |-> 0 + (4 + Len(KeyName)), out |-> KeyName]
    BY <1>2, <2>4, <2>5, TakenString
  <2> QED
    BY <1>3, <2>5, <2>6
<1>5. PICK n : n = packetparser_uint32(x, name.pos)
  OBVIOUS
<1>6. n = [pos |-> 8 + L, out |-> <<KeyBytes>>]
  <2>1. 4 + L \in 0..Len(x) /\ Len(x) <= Largest /\ (4 + L) + 4 <= Len(x) /\ (4 + L) + 4 = 8 + L
    BY <1>2
  <2>2. \A i \in 1..4 : (4 + L) + i <= Len(x) => x[(4 + L) + i] = Big(KeyBytes)[i]
    BY <1>1 DEF BlobOf
  <2>3. packetparser_uint32(x, 4 + L) = [pos |-> (4 + L) + 4, out |-> <<KeyBytes>>]
    BY <1>2, <2>1, <2>2, Numbered
  <2> QED
    BY <1>4, <1>5, <2>1, <2>3
<1>7. PICK key : key = packetparser_copy(x, n.pos, n.out[1])
  OBVIOUS
<1>8. key = [pos |-> Len(x), out |-> k]
  <2>1. 8 + L \in 0..Len(x) /\ Len(x) <= Largest /\ (8 + L) + Len(k) <= Len(x)
        /\ (8 + L) + Len(k) = Len(x)
    BY <1>2
  <2>2. \A i \in 1..Len(k) : (8 + L) + i <= Len(x) => x[(8 + L) + i] = k[i]
    BY <1>1 DEF BlobOf
  <2>3. packetparser_copy(x, 8 + L, Len(k)) = [pos |-> (8 + L) + Len(k), out |-> k]
    BY <2>1, <2>2, Copied
  <2>4. n.pos = 8 + L /\ n.out[1] = KeyBytes
    BY <1>6
  <2> QED
    BY <1>7, <2>1, <2>3, <2>4
<1>9. name.out = KeyName /\ n.out[1] = KeyBytes /\ key.out = k
  BY <1>4, <1>6, <1>8
<1>10. name # DeadAt /\ n # DeadAt /\ key # DeadAt /\ packetparser_end(x, key.pos) # DeadAt
  <2>1. packetparser_end(x, key.pos).pos = Len(x)
    BY <1>8 DEF packetparser_end
  <2> QED
    BY <1>2, <1>4, <1>6, <1>8, <2>1 DEF DeadAt
<1> QED
  BY <1>3, <1>5, <1>7, <1>9, <1>10, Zenon DEF ed25519_parsesignpk

(* What is accepted is a blob of the key that is read. *)
LEMMA BlobAccepted ==
  ASSUME BytesParameters, BlobFits, NEW x \in Seq(Octet),
         ed25519_parsesignpk(x) # Dead, ed25519_parsesignpk(x) # <<>>
  PROVE  \E k \in Seq(Octet) : Len(k) = KeyBytes /\ BlobOf(x, k)
<1>1. PICK L : L = Len(KeyName)
  OBVIOUS
<1>2. L \in Nat /\ KeyBytes \in Nat /\ KeyName \in Seq(Octet) /\ Len(x) \in Nat
  BY <1>1, BlobNumbers
<1>3. PICK name : name = String(x, 0)
  OBVIOUS
<1>4. PICK n : n = packetparser_uint32(x, name.pos)
  OBVIOUS
<1>5. PICK key : key = packetparser_copy(x, n.pos, n.out[1])
  OBVIOUS
<1>6. /\ name # DeadAt /\ name.out = KeyName /\ n # DeadAt /\ n.out[1] = KeyBytes
      /\ key # DeadAt /\ packetparser_end(x, key.pos) # DeadAt
  BY <1>3, <1>4, <1>5, Zenon DEF ed25519_parsesignpk
<1>7. /\ name.pos = 0 + 4 + L
      /\ \A i \in 1..4 : x[0 + i] = Big(L)[i]
      /\ \A i \in 1..L : x[0 + 4 + i] = KeyName[i]
  <2>1. PICK z \in Nat : z = 0
    OBVIOUS
  <2>2. name = String(x, z)
    BY <1>3, <2>1, Zenon
  <2>3. HoldsString(x, z, name)
    BY <1>6, <2>2, StringGot, Zenon
  <2>4. Len(name.out) = L /\ name.out = KeyName
    BY <1>1, <1>6, Zenon
  <2> QED
    BY <2>1, <2>3, <2>4, Zenon DEF HoldsString
<1>8. n.pos = name.pos + 4 /\ \A i \in 1..4 : x[name.pos + i] = Big(KeyBytes)[i]
  <2>1. name.pos \in Nat
    BY <1>2, <1>7
  <2> QED
    BY <1>4, <1>6, <2>1, NumberGot
<1>9. key.pos = n.pos + KeyBytes /\ key.out \in Seq(Octet) /\ Len(key.out) = KeyBytes
      /\ \A i \in 1..KeyBytes : x[n.pos + i] = key.out[i]
  <2>1. n.pos \in Nat
    BY <1>2, <1>7, <1>8
  <2>2. key = packetparser_copy(x, n.pos, KeyBytes)
    BY <1>5, <1>6, Zenon
  <2> QED
    BY <1>2, <1>6, <2>1, <2>2, CopyGot, SMTT(30)
<1>10. key.pos = Len(x)
  BY <1>6 DEF packetparser_end
<1>11. name.pos = 4 + L /\ n.pos = 8 + L /\ Len(x) = 8 + L + KeyBytes
  BY <1>2, <1>7, <1>8, <1>9, <1>10
<1>12. BlobOf(x, key.out)
  <2>1. \A i \in 1..4 : x[i] = Big(L)[i]
    BY <1>7
  <2>2. \A i \in 1..L : x[4 + i] = KeyName[i]
    BY <1>7
  <2> QED
    BY <1>1, <1>8, <1>9, <1>11, <2>1, <2>2, Zenon DEF BlobOf
<1> QED
  BY <1>9, <1>12

(* c is x behind b. *)
Behind(c, b, x) ==
  /\ c \in Seq(Octet) /\ Len(c) = Len(b) + Len(x)
  /\ \A i \in 1..Len(b) : c[i] = b[i]
  /\ \A i \in 1..Len(x) : c[Len(b) + i] = x[i]

(* A thing that fits is put behind what is there. *)
LEMMA PutMore ==
  ASSUME NEW b \in Seq(Octet), NEW x \in Seq(Octet), Alloc \in Nat, Len(b) + Len(x) < Alloc
  PROVE  Behind(buf_put(b, x), b, x)
<1>1. buf_put(b, x) = b \o x
  BY PutOne
<1>2. Behind(b \o x, b, x)
  BY Joint DEF Behind
<1> QED
  BY <1>1, <1>2, Zenon

(* The blob of a key, as it is written behind its length. *)
LEMMA OfIs ==
  ASSUME BytesParameters, BlobFits, NEW k \in Seq(Octet), Len(k) = KeyBytes,
         NEW b, b = ed25519_putsignpk(<<>>, k)
  PROVE  SubSeq(b, 5, Len(b)) \in Seq(Octet) /\ BlobOf(SubSeq(b, 5, Len(b)), k)
<1>1. PICK L : L = Len(KeyName)
  OBVIOUS
<1>2. /\ L \in Nat /\ KeyBytes \in Nat \ {0} /\ KeyName \in Seq(Octet)
      /\ L \in Word32 /\ KeyBytes \in Word32 /\ 12 + L + KeyBytes < Alloc /\ Alloc \in Nat
  BY <1>1, BlobNumbers DEF BlobFits
<1>3. PICK h0 : h0 = Big(KeyBytes + L + 8)
  OBVIOUS
<1>4. PICK h1 : h1 = Big(L)
  OBVIOUS
<1>5. PICK h2 : h2 = Big(KeyBytes)
  OBVIOUS
<1>6. /\ h0 \in Seq(Octet) /\ Len(h0) = 4 /\ h1 \in Seq(Octet) /\ Len(h1) = 4
      /\ h2 \in Seq(Octet) /\ Len(h2) = 4
  <2>1. KeyBytes + L + 8 \in Nat
    BY <1>2
  <2> QED
    BY <1>2, <1>3, <1>4, <1>5, <2>1, BigOctets
<1>7. PICK e : e = <<>>
  OBVIOUS
<1>8. e \in Seq(Octet) /\ Len(e) = 0
  BY <1>7
<1>9. PICK b0 : b0 = buf_put(e, h0)
  OBVIOUS
<1>10. b0 \in Seq(Octet) /\ Len(b0) = 4
  <2>1. Len(e) + Len(h0) < Alloc /\ Len(e) + Len(h0) = 4
    BY <1>2, <1>6, <1>8
  <2> QED
    BY <1>2, <1>6, <1>8, <1>9, <2>1, PutMore, Zenon DEF Behind
<1>11. PICK b1 : b1 = buf_put(b0, h1)
  OBVIOUS
<1>12. /\ b1 \in Seq(Octet) /\ Len(b1) = 8 /\ \A i \in 1..4 : b1[4 + i] = h1[i]
  <2>1. Len(b0) + Len(h1) < Alloc /\ Len(b0) + Len(h1) = 8
    BY <1>2, <1>6, <1>10
  <2>2. b1 \in Seq(Octet) /\ Len(b1) = Len(b0) + Len(h1) /\ \A i \in 1..Len(h1) : b1[Len(b0) + i] = h1[i]
    BY <1>2, <1>6, <1>10, <1>11, <2>1, PutMore, Zenon DEF Behind
  <2> QED
    BY <1>6, <1>10, <2>1, <2>2
<1>13. PICK b2 : b2 = buf_put(b1, KeyName)
  OBVIOUS
<1>14. /\ b2 \in Seq(Octet) /\ Len(b2) = 8 + L
       /\ \A i \in 1..8 : b2[i] = b1[i]
       /\ \A i \in 1..L : b2[8 + i] = KeyName[i]
  <2>1. Len(b1) + Len(KeyName) < Alloc /\ Len(b1) + Len(KeyName) = 8 + L
    BY <1>1, <1>2, <1>12
  <2>2. /\ b2 \in Seq(Octet) /\ Len(b2) = Len(b1) + Len(KeyName)
        /\ \A i \in 1..Len(b1) : b2[i] = b1[i]
        /\ \A i \in 1..Len(KeyName) : b2[Len(b1) + i] = KeyName[i]
    BY <1>2, <1>12, <1>13, <2>1, PutMore, ZenonT(40) DEF Behind
  <2> QED
    BY <1>1, <1>12, <2>1, <2>2
<1>15. PICK b3 : b3 = buf_put(b2, h2)
  OBVIOUS
<1>16. /\ b3 \in Seq(Octet) /\ Len(b3) = 12 + L
       /\ \A i \in 1..(8 + L) : b3[i] = b2[i]
       /\ \A i \in 1..4 : b3[(8 + L) + i] = h2[i]
  <2>1. Len(b2) + Len(h2) < Alloc /\ Len(b2) + Len(h2) = 12 + L
    BY <1>2, <1>6, <1>14
  <2>2. /\ b3 \in Seq(Octet) /\ Len(b3) = Len(b2) + Len(h2)
        /\ \A i \in 1..Len(b2) : b3[i] = b2[i]
        /\ \A i \in 1..Len(h2) : b3[Len(b2) + i] = h2[i]
    <3>1. b2 \in Seq(Octet) /\ h2 \in Seq(Octet) /\ Alloc \in Nat
      BY <1>2, <1>6, <1>14
    <3>2. Behind(b3, b2, h2)
      BY <1>15, <2>1, <3>1, PutMore, Zenon
    <3> QED
      BY <3>2 DEF Behind
  <2> QED
    BY <1>6, <1>14, <2>1, <2>2
<1>17. PICK b4 : b4 = buf_put(b3, k)
  OBVIOUS
<1>18. /\ b4 \in Seq(Octet) /\ Len(b4) = 12 + L + KeyBytes
       /\ \A i \in 1..(12 + L) : b4[i] = b3[i]
       /\ \A i \in 1..KeyBytes : b4[(12 + L) + i] = k[i]
  <2>1. Len(b3) + Len(k) < Alloc /\ Len(b3) + Len(k) = 12 + L + KeyBytes
    BY <1>2, <1>16
  <2>2. /\ b4 \in Seq(Octet) /\ Len(b4) = Len(b3) + Len(k)
        /\ \A i \in 1..Len(b3) : b4[i] = b3[i]
        /\ \A i \in 1..Len(k) : b4[Len(b3) + i] = k[i]
    BY <1>2, <1>16, <1>17, <2>1, PutMore, ZenonT(60) DEF Behind
  <2> QED
    BY <1>16, <2>1, <2>2
<1>19. b = b4
  BY <1>1, <1>3, <1>4, <1>5, <1>7, <1>9, <1>11, <1>13, <1>15, <1>17, Zenon
     DEF ed25519_putsignpk, buf_putstringlen, buf_putnum32
<1>20. PICK x : x = SubSeq(b, 5, Len(b))
  OBVIOUS
<1>21. /\ x \in Seq(Octet) /\ Len(x) = 8 + L + KeyBytes
       /\ \A i \in 1..(8 + L + KeyBytes) : x[i] = b4[4 + i]
  <2>1. PICK m, n : m = 5 /\ n = Len(b4)
    OBVIOUS
  <2>2. m \in 1..(Len(b4) + 1) /\ n \in (m - 1)..Len(b4) /\ n - m + 1 = 8 + L + KeyBytes
    BY <1>2, <1>18, <2>1
  <2>3. SubSeq(b4, m, n) = x
    BY <1>19, <1>20, <2>1, Zenon
  <2>4. x \in Seq(Octet) /\ Len(x) = n - m + 1 /\ \A i \in 1..(n - m + 1) : x[i] = b4[m + i - 1]
    <3>1. b4 \in Seq(Octet)
      BY <1>18
    <3> QED
      BY <2>2, <2>3, <3>1, Piece, Zenon
  <2>5. \A i \in 1..(n - m + 1) : m + i - 1 = 4 + i
    BY <1>2, <2>1, <2>2
  <2> QED
    BY <2>2, <2>4, <2>5
<1>22. BlobOf(x, k)
  <2>1. ASSUME NEW i \in 1..4 PROVE x[i] = h1[i]
    <3>1. i \in 1..(8 + L + KeyBytes) /\ 4 + i \in 1..(12 + L) /\ 4 + i \in 1..(8 + L) /\ 4 + i \in 1..8
      BY <1>2
    <3>2. x[i] = b4[4 + i] /\ b4[4 + i] = b3[4 + i] /\ b3[4 + i] = b2[4 + i]
          /\ b2[4 + i] = b1[4 + i] /\ b1[4 + i] = h1[i]
      BY <1>12, <1>14, <1>16, <1>18, <1>21, <3>1
    <3> QED
      BY <3>2
  <2>2. ASSUME NEW i \in 1..L PROVE x[4 + i] = KeyName[i]
    <3>1. 4 + i \in 1..(8 + L + KeyBytes) /\ 8 + i \in 1..(12 + L) /\ 8 + i \in 1..(8 + L)
          /\ 4 + (4 + i) = 8 + i
      BY <1>2
    <3>2. x[4 + i] = b4[4 + (4 + i)]
      BY <1>21, <3>1, Zenon
    <3>3. b4[8 + i] = b3[8 + i] /\ b3[8 + i] = b2[8 + i] /\ b2[8 + i] = KeyName[i]
      BY <1>14, <1>16, <1>18, <3>1
    <3> QED
      BY <3>1, <3>2, <3>3, Zenon
  <2>3. ASSUME NEW i \in 1..4 PROVE x[4 + L + i] = h2[i]
    <3>1. 4 + L + i \in 1..(8 + L + KeyBytes) /\ (8 + L) + i \in 1..(12 + L)
          /\ 4 + (4 + L + i) = (8 + L) + i
      BY <1>2
    <3>2. x[4 + L + i] = b4[4 + (4 + L + i)]
      BY <1>21, <3>1, Zenon
    <3>3. b4[(8 + L) + i] = b3[(8 + L) + i] /\ b3[(8 + L) + i] = h2[i]
      BY <1>16, <1>18, <3>1
    <3> QED
      BY <3>1, <3>2, <3>3, Zenon
  <2>4. ASSUME NEW i \in 1..KeyBytes PROVE x[8 + L + i] = k[i]
    <3>1. 8 + L + i \in 1..(8 + L + KeyBytes) /\ 4 + (8 + L + i) = (12 + L) + i
      BY <1>2
    <3> QED
      BY <1>18, <1>21, <3>1, ZenonT(40)
  <2> QED
    BY <1>1, <1>4, <1>5, <1>21, <2>1, <2>2, <2>3, <2>4, Zenon DEF BlobOf
<1> QED
  BY <1>20, <1>21, <1>22, Zenon

(***************************************************************************)
(* A blob is accepted if and only if it is what is written for its key     *)
(* (ed25519_putsignpk and ed25519_parsesignpk in sshcrypto_key_ed25519.c,  *)
(* the form of public keys and signatures): no two byte strings are taken  *)
(* for the same key, whatever their lengths say.                           *)
(***************************************************************************)
THEOREM BlobsExact ==
  ASSUME BytesParameters, BlobFits, NEW x \in Seq(Octet)
  PROVE  BlobRight(x)
<1> DEFINE of(k) == SubSeq(ed25519_putsignpk(<<>>, k), 5, Len(ed25519_putsignpk(<<>>, k)))
           end == SubSeq(x, Len(x) - KeyBytes + 1, Len(x))
<1>1. KeyBytes \in Nat \ {0} /\ Len(KeyName) \in Nat /\ Len(x) \in Nat
  BY BlobNumbers
<1>2. ASSUME NEW k \in Seq(Octet), Len(k) = KeyBytes
      PROVE  of(k) \in Seq(Octet) /\ BlobOf(of(k), k)
  BY <1>2, OfIs
<1>3. ASSUME Len(x) >= KeyBytes PROVE end \in Seq(Octet) /\ Len(end) = KeyBytes
             /\ \A i \in 1..KeyBytes : end[i] = x[Len(x) - KeyBytes + i]
  <2>1. PICK m, n : m = Len(x) - KeyBytes + 1 /\ n = Len(x)
    OBVIOUS
  <2>2. m \in 1..(Len(x) + 1) /\ n \in (m - 1)..Len(x) /\ n - m + 1 = KeyBytes
    BY <1>1, <1>3, <2>1
  <2>3. SubSeq(x, m, n) \in Seq(Octet) /\ Len(SubSeq(x, m, n)) = n - m + 1
        /\ \A i \in 1..(n - m + 1) : SubSeq(x, m, n)[i] = x[m + i - 1]
    BY <2>2, Piece
  <2>4. \A i \in 1..KeyBytes : m + i - 1 = Len(x) - KeyBytes + i
    BY <1>1, <2>1
  <2> QED
    BY <2>1, <2>2, <2>3, <2>4
<1> HIDE DEF of, end
<1>4. ASSUME ed25519_parsesignpk(x) # Dead, ed25519_parsesignpk(x) # <<>>
      PROVE  Len(x) >= KeyBytes /\ x = of(end)
  <2>1. PICK k \in Seq(Octet) : Len(k) = KeyBytes /\ BlobOf(x, k)
    BY <1>4, BlobAccepted
  <2>2. Len(x) = 8 + Len(KeyName) + KeyBytes
        /\ \A i \in 1..KeyBytes : x[8 + Len(KeyName) + i] = k[i]
    BY <2>1 DEF BlobOf
  <2>3. Len(x) >= KeyBytes /\ Len(x) - KeyBytes = 8 + Len(KeyName)
    BY <1>1, <2>2
  <2>4. end \in Seq(Octet) /\ Len(end) = KeyBytes
        /\ \A i \in 1..KeyBytes : end[i] = x[Len(x) - KeyBytes + i]
    BY <1>3, <2>3
  <2>5. end = k
    BY <2>1, <2>2, <2>3, <2>4, SameElements
  <2>6. of(end) \in Seq(Octet) /\ BlobOf(of(end), end) /\ BlobOf(x, end)
    BY <1>2, <2>1, <2>4, <2>5
  <2>7. x = of(end)
    BY <2>6, OneBlob
  <2> QED
    BY <2>3, <2>7
<1>5. ASSUME Len(x) >= KeyBytes, x = of(end)
      PROVE  ed25519_parsesignpk(x) # Dead /\ ed25519_parsesignpk(x) # <<>>
  <2>1. end \in Seq(Octet) /\ Len(end) = KeyBytes
    BY <1>3, <1>5
  <2>2. BlobOf(x, end)
    BY <1>2, <1>5, <2>1
  <2>3. ed25519_parsesignpk(x) = end
    BY <2>1, <2>2, BlobRead
  <2>4. end # Dead
    BY <2>1, NotDead
  <2>5. end # <<>>
    BY <1>1, <2>1
  <2> QED
    BY <2>3, <2>4, <2>5
<1> QED
  BY <1>4, <1>5, Zenon DEF BlobRight, of, end

-----------------------------------------------------------------------------
(* The least and the greatest of a set of numbers. *)

(* A set of naturals that is not empty has a least element, and Min is it. *)
LEMMA LeastIs ==
  ASSUME NEW S, S \subseteq Nat, S # {}
  PROVE  Min(S) \in S /\ \A y \in S : Min(S) <= y
<1> DEFINE R == OpToRel(<, Nat)
<1>1. IsWellFoundedOn(R, Nat)
  BY NatLessThanWellFounded
<1>2. \A x, y \in Nat : <<y, x>> \in R <=> y < x
  BY DEF OpToRel
<1> HIDE DEF R
<1>3. PICK x \in S : \A y \in S : ~(<<y, x>> \in R)
  BY <1>1, WFMin
<1>4. ASSUME NEW y \in S PROVE x <= y
  <2>1. x \in Nat /\ y \in Nat
    OBVIOUS
  <2>2. ~(y < x)
    BY <1>2, <1>3, <2>1, Zenon
  <2> QED
    BY <2>1, <2>2
<1>5. \E z \in S : \A y \in S : z <= y
  BY <1>4
<1> QED
  BY <1>5, Zenon DEF Min

(* One that is bounded too has a greatest, and Max is it. *)
LEMMA GreatestIs ==
  ASSUME NEW n \in Nat, NEW S, S \subseteq 0..n, S # {}
  PROVE  Max(S) \in S /\ \A y \in S : Max(S) >= y
<1> DEFINE T == {n - x : x \in S}
<1>1. T \subseteq Nat /\ T # {}
  <2>1. ASSUME NEW x \in S PROVE n - x \in Nat
    <3>1. x \in 0..n
      OBVIOUS
    <3> QED
      BY <3>1
  <2> QED
    BY <2>1
<1>2. Min(T) \in T /\ \A y \in T : Min(T) <= y
  BY <1>1, LeastIs
<1>3. PICK x \in S : Min(T) = n - x
  BY <1>2
<1>4. ASSUME NEW y \in S PROVE x >= y
  <2>1. n - y \in T
    OBVIOUS
  <2>2. n - x <= n - y
    BY <1>2, <1>3, <2>1
  <2>3. x \in 0..n /\ y \in 0..n
    OBVIOUS
  <2> QED
    BY <2>2, <2>3
<1>5. \E z \in S : \A y \in S : z >= y
  BY <1>4
<1> QED
  BY <1>5, Zenon DEF Max

-----------------------------------------------------------------------------
(* Strings that are put somewhere. *)

(* What loginshell() does: a dash and the end of the name, as much as fits. *)
LEMMA ShellFits ==
  ASSUME NEW size \in Int, size >= 2, NEW in \in Seq(Octet), NEW sh, sh = loginshell(size, in)
  PROVE  Len(sh) < size /\ sh[1] = Dash /\ \A i \in 2..Len(sh) : sh[i] # Slash
<1> DEFINE T == {0} \cup {i \in DOMAIN in : in[i] = Slash}
<1>1. Len(in) \in Nat /\ DOMAIN in = 1..Len(in)
  BY LenProperties
<1>2. T \subseteq 0..Len(in) /\ T # {}
  BY <1>1
<1>3. PICK pos : pos = Max(T)
  OBVIOUS
<1>4. pos \in 0..Len(in) /\ \A i \in 1..Len(in) : in[i] = Slash => pos >= i
  <2>1. pos \in T /\ \A y \in T : pos >= y
    BY <1>1, <1>2, <1>3, GreatestIs
  <2> QED
    BY <1>1, <1>2, <2>1
<1>5. PICK cut : cut = IF Len(in) - pos > size - 2 THEN size - 2 ELSE Len(in) - pos
  OBVIOUS
<1>6. cut \in Nat /\ cut <= size - 2 /\ pos + cut <= Len(in)
  <2>1. size - 2 \in Nat /\ Len(in) - pos \in Nat
    BY <1>1, <1>4
  <2> QED
    <3>1. (cut = size - 2 /\ Len(in) - pos > size - 2) \/ (cut = Len(in) - pos /\ Len(in) - pos <= size - 2)
      BY <1>5, <2>1
    <3>2. CASE cut = size - 2 /\ Len(in) - pos > size - 2
      BY <1>1, <1>4, <2>1, <3>2
    <3>3. CASE cut = Len(in) - pos /\ Len(in) - pos <= size - 2
      BY <1>1, <1>4, <2>1, <3>3
    <3> QED
      BY <3>1, <3>2, <3>3
<1>7. PICK y : y = SubSeq(in, pos + 1, pos + cut)
  OBVIOUS
<1>8. sh = <<Dash>> \o y
  <2>1. ~(size < 2)
    OBVIOUS
  <2> QED
    BY <1>3, <1>5, <1>7, <2>1, Zenon DEF loginshell
<1>9. y \in Seq(Octet) /\ Len(y) = cut /\ \A i \in 1..cut : y[i] = in[pos + i]
  <2>1. PICK m, n : m = pos + 1 /\ n = pos + cut
    OBVIOUS
  <2>2. m \in 1..(Len(in) + 1) /\ n \in (m - 1)..Len(in) /\ n - m + 1 = cut
    BY <1>1, <1>4, <1>6, <2>1
  <2>3. y \in Seq(Octet) /\ Len(y) = n - m + 1 /\ \A i \in 1..(n - m + 1) : y[i] = in[m + i - 1]
    BY <1>7, <2>1, <2>2, Piece, SMTT(30)
  <2>4. \A i \in 1..cut : m + i - 1 = pos + i
    BY <1>4, <1>6, <2>1
  <2> QED
    BY <2>2, <2>3, <2>4
<1>10. Len(sh) = 1 + cut /\ sh[1] = Dash /\ \A i \in 1..cut : sh[1 + i] = y[i]
  <2>1. PICK d : d = <<Dash>>
    OBVIOUS
  <2>2. d \in Seq(Octet) /\ Len(d) = 1 /\ d[1] = Dash
    BY <2>1 DEF Dash, Octet
  <2>3. /\ Len(d \o y) = Len(d) + Len(y)
        /\ \A i \in 1..Len(d) : (d \o y)[i] = d[i]
        /\ \A i \in 1..Len(y) : (d \o y)[Len(d) + i] = y[i]
    <3>1. y \in Seq(Octet) /\ d \in Seq(Octet)
      BY <1>9, <2>2
    <3> QED
      BY <3>1, Joint
  <2>4. 1 \in 1..Len(d)
    BY <2>2
  <2> QED
    BY <1>8, <1>9, <2>1, <2>2, <2>3, <2>4
<1>11. ASSUME NEW i \in 2..Len(sh) PROVE sh[i] # Slash
  <2>1. i - 1 \in 1..cut /\ i = 1 + (i - 1) /\ pos + (i - 1) \in 1..Len(in) /\ ~(pos >= pos + (i - 1))
    BY <1>1, <1>4, <1>6, <1>10
  <2>2. sh[i] = in[pos + (i - 1)]
    BY <1>9, <1>10, <2>1
  <2> QED
    BY <1>4, <2>1, <2>2
<1> QED
  BY <1>6, <1>10, <1>11

(* What str_copyn() does: the whole string when it fits, and else its start. *)
LEMMA CopyFits ==
  ASSUME NEW size \in Int, size > 0, NEW s \in Seq(Octet), NEW c, c = str_copyn(size, s)
  PROVE  /\ Len(c.y) < size /\ (c.ret = 1 <=> c.y = s)
         /\ size > Len(s) => c = [ret |-> 1, y |-> s]
<1>1. Len(s) \in Nat
  BY LenProperties
<1>2. CASE size - 1 < Len(s)
  <2>1. PICK y : y = SubSeq(s, 1, size - 1)
    OBVIOUS
  <2>2. c = [ret |-> 0, y |-> y]
    BY <1>2, <2>1 DEF str_copyn
  <2>3. Len(y) = size - 1
    <3>1. PICK n : n = size - 1
      OBVIOUS
    <3>2. 1 \in 1..(Len(s) + 1) /\ n \in (1 - 1)..Len(s) /\ n - 1 + 1 = size - 1
      BY <1>1, <1>2, <3>1
    <3>3. Len(SubSeq(s, 1, n)) = n - 1 + 1
      BY <3>2, Piece
    <3> QED
      BY <2>1, <3>1, <3>2, <3>3
  <2>4. y # s
    BY <1>1, <1>2, <2>3
  <2> QED
    BY <1>1, <1>2, <2>2, <2>3, <2>4
<1>3. CASE ~(size - 1 < Len(s))
  <2>1. c = [ret |-> 1, y |-> s]
    BY <1>3 DEF str_copyn
  <2> QED
    BY <1>1, <1>3, <2>1
<1> QED
  BY <1>2, <1>3

(* A prefix, element by element. *)
LEMMA PrefixIs ==
  ASSUME NEW s \in Seq(Octet), NEW t \in Seq(Octet)
  PROVE  IsPrefix(s, t) <=> Len(s) <= Len(t) /\ \A i \in 1..Len(s) : s[i] = t[i]
<1>1. Len(s) \in Nat /\ Len(t) \in Nat
  BY LenProperties
<1>2. ASSUME Len(s) <= Len(t)
      PROVE  (SubSeq(s, 1, Len(s)) = SubSeq(t, 1, Len(s))) <=> \A i \in 1..Len(s) : s[i] = t[i]
  <2>1. PICK n : n = Len(s)
    OBVIOUS
  <2>2. 1 \in 1..(Len(s) + 1) /\ 1 \in 1..(Len(t) + 1) /\ n \in (1 - 1)..Len(s) /\ n \in (1 - 1)..Len(t)
        /\ n - 1 + 1 = n
    BY <1>1, <1>2, <2>1
  <2>3. PICK x, y : x = SubSeq(s, 1, n) /\ y = SubSeq(t, 1, n)
    OBVIOUS
  <2>4. x \in Seq(Octet) /\ Len(x) = n - 1 + 1 /\ \A i \in 1..(n - 1 + 1) : x[i] = s[1 + i - 1]
    BY <2>2, <2>3, Piece
  <2>5. y \in Seq(Octet) /\ Len(y) = n - 1 + 1 /\ \A i \in 1..(n - 1 + 1) : y[i] = t[1 + i - 1]
    BY <2>2, <2>3, Piece
  <2>6. \A i \in 1..n : 1 + i - 1 = i
    OBVIOUS
  <2>7. Len(x) = n /\ Len(y) = n /\ \A i \in 1..n : x[i] = s[i] /\ y[i] = t[i]
    BY <2>2, <2>4, <2>5, <2>6
  <2>8. x = y <=> \A i \in 1..n : s[i] = t[i]
    BY <2>4, <2>5, <2>7, SameElements
  <2> QED
    BY <2>1, <2>3, <2>8
<1> QED
  BY <1>1, <1>2 DEF IsPrefix

(* An entry "name=value" of this name. *)
Names(t, s) == \E k \in 0..Len(t) : t = s \o <<Equals>> \o SubSeq(t, k + 1, Len(t))

(* It is what env_get looks for: the name in front, then '=', then the value. *)
LEMMA NamedIs ==
  ASSUME NEW s \in Seq(Octet), NEW t \in Seq(Octet)
  PROVE  /\ Names(t, s) <=> IsPrefix(s, t) /\ Len(t) > Len(s) /\ t[Len(s) + 1] = Equals
         /\ Names(t, s) => t = s \o <<Equals>> \o SubSeq(t, Len(s) + 2, Len(t))
<1>1. Len(s) \in Nat /\ Len(t) \in Nat
  BY LenProperties
<1>2. PICK e : e = s \o <<Equals>>
  OBVIOUS
<1>3. /\ e \in Seq(Octet) /\ Len(e) = Len(s) + 1
      /\ \A i \in 1..Len(s) : e[i] = s[i]
      /\ e[Len(s) + 1] = Equals
  <2>1. PICK d : d = <<Equals>>
    OBVIOUS
  <2>2. d \in Seq(Octet) /\ Len(d) = 1 /\ d[1] = Equals /\ 1 \in 1..Len(d)
    BY <2>1 DEF Equals, Octet
  <2>3. d \in Seq(Octet)
    BY <2>2
  <2>4. /\ s \o d \in Seq(Octet) /\ Len(s \o d) = Len(s) + Len(d)
        /\ \A i \in 1..Len(s) : (s \o d)[i] = s[i]
        /\ \A i \in 1..Len(d) : (s \o d)[Len(s) + i] = d[i]
    BY <2>3, Joint
  <2> QED
    BY <1>2, <2>1, <2>2, <2>4
<1>4. ASSUME NEW k \in 0..Len(t)
      PROVE  /\ SubSeq(t, k + 1, Len(t)) \in Seq(Octet) /\ Len(SubSeq(t, k + 1, Len(t))) = Len(t) - k
             /\ \A i \in 1..(Len(t) - k) : SubSeq(t, k + 1, Len(t))[i] = t[k + i]
  <2>1. PICK m, n : m = k + 1 /\ n = Len(t)
    OBVIOUS
  <2>2. m \in 1..(Len(t) + 1) /\ n \in (m - 1)..Len(t) /\ n - m + 1 = Len(t) - k
    BY <1>1, <2>1
  <2>3. SubSeq(t, m, n) \in Seq(Octet) /\ Len(SubSeq(t, m, n)) = n - m + 1
        /\ \A i \in 1..(n - m + 1) : SubSeq(t, m, n)[i] = t[m + i - 1]
    BY <2>2, Piece
  <2>4. \A i \in 1..(Len(t) - k) : m + i - 1 = k + i
    BY <1>1, <2>1
  <2> QED
    BY <2>1, <2>2, <2>3, <2>4
<1>5. ASSUME NEW k \in 0..Len(t), t = e \o SubSeq(t, k + 1, Len(t))
      PROVE  /\ k = Len(s) + 1 /\ IsPrefix(s, t) /\ Len(t) > Len(s) /\ t[Len(s) + 1] = Equals
  <2>1. PICK v : v = SubSeq(t, k + 1, Len(t))
    OBVIOUS
  <2>2. v \in Seq(Octet) /\ Len(v) = Len(t) - k
    BY <1>4, <2>1
  <2>3. v \in Seq(Octet) /\ e \in Seq(Octet)
    BY <1>3, <2>2
  <2>4. Len(e \o v) = Len(e) + Len(v) /\ \A i \in 1..Len(e) : (e \o v)[i] = e[i]
    BY <2>3, Joint
  <2>5. t = e \o v
    BY <1>5, <2>1
  <2>6. Len(t) = Len(s) + 1 + (Len(t) - k) /\ \A i \in 1..(Len(s) + 1) : t[i] = e[i]
    BY <1>3, <2>2, <2>4, <2>5
  <2>7. k = Len(s) + 1 /\ Len(t) > Len(s)
    BY <1>1, <2>6
  <2>8. \A i \in 1..Len(s) : i \in 1..(Len(s) + 1)
    BY <1>1
  <2>9. Len(s) + 1 \in 1..(Len(s) + 1)
    BY <1>1
  <2>10. t[Len(s) + 1] = Equals /\ \A i \in 1..Len(s) : s[i] = t[i]
    BY <1>3, <2>6, <2>8, <2>9
  <2>11. Len(s) <= Len(t)
    BY <1>1, <2>7
  <2>12. IsPrefix(s, t)
    BY <2>10, <2>11, PrefixIs
  <2> QED
    BY <2>7, <2>10, <2>12
<1>6. ASSUME IsPrefix(s, t), Len(t) > Len(s), t[Len(s) + 1] = Equals
      PROVE  Len(s) + 1 \in 0..Len(t) /\ t = e \o SubSeq(t, (Len(s) + 1) + 1, Len(t))
  <2>1. PICK k : k = Len(s) + 1
    OBVIOUS
  <2>2. k \in 0..Len(t)
    BY <1>1, <1>6, <2>1
  <2>3. PICK v : v = SubSeq(t, k + 1, Len(t))
    OBVIOUS
  <2>4. v \in Seq(Octet) /\ Len(v) = Len(t) - k /\ \A i \in 1..(Len(t) - k) : v[i] = t[k + i]
    BY <1>4, <2>2, <2>3
  <2>5. v \in Seq(Octet) /\ e \in Seq(Octet)
    BY <1>3, <2>4
  <2>6. PICK j : j = e \o v
    OBVIOUS
  <2>7. /\ j \in Seq(Octet) /\ Len(j) = Len(e) + Len(v)
        /\ \A i \in 1..Len(e) : j[i] = e[i]
        /\ \A i \in 1..Len(v) : j[Len(e) + i] = v[i]
    BY <2>5, <2>6, Joint
  <2>8. Len(j) = Len(t) /\ Len(e) = k
    BY <1>1, <1>3, <2>1, <2>4, <2>7
  <2>9. \A i \in 1..Len(s) : s[i] = t[i]
    BY <1>6, PrefixIs
  <2>10. ASSUME NEW i \in 1..Len(t) PROVE t[i] = j[i]
    <3>1. CASE i <= Len(s)
      <4>1. i \in 1..Len(s) /\ i \in 1..Len(e)
        BY <1>1, <1>3, <3>1
      <4> QED
        BY <1>3, <2>7, <2>9, <4>1
    <3>2. CASE i = k
      <4>1. k \in 1..Len(e)
        BY <1>1, <1>3, <2>1
      <4> QED
        BY <1>3, <1>6, <2>1, <2>7, <3>2, <4>1
    <3>3. CASE i > k
      <4>1. i - k \in 1..(Len(t) - k) /\ k + (i - k) = i
        BY <1>1, <2>2, <3>3
      <4>2. j[k + (i - k)] = v[i - k] /\ v[i - k] = t[k + (i - k)]
        BY <2>4, <2>7, <2>8, <4>1
      <4> QED
        BY <4>1, <4>2
    <3>4. i <= Len(s) \/ i = k \/ i > k
      BY <1>1, <2>1
    <3> QED
      BY <3>1, <3>2, <3>3, <3>4
  <2>11. t = j
    BY <2>7, <2>8, <2>10, SameElements
  <2> QED
    BY <2>1, <2>2, <2>3, <2>6, <2>11
<1>7. Len(s) + 2 = (Len(s) + 1) + 1
  BY <1>1
<1>8. Names(t, s) <=> \E k \in 0..Len(t) : t = e \o SubSeq(t, k + 1, Len(t))
  BY <1>2, Zenon DEF Names
<1> QED
  BY <1>2, <1>5, <1>6, <1>7, <1>8

(* got is the first of the entries that are named, if there is one. *)
Found(list, s, got, named) ==
  IF named = {} THEN got.index = 0
  ELSE got.index = Min(named) /\ list[got.index] = s \o <<Equals>> \o got.value

(* What env_get() and channel_subsystem_get() find. *)
LEMMA FoundIs ==
  ASSUME NEW list \in Seq(Seq(Octet)), NEW s \in Seq(Octet), NEW got, got = FirstNamed(list, s),
         NEW named, named = {i \in DOMAIN list : Names(list[i], s)}
  PROVE  Found(list, s, got, named)
<1>1. ASSUME NEW i \in DOMAIN list PROVE list[i] \in Seq(Octet)
  OBVIOUS
<1>2. ASSUME NEW i \in DOMAIN list
      PROVE  Names(list[i], s) <=> /\ str_start(list[i], s) /\ Len(list[i]) > Len(s)
                                   /\ list[i][Len(s) + 1] = Equals
  BY <1>1, NamedIs DEF str_start
<1>3. named = {i \in DOMAIN list : /\ str_start(list[i], s) /\ Len(list[i]) > Len(s)
                                   /\ list[i][Len(s) + 1] = Equals}
  BY <1>2, Zenon
<1>4. got = IF named = {} THEN [index |-> 0, value |-> <<>>]
            ELSE [index |-> Min(named),
                  value |-> SubSeq(list[Min(named)], Len(s) + 2, Len(list[Min(named)]))]
  BY <1>3, Zenon DEF FirstNamed
<1>5. CASE named = {}
  <2>1. got = [index |-> 0, value |-> <<>>]
    BY <1>4, <1>5, Zenon
  <2>2. got.index = 0
    BY <2>1
  <2> QED
    BY <1>5, <2>2, Zenon DEF Found
<1>6. CASE named # {}
  <2>1. named \subseteq Nat
    <3>1. DOMAIN list = 1..Len(list)
      BY LenProperties
    <3> QED
      BY <3>1
  <2>2. PICK m : m = Min(named)
    OBVIOUS
  <2>3. m \in named
    BY <1>6, <2>1, <2>2, LeastIs
  <2>4. list[m] \in Seq(Octet) /\ Names(list[m], s)
    BY <1>1, <2>3
  <2>5. list[m] = s \o <<Equals>> \o SubSeq(list[m], Len(s) + 2, Len(list[m]))
    BY <2>4, NamedIs
  <2>6. got = [index |-> m, value |-> SubSeq(list[m], Len(s) + 2, Len(list[m]))]
    BY <1>4, <1>6, <2>2
  <2>7. got.index = m /\ got.value = SubSeq(list[m], Len(s) + 2, Len(list[m]))
    BY <2>6
  <2> QED
    BY <1>6, <2>2, <2>5, <2>7, Zenon DEF Found
<1> QED
  BY <1>5, <1>6

(***************************************************************************)
(* Strings fit where they are put (loginshell.c, str_copyn in str.c), with *)
(* room for the zero, and a variable's or a subsystem's value is that of   *)
(* its own name (env_get, channel_subsystem_get), the first one there is.  *)
(***************************************************************************)
THEOREM StringsFit ==
  ASSUME NEW size \in Int, NEW s \in Seq(Octet), NEW list \in Seq(Seq(Octet))
  PROVE  StringRight(size, s, list)
<1> DEFINE shell == loginshell(size, s)
           copy == str_copyn(size, s)
           named == {i \in DOMAIN list : Names(list[i], s)}
<1>1. Len(s) \in Nat
  BY LenProperties
<1>2. Len(shell) < size \/ size <= 0
  <2>1. CASE size >= 2
    BY <2>1, ShellFits
  <2>2. CASE size = 1
    <3>1. shell = <<>>
      BY <2>2 DEF loginshell
    <3> QED
      BY <2>2, <3>1
  <2> QED
    BY <2>1, <2>2
<1>3. size >= 2 => shell[1] = Dash /\ \A i \in 2..Len(shell) : shell[i] # Slash
  BY ShellFits
<1>4. size > 0 => /\ Len(copy.y) < size /\ (copy.ret = 1 <=> copy.y = s)
                  /\ size > Len(s) => copy = [ret |-> 1, y |-> s]
  BY CopyFits
<1>5. size > Len(s) + 1 => size > Len(s) /\ size > 0 /\ size >= 2
  BY <1>1
<1>6. ASSUME NEW got \in {env_get(list, s), channel_subsystem_get(list, s)}
      PROVE  Found(list, s, got, named)
  <2>1. got = FirstNamed(list, s)
    BY DEF env_get, channel_subsystem_get
  <2> QED
    BY <2>1, FoundIs, Zenon
<1>7. ASSUME NEW x \in ToSet(list) PROVE str_equaln(s, x) <=> str_start(s, x) /\ str_start(x, s)
  <2>1. x \in Seq(Octet)
    BY DEF ToSet
  <2>2. Len(x) \in Nat /\ DOMAIN s = 1..Len(s)
    BY <2>1, LenProperties
  <2>3. str_start(s, x) <=> Len(x) <= Len(s) /\ \A i \in 1..Len(x) : x[i] = s[i]
    BY <2>1, PrefixIs DEF str_start
  <2>4. str_start(x, s) <=> Len(s) <= Len(x) /\ \A i \in 1..Len(s) : s[i] = x[i]
    BY <2>1, PrefixIs DEF str_start
  <2>5. str_equaln(s, x) <=> Len(x) = Len(s) /\ \A i \in 1..Len(s) : s[i] = x[i]
    BY <2>2, Zenon DEF str_equaln
  <2> QED
    BY <1>1, <2>2, <2>3, <2>4, <2>5
<1> HIDE DEF shell, copy
<1>8. /\ size > Len(s) + 1 => copy = [ret |-> 1, y |-> s] /\ \A i \in 2..Len(shell) : shell[i] # Slash
      /\ size > 0 => Len(copy.y) < size /\ (copy.ret = 1 <=> copy.y = s)
  BY <1>3, <1>4, <1>5, Zenon
<1> QED
  BY <1>2, <1>3, <1>6, <1>7, <1>8, Zenon DEF StringRight, Names, Found, shell, copy

-----------------------------------------------------------------------------
(* Numbers as digits. *)

(* The values that digits have, as they are read one after the other. *)
Values(v, base, zero, y) ==
  /\ v \in [0..Len(y) -> Int] /\ v[0] = 0
  /\ \A i \in 1..Len(y) : v[i] = v[i - 1] * base + (y[i] - zero)

(* The number that digits stand for is the last of those values. *)
LEMMA ValueIs ==
  ASSUME NEW base \in Nat, NEW zero \in Nat, NEW y \in Seq(Nat)
  PROVE  \E v : Values(v, base, zero, y) /\ ValueOf(base, zero, y) = v[Len(y)]
<1> DEFINE n == Len(y)
           step == [p \in (1..n) \X Int |-> p[2] * base + (y[p[1]] - zero)]
           Rule(f) == f = [i \in 0..n |-> IF i = 0 THEN 0 ELSE f[i - 1] * base + (y[i] - zero)]
<1>1. n \in Nat /\ \A i \in 1..n : y[i] \in Nat
  BY LenProperties, ElementOfSeq
<1>2. step \in [(1..n) \X Int -> Int]
  BY <1>1
<1>3. \A i \in 1..n, c \in Int : step[<<i, c>>] = c * base + (y[i] - zero)
  OBVIOUS
<1> HIDE DEF step
<1>4. PICK v : Steps(v, n, Int, 0, step)
  <2>1. n \in Nat /\ 0 \in Int
    BY <1>1
  <2> QED
    BY <1>2, <2>1, StepsExist, Zenon
<1>5. v \in [0..n -> Int] /\ v[0] = 0 /\ \A i \in 1..n : v[i] = step[<<i, v[i - 1]>>]
  BY <1>4 DEF Steps
<1>6. \A i \in 1..n : i - 1 \in 0..n /\ v[i - 1] \in Int
  <2> SUFFICES ASSUME NEW i \in 1..n PROVE i - 1 \in 0..n /\ v[i - 1] \in Int
    OBVIOUS
  <2>1. i - 1 \in 0..n
    BY <1>1
  <2> QED
    BY <1>5, <2>1
<1>7. \A i \in 1..n : v[i] = v[i - 1] * base + (y[i] - zero)
  BY <1>3, <1>5, <1>6
<1>8. Values(v, base, zero, y)
  BY <1>5, <1>7 DEF Values
<1>9. v = [i \in 0..n |-> IF i = 0 THEN 0 ELSE v[i - 1] * base + (y[i] - zero)]
  BY <1>1, <1>5, <1>7
<1>10. ASSUME NEW f, Rule(f) PROVE f = v
  <2> DEFINE T == {i \in 0..n : f[i] = v[i]}
  <2>1. 0 \in T
    BY <1>1, <1>5, <1>10
  <2>2. ASSUME NEW i \in 1..n, i - 1 \in T PROVE i \in T
    <3>1. f[i - 1] = v[i - 1] /\ i \in 0..n /\ i # 0
      BY <2>2
    <3>2. f[i] = f[i - 1] * base + (y[i] - zero)
      BY <1>10, <3>1, Zenon
    <3>3. f[i] = v[i]
      BY <1>7, <3>1, <3>2, Zenon
    <3> QED
      BY <3>1, <3>3
  <2>3. \A i \in 1..n : i - 1 \in T => i \in T
    BY <2>2
  <2> HIDE DEF T
  <2>4. 0..n \subseteq T
    BY <1>1, <2>1, <2>3, Climb
  <2>5. \A i \in 0..n : f[i] = v[i]
    BY <2>4 DEF T
  <2>6. f = [i \in 0..n |-> f[i]]
    BY <1>10
  <2> QED
    BY <1>5, <2>5, <2>6
<1>11. ValueOf(base, zero, y) = (CHOOSE f : Rule(f))[n]
  BY Zenon DEF ValueOf
<1>12. Rule(CHOOSE f : Rule(f))
  BY <1>9
<1> HIDE DEF Rule
<1>13. (CHOOSE f : Rule(f)) = v
  BY <1>10, <1>12
<1> QED
  BY <1>8, <1>11, <1>13

(* Zeros in front of a number do not change it. *)
LEMMA ZerosInFront ==
  ASSUME NEW base \in Nat, NEW x \in Seq(Nat), NEW y \in Seq(Nat), NEW p \in Nat,
         Len(x) = p + Len(y), \A i \in 1..p : x[i] = 0, \A i \in 1..Len(y) : x[p + i] = y[i]
  PROVE  ValueOf(base, 0, x) = ValueOf(base, 0, y)
<1>0. PICK zero \in Nat : zero = 0
  OBVIOUS
<1>1. PICK v : Values(v, base, 0, x) /\ ValueOf(base, 0, x) = v[Len(x)]
  <2>1. \E v : Values(v, base, zero, x) /\ ValueOf(base, zero, x) = v[Len(x)]
    BY ValueIs, Zenon
  <2> QED
    BY <1>0, <2>1, Zenon
<1>2. PICK u : Values(u, base, 0, y) /\ ValueOf(base, 0, y) = u[Len(y)]
  <2>1. \E s : Values(s, base, zero, y) /\ ValueOf(base, zero, y) = s[Len(y)]
    BY ValueIs, Zenon
  <2> QED
    BY <1>0, <2>1, Zenon
<1>3. Len(x) \in Nat /\ Len(y) \in Nat
      /\ (\A i \in 1..Len(x) : x[i] \in Nat) /\ (\A i \in 1..Len(y) : y[i] \in Nat)
  BY LenProperties, ElementOfSeq
<1>4. /\ v[0] = 0 /\ \A i \in 1..Len(x) : v[i] = v[i - 1] * base + (x[i] - 0)
  BY <1>1 DEF Values
<1>5. /\ u[0] = 0 /\ \A i \in 1..Len(y) : u[i] = u[i - 1] * base + (y[i] - 0)
  BY <1>2 DEF Values
<1> DEFINE T == {i \in 0..p : v[i] = 0}
<1>6. 0 \in T
  BY <1>4
<1>7. ASSUME NEW i \in 1..p, i - 1 \in T PROVE i \in T
  <2>1. i \in 1..Len(x) /\ x[i] = 0 /\ v[i - 1] = 0
    BY <1>3, <1>7
  <2>2. v[i] = v[i - 1] * base + (x[i] - 0)
    BY <1>4, <2>1
  <2>3. v[i] = 0 * base + (0 - 0)
    BY <2>1, <2>2, Zenon
  <2> QED
    BY <2>3
<1>8. \A i \in 1..p : i - 1 \in T => i \in T
  BY <1>7
<1> HIDE DEF T
<1>9. 0..p \subseteq T
  BY <1>6, <1>8, Climb
<1>10. v[p] = 0
  BY <1>9 DEF T
<1> DEFINE U == {i \in 0..Len(y) : v[p + i] = u[i]}
<1>11. 0 \in U
  BY <1>3, <1>5, <1>10
<1>12. ASSUME NEW i \in 1..Len(y), i - 1 \in U PROVE i \in U
  <2>1. p + i \in 1..Len(x) /\ x[p + i] = y[i] /\ v[p + (i - 1)] = u[i - 1] /\ (p + i) - 1 = p + (i - 1)
        /\ i \in 0..Len(y)
    BY <1>3, <1>12
  <2>2. v[p + i] = v[(p + i) - 1] * base + (x[p + i] - 0)
    BY <1>4, <2>1
  <2>3. v[p + i] = u[i - 1] * base + (y[i] - 0)
    BY <2>1, <2>2, Zenon
  <2>4. v[p + i] = u[i]
    BY <1>5, <2>3, Zenon
  <2> QED
    BY <2>1, <2>4
<1>13. \A i \in 1..Len(y) : i - 1 \in U => i \in U
  BY <1>12
<1> HIDE DEF U
<1>14. 0..Len(y) \subseteq U
  BY <1>3, <1>11, <1>13, Climb
<1>15. v[p + Len(y)] = u[Len(y)]
  <2>1. Len(y) \in 0..Len(y)
    BY <1>3
  <2> QED
    BY <1>14, <2>1, Zenon DEF U
<1> QED
  BY <1>1, <1>2, <1>15

-----------------------------------------------------------------------------
(* The shared secret. *)

(* The first k bytes are zeros, and no more of them follow. *)
ZerosEnd(x, k) == (\A i \in 1..k : x[i] = 0) /\ (k = Len(x) \/ x[k + 1] # 0)

(* Zeros end somewhere: at the end, or before something else. *)
LEMMA ZerosStop ==
  ASSUME NEW x \in Seq(Octet)
  PROVE  \E k \in 0..Len(x) : ZerosEnd(x, k)
<1> DEFINE T == {k \in 0..Len(x) : k = Len(x) \/ x[k + 1] # 0}
<1>1. Len(x) \in Nat
  BY LenProperties
<1>2. T \subseteq Nat /\ T # {}
  <2>1. Len(x) \in T
    BY <1>1
  <2> QED
    BY <1>1, <2>1
<1>3. PICK k : k = Min(T)
  OBVIOUS
<1>4. k \in T /\ \A j \in T : k <= j
  BY <1>2, <1>3, LeastIs
<1>5. ASSUME NEW i \in 1..k PROVE x[i] = 0
  <2>1. i - 1 \in 0..Len(x) /\ ~(k <= i - 1) /\ (i - 1) + 1 = i /\ i - 1 # Len(x)
    BY <1>1, <1>4
  <2>2. i - 1 \notin T
    BY <1>4, <2>1
  <2> QED
    BY <2>1, <2>2
<1> QED
  BY <1>4, <1>5 DEF ZerosEnd

(* Bytes are numbers. *)
LEMMA OctetsNat ==
  ASSUME NEW x \in Seq(Octet)
  PROVE  x \in Seq(Nat)
<1>1. \A v \in Octet : v \in Nat
  BY DEF Octet
<1>2. \A i \in 1..Len(x) : x[i] \in Nat
  BY <1>1, ElementOfSeq
<1> QED
  BY <1>2

(* One thing behind another. *)
LEMMA BehindIs ==
  ASSUME NEW b \in Seq(Octet), NEW x \in Seq(Octet)
  PROVE  Behind(b \o x, b, x)
BY Joint DEF Behind

(* What the secret is written as: a string of this value. *)
Shortest(x, out) ==
  /\ out \in Seq(Octet) /\ Len(out) <= Len(x) + 1
  /\ ValueOf(256, 0, out) = ValueOf(256, 0, x)
  /\ out # <<>> => out[1] \in 1..127 \/ (Len(out) > 1 /\ out[1] = 0 /\ out[2] >= 128)

(* Without its zeros, and with one before a byte with its top bit set, it is
   the shortest. *)
LEMMA SecretShort ==
  ASSUME NEW x \in Seq(Octet), NEW pos \in 0..Len(x), ZerosEnd(x, pos),
         NEW rest, rest = SubSeq(x, pos + 1, Len(x)),
         NEW out, out = IF rest # <<>> /\ rest[1] >= 128 THEN << 0 >> \o rest ELSE rest
  PROVE  rest \in Seq(Octet) /\ Len(rest) <= Len(x) /\ Shortest(x, out)
<1>1. Len(x) \in Nat
  BY LenProperties
<1>2. /\ rest \in Seq(Octet) /\ Len(rest) = Len(x) - pos
      /\ \A i \in 1..Len(rest) : x[pos + i] = rest[i]
  <2>1. PICK m, n : m = pos + 1 /\ n = Len(x)
    OBVIOUS
  <2>2. m \in 1..(Len(x) + 1) /\ n \in (m - 1)..Len(x) /\ n - m + 1 = Len(x) - pos
    BY <1>1, <2>1
  <2>3. rest \in Seq(Octet) /\ Len(rest) = n - m + 1 /\ \A i \in 1..(n - m + 1) : rest[i] = x[m + i - 1]
    BY <2>1, <2>2, Piece
  <2>4. \A i \in 1..Len(rest) : m + i - 1 = pos + i
    BY <1>1, <2>1, <2>2, <2>3
  <2> QED
    BY <2>2, <2>3, <2>4
<1>3. ValueOf(256, 0, x) = ValueOf(256, 0, rest)
  <2>1. x \in Seq(Nat) /\ rest \in Seq(Nat)
    BY <1>2, OctetsNat
  <2>2. pos \in Nat /\ Len(x) = pos + Len(rest)
    BY <1>1, <1>2
  <2>3. \A i \in 1..pos : x[i] = 0
    BY DEF ZerosEnd
  <2> QED
    <3>1. PICK b \in Nat : b = 256
      OBVIOUS
    <3>2. ValueOf(b, 0, x) = ValueOf(b, 0, rest)
      BY <1>2, <2>1, <2>2, <2>3, ZerosInFront, Zenon
    <3> QED
      BY <3>1, <3>2, Zenon
<1>4. CASE rest # <<>> /\ rest[1] >= 128
  <2>1. PICK z : z = << 0 >>
    OBVIOUS
  <2>2. z \in Seq(Octet) /\ Len(z) = 1 /\ z[1] = 0 /\ 1 \in 1..Len(z)
    BY <2>1 DEF Octet
  <2>3. z \in Seq(Octet) /\ rest \in Seq(Octet)
    BY <1>2, <2>2
  <2>4. out = z \o rest
    BY <1>4, <2>1, Zenon
  <2>5. /\ out \in Seq(Octet) /\ Len(out) = Len(z) + Len(rest)
        /\ \A i \in 1..Len(z) : out[i] = z[i]
        /\ \A i \in 1..Len(rest) : out[Len(z) + i] = rest[i]
    <3>1. Behind(out, z, rest)
      BY <2>3, <2>4, BehindIs, Zenon
    <3> QED
      BY <3>1 DEF Behind
  <2>6. Len(out) = 1 + Len(rest) /\ out[1] = 0 /\ \A i \in 1..Len(rest) : out[1 + i] = rest[i]
    BY <2>2, <2>5
  <2>7. Len(rest) \in Nat /\ Len(rest) > 0
    BY <1>2, <1>4
  <2>8. 1 \in 1..Len(rest) /\ 1 + 1 = 2
    BY <2>7
  <2>9. out[2] = rest[1]
    BY <2>6, <2>8
  <2>10. ValueOf(256, 0, out) = ValueOf(256, 0, rest)
    <3>1. out \in Seq(Nat) /\ rest \in Seq(Nat)
      BY <1>2, <2>5, OctetsNat
    <3>2. PICK b \in Nat, p \in Nat : b = 256 /\ p = 1
      OBVIOUS
    <3>3. /\ Len(out) = p + Len(rest) /\ \A i \in 1..p : out[i] = 0
          /\ \A i \in 1..Len(rest) : out[p + i] = rest[i]
      BY <2>6, <3>2
    <3>4. ValueOf(b, 0, out) = ValueOf(b, 0, rest)
      BY <3>1, <3>3, ZerosInFront, Zenon
    <3> QED
      BY <3>2, <3>4, Zenon
  <2>11. Len(out) > 1 /\ Len(out) <= Len(x) + 1 /\ Len(rest) <= Len(x)
    BY <1>1, <1>2, <2>6, <2>7
  <2> QED
    BY <1>2, <1>3, <1>4, <2>5, <2>6, <2>9, <2>10, <2>11 DEF Shortest
<1>5. CASE ~(rest # <<>> /\ rest[1] >= 128)
  <2>1. out = rest
    BY <1>5
  <2>2. Len(rest) <= Len(x)
    BY <1>1, <1>2
  <2>3. ASSUME rest # <<>> PROVE rest[1] \in 1..127
    <3>1. Len(rest) \in Nat /\ Len(rest) > 0
      BY <1>2, <2>3
    <3>2. 1 \in 1..Len(rest) /\ pos # Len(x)
      BY <1>1, <1>2, <3>1
    <3>3. rest[1] # 0 /\ rest[1] \in Octet
      BY <1>2, <3>2 DEF ZerosEnd
    <3>4. ~(rest[1] >= 128)
      BY <1>5, <2>3
    <3>5. PICK c : c = rest[1]
      OBVIOUS
    <3>6. c \in 0..255 /\ c # 0 /\ ~(c >= 128)
      BY <3>3, <3>4, <3>5, Zenon DEF Octet
    <3>7. c \in 1..127
      BY <3>6, SMTT(30)
    <3> QED
      BY <3>5, <3>7, Zenon
  <2> QED
    BY <1>1, <1>2, <1>3, <2>1, <2>2, <2>3 DEF Shortest
<1> QED
  BY <1>4, <1>5

(* Length and string, put one after the other into an empty buffer, and a byte
   between them. *)
LEMMA PutSecret ==
  ASSUME BytesParameters, NEW x \in Seq(Octet), 5 + Len(x) < Alloc
  PROVE  \E out : /\ Shortest(x, out)
                  /\ buf_putsharedsecret(<<>>, x) = Big(Len(out)) \o out
                  /\ Big(Len(out)) \o out \in Seq(Octet)
                  /\ Len(Big(Len(out)) \o out) = 4 + Len(out)
<1>1. PICK pos : pos = CHOOSE k \in 0..Len(x) : /\ \A i \in 1..k : x[i] = 0
                                                /\ k = Len(x) \/ x[k + 1] # 0
  OBVIOUS
<1>2. pos \in 0..Len(x) /\ ZerosEnd(x, pos)
  BY <1>1, ZerosStop, Zenon DEF ZerosEnd
<1>3. PICK rest : rest = SubSeq(x, pos + 1, Len(x))
  OBVIOUS
<1>5. PICK out : out = IF rest # <<>> /\ rest[1] >= 128 THEN << 0 >> \o rest ELSE rest
  OBVIOUS
<1>6. rest \in Seq(Octet) /\ Len(rest) <= Len(x) /\ Shortest(x, out)
  BY <1>2, <1>3, <1>5, SecretShort
<1>7. out \in Seq(Octet) /\ Len(out) <= Len(x) + 1 /\ Len(x) \in Nat /\ Len(out) \in Nat /\ Len(rest) \in Nat
      /\ Alloc \in Nat
  BY <1>6 DEF Shortest, BytesParameters
<1>8. PICK h : h = Big(Len(out))
  OBVIOUS
<1>9. h \in Seq(Octet) /\ Len(h) = 4
  BY <1>7, <1>8, BigOctets, ZenonT(40)
<1>10. PICK e : e = <<>>
  OBVIOUS
<1>11. e \in Seq(Octet) /\ Len(e) = 0 /\ e \o h = h
  BY <1>9, <1>10
<1>12. buf_put(e, h) = h
  <2>1. Len(e) + Len(h) < Alloc
    BY <1>7, <1>9, <1>11
  <2>2. buf_put(e, h) = e \o h
    BY <1>7, <1>9, <1>11, <2>1, PutOne, Zenon
  <2> QED
    BY <1>11, <2>2
<1>13. h \o out \in Seq(Octet) /\ Len(h \o out) = 4 + Len(out)
  <2>1. h \in Seq(Octet)
    BY <1>9
  <2>2. Behind(h \o out, h, out)
    BY <1>7, <2>1, BehindIs
  <2> QED
    BY <1>9, <2>2 DEF Behind
<1>14. CASE rest # <<>> /\ rest[1] >= 128
  <2>1. PICK z : z = << 0 >>
    OBVIOUS
  <2>2. z \in Seq(Octet) /\ Len(z) = 1
    BY <2>1 DEF Octet
  <2>3. out = z \o rest
    BY <1>5, <1>14, <2>1, Zenon
  <2>4. Len(out) = Len(rest) + 1
    <3>1. z \in Seq(Octet)
      BY <2>2
    <3>2. Behind(out, z, rest)
      BY <1>6, <2>3, <3>1, BehindIs, Zenon
    <3>3. Len(out) = Len(z) + Len(rest)
      BY <3>2 DEF Behind
    <3> QED
      BY <1>7, <2>2, <3>3
  <2>5. PICK c : c = buf_put(h, z)
    OBVIOUS
  <2>6. c = h \o z /\ c \in Seq(Octet) /\ Len(c) = Len(h) + Len(z)
    <3>1. Len(h) + Len(z) < Alloc /\ h \in Seq(Octet) /\ z \in Seq(Octet)
      BY <1>7, <1>9, <2>2
    <3> QED
      BY <1>7, <2>5, <3>1, PutOne, Zenon
  <2>7. buf_put(c, rest) = c \o rest
    <3>1. Len(c) + Len(rest) < Alloc
      BY <1>7, <1>9, <2>2, <2>4, <2>6
    <3> QED
      BY <1>6, <1>7, <2>6, <3>1, PutOne, Zenon
  <2>8. c \o rest = h \o out
    <3>1. h \in Seq(Octet) /\ z \in Seq(Octet) /\ rest \in Seq(Octet)
      BY <1>6, <1>9, <2>2
    <3>2. (h \o z) \o rest = h \o (z \o rest)
      BY <3>1
    <3> QED
      BY <2>3, <2>6, <3>2, Zenon
  <2>9. buf_putsharedsecret(e, x) = buf_put(buf_put(buf_put(e, Big(Len(rest) + 1)), z), rest)
    BY <1>1, <1>3, <1>14, <2>1, Zenon DEF buf_putsharedsecret, buf_putnum8, buf_putnum32
  <2>10. buf_putsharedsecret(e, x) = h \o out
    BY <1>8, <1>12, <2>4, <2>5, <2>7, <2>8, <2>9, Zenon
  <2> QED
    BY <1>6, <1>8, <1>10, <1>13, <2>10, Zenon
<1>15. CASE ~(rest # <<>> /\ rest[1] >= 128)
  <2>1. out = rest
    BY <1>5, <1>15, Zenon
  <2>2. buf_put(h, out) = h \o out
    <3>1. Len(h) + Len(out) < Alloc /\ h \in Seq(Octet)
      BY <1>7, <1>9
    <3> QED
      BY <1>7, <3>1, PutOne, Zenon
  <2>3. buf_putsharedsecret(e, x) = buf_put(buf_put(e, Big(Len(rest))), rest)
    BY <1>1, <1>3, <1>15, Zenon DEF buf_putsharedsecret, buf_putnum32
  <2>4. buf_putsharedsecret(e, x) = h \o out
    BY <1>8, <1>12, <2>1, <2>2, <2>3, Zenon
  <2> QED
    BY <1>6, <1>8, <1>10, <1>13, <2>4, Zenon
<1> QED
  BY <1>14, <1>15

(***************************************************************************)
(* The shared secret that both sides hash (buf_putsharedsecret in buf.c)   *)
(* is a string of the same number, without a needless zero and never a     *)
(* negative number: a byte with its top bit set has a zero before it.      *)
(***************************************************************************)
THEOREM SecretsShortest ==
  ASSUME BytesParameters, NEW x \in Seq(Octet), 5 + Len(x) < Alloc
  PROVE  SecretRight(x)
<1>1. PICK out : /\ Shortest(x, out)
                 /\ buf_putsharedsecret(<<>>, x) = Big(Len(out)) \o out
                 /\ Big(Len(out)) \o out \in Seq(Octet)
                 /\ Len(Big(Len(out)) \o out) = 4 + Len(out)
  BY PutSecret
<1>2. PICK b : b = Big(Len(out)) \o out
  OBVIOUS
<1>3. b \in Seq(Octet) /\ Len(b) = 4 + Len(out) /\ b = buf_putsharedsecret(<<>>, x)
  BY <1>1, <1>2, Zenon
<1>4. out \in Seq(Octet) /\ Len(out) \in Nat /\ Len(out) <= Len(x) + 1 /\ Len(x) \in Nat
      /\ Alloc \in Nat /\ Alloc <= Largest /\ Largest \in Nat
  BY <1>1 DEF Shortest, BytesParameters, Largest
<1>5. Len(b) <= Largest /\ 4 + Len(out) <= Largest
  BY <1>3, <1>4
<1>6. PICK z \in Nat : z = 0
  OBVIOUS
<1>7. String(b, z) = [pos |-> z + (4 + Len(out)), out |-> out]
  <2>1. z \in 0..Len(b)
    BY <1>3, <1>4, <1>6
  <2>2. \A k \in 1..(4 + Len(out)) : z + k <= Len(b) => b[z + k] = (Big(Len(out)) \o out)[k]
    <3>1. \A k \in 1..(4 + Len(out)) : z + k = k
      BY <1>6
    <3> QED
      BY <1>2, <3>1, Zenon
  <2>3. z + (4 + Len(out)) <= Len(b)
    BY <1>3, <1>4, <1>6
  <2> QED
    BY <1>3, <1>4, <1>5, <2>1, <2>2, <2>3, TakenString, Zenon
<1>8. PICK s : s = String(b, 0)
  OBVIOUS
<1>9. s.pos = Len(b) /\ s.out = out
  <2>1. z + (4 + Len(out)) = Len(b)
    BY <1>3, <1>4, <1>6
  <2>2. s = [pos |-> Len(b), out |-> out]
    BY <1>6, <1>7, <1>8, <2>1, Zenon
  <2> QED
    BY <2>2
<1>10. /\ ValueOf(256, 0, s.out) = ValueOf(256, 0, x)
       /\ s.out # <<>> => \/ s.out[1] \in 1..127
                          \/ Len(s.out) > 1 /\ s.out[1] = 0 /\ s.out[2] >= 128
  BY <1>1, <1>9, Zenon DEF Shortest
<1> QED
  BY <1>3, <1>8, <1>9, <1>10, Zenon DEF SecretRight

-----------------------------------------------------------------------------
(* Numbers as text. *)

(* A set that holds a number whenever it holds all the smaller ones holds all. *)
LEMMA ClimbAll ==
  ASSUME NEW S, \A n \in Nat : (\A m \in 0..(n - 1) : m \in S) => n \in S
  PROVE  Nat \subseteq S
<1> SUFFICES ASSUME ~(Nat \subseteq S) PROVE FALSE
  OBVIOUS
<1> DEFINE T == {i \in Nat : i \notin S}
<1>1. T \subseteq Nat /\ T # {}
  OBVIOUS
<1>2. PICK x : x = Min(T)
  OBVIOUS
<1>3. x \in T /\ \A y \in T : x <= y
  BY <1>1, <1>2, LeastIs
<1>4. ASSUME NEW m \in 0..(x - 1) PROVE m \in S
  <2>1. m \in Nat /\ ~(x <= m)
    BY <1>3
  <2> QED
    BY <1>3, <2>1
<1>5. x \in S
  BY <1>3, <1>4
<1> QED
  BY <1>3, <1>5

(* How a number of several digits splits in a smaller one and a digit. *)
Split(base, k) ==
  /\ ~(k < base) /\ k \div base \in 0..(k - 1) /\ k \div base > 0 /\ k \div base <= k
  /\ k % base \in 0..(base - 1) /\ k \div base \in Nat /\ k % base \in Nat
  /\ k = (k \div base) * base + (k % base)

(* Every number of several digits does. *)
LEMMA Smaller ==
  ASSUME NEW base \in Nat, base > 1, NEW k \in Nat, k >= base
  PROVE  Split(base, k)
<1>1. k \div base \in Int /\ k % base \in Int /\ k = base * (k \div base) + (k % base)
      /\ 0 <= k % base /\ k % base < base
  OBVIOUS
<1>2. PICK q, m : q = k \div base /\ m = k % base
  OBVIOUS
<1>3. q \in Int /\ m \in Int /\ k = base * q + m /\ 0 <= m /\ m < base
  BY <1>1, <1>2
<1>4. q > 0
  <2>1. ASSUME q <= 0 PROVE FALSE
    <3>1. base * q <= 0
      BY <1>3, <2>1, SMT
    <3> QED
      BY <1>3, <3>1
  <2> QED
    BY <1>3, <2>1
<1>5. q < k
  <2>1. base * q >= 2 * q
    BY <1>3, <1>4, SMT
  <2> QED
    BY <1>3, <1>4, <2>1
<1>6. /\ ~(k < base) /\ q \in 0..(k - 1) /\ m \in 0..(base - 1) /\ k = q * base + m /\ q <= k
      /\ q \in Nat /\ m \in Nat
  BY <1>3, <1>4, <1>5, SMT
<1> QED
  BY <1>2, <1>4, <1>6, Zenon DEF Split

(* One digit more, or the first. *)
OneDigit(base, f, k) ==
  IF k < base THEN <<Digit(k)>> ELSE Append(f[k \div base], Digit(k % base))

(* What a digit looks like. *)
LEMMA DigitIs ==
  ASSUME NEW d \in Nat
  PROVE  Digit(d) \in Nat /\ (d < 10 => Digit(d) = 48 + d)
BY DEF Digit

(* f gives the digits of all numbers up to n. *)
DigitsTo(base, f, n) ==
  f \in [0..n -> Seq(Nat)] /\ \A k \in 0..n : f[k] = OneDigit(base, f, k)

(* There is such a function for every n. *)
LEMMA DigitsExist ==
  ASSUME NEW base \in Nat, base > 1, NEW n \in Nat
  PROVE  \E f : DigitsTo(base, f, n)
<1> DEFINE T == {m \in 0..n : \E f : DigitsTo(base, f, m)}
<1>1. 0 \in T
  <2> DEFINE f == [k \in 0..0 |-> <<Digit(0)>>]
  <2>1. <<Digit(0)>> \in Seq(Nat)
    BY DigitIs
  <2>2. \A k \in 0..0 : f[k] = OneDigit(base, f, k)
    BY DEF OneDigit
  <2>3. DigitsTo(base, f, 0)
    BY <2>1, <2>2 DEF DigitsTo
  <2> QED
    BY <2>3
<1>2. ASSUME NEW i \in 1..n, i - 1 \in T PROVE i \in T
  <2>1. PICK g : DigitsTo(base, g, i - 1)
    BY <1>2
  <2>2. g \in [0..(i - 1) -> Seq(Nat)] /\ \A k \in 0..(i - 1) : g[k] = OneDigit(base, g, k)
    BY <2>1 DEF DigitsTo
  <2>3. OneDigit(base, g, i) \in Seq(Nat)
    <3>1. CASE i < base
      BY <3>1, DigitIs DEF OneDigit
    <3>2. CASE i >= base
      <4>1. i \div base \in 0..(i - 1) /\ i % base \in Nat
        <5>1. i \in Nat
          OBVIOUS
        <5> QED
          BY <3>2, <5>1, Smaller, Zenon DEF Split
      <4>2. g[i \div base] \in Seq(Nat) /\ Digit(i % base) \in Nat
        BY <2>2, <4>1, DigitIs
      <4>3. Append(g[i \div base], Digit(i % base)) \in Seq(Nat)
        BY <4>2
      <4>4. ~(i < base)
        BY <3>2
      <4> QED
        BY <4>3, <4>4 DEF OneDigit
    <3> QED
      BY <3>1, <3>2
  <2> DEFINE f == [k \in 0..i |-> IF k = i THEN OneDigit(base, g, i) ELSE g[k]]
  <2>4. f \in [0..i -> Seq(Nat)]
    BY <2>2, <2>3
  <2>5. f[i] = OneDigit(base, g, i) /\ \A k \in 0..(i - 1) : f[k] = g[k]
    OBVIOUS
  <2> HIDE DEF f
  <2>6. ASSUME NEW k \in 0..i PROVE f[k] = OneDigit(base, f, k)
    <3>1. f[k] = OneDigit(base, g, k)
      <4>1. k = i \/ k \in 0..(i - 1)
        OBVIOUS
      <4> QED
        BY <2>2, <2>5, <4>1
    <3>2. CASE k < base
      BY <3>1, <3>2 DEF OneDigit
    <3>3. CASE k >= base
      <4>1. k \div base \in 0..(i - 1) /\ ~(k < base)
        <5>1. k \in Nat
          OBVIOUS
        <5>2. k \div base \in 0..(k - 1)
          BY <3>3, <5>1, Smaller, Zenon DEF Split
        <5> QED
          BY <3>3, <5>1, <5>2
      <4>2. f[k \div base] = g[k \div base]
        BY <2>5, <4>1
      <4> QED
        BY <3>1, <4>1, <4>2, Zenon DEF OneDigit
    <3> QED
      BY <3>2, <3>3
  <2>7. DigitsTo(base, f, i)
    BY <2>4, <2>6 DEF DigitsTo
  <2> QED
    BY <2>7
<1>3. \A i \in 1..n : i - 1 \in T => i \in T
  BY <1>2
<1> HIDE DEF T
<1>4. n \in 0..n /\ 0..n \subseteq T
  BY <1>1, <1>3, Climb
<1> QED
  BY <1>4 DEF T

(* They are always the same ones. *)
LEMMA DigitsAgree ==
  ASSUME NEW base \in Nat, base > 1, NEW m \in Nat, NEW n \in Nat, NEW f, NEW g,
         DigitsTo(base, f, m), DigitsTo(base, g, n)
  PROVE  \A k \in Nat : k <= m /\ k <= n => f[k] = g[k]
<1> DEFINE T == {k \in Nat : k <= m /\ k <= n => f[k] = g[k]}
<1>1. /\ \A k \in 0..m : f[k] = OneDigit(base, f, k)
      /\ \A k \in 0..n : g[k] = OneDigit(base, g, k)
  BY DEF DigitsTo
<1>2. ASSUME NEW k \in Nat, \A j \in 0..(k - 1) : j \in T PROVE k \in T
  <2> SUFFICES ASSUME k <= m, k <= n PROVE f[k] = g[k]
    OBVIOUS
  <2>1. f[k] = OneDigit(base, f, k) /\ g[k] = OneDigit(base, g, k)
    BY <1>1
  <2>2. CASE k < base
    BY <2>1, <2>2 DEF OneDigit
  <2>3. CASE k >= base
    <3>1. k \div base \in 0..(k - 1) /\ ~(k < base)
      BY <2>3, Smaller, Zenon DEF Split
    <3>2. k \div base \in T /\ k \div base <= m /\ k \div base <= n
      BY <1>2, <3>1
    <3>3. f[k \div base] = g[k \div base]
      BY <3>2
    <3> QED
      BY <2>1, <3>1, <3>3, Zenon DEF OneDigit
  <2> QED
    BY <2>2, <2>3
<1> HIDE DEF T
<1>3. Nat \subseteq T
  BY <1>2, ClimbAll
<1> QED
  BY <1>3 DEF T

(* The digits of a number: of the number without its last digit, and that. *)
LEMMA DigitsIs ==
  ASSUME NEW base \in Nat, base > 1, NEW k \in Nat
  PROVE  /\ Digits(base, k) \in Seq(Nat)
         /\ k < base => Digits(base, k) = <<Digit(k)>>
         /\ k >= base => Digits(base, k) = Append(Digits(base, k \div base), Digit(k % base))
<1> DEFINE Rule(f) == f = [n \in Nat |-> IF n < base THEN <<Digit(n)>>
                                         ELSE Append(f[n \div base], Digit(n % base))]
           to(n) == CHOOSE f : DigitsTo(base, f, n)
           all == [n \in Nat |-> to(n)[n]]
<1>1. ASSUME NEW n \in Nat PROVE DigitsTo(base, to(n), n)
  <2>1. \E f : DigitsTo(base, f, n)
    BY DigitsExist
  <2> QED
    BY <2>1
<1> HIDE DEF to
<1>2. \A n \in Nat : all[n] = to(n)[n]
  OBVIOUS
<1>3. ASSUME NEW n \in Nat PROVE all[n] = OneDigit(base, all, n)
  <2>1. n \in 0..n
    OBVIOUS
  <2>2. to(n)[n] = OneDigit(base, to(n), n)
    BY <1>1, <2>1, Zenon DEF DigitsTo
  <2>3. CASE n < base
    BY <2>2, <2>3 DEF OneDigit
  <2>4. CASE n >= base
    <3>1. n \div base \in Nat /\ n \div base <= n /\ ~(n < base)
      BY <2>4, Smaller, Zenon DEF Split
    <3>2. DigitsTo(base, to(n), n) /\ DigitsTo(base, to(n \div base), n \div base)
      BY <1>1, <3>1
    <3>3. to(n)[n \div base] = to(n \div base)[n \div base]
      <4>1. n \div base <= n \div base
        BY <3>1
      <4> QED
        BY <3>1, <3>2, <4>1, DigitsAgree
    <3>4. to(n)[n \div base] = all[n \div base]
      BY <1>2, <3>1, <3>3, Zenon
    <3> QED
      BY <1>2, <2>2, <3>1, <3>4, Zenon DEF OneDigit
  <2> QED
    BY <2>3, <2>4
<1>4. Rule(all)
  BY <1>3 DEF OneDigit
<1>5. ASSUME NEW n \in Nat PROVE Digits(base, n) = (CHOOSE f : Rule(f))[n]
  BY Zenon DEF Digits
<1>6. PICK F : F = CHOOSE f : Rule(f)
  OBVIOUS
<1>7. Rule(F)
  BY <1>4, <1>6, Zenon
<1>8. \A n \in Nat : F[n] = IF n < base THEN <<Digit(n)>> ELSE Append(F[n \div base], Digit(n % base))
  BY <1>7, Zenon
<1> HIDE DEF Rule
<1>9. ASSUME NEW n \in Nat PROVE Digits(base, n) = F[n]
  BY <1>5, <1>6, Zenon
<1>10. ASSUME k < base PROVE Digits(base, k) = <<Digit(k)>>
  BY <1>8, <1>9, <1>10, Zenon
<1>11. ASSUME k >= base PROVE Digits(base, k) = Append(Digits(base, k \div base), Digit(k % base))
  <2>1. k \div base \in Nat /\ ~(k < base)
    BY <1>11, Smaller, Zenon DEF Split
  <2> QED
    BY <1>8, <1>9, <2>1, Zenon
<1> DEFINE U == {n \in Nat : F[n] \in Seq(Nat)}
<1>12. ASSUME NEW n \in Nat, \A m \in 0..(n - 1) : m \in U PROVE n \in U
  <2>1. CASE n < base
    <3>1. F[n] = <<Digit(n)>>
      BY <1>8, <2>1, Zenon
    <3>2. <<Digit(n)>> \in Seq(Nat)
      BY DigitIs
    <3> QED
      BY <3>1, <3>2, Zenon
  <2>2. CASE n >= base
    <3>1. n \div base \in 0..(n - 1) /\ n % base \in Nat /\ ~(n < base)
      BY <2>2, Smaller, Zenon DEF Split
    <3>2. F[n \div base] \in Seq(Nat) /\ Digit(n % base) \in Nat
      BY <1>12, <3>1, DigitIs
    <3>3. F[n] = Append(F[n \div base], Digit(n % base))
      BY <1>8, <3>1, Zenon
    <3>4. Append(F[n \div base], Digit(n % base)) \in Seq(Nat)
      BY <3>2
    <3> QED
      BY <3>3, <3>4, Zenon
  <2> QED
    BY <2>1, <2>2
<1> HIDE DEF U
<1>13. Nat \subseteq U
  BY <1>12, ClimbAll
<1>14. Digits(base, k) \in Seq(Nat)
  BY <1>9, <1>13, Zenon DEF U
<1> QED
  BY <1>10, <1>11, <1>14

(* A digit behind others is the last to be read. *)
LEMMA ValueAppend ==
  ASSUME NEW base \in Nat, NEW zero \in Nat, NEW y \in Seq(Nat), NEW d \in Nat
  PROVE  ValueOf(base, zero, Append(y, d)) = ValueOf(base, zero, y) * base + (d - zero)
<1>1. PICK x : x = Append(y, d)
  OBVIOUS
<1>2. /\ Len(y) \in Nat /\ x \in Seq(Nat) /\ Len(x) = Len(y) + 1 /\ x[Len(y) + 1] = d
      /\ \A i \in 1..Len(y) : x[i] = y[i]
  BY <1>1, LenProperties
<1>3. PICK v : Values(v, base, zero, x) /\ ValueOf(base, zero, x) = v[Len(x)]
  BY <1>2, ValueIs
<1>4. PICK u : Values(u, base, zero, y) /\ ValueOf(base, zero, y) = u[Len(y)]
  BY ValueIs
<1>5. v[0] = 0 /\ \A i \in 1..Len(x) : v[i] = v[i - 1] * base + (x[i] - zero)
  BY <1>3 DEF Values
<1>6. u[0] = 0 /\ \A i \in 1..Len(y) : u[i] = u[i - 1] * base + (y[i] - zero)
  BY <1>4 DEF Values
<1> DEFINE T == {i \in 0..Len(y) : v[i] = u[i]}
<1>7. 0 \in T
  BY <1>2, <1>5, <1>6
<1>8. ASSUME NEW i \in 1..Len(y), i - 1 \in T PROVE i \in T
  <2>1. i \in 1..Len(x) /\ x[i] = y[i] /\ v[i - 1] = u[i - 1] /\ i \in 0..Len(y)
    BY <1>2, <1>8
  <2>2. v[i] = v[i - 1] * base + (x[i] - zero) /\ u[i] = u[i - 1] * base + (y[i] - zero)
    BY <1>5, <1>6, <2>1
  <2> QED
    BY <2>1, <2>2, Zenon
<1>9. \A i \in 1..Len(y) : i - 1 \in T => i \in T
  BY <1>8
<1> HIDE DEF T
<1>10. 0..Len(y) \subseteq T
  BY <1>2, <1>7, <1>9, Climb
<1>11. v[Len(y)] = u[Len(y)]
  <2>1. Len(y) \in 0..Len(y)
    BY <1>2
  <2> QED
    BY <1>10, <2>1, Zenon DEF T
<1>12. Len(x) \in 1..Len(x) /\ Len(x) - 1 = Len(y)
  BY <1>2
<1>13. v[Len(x)] = v[Len(y)] * base + (d - zero)
  BY <1>2, <1>5, <1>12
<1> QED
  BY <1>1, <1>3, <1>4, <1>11, <1>13, Zenon

(* t is the text of k: it is not empty, reads as the number, and begins with
   a digit that is not zero unless it is the only one. *)
ReadsAs(t, k) ==
  /\ t \in Seq(Nat) /\ Len(t) > 0 /\ t[1] \in 48..57
  /\ ValueOf(10, 48, t) = k
  /\ (t[1] = 48 => t = << 48 >>) /\ (k > 0 => t[1] # 48)

(* The decimal digits of every number are its text. *)
LEMMA DigitsRead ==
  ASSUME NEW n \in Nat
  PROVE  ReadsAs(Digits(10, n), n)
<1> DEFINE T == {k \in Nat : ReadsAs(Digits(10, k), k)}
<1>1. PICK ten \in Nat : ten = 10
  OBVIOUS
<1>2. ASSUME NEW k \in Nat, \A m \in 0..(k - 1) : m \in T PROVE k \in T
  <2>1. PICK t : t = Digits(10, k)
    OBVIOUS
  <2>2. CASE k < ten
    <3>1. t = <<48 + k>>
      <4>1. t = <<Digit(k)>> /\ Digit(k) = 48 + k
        BY <1>1, <2>1, <2>2, DigitsIs, DigitIs
      <4> QED
        BY <4>1
    <3>2. t \in Seq(Nat) /\ Len(t) = 1 /\ t[1] = 48 + k
      BY <3>1
    <3>3. ValueOf(10, 48, t) = k
      <4>1. PICK e : e = <<>>
        OBVIOUS
      <4>2. e \in Seq(Nat) /\ Len(e) = 0 /\ t = Append(e, 48 + k)
        BY <3>1, <4>1
      <4>3. PICK zero \in Nat, d \in Nat : zero = 48 /\ d = 48 + k
        OBVIOUS
      <4>4. PICK v : Values(v, ten, zero, e) /\ ValueOf(ten, zero, e) = v[Len(e)]
        BY <4>2, ValueIs
      <4>5. ValueOf(ten, zero, e) = 0
        BY <4>2, <4>4 DEF Values
      <4>6. ValueOf(ten, zero, Append(e, d)) = ValueOf(ten, zero, e) * ten + (d - zero)
        <5>1. e \in Seq(Nat)
          BY <4>2
        <5> QED
          BY <5>1, ValueAppend, SMTT(60)
      <4>7. ValueOf(ten, zero, e) * ten + (d - zero) = k
        BY <1>1, <4>3, <4>5
      <4> QED
        BY <1>1, <4>2, <4>3, <4>6, <4>7, Zenon
    <3>4. t[1] \in 48..57 /\ (t[1] = 48 => t = << 48 >>) /\ (k > 0 => t[1] # 48)
      BY <1>1, <2>2, <3>1, <3>2
    <3>5. ReadsAs(t, k)
      BY <3>2, <3>3, <3>4 DEF ReadsAs
    <3> QED
      BY <2>1, <3>5
  <2>3. CASE k >= ten
    <3>1. PICK q, m : q = k \div ten /\ m = k % ten
      OBVIOUS
    <3>2. /\ q \in 0..(k - 1) /\ q > 0 /\ m \in 0..(ten - 1) /\ q \in Nat /\ m \in Nat
          /\ k = q * ten + m
      <4>1. Split(ten, k)
        <5>1. ten > 1
          BY <1>1
        <5> QED
          BY <2>3, <5>1, Smaller
      <4> QED
        BY <3>1, <4>1, Zenon DEF Split
    <3>3. PICK y, d : y = Digits(10, q) /\ d = Digit(m)
      OBVIOUS
    <3>4. ReadsAs(y, q)
      BY <1>2, <3>2, <3>3
    <3>5. d \in Nat /\ d - 48 = m
      BY <1>1, <3>2, <3>3, DigitIs
    <3>6. t = Append(y, d)
      <4>1. ten > 1
        BY <1>1
      <4>2. Digits(ten, k) = Append(Digits(ten, q), Digit(m))
        BY <2>3, <3>1, <4>1, DigitsIs
      <4> QED
        BY <1>1, <2>1, <3>3, <4>2, Zenon
    <3>7. y \in Seq(Nat) /\ Len(y) > 0 /\ ValueOf(10, 48, y) = q /\ y[1] \in 48..57 /\ y[1] # 48
      BY <3>2, <3>4 DEF ReadsAs
    <3>8. t \in Seq(Nat) /\ Len(t) > 0 /\ t[1] = y[1]
      BY <3>5, <3>6, <3>7
    <3>9. ValueOf(10, 48, t) = k
      <4>1. PICK zero \in Nat : zero = 48
        OBVIOUS
      <4>2. ValueOf(ten, zero, Append(y, d)) = ValueOf(ten, zero, y) * ten + (d - zero)
        BY <3>5, <3>7, ValueAppend
      <4>3. ValueOf(ten, zero, y) = q /\ d - zero = m
        BY <1>1, <3>5, <3>7, <4>1, Zenon
      <4> QED
        BY <1>1, <3>2, <3>6, <4>1, <4>2, <4>3, Zenon
    <3>10. ReadsAs(t, k)
      BY <3>7, <3>8, <3>9, Zenon DEF ReadsAs
    <3> QED
      BY <2>1, <3>10
  <2> QED
    BY <1>1, <2>2, <2>3
<1> HIDE DEF T
<1>3. Nat \subseteq T
  BY <1>2, ClimbAll
<1> QED
  BY <1>3 DEF T

-----------------------------------------------------------------------------
(* Remainders. *)

(* What is added as often as one likes does not change the remainder. *)
LEMMA ModShift ==
  ASSUME NEW n \in Nat, n > 0, NEW x \in Int, NEW k \in Int, NEW y \in Int, y = k * n + x
  PROVE  y % n = x % n
<1>1. PICK q, m, a, b : q = x \div n /\ m = x % n /\ a = y \div n /\ b = y % n
  OBVIOUS
<1>2. /\ q \in Int /\ m \in Int /\ x = n * q + m /\ 0 <= m /\ m < n
      /\ a \in Int /\ b \in Int /\ y = n * a + b /\ 0 <= b /\ b < n
  <2>1. x \div n \in Int /\ x % n \in Int /\ x = n * (x \div n) + (x % n) /\ 0 <= x % n /\ x % n < n
    OBVIOUS
  <2>2. y \div n \in Int /\ y % n \in Int /\ y = n * (y \div n) + (y % n) /\ 0 <= y % n /\ y % n < n
    OBVIOUS
  <2> QED
    BY <1>1, <2>1, <2>2
<1>3. PICK d \in Int : d = a - (q + k)
  BY <1>2
<1>4. n * d = m - b
  <2>1. n * d = n * a - (n * q + k * n)
    BY <1>2, <1>3, SMT
  <2> QED
    BY <1>2, <2>1
<1>5. ~(d >= 1)
  <2>1. ASSUME d >= 1 PROVE FALSE
    <3>1. n * d >= n
      BY <1>3, <2>1, SMT
    <3> QED
      BY <1>2, <1>4, <3>1
  <2> QED
    BY <2>1
<1>6. ~(d <= -1)
  <2>1. ASSUME d <= -1 PROVE FALSE
    <3>1. n * d <= -n
      BY <1>3, <2>1, SMT
    <3> QED
      BY <1>2, <1>4, <3>1
  <2> QED
    BY <2>1
<1>7. d = 0
  BY <1>3, <1>5, <1>6
<1>8. m = b
  BY <1>2, <1>4, <1>7
<1> QED
  BY <1>1, <1>8

(* Taking the remainder at every digit gives the remainder of the number. *)
LEMMA RemainderIs ==
  ASSUME NEW n \in Nat, n > 1, NEW r \in Seq(Nat)
  PROVE  randommod(n, r) = ValueOf(256, 0, r) % n
<1> DEFINE Rule(f) == f = [j \in 0..Len(r) |-> IF j = 0 THEN 0 ELSE (f[j - 1] * 256 + r[j]) % n]
<1> HIDE DEF Rule
<1>1. PICK v : Values(v, 256, 0, r) /\ ValueOf(256, 0, r) = v[Len(r)]
  <2>1. PICK b \in Nat : b = 256
    OBVIOUS
  <2>2. \E v : Values(v, b, 0, r) /\ ValueOf(b, 0, r) = v[Len(r)]
    BY ValueIs
  <2> QED
    BY <2>1, <2>2, Zenon
<1>2. Len(r) \in Nat /\ \A j \in 1..Len(r) : r[j] \in Nat
  BY LenProperties, ElementOfSeq
<1>3. v \in [0..Len(r) -> Int] /\ v[0] = 0 /\ \A j \in 1..Len(r) : v[j] = v[j - 1] * 256 + (r[j] - 0)
  BY <1>1 DEF Values
<1> DEFINE w == [j \in 0..Len(r) |-> v[j] % n]
<1>4. w[0] = 0
  BY <1>2, <1>3
<1>5. ASSUME NEW j \in 1..Len(r) PROVE w[j] = (w[j - 1] * 256 + r[j]) % n
  <2>1. j - 1 \in 0..Len(r) /\ j \in 0..Len(r)
    BY <1>2
  <2>2. PICK x \in Int, q \in Int, m \in Int, c \in Int :
          x = v[j - 1] /\ x = q * n + m /\ m = x % n /\ c = r[j]
    <3>0. v[j - 1] \in Int /\ r[j] \in Int
      BY <1>2, <1>3, <2>1
    <3>1. PICK x \in Int, c \in Int : x = v[j - 1] /\ c = r[j]
      BY <3>0
    <3>2. x \div n \in Int /\ x % n \in Int /\ x = (x \div n) * n + (x % n)
      <4>1. x \div n \in Int /\ x % n \in Int /\ x = n * (x \div n) + (x % n)
        OBVIOUS
      <4> QED
        BY <4>1, SMT
    <3> QED
      BY <3>1, <3>2, Zenon
  <2>3. PICK y \in Int, z \in Int, k \in Int : y = x * 256 + c /\ z = m * 256 + c /\ k = q * 256
    BY <2>2, SMTT(30)
  <2>4. y = k * n + z
    <3>1. k * n = (q * n) * 256
      <4>1. (q * 256) * n = (q * n) * 256
        OBVIOUS
      <4> QED
        BY <2>3, <4>1, Zenon
    <3>2. y = (q * n) * 256 + m * 256 + c
      <4>1. y = (q * n + m) * 256 + c
        BY <2>2, <2>3, Zenon
      <4>2. q * n \in Int
        OBVIOUS
      <4> QED
        BY <4>1, <4>2, SMT
    <3> QED
      BY <2>3, <3>1, <3>2
  <2>5. y % n = z % n
    <3>1. n > 0
      OBVIOUS
    <3> QED
      BY <2>4, <3>1, ModShift, Zenon
  <2>6. v[j] = y
    <3>1. v[j] = v[j - 1] * 256 + (r[j] - 0)
      BY <1>3
    <3>2. v[j] = x * 256 + (c - 0)
      BY <2>2, <3>1, Zenon
    <3> QED
      BY <2>3, <3>2
  <2>7. w[j] = y % n /\ w[j - 1] = m
    BY <2>1, <2>2, <2>6
  <2> QED
    BY <2>2, <2>3, <2>5, <2>7, Zenon
<1>6. Rule(w)
  <2>1. w = [j \in 0..Len(r) |-> IF j = 0 THEN 0 ELSE (w[j - 1] * 256 + r[j]) % n]
    <3>1. ASSUME NEW j \in 0..Len(r) PROVE w[j] = IF j = 0 THEN 0 ELSE (w[j - 1] * 256 + r[j]) % n
      <4>1. j = 0 \/ j \in 1..Len(r)
        BY <1>2
      <4>2. j \in 1..Len(r) => j # 0
        BY <1>2
      <4> QED
        BY <1>4, <1>5, <4>1, <4>2, Zenon
    <3>2. w = [j \in 0..Len(r) |-> w[j]]
      OBVIOUS
    <3> HIDE DEF w
    <3> QED
      BY <3>1, <3>2, Zenon
  <2> QED
    BY <2>1, Zenon DEF Rule
<1> HIDE DEF w
<1>7. ASSUME NEW f, Rule(f) PROVE f[Len(r)] = w[Len(r)]
  <2> DEFINE T == {j \in 0..Len(r) : f[j] = w[j]}
  <2>1. 0 \in T
    BY <1>2, <1>4, <1>7 DEF Rule
  <2>2. ASSUME NEW j \in 1..Len(r), j - 1 \in T PROVE j \in T
    <3>1. f[j - 1] = w[j - 1] /\ j \in 0..Len(r) /\ j # 0
      BY <2>2
    <3>2. f[j] = (f[j - 1] * 256 + r[j]) % n
      BY <1>7, <3>1, Zenon DEF Rule
    <3>3. f[j] = w[j]
      BY <1>5, <3>1, <3>2, Zenon
    <3> QED
      BY <3>1, <3>3
  <2>3. \A j \in 1..Len(r) : j - 1 \in T => j \in T
    BY <2>2
  <2> HIDE DEF T
  <2>4. 0..Len(r) \subseteq T
    BY <1>2, <2>1, <2>3, Climb
  <2>5. Len(r) \in 0..Len(r)
    BY <1>2
  <2> QED
    BY <2>4, <2>5, Zenon DEF T
<1>8. randommod(n, r) = (CHOOSE f : Rule(f))[Len(r)]
  <2>1. ~(n <= 1)
    OBVIOUS
  <2> QED
    BY <2>1, Zenon DEF randommod, Rule
<1>9. Rule(CHOOSE f : Rule(f))
  BY <1>6, Zenon
<1>10. randommod(n, r) = w[Len(r)]
  BY <1>7, <1>8, <1>9, Zenon
<1>11. w[Len(r)] = v[Len(r)] % n
  BY <1>2 DEF w
<1> QED
  BY <1>1, <1>10, <1>11, Zenon

(* Without the sign in front of it, a text is what was behind the sign. *)
LEMMA SignFirst ==
  ASSUME NEW d \in Nat, NEW y \in Seq(Nat), NEW t, t = <<d>> \o y
  PROVE  t[1] = d /\ Tail(t) = y
<1>1. PICK s : s = <<d>>
  OBVIOUS
<1>2. s \in Seq(Nat) /\ Len(s) = 1 /\ s[1] = d
  BY <1>1
<1>3. Len(y) \in Nat
  BY LenProperties
<1>4. /\ t \in Seq(Nat) /\ Len(t) = 1 + Len(y) /\ t[1] = d
      /\ \A i \in 1..Len(y) : t[1 + i] = y[i]
  <2>1. s \in Seq(Nat)
    BY <1>2
  <2>2. /\ s \o y \in Seq(Nat) /\ Len(s \o y) = Len(s) + Len(y)
        /\ \A i \in 1..Len(s) : (s \o y)[i] = s[i]
        /\ \A i \in 1..Len(y) : (s \o y)[Len(s) + i] = y[i]
    BY <2>1, Joint
  <2>3. 1 \in 1..Len(s)
    BY <1>2
  <2> QED
    BY <1>1, <1>2, <2>2, <2>3
<1>5. t # <<>>
  BY <1>3, <1>4
<1>6. Tail(t) \in Seq(Nat) /\ Len(Tail(t)) = Len(t) - 1 /\ \A i \in 1..Len(Tail(t)) : Tail(t)[i] = t[i + 1]
  BY <1>4, <1>5, HeadTailProperties
<1>7. PICK u : u = Tail(t)
  OBVIOUS
<1>8. ASSUME NEW i \in 1..Len(y) PROVE u[i] = y[i]
  <2>1. i \in 1..Len(Tail(t)) /\ i + 1 = 1 + i
    BY <1>3, <1>4, <1>6
  <2> QED
    BY <1>4, <1>6, <1>7, <2>1
<1>9. u \in Seq(Nat) /\ Len(u) = Len(y)
  BY <1>3, <1>4, <1>6, <1>7
<1>10. u = y
  BY <1>8, <1>9, SameElements
<1> QED
  BY <1>4, <1>7, <1>10

(***************************************************************************)
(* Numbers as text (numtostr.c, porttostr.c), of any width: the text reads *)
(* as the number, the most negative one included, whose absolute value has *)
(* no sign of its own; it has no needless zero. And a remainder that is    *)
(* taken byte by byte (randommod.c) is the remainder of the whole number.  *)
(* (That a power of two is a number is arithmetic the provers do not       *)
(* have; so it is said here.)                                              *)
(***************************************************************************)
THEOREM NumbersRead ==
  ASSUME NEW width \in Nat, 2^width \in Nat, NEW n \in Int, -n < 2^width,
         NEW r \in Seq(Octet), Len(r) >= 2
  PROVE  NumberRight(width, n, r)
<1>1. PICK t : t = numtostr(width, n)
  OBVIOUS
<1>2. PICK digits : digits = IF n < 0 THEN Tail(t) ELSE t
  OBVIOUS
<1>3. PICK a \in Nat : a = IF n < 0 THEN -n ELSE n
  OBVIOUS
<1>4. PICK y : y = Digits(10, a)
  OBVIOUS
<1>5. ReadsAs(y, a)
  BY <1>4, DigitsRead
<1>6. y \in Seq(Nat) /\ Len(y) > 0 /\ y[1] \in 48..57 /\ ValueOf(10, 48, y) = a /\ (y[1] = 48 => y = << 48 >>)
  BY <1>5 DEF ReadsAs
<1>7. ASSUME n < 0 PROVE digits = y /\ t[1] = Dash
  <2>1. (-n) % 2^width = a
    <3>1. PICK p \in Nat : p = 2^width
      OBVIOUS
    <3>2. a = -n /\ a < p
      BY <1>3, <1>7, <3>1
    <3>3. a % p = a
      BY <3>2
    <3> QED
      BY <3>1, <3>2, <3>3, Zenon
  <2>2. t = <<Dash>> \o y
    BY <1>1, <1>4, <1>7, <2>1, Zenon DEF numtostr
  <2>3. t[1] = Dash /\ Tail(t) = y
    <3>1. PICK d : d = Dash
      OBVIOUS
    <3>2. d \in Nat /\ t = <<d>> \o y
      BY <2>2, <3>1 DEF Dash
    <3> QED
      BY <1>6, <3>1, <3>2, SignFirst, Zenon
  <2> QED
    BY <1>2, <1>7, <2>3, Zenon
<1>8. ASSUME ~(n < 0) PROVE digits = y /\ t[1] # Dash
  <2>1. t = y
    BY <1>1, <1>3, <1>4, <1>8, Zenon DEF numtostr
  <2>2. t[1] # Dash
    BY <1>6, <2>1 DEF Dash
  <2> QED
    BY <1>2, <1>8, <2>1, <2>2, Zenon
<1>9. ((t[1] = Dash) <=> (n < 0)) /\ ValueOf(10, 48, digits) = (IF n < 0 THEN -n ELSE n)
      /\ (digits[1] = 48 => digits = << 48 >>)
  <2>1. digits = y
    BY <1>7, <1>8, Zenon
  <2> QED
    BY <1>3, <1>6, <1>7, <1>8, <2>1, Zenon
<1>10. ValueOf(10, 48, porttostr(r)) = r[1] * 256 + r[2]
  <2>1. PICK p : p = r[1] * 256 + r[2]
    OBVIOUS
  <2>2. p \in Nat
    <3>1. 1 \in 1..Len(r) /\ 2 \in 1..Len(r)
      BY LenProperties
    <3>2. r[1] \in Octet /\ r[2] \in Octet
      BY <3>1, ElementOfSeq
    <3>3. PICK a1, a2 : a1 = r[1] /\ a2 = r[2]
      OBVIOUS
    <3>4. a1 \in 0..255 /\ a2 \in 0..255 /\ p = a1 * 256 + a2
      BY <2>1, <3>2, <3>3, Zenon DEF Octet
    <3> QED
      BY <3>4
  <2>3. ReadsAs(Digits(10, p), p)
    BY <2>2, DigitsRead
  <2> QED
    BY <2>1, <2>3, Zenon DEF ReadsAs, porttostr
<1>11. randommod(n, r) = (IF n <= 1 THEN 0 ELSE ValueOf(256, 0, r) % n)
  <2>1. CASE n <= 1
    BY <2>1, Zenon DEF randommod
  <2>2. CASE n > 1
    <3>1. n \in Nat /\ ~(n <= 1) /\ r \in Seq(Nat)
      BY <2>2, OctetsNat
    <3>2. randommod(n, r) = ValueOf(256, 0, r) % n
      BY <2>2, <3>1, RemainderIs
    <3> QED
      BY <3>1, <3>2, Zenon
  <2> QED
    BY <2>1, <2>2
<1> QED
  BY <1>1, <1>2, <1>9, <1>10, <1>11, Zenon DEF NumberRight
-----------------------------------------------------------------------------
(* Lists. *)

(* From pos on there are only commas; the first other byte is behind p; the
   item that begins behind p ends at i. *)
Blank(s, pos) == \A j \in (pos + 1)..Len(s) : s[j] = Comma
Skips(s, pos, p) ==
  /\ p \in pos..(Len(s) - 1) /\ s[p + 1] # Comma
  /\ \A j \in (pos + 1)..p : s[j] = Comma
Ends(s, p, i) ==
  /\ i \in p..Len(s)
  /\ \A j \in (p + 1)..i : s[j] # Comma
  /\ i = Len(s) \/ s[i + 1] = Comma

(* There is exactly one end of what begins behind p. *)
LEMMA OneEnd ==
  ASSUME NEW s \in Seq(Octet), NEW p \in 0..Len(s)
  PROVE  /\ \E i : Ends(s, p, i)
         /\ \A i, j : Ends(s, p, i) /\ Ends(s, p, j) => i = j
<1>1. Len(s) \in Nat
  BY LenProperties
<1> DEFINE T == {i \in p..Len(s) : i = Len(s) \/ s[i + 1] = Comma}
<1>2. T \subseteq Nat /\ Len(s) \in T
  BY <1>1
<1>3. PICK i \in T : \A y \in T : i <= y
  <2>1. Min(T) \in T /\ \A y \in T : Min(T) <= y
    BY <1>2, LeastIs
  <2> QED
    BY <2>1
<1>4. \A j \in (p + 1)..i : s[j] # Comma
  <2> SUFFICES ASSUME NEW j \in (p + 1)..i, s[j] = Comma PROVE FALSE
    OBVIOUS
  <2>1. j - 1 \in p..Len(s) /\ (j - 1) + 1 = j /\ ~(i <= j - 1)
    BY <1>1, <1>3
  <2>2. j - 1 \in T
    BY <2>1
  <2> QED
    BY <1>3, <2>1, <2>2
<1>5. Ends(s, p, i)
  BY <1>3, <1>4 DEF Ends
<1>6. ASSUME NEW a, NEW b, Ends(s, p, a), Ends(s, p, b), a < b PROVE FALSE
  <2>1. a \in p..Len(s) /\ b \in p..Len(s) /\ a + 1 \in (p + 1)..b /\ a # Len(s)
    BY <1>1, <1>6 DEF Ends
  <2> QED
    BY <1>6, <2>1 DEF Ends
<1>7. ASSUME NEW a, NEW b, Ends(s, p, a), Ends(s, p, b) PROVE a = b
  <2>1. a \in Int /\ b \in Int
    BY <1>1, <1>7 DEF Ends
  <2>2. ~(a < b) /\ ~(b < a)
    BY <1>6, <1>7
  <2> QED
    BY <2>1, <2>2
<1> QED
  BY <1>5, <1>7

(* Unless there are only commas, exactly one place is before the next item. *)
LEMMA OneStart ==
  ASSUME NEW s \in Seq(Octet), NEW pos \in Nat, ~Blank(s, pos)
  PROVE  /\ \E p : Skips(s, pos, p)
         /\ \A p, q : Skips(s, pos, p) /\ Skips(s, pos, q) => p = q
<1>1. Len(s) \in Nat
  BY LenProperties
<1> DEFINE T == {p \in pos..(Len(s) - 1) : s[p + 1] # Comma}
<1>2. PICK k \in (pos + 1)..Len(s) : s[k] # Comma
  BY DEF Blank
<1>3. k - 1 \in pos..(Len(s) - 1) /\ (k - 1) + 1 = k
  BY <1>1
<1>4. T \subseteq Nat /\ k - 1 \in T
  BY <1>1, <1>2, <1>3
<1>5. PICK p \in T : \A y \in T : p <= y
  <2>1. Min(T) \in T /\ \A y \in T : Min(T) <= y
    BY <1>4, LeastIs
  <2> QED
    BY <2>1
<1>6. \A j \in (pos + 1)..p : s[j] = Comma
  <2> SUFFICES ASSUME NEW j \in (pos + 1)..p, s[j] # Comma PROVE FALSE
    OBVIOUS
  <2>1. j - 1 \in pos..(Len(s) - 1) /\ (j - 1) + 1 = j /\ ~(p <= j - 1)
    BY <1>1, <1>5
  <2>2. j - 1 \in T
    BY <2>1
  <2> QED
    BY <1>5, <2>1, <2>2
<1>7. Skips(s, pos, p)
  BY <1>5, <1>6 DEF Skips
<1>8. ASSUME NEW a, NEW b, Skips(s, pos, a), Skips(s, pos, b), a < b PROVE FALSE
  <2>1. a \in pos..(Len(s) - 1) /\ b \in pos..(Len(s) - 1) /\ a + 1 \in (pos + 1)..b
    BY <1>1, <1>8 DEF Skips
  <2> QED
    BY <1>8, <2>1 DEF Skips
<1>9. ASSUME NEW a, NEW b, Skips(s, pos, a), Skips(s, pos, b) PROVE a = b
  <2>1. a \in Int /\ b \in Int
    BY <1>1, <1>9 DEF Skips
  <2>2. ~(a < b) /\ ~(b < a)
    BY <1>8, <1>9
  <2> QED
    BY <2>1, <2>2
<1> QED
  BY <1>7, <1>9

(* The next item, said without going byte by byte. *)
NextItem(s, pos) ==
  IF Blank(s, pos) THEN [pos |-> 0, x |-> <<>>]
  ELSE LET p == CHOOSE p : Skips(s, pos, p)
           i == CHOOSE i : Ends(s, p, i)
       IN [pos |-> i + 1, x |-> SubSeq(s, p + 1, i)]
ItemAt(s, p, i) == [pos |-> i + 1, x |-> SubSeq(s, p + 1, i)]

(* What it is for the two places there are. *)
LEMMA NextItemIs ==
  ASSUME NEW s \in Seq(Octet), NEW pos \in Nat, NEW p, NEW i, Skips(s, pos, p), Ends(s, p, i)
  PROVE  NextItem(s, pos) = ItemAt(s, p, i)
<1>1. Len(s) \in Nat
  BY LenProperties
<1>2. p \in 0..Len(s) /\ p + 1 \in (pos + 1)..Len(s) /\ s[p + 1] # Comma
  BY <1>1 DEF Skips
<1>3. ~Blank(s, pos)
  BY <1>2 DEF Blank
<1>4. p = (CHOOSE q : Skips(s, pos, q))
  BY <1>3, OneStart
<1>5. i = (CHOOSE j : Ends(s, p, j))
  BY <1>2, OneEnd
<1> QED
  BY <1>3, <1>4, <1>5, Zenon DEF NextItem, ItemAt
-----------------------------------------------------------------------------
(* What a step of stringparser's loop gives, when the rest gives f. *)
EndFrom(s, pos) ==
  CHOOSE i \in pos..Len(s) : /\ \A j \in (pos + 1)..i : s[j] # Comma
                             /\ i = Len(s) \/ s[i + 1] = Comma
ParseStep(s, f, pos) ==
  IF pos >= Len(s) THEN [pos |-> 0, x |-> <<>>]
  ELSE IF EndFrom(s, pos) = pos THEN f[EndFrom(s, pos) + 1]
  ELSE [pos |-> EndFrom(s, pos) + 1, x |-> SubSeq(s, pos + 1, EndFrom(s, pos))]

(* Where it looks first. *)
LEMMA EndFromIs ==
  ASSUME NEW s \in Seq(Octet), NEW pos \in 0..Len(s)
  PROVE  Ends(s, pos, EndFrom(s, pos))
<1>1. PICK i : Ends(s, pos, i)
  BY OneEnd
<1>2. \E j \in pos..Len(s) : /\ \A k \in (pos + 1)..j : s[k] # Comma
                             /\ j = Len(s) \/ s[j + 1] = Comma
  BY <1>1 DEF Ends
<1> DEFINE E == EndFrom(s, pos)
<1>3. /\ E \in pos..Len(s)
      /\ \A k \in (pos + 1)..E : s[k] # Comma
      /\ E = Len(s) \/ s[E + 1] = Comma
  BY <1>2, Zenon DEF EndFrom
<1> QED
  BY <1>3, Zenon DEF Ends

(* The next item obeys the step. *)
LEMMA NextItemSteps ==
  ASSUME NEW s \in Seq(Octet), NEW f, NEW pos \in Nat, f[pos + 1] = NextItem(s, pos + 1)
  PROVE  ParseStep(s, f, pos) = NextItem(s, pos)
<1>1. Len(s) \in Nat
  BY LenProperties
<1>2. CASE pos >= Len(s)
  <2>1. Blank(s, pos)
    BY <1>1, <1>2 DEF Blank
  <2> QED
    BY <1>2, <2>1, Zenon DEF ParseStep, NextItem
<1>3. CASE pos < Len(s)
  <2>1. PICK i : i = EndFrom(s, pos)
    OBVIOUS
  <2>2. Ends(s, pos, i)
    BY <1>1, <1>3, <2>1, EndFromIs
  <2>3. i \in pos..Len(s) /\ i \in Nat
    BY <1>1, <2>2 DEF Ends
  <2>4. CASE i = pos
    <3>1. s[pos + 1] = Comma
      BY <1>1, <1>3, <2>2, <2>4 DEF Ends
    <3>2. NextItem(s, pos + 1) = NextItem(s, pos)
      <4>1. CASE Blank(s, pos + 1)
        <5>1. Blank(s, pos)
          <6>1. \A j \in (pos + 1)..Len(s) : j = pos + 1 \/ j \in (pos + 1 + 1)..Len(s)
            BY <1>1
          <6> QED
            BY <3>1, <4>1, <6>1 DEF Blank
        <5> QED
          BY <4>1, <5>1, Zenon DEF NextItem
      <4>2. CASE ~Blank(s, pos + 1)
        <5>1. PICK p : Skips(s, pos + 1, p)
          BY <4>2, OneStart
        <5>2. p \in (pos + 1)..(Len(s) - 1) /\ p \in 0..Len(s)
          BY <1>1, <5>1 DEF Skips
        <5>3. \A j \in (pos + 1)..p : j = pos + 1 \/ j \in (pos + 1 + 1)..p
          BY <1>1
        <5>4. Skips(s, pos, p)
          BY <1>1, <3>1, <5>1, <5>2, <5>3 DEF Skips
        <5>5. PICK e : Ends(s, p, e)
          BY <5>2, OneEnd
        <5>6. NextItem(s, pos) = ItemAt(s, p, e)
          BY <5>4, <5>5, NextItemIs
        <5>7. NextItem(s, pos + 1) = ItemAt(s, p, e)
          <6>1. pos + 1 \in Nat
            OBVIOUS
          <6> QED
            BY <5>1, <5>5, <6>1, NextItemIs
        <5> QED
          BY <5>6, <5>7
      <4> QED
        BY <4>1, <4>2
    <3>3. ParseStep(s, f, pos) = f[pos + 1]
      BY <1>1, <1>3, <2>1, <2>4 DEF ParseStep
    <3> QED
      BY <3>2, <3>3
  <2>5. CASE i # pos
    <3>1. pos + 1 \in (pos + 1)..i
      BY <2>3, <2>5
    <3>2. s[pos + 1] # Comma
      BY <2>2, <3>1 DEF Ends
    <3>3. Skips(s, pos, pos)
      BY <1>1, <1>3, <3>2 DEF Skips
    <3>4. NextItem(s, pos) = ItemAt(s, pos, i)
      BY <2>2, <3>3, NextItemIs
    <3>5. ~(pos >= Len(s))
      BY <1>1, <1>3
    <3> QED
      BY <2>1, <2>5, <3>4, <3>5, Zenon DEF ParseStep, ItemAt
  <2> QED
    BY <2>4, <2>5
<1> QED
  BY <1>1, <1>2, <1>3

(* stringparser gives the next item. *)
LEMMA ParserIs ==
  ASSUME NEW s \in Seq(Octet), NEW pos \in Nat
  PROVE  stringparser(s, pos) = NextItem(s, pos)
<1> DEFINE Rule(f) == f = [q \in Nat |-> ParseStep(s, f, q)]
           W == [q \in Nat |-> NextItem(s, q)]
           n == Len(s)
<1>1. n \in Nat
  BY LenProperties
<1>2. Rule(W)
  <2>1. \A q \in Nat : ParseStep(s, W, q) = NextItem(s, q)
    <3> SUFFICES ASSUME NEW q \in Nat PROVE ParseStep(s, W, q) = NextItem(s, q)
      OBVIOUS
    <3>1. W[q + 1] = NextItem(s, q + 1)
      OBVIOUS
    <3> HIDE DEF W
    <3> QED
      BY <3>1, NextItemSteps
  <2> QED
    BY <2>1, Zenon
<1>3. ASSUME NEW f, Rule(f) PROVE f = W
  <2> DEFINE S == {m \in 0..n : f[n - m] = NextItem(s, n - m)}
  <2>1. \A q \in Nat : f[q] = ParseStep(s, f, q)
    BY <1>3, Zenon
  <2>2. \A q \in Nat : q >= n => f[q] = NextItem(s, q)
    <3> SUFFICES ASSUME NEW q \in Nat, q >= n PROVE f[q] = NextItem(s, q)
      OBVIOUS
    <3>1. Blank(s, q)
      BY <1>1 DEF Blank
    <3> QED
      BY <2>1, <3>1, Zenon DEF ParseStep, NextItem
  <2>3. 0 \in S
    <3>1. n - 0 = n /\ n >= n
      BY <1>1
    <3> QED
      BY <1>1, <2>2, <3>1
  <2>4. ASSUME NEW i \in 1..n, i - 1 \in S PROVE i \in S
    <3>1. n - (i - 1) = (n - i) + 1 /\ n - i \in Nat /\ i \in 0..n
      BY <1>1
    <3>2. f[(n - i) + 1] = NextItem(s, (n - i) + 1)
      BY <2>4, <3>1
    <3> HIDE DEF n
    <3>3. ParseStep(s, f, n - i) = NextItem(s, n - i)
      BY <3>1, <3>2, NextItemSteps
    <3>4. f[n - i] = NextItem(s, n - i)
      BY <2>1, <3>1, <3>3
    <3> QED
      BY <3>1, <3>4
  <2> HIDE DEF S
  <2>5. 0..n \subseteq S
    BY <1>1, <2>3, <2>4, Climb
  <2>6. \A q \in Nat : f[q] = NextItem(s, q)
    <3> SUFFICES ASSUME NEW q \in Nat PROVE f[q] = NextItem(s, q)
      OBVIOUS
    <3>1. CASE q >= n
      BY <2>2, <3>1
    <3>2. CASE q < n
      <4>1. n - q \in 0..n /\ n - (n - q) = q
        BY <1>1, <3>2
      <4>2. n - q \in S
        BY <2>5, <4>1
      <4> QED
        BY <4>1, <4>2 DEF S
    <3> QED
      BY <1>1, <3>1, <3>2
  <2>7. f = [q \in Nat |-> f[q]]
    BY <1>3
  <2> QED
    BY <2>6, <2>7
<1>4. stringparser(s, pos) = (CHOOSE f : Rule(f))[pos]
  BY Zenon DEF stringparser, ParseStep, EndFrom
<1> HIDE DEF Rule, W
<1>5. Rule(CHOOSE f : Rule(f))
  BY <1>2
<1>6. (CHOOSE f : Rule(f)) = W
  BY <1>3, <1>5
<1> QED
  BY <1>4, <1>6 DEF W
-----------------------------------------------------------------------------
(* What the next item says of the places of the list. *)
Goes(s, pos, nx) ==
  IF nx.pos = 0 THEN \A c \in ItemEnds(s) : ~(pos < c)
  ELSE /\ nx.pos \in ItemEnds(s) /\ nx.pos \in Cuts(s) /\ nx.pos > pos
       /\ nx.x = ItemBefore(s, nx.pos)
       /\ \A c \in ItemEnds(s) : ~(pos < c /\ c < nx.pos)

(* The places of a list are numbers. *)
LEMMA CutsAre ==
  ASSUME NEW s \in Seq(Octet)
  PROVE  /\ Cuts(s) \subseteq 0..(Len(s) + 1) /\ ItemEnds(s) \subseteq Cuts(s)
         /\ Len(s) \in Nat
         /\ \A j \in 1..Len(s) : j \in Cuts(s) <=> s[j] = Comma
<1>1. Len(s) \in Nat /\ DOMAIN s = 1..Len(s)
  BY LenProperties
<1> QED
  BY <1>1 DEF Cuts, ItemEnds

(* Seen from a cut, the next item stands between the next two that have
   something between them. *)
LEMMA NextBetween ==
  ASSUME NEW s \in Seq(Octet), NEW pos \in Cuts(s)
  PROVE  Goes(s, pos, NextItem(s, pos))
<1> DEFINE n == Len(s)
<1>1. n \in Nat /\ pos \in 0..(n + 1) /\ pos \in Nat /\ Cuts(s) \subseteq 0..(n + 1)
      /\ ItemEnds(s) \subseteq Cuts(s)
  BY CutsAre
<1>2. \A j \in 1..n : j \in Cuts(s) <=> s[j] = Comma
  BY CutsAre
<1>3. \A c \in ItemEnds(s) : c - 1 \notin Cuts(s) /\ c \in 0..(n + 1)
  BY <1>1 DEF ItemEnds
<1> HIDE DEF n
<1>4. CASE Blank(s, pos)
  <2>1. \A j \in (pos + 1)..n : j \in Cuts(s)
    <3>1. \A j \in (pos + 1)..n : j \in 1..n
      BY <1>1
    <3> QED
      BY <1>2, <1>4, <3>1 DEF Blank, n
  <2>2. ASSUME NEW c \in ItemEnds(s), pos < c PROVE FALSE
    <3>1. c - 1 \notin Cuts(s) /\ c \in 0..(n + 1)
      BY <1>3
    <3>2. c - 1 = pos \/ c - 1 \in (pos + 1)..n
      BY <1>1, <2>2, <3>1
    <3> QED
      BY <2>1, <3>1, <3>2
  <2>3. NextItem(s, pos).pos = 0
    BY <1>4 DEF NextItem
  <2> QED
    BY <2>2, <2>3 DEF Goes
<1>5. CASE ~Blank(s, pos)
  <2>1. PICK p : Skips(s, pos, p)
    BY <1>1, <1>5, OneStart
  <2>2. p \in pos..(n - 1) /\ p \in 0..n /\ p + 1 \in 1..n
    BY <1>1, <2>1 DEF Skips, n
  <2>3. PICK i : Ends(s, p, i)
    BY <2>2, OneEnd DEF n
  <2>4. NextItem(s, pos) = ItemAt(s, p, i)
    BY <1>1, <2>1, <2>3, NextItemIs
  <2>5. i \in p..n /\ i # p
    <3>1. s[p + 1] # Comma /\ p # n
      BY <1>1, <2>1, <2>2 DEF Skips
    <3> QED
      BY <2>3, <3>1 DEF Ends, n
  <2>6. i \in (p + 1)..n /\ i \in 1..n /\ i + 1 \in 1..(n + 1)
    BY <1>1, <2>2, <2>5
  <2>7. \A j \in (p + 1)..i : j \notin Cuts(s)
    <3>1. \A j \in (p + 1)..i : j \in 1..n
      BY <1>1, <2>2, <2>6
    <3>2. \A j \in (p + 1)..i : s[j] # Comma
      BY <2>3 DEF Ends
    <3> QED
      BY <1>2, <3>1, <3>2
  <2>8. \A j \in pos..p : j \in Cuts(s)
    <3>1. \A j \in pos..p : j = pos \/ (j \in (pos + 1)..p /\ j \in 1..n)
      BY <1>1, <2>2
    <3>2. \A j \in (pos + 1)..p : s[j] = Comma
      BY <2>1 DEF Skips
    <3> QED
      BY <1>2, <3>1, <3>2
  <2>9. i + 1 \in Cuts(s)
    <3>1. CASE i = n
      BY <3>1 DEF Cuts, n
    <3>2. CASE i # n
      <4>1. i + 1 \in 1..n /\ s[i + 1] = Comma
        BY <1>1, <2>3, <2>6, <3>2 DEF Ends, n
      <4> QED
        BY <1>2, <4>1
    <3> QED
      BY <3>1, <3>2
  <2>10. i + 1 \in ItemEnds(s)
    <3>1. (i + 1) - 1 = i /\ i + 1 # 0
      BY <2>6
    <3>2. i \notin Cuts(s)
      BY <1>1, <2>2, <2>6, <2>7
    <3> QED
      BY <2>9, <3>1, <3>2 DEF ItemEnds
  <2>11. Max({d \in Cuts(s) : d < i + 1}) = p
    <3> DEFINE D == {d \in Cuts(s) : d < i + 1}
    <3>1. p \in D
      BY <1>1, <2>2, <2>6, <2>8
    <3>2. D \subseteq 0..(n + 1) /\ D # {}
      BY <1>1, <3>1
    <3>3. \A d \in D : d <= p
      <4> SUFFICES ASSUME NEW d \in Cuts(s), d < i + 1, ~(d <= p) PROVE FALSE
        BY DEF D
      <4>1. d \in (p + 1)..i
        BY <1>1, <2>2, <2>6
      <4> QED
        BY <2>7, <4>1
    <3> HIDE DEF D
    <3>4. n + 1 \in Nat
      BY <1>1
    <3>5. Max(D) \in D /\ \A y \in D : Max(D) >= y
      BY <3>2, <3>4, GreatestIs
    <3>6. PICK g : g = Max(D)
      OBVIOUS
    <3>7. g \in D /\ \A y \in D : g >= y
      BY <3>5, <3>6
    <3>8. g \in Int /\ p \in Int
      BY <1>1, <2>2, <3>2, <3>7
    <3>9. g = p
      BY <3>1, <3>3, <3>7, <3>8
    <3> QED
      BY <3>6, <3>9, Zenon DEF D
  <2>12. ItemBefore(s, i + 1) = SubSeq(s, p + 1, i)
    <3>1. (i + 1) - 1 = i
      BY <2>6
    <3> QED
      BY <2>11, <3>1, Zenon DEF ItemBefore
  <2>13. ASSUME NEW c \in ItemEnds(s), pos < c, c < i + 1 PROVE FALSE
    <3>1. c \in Cuts(s) /\ c - 1 \notin Cuts(s) /\ c \in 0..(n + 1)
      BY <1>1, <1>3
    <3>2. c \in (p + 1)..i \/ c - 1 \in pos..p
      BY <1>1, <2>2, <2>6, <2>13, <3>1
    <3> QED
      BY <2>7, <2>8, <3>1, <3>2
  <2>14. NextItem(s, pos).pos = i + 1 /\ NextItem(s, pos).x = SubSeq(s, p + 1, i)
    <3>1. PICK y : y = SubSeq(s, p + 1, i)
      OBVIOUS
    <3>2. PICK r : r = i + 1
      OBVIOUS
    <3>3. PICK nx : nx = NextItem(s, pos)
      OBVIOUS
    <3>4. nx = [pos |-> r, x |-> y]
      BY <2>4, <3>1, <3>2, <3>3, Zenon DEF ItemAt
    <3>5. nx.pos = r /\ nx.x = y
      BY <3>4
    <3> QED
      BY <3>1, <3>2, <3>3, <3>5, Zenon
  <2>15. i + 1 # 0 /\ i + 1 > pos
    BY <1>1, <2>2, <2>6
  <2> QED
    BY <2>9, <2>10, <2>12, <2>13, <2>14, <2>15 DEF Goes
<1> QED
  BY <1>4, <1>5
-----------------------------------------------------------------------------
(* The items from pos on, when the rest gives f. *)
ItemsStep(s, f, pos) ==
  IF NextItem(s, pos).pos = 0 THEN <<>>
  ELSE <<NextItem(s, pos).x>> \o f[NextItem(s, pos).pos]

(* The next item is bytes, and ends behind where it was looked for. *)
LEMMA NextItemTyped ==
  ASSUME NEW s \in Seq(Octet), NEW pos \in Nat, NEW nx, nx = NextItem(s, pos), nx.pos # 0
  PROVE  nx.x \in Seq(Octet) /\ nx.pos \in Nat /\ nx.pos > pos /\ pos < Len(s)
<1>1. Len(s) \in Nat
  BY LenProperties
<1>2. ~Blank(s, pos)
  BY DEF NextItem
<1>3. PICK p : Skips(s, pos, p)
  BY <1>2, OneStart
<1>4. p \in pos..(Len(s) - 1) /\ p \in 0..Len(s) /\ p + 1 \in 1..(Len(s) + 1)
  BY <1>1, <1>3 DEF Skips
<1>5. PICK i : Ends(s, p, i)
  BY <1>4, OneEnd
<1>6. i \in p..Len(s) /\ i \in (p + 1 - 1)..Len(s)
  BY <1>1, <1>4, <1>5 DEF Ends
<1>7. SubSeq(s, p + 1, i) \in Seq(Octet)
  BY <1>4, <1>6, Piece
<1>8. PICK y : y = SubSeq(s, p + 1, i)
  OBVIOUS
<1>9. PICK r : r = i + 1
  OBVIOUS
<1>10. nx = [pos |-> r, x |-> y]
  BY <1>3, <1>5, <1>8, <1>9, NextItemIs, ZenonT(40) DEF ItemAt
<1>11. nx.pos = r /\ nx.x = y
  BY <1>10
<1>12. r \in Nat /\ r > pos /\ pos < Len(s)
  BY <1>1, <1>4, <1>6, <1>9
<1> QED
  BY <1>7, <1>8, <1>11, <1>12

(* f obeys the steps from pos on. *)
Obeys(s, f, from) == \A pos \in Nat : pos >= from => f[pos] = ItemsStep(s, f, pos)

(* There is a function that obeys them everywhere. *)
LEMMA ItemsExist ==
  ASSUME NEW s \in Seq(Octet)
  PROVE  \E f \in [Nat -> Seq(Seq(Octet))] : Obeys(s, f, 0)
<1> DEFINE n == Len(s)
           V == Seq(Seq(Octet))
           T == {m \in 0..n : \E f \in [Nat -> V] : Obeys(s, f, n - m)}
<1>1. n \in Nat
  BY LenProperties
<1>2. 0 \in T
  <2>1. PICK f \in [Nat -> V] : \A pos \in Nat : f[pos] = <<>>
    <3>1. <<>> \in V
      OBVIOUS
    <3>2. [pos \in Nat |-> <<>>] \in [Nat -> V]
      BY <3>1
    <3> QED
      BY <3>2
  <2>2. \A pos \in Nat : pos >= n => Blank(s, pos)
    BY <1>1 DEF Blank
  <2>3. \A pos \in Nat : pos >= n => NextItem(s, pos).pos = 0
    BY <2>2 DEF NextItem
  <2>4. Obeys(s, f, n)
    BY <2>1, <2>3 DEF Obeys, ItemsStep
  <2>5. n - 0 = n
    BY <1>1
  <2> QED
    BY <1>1, <2>4, <2>5
<1>3. ASSUME NEW i \in 1..n, i - 1 \in T PROVE i \in T
  <2> DEFINE q == n - i
  <2>1. q \in Nat /\ n - (i - 1) = q + 1 /\ i \in 0..n
    BY <1>1
  <2>2. PICK f \in [Nat -> V] : Obeys(s, f, q + 1)
    BY <1>3, <2>1
  <2> HIDE DEF q, T
  <2> DEFINE v == ItemsStep(s, f, q)
             g == [f EXCEPT ![q] = v]
  <2>3. v \in V
    <3>1. CASE NextItem(s, q).pos = 0
      <4>1. v = <<>>
        BY <3>1 DEF ItemsStep
      <4> QED
        BY <4>1
    <3>2. CASE NextItem(s, q).pos # 0
      <4>1. PICK nx : nx = NextItem(s, q)
        OBVIOUS
      <4>2. nx.x \in Seq(Octet) /\ nx.pos \in Nat
        BY <2>1, <3>2, <4>1, NextItemTyped
      <4>3. <<nx.x>> \in V /\ f[nx.pos] \in V
        BY <2>2, <4>2
      <4>4. v = <<nx.x>> \o f[nx.pos]
        BY <3>2, <4>1 DEF ItemsStep
      <4> QED
        BY <4>3, <4>4
    <3> QED
      BY <3>1, <3>2
  <2> HIDE DEF v
  <2>4. g \in [Nat -> V] /\ g[q] = v /\ \A pos \in Nat : pos # q => g[pos] = f[pos]
    BY <2>1, <2>2, <2>3
  <2> HIDE DEF g
  <2>5. ASSUME NEW pos \in Nat, pos >= q
        PROVE  ItemsStep(s, g, pos) = ItemsStep(s, f, pos)
    <3>1. CASE NextItem(s, pos).pos = 0
      BY <3>1, Zenon DEF ItemsStep
    <3>2. CASE NextItem(s, pos).pos # 0
      <4>1. PICK nx : nx = NextItem(s, pos)
        OBVIOUS
      <4>2. nx.pos \in Nat /\ nx.pos > pos
        BY <3>2, <4>1, NextItemTyped
      <4>3. nx.pos # q
        BY <2>1, <2>5, <4>2, SMTT(30)
      <4>4. g[nx.pos] = f[nx.pos]
        BY <2>4, <4>2, <4>3
      <4> QED
        BY <3>2, <4>1, <4>4, Zenon DEF ItemsStep
    <3> QED
      BY <3>1, <3>2
  <2>6. ASSUME NEW pos \in Nat, pos >= q PROVE g[pos] = ItemsStep(s, g, pos)
    <3>1. CASE pos = q
      BY <2>4, <2>5, <2>6, <3>1 DEF v
    <3>2. CASE pos # q
      <4>1. pos >= q + 1
        BY <2>1, <2>6, <3>2
      <4>2. f[pos] = ItemsStep(s, f, pos)
        BY <2>2, <4>1 DEF Obeys
      <4> QED
        BY <2>4, <2>5, <2>6, <3>2, <4>2
    <3> QED
      BY <3>1, <3>2
  <2>7. Obeys(s, g, q)
    BY <2>6 DEF Obeys
  <2> QED
    BY <2>1, <2>4, <2>7 DEF T, q
<1> HIDE DEF T
<1>4. 0..n \subseteq T
  BY <1>1, <1>2, <1>3, Climb
<1>5. n \in T /\ n - n = 0
  BY <1>1, <1>4
<1> QED
  BY <1>5 DEF T

(* Items is such a function, from the beginning of the list. *)
LEMMA ItemsAre ==
  ASSUME NEW s \in Seq(Octet)
  PROVE  \E f : Obeys(s, f, 0) /\ Items(s) = f[0]
<1> DEFINE Rule(f) == f = [pos \in Nat |-> LET r == stringparser(s, pos)
                                           IN IF r.pos = 0 THEN <<>> ELSE <<r.x>> \o f[r.pos]]
<1>1. \A f : \A pos \in Nat :
        (LET r == stringparser(s, pos) IN IF r.pos = 0 THEN <<>> ELSE <<r.x>> \o f[r.pos])
          = ItemsStep(s, f, pos)
  BY ParserIs, Zenon DEF ItemsStep
<1>2. PICK g \in [Nat -> Seq(Seq(Octet))] : Obeys(s, g, 0)
  BY ItemsExist
<1>3. \A pos \in Nat : g[pos] = ItemsStep(s, g, pos)
  BY <1>2 DEF Obeys
<1>4. g = [pos \in Nat |-> g[pos]]
  BY <1>2
<1>5. Rule(g)
  BY <1>1, <1>3, <1>4, Zenon
<1>6. Items(s) = (CHOOSE f : Rule(f))[0]
  BY Zenon DEF Items
<1>7. ASSUME NEW f, Rule(f) PROVE Obeys(s, f, 0)
  <2>1. \A pos \in Nat : f[pos] = ItemsStep(s, f, pos)
    BY <1>1, <1>7, Zenon
  <2> QED
    BY <2>1 DEF Obeys
<1> HIDE DEF Rule
<1>8. Rule(CHOOSE f : Rule(f))
  BY <1>5
<1> QED
  BY <1>6, <1>7, <1>8
-----------------------------------------------------------------------------
(* x are the items behind pos, and e says where they end. *)
Marks(s, pos, x, e) ==
  /\ x \in Seq(Seq(Octet)) /\ e \in [1..Len(x) -> ItemEnds(s)]
  /\ \A c \in ItemEnds(s) : pos < c => \E k \in 1..Len(x) : e[k] = c
  /\ \A k \in 1..Len(x) : e[k] > pos /\ x[k] = ItemBefore(s, e[k])
  /\ \A j, k \in 1..Len(x) : j < k => e[j] < e[k]

(* One more item in front. *)
LEMMA MarkOne ==
  ASSUME NEW s \in Seq(Octet), NEW pos \in Cuts(s), NEW nx, nx.pos # 0, Goes(s, pos, nx),
         nx.x \in Seq(Octet), NEW y, NEW d, Marks(s, nx.pos, y, d)
  PROVE  \E e : Marks(s, pos, <<nx.x>> \o y, e)
<1>1. PICK q : q = nx.pos
  OBVIOUS
<1>2. PICK v : v = nx.x
  OBVIOUS
<1>3. /\ q \in ItemEnds(s) /\ q > pos /\ v = ItemBefore(s, q) /\ v \in Seq(Octet)
      /\ \A c \in ItemEnds(s) : ~(pos < c /\ c < q)
  BY <1>1, <1>2, Zenon DEF Goes
<1>4. PICK n \in Nat : n = Len(y)
  BY LenProperties DEF Marks
<1>5. /\ y \in Seq(Seq(Octet)) /\ d \in [1..n -> ItemEnds(s)]
      /\ \A c \in ItemEnds(s) : q < c => \E k \in 1..n : d[k] = c
      /\ \A k \in 1..n : d[k] > q /\ y[k] = ItemBefore(s, d[k])
      /\ \A j, k \in 1..n : j < k => d[j] < d[k]
  BY <1>1, <1>4, Zenon DEF Marks
<1>6. PICK x : x = <<v>> \o y
  OBVIOUS
<1>7. /\ x \in Seq(Seq(Octet)) /\ Len(x) = n + 1 /\ x[1] = v
      /\ \A k \in 1..n : x[k + 1] = y[k]
  BY <1>3, <1>4, <1>5, <1>6
<1> DEFINE e == [k \in 1..(n + 1) |-> IF k = 1 THEN q ELSE d[k - 1]]
<1>8. e[1] = q /\ \A k \in 1..n : e[k + 1] = d[k] /\ k + 1 \in 1..(n + 1)
  BY <1>4
<1>9. \A k \in 1..(n + 1) : k = 1 \/ \E j \in 1..n : k = j + 1
  <2>1. \A k \in 1..(n + 1) : k = 1 \/ (k - 1 \in 1..n /\ k = (k - 1) + 1)
    BY <1>4
  <2> QED
    BY <2>1
<1>10. e \in [1..(n + 1) -> ItemEnds(s)]
  <2>1. \A k \in 1..(n + 1) : k = 1 \/ k - 1 \in 1..n
    BY <1>4
  <2> QED
    BY <1>3, <1>5, <2>1
<1>11. ItemEnds(s) \subseteq Nat /\ pos \in Nat /\ 1 \in 1..(n + 1)
  BY CutsAre, <1>4
<1> HIDE DEF e
<1>12. \A c \in ItemEnds(s) : pos < c => \E k \in 1..(n + 1) : e[k] = c
  <2> SUFFICES ASSUME NEW c \in ItemEnds(s), pos < c PROVE \E k \in 1..(n + 1) : e[k] = c
    OBVIOUS
  <2>1. CASE c = q
    BY <1>8, <1>11, <2>1
  <2>2. CASE c # q
    <3>1. q < c
      BY <1>3, <1>11, <2>2
    <3>2. PICK k \in 1..n : d[k] = c
      BY <1>5, <3>1
    <3> QED
      BY <1>8, <3>2
  <2> QED
    BY <2>1, <2>2
<1>13. \A k \in 1..(n + 1) : e[k] > pos /\ x[k] = ItemBefore(s, e[k])
  <2> SUFFICES ASSUME NEW k \in 1..(n + 1) PROVE e[k] > pos /\ x[k] = ItemBefore(s, e[k])
    OBVIOUS
  <2>1. CASE k = 1
    BY <1>3, <1>7, <1>8, <2>1
  <2>2. CASE k # 1
    <3>1. PICK j \in 1..n : k = j + 1
      BY <1>9, <2>2
    <3>2. d[j] > q /\ d[j] \in Nat /\ q \in Nat /\ y[j] = ItemBefore(s, d[j])
      BY <1>3, <1>5, <1>11
    <3>3. e[k] = d[j] /\ x[k] = y[j]
      BY <1>7, <1>8, <3>1
    <3>4. d[j] > pos
      BY <1>3, <1>11, <3>2
    <3> QED
      BY <3>2, <3>3, <3>4
  <2> QED
    BY <2>1, <2>2
<1>14. \A j, k \in 1..(n + 1) : j < k => e[j] < e[k]
  <2> SUFFICES ASSUME NEW j \in 1..(n + 1), NEW k \in 1..(n + 1), j < k PROVE e[j] < e[k]
    OBVIOUS
  <2>1. PICK b \in 1..n : k = b + 1
    BY <1>4, <1>9
  <2>2. CASE j = 1
    BY <1>5, <1>8, <2>1, <2>2
  <2>3. CASE j # 1
    <3>1. PICK a \in 1..n : j = a + 1
      BY <1>9, <2>3
    <3>2. a < b
      BY <1>4, <2>1, <3>1
    <3> QED
      BY <1>5, <1>8, <2>1, <3>1, <3>2
  <2> QED
    BY <2>2, <2>3
<1>15. Marks(s, pos, x, e)
  BY <1>7, <1>10, <1>12, <1>13, <1>14, Zenon DEF Marks
<1> QED
  BY <1>2, <1>6, <1>15

(* stringparser.c: for every list, a caller's loop gets exactly the pieces
   between the commas that are not empty, each once and in their order, and
   ends. *)
THEOREM ListsRead ==
  ASSUME NEW s \in Seq(Octet)
  PROVE  ListRight(s)
<1> DEFINE N == Len(s) + 1
<1>1. Len(s) \in Nat /\ N \in Nat /\ Cuts(s) \subseteq 0..N
  BY CutsAre
<1> HIDE DEF N
<1>2. PICK f : Obeys(s, f, 0) /\ Items(s) = f[0]
  BY ItemsAre
<1> DEFINE T == {m \in 0..N : \A pos \in Cuts(s) : pos >= N - m => \E e : Marks(s, pos, f[pos], e)}
<1>3. ASSUME NEW pos \in Cuts(s),
             \A q \in Cuts(s) : q > pos => \E e : Marks(s, q, f[q], e)
      PROVE  \E e : Marks(s, pos, f[pos], e)
  <2>1. PICK nx : nx = NextItem(s, pos)
    OBVIOUS
  <2>2. Goes(s, pos, nx) /\ pos \in Nat
    BY <1>1, <2>1, NextBetween
  <2>3. f[pos] = IF nx.pos = 0 THEN <<>> ELSE <<nx.x>> \o f[nx.pos]
    BY <1>2, <2>1, <2>2 DEF Obeys, ItemsStep
  <2>4. CASE nx.pos = 0
    <3>1. f[pos] = <<>>
      BY <2>3, <2>4
    <3>2. \A c \in ItemEnds(s) : ~(pos < c)
      BY <2>2, <2>4 DEF Goes
    <3> DEFINE e == [k \in 1..0 |-> 0]
    <3>3. <<>> \in Seq(Seq(Octet)) /\ Len(<<>>) = 0 /\ 1..0 = {} /\ e \in [1..0 -> ItemEnds(s)]
      OBVIOUS
    <3>4. Marks(s, pos, <<>>, e)
      BY <3>2, <3>3 DEF Marks
    <3> QED
      BY <3>1, <3>4
  <2>5. CASE nx.pos # 0
    <3>1. nx.pos \in Cuts(s) /\ nx.pos > pos
      BY <2>2, <2>5 DEF Goes
    <3>2. PICK d : Marks(s, nx.pos, f[nx.pos], d)
      BY <1>3, <3>1
    <3>3. nx.x \in Seq(Octet)
      BY <2>1, <2>2, <2>5, NextItemTyped
    <3>4. \E e : Marks(s, pos, <<nx.x>> \o f[nx.pos], e)
      BY <2>2, <2>5, <3>2, <3>3, MarkOne
    <3> QED
      BY <2>3, <2>5, <3>4
  <2> QED
    BY <2>4, <2>5
<1>4. 0 \in T
  <2> SUFFICES ASSUME NEW pos \in Cuts(s), pos >= N - 0 PROVE \E e : Marks(s, pos, f[pos], e)
    BY <1>1
  <2>1. \A q \in Cuts(s) : ~(q > pos)
    BY <1>1
  <2> QED
    BY <1>3, <2>1
<1>5. ASSUME NEW i \in 1..N, i - 1 \in T PROVE i \in T
  <2> SUFFICES ASSUME NEW pos \in Cuts(s), pos >= N - i PROVE \E e : Marks(s, pos, f[pos], e)
    BY <1>1
  <2>1. \A q \in Cuts(s) : q > pos => q >= N - (i - 1)
    BY <1>1
  <2>2. \A q \in Cuts(s) : q > pos => \E e : Marks(s, q, f[q], e)
    BY <1>5, <2>1
  <2> QED
    BY <1>3, <2>2
<1> HIDE DEF T
<1>6. 0..N \subseteq T
  BY <1>1, <1>4, <1>5, Climb
<1>7. N \in T /\ 0 \in Cuts(s) /\ 0 >= N - N
  BY <1>1, <1>6 DEF Cuts
<1>8. PICK e : Marks(s, 0, f[0], e)
  BY <1>7 DEF T
<1>9. PICK x : x = Items(s)
  OBVIOUS
<1>10. /\ x \in Seq(Seq(Octet)) /\ e \in [1..Len(x) -> ItemEnds(s)]
       /\ \A c \in ItemEnds(s) : 0 < c => \E k \in 1..Len(x) : e[k] = c
       /\ \A k \in 1..Len(x) : e[k] > 0 /\ x[k] = ItemBefore(s, e[k])
       /\ \A j, k \in 1..Len(x) : j < k => e[j] < e[k]
  BY <1>2, <1>8, <1>9, Zenon DEF Marks
<1>11. DOMAIN x = 1..Len(x) /\ DOMAIN e = 1..Len(x)
  BY <1>10, LenProperties
<1>12. \A c \in ItemEnds(s) : 0 < c
  BY <1>1 DEF ItemEnds
<1>13. \A c \in ItemEnds(s) : \E k \in DOMAIN e : e[k] = c
  BY <1>10, <1>11, <1>12
<1> QED
  BY <1>9, <1>10, <1>11, <1>13, Zenon DEF ListRight
-----------------------------------------------------------------------------
(* Sequences laid end to end. *)

(* f[i] is the first i of them. *)
Flats(f, V, y) ==
  f \in [0..Len(y) -> Seq(V)] /\ f[0] = <<>> /\ \A i \in 1..Len(y) : f[i] = f[i - 1] \o y[i]

(* FlattenSeq lays them end to end, one after the other. *)
LEMMA FlatIs ==
  ASSUME NEW V, NEW y \in Seq(Seq(V))
  PROVE  \E f : Flats(f, V, y) /\ FlattenSeq(y) = f[Len(y)]
<1> DEFINE n == Len(y)
           Rule(g) == g = [i \in 1..n |-> IF i = 1 THEN y[i] ELSE g[i - 1] \o y[i]]
           step == [u \in (1..n) \X Seq(V) |-> u[2] \o y[u[1]]]
<1>1. n \in Nat /\ <<>> \in Seq(V) /\ \A i \in 1..n : y[i] \in Seq(V)
  BY LenProperties, ElementOfSeq
<1>2. step \in [(1..n) \X Seq(V) -> Seq(V)]
  BY <1>1
<1>3. PICK f : Steps(f, n, Seq(V), <<>>, step)
  BY <1>1, <1>2, StepsExist
<1>4. /\ f \in [0..n -> Seq(V)] /\ f[0] = <<>>
      /\ \A i \in 1..n : f[i] = f[i - 1] \o y[i]
  <2>1. /\ f \in [0..n -> Seq(V)] /\ f[0] = <<>>
        /\ \A i \in 1..n : f[i] = step[<<i, f[i - 1]>>]
    BY <1>3 DEF Steps
  <2>2. \A i \in 1..n : i - 1 \in 0..n
    BY <1>1
  <2>3. \A i \in 1..n : f[i - 1] \in Seq(V)
    BY <2>1, <2>2, Zenon
  <2> QED
    BY <2>1, <2>3
<1>5. Flats(f, V, y)
  BY <1>4 DEF Flats
<1>6. CASE n = 0
  <2>1. FlattenSeq(y) = y /\ y = <<>>
    BY <1>6, EmptySeq DEF FlattenSeq
  <2> QED
    BY <1>4, <1>5, <1>6, <2>1
<1>7. CASE n # 0
  <2> DEFINE W == [i \in 1..n |-> f[i]]
  <2>1. Rule(W)
    <3>1. ASSUME NEW i \in 1..n
          PROVE  W[i] = IF i = 1 THEN y[i] ELSE W[i - 1] \o y[i]
      <4>1. CASE i = 1
        <5>1. i - 1 = 0 /\ y[i] \in Seq(V)
          BY <1>1, <4>1
        <5>2. f[i] = <<>> \o y[i]
          BY <1>4, <5>1, Zenon
        <5>3. f[i] = y[i]
          BY <5>1, <5>2
        <5> QED
          BY <4>1, <5>3, Zenon
      <4>2. CASE i # 1
        <5>1. i - 1 \in 1..n
          BY <1>1, <4>2
        <5>2. f[i] = f[i - 1] \o y[i]
          BY <1>4, Zenon
        <5> QED
          BY <4>2, <5>1, <5>2, Zenon
      <4> QED
        BY <4>1, <4>2
    <3> QED
      BY <3>1
  <2>2. ASSUME NEW g, Rule(g) PROVE g = W
    <3> DEFINE T == {i \in 0..n : i = 0 \/ g[i] = f[i]}
    <3>1. \A i \in 1..n : g[i] = IF i = 1 THEN y[i] ELSE g[i - 1] \o y[i]
      BY <2>2, Zenon
    <3>2. 0 \in T
      BY <1>1
    <3>3. ASSUME NEW i \in 1..n, i - 1 \in T PROVE i \in T
      <4>1. i # 1 => i - 1 \in 1..n
        BY <1>1
      <4>1a. f[i] = IF i = 1 THEN y[i] ELSE f[i - 1] \o y[i]
        <5>1. W[i] = IF i = 1 THEN y[i] ELSE W[i - 1] \o y[i]
          BY <2>1, Zenon
        <5> QED
          BY <4>1, <5>1, Zenon
      <4>2. i - 1 # 0 => g[i - 1] = f[i - 1]
        BY <3>3
      <4>3. i = 1 \/ i - 1 # 0
        OBVIOUS
      <4>4. g[i] = f[i]
        BY <3>1, <4>1a, <4>2, <4>3, Zenon
      <4>5. i \in 0..n
        BY <1>1
      <4> QED
        BY <4>4, <4>5
    <3> HIDE DEF T
    <3>4. 0..n \subseteq T
      BY <1>1, <3>2, <3>3, Climb
    <3>5. \A i \in 1..n : i \in 0..n /\ i # 0
      BY <1>1
    <3>6. \A i \in 1..n : g[i] = f[i]
      BY <3>4, <3>5 DEF T
    <3>7. g = [i \in 1..n |-> g[i]]
      BY <2>2
    <3> QED
      BY <3>6, <3>7
  <2>3. FlattenSeq(y) = (CHOOSE g : Rule(g))[n]
    BY <1>7, Zenon DEF FlattenSeq
  <2> HIDE DEF Rule, W
  <2>4. Rule(CHOOSE g : Rule(g))
    BY <2>1
  <2>5. (CHOOSE g : Rule(g)) = W
    BY <2>2, <2>4
  <2>6. n \in 1..n
    BY <1>1, <1>7
  <2>7. FlattenSeq(y) = f[n]
    BY <2>3, <2>5, <2>6, Zenon DEF W
  <2> QED
    BY <1>5, <2>7
<1> QED
  BY <1>6, <1>7

(* There is one way to do so. *)
LEMMA FlatsAgree ==
  ASSUME NEW V, NEW y \in Seq(Seq(V)), NEW z \in Seq(Seq(V)), NEW f, NEW g,
         Flats(f, V, y), Flats(g, V, z), NEW m \in Nat, m <= Len(y), m <= Len(z),
         \A i \in 1..m : y[i] = z[i]
  PROVE  f[m] = g[m]
<1> DEFINE T == {i \in 0..m : f[i] = g[i]}
<1>1. Len(y) \in Nat /\ Len(z) \in Nat
  BY LenProperties
<1>2. 0 \in T
  BY DEF Flats
<1>3. ASSUME NEW i \in 1..m, i - 1 \in T PROVE i \in T
  <2>1. i \in 1..Len(y) /\ i \in 1..Len(z) /\ i \in 0..m
    BY <1>1
  <2>2. f[i] = f[i - 1] \o y[i] /\ g[i] = g[i - 1] \o z[i]
    BY <2>1, Zenon DEF Flats
  <2>3. f[i - 1] = g[i - 1]
    BY <1>3
  <2>4. f[i] = g[i]
    BY <2>2, <2>3, Zenon
  <2> QED
    BY <2>1, <2>4
<1> HIDE DEF T
<1>4. 0..m \subseteq T
  BY <1>2, <1>3, Climb
<1>5. m \in T
  BY <1>4
<1> QED
  BY <1>5 DEF T

(* One more at the end. *)
LEMMA FlatAppend ==
  ASSUME NEW V, NEW y \in Seq(Seq(V)), NEW v \in Seq(V)
  PROVE  /\ FlattenSeq(y) \in Seq(V) /\ FlattenSeq(<<>>) = <<>>
         /\ FlattenSeq(Append(y, v)) = FlattenSeq(y) \o v
<1>1. PICK z : z = Append(y, v)
  OBVIOUS
<1>2. PICK n \in Nat : n = Len(y)
  BY LenProperties
<1>3. z \in Seq(Seq(V)) /\ Len(z) = n + 1 /\ z[n + 1] = v /\ \A i \in 1..n : z[i] = y[i]
  BY <1>1, <1>2
<1>4. PICK f : Flats(f, V, y) /\ FlattenSeq(y) = f[n]
  BY <1>2, FlatIs
<1>5. PICK g : Flats(g, V, z) /\ FlattenSeq(z) = g[n + 1]
  BY <1>3, FlatIs
<1>6. f[n] = g[n]
  <2>1. n <= Len(y) /\ n <= Len(z) /\ \A i \in 1..n : y[i] = z[i]
    BY <1>2, <1>3
  <2> QED
    BY <1>3, <1>4, <1>5, <2>1, FlatsAgree
<1>7. g[n + 1] = g[n] \o z[n + 1]
  <2>1. n + 1 \in 1..Len(z) /\ (n + 1) - 1 = n
    BY <1>2, <1>3
  <2> QED
    BY <1>5, <2>1 DEF Flats
<1>8. f[n] \in Seq(V)
  BY <1>2, <1>4, SMTT(30) DEF Flats
<1>9. FlattenSeq(<<>>) = <<>>
  BY DEF FlattenSeq
<1> QED
  BY <1>1, <1>3, <1>4, <1>5, <1>6, <1>7, <1>8, <1>9, Zenon
-----------------------------------------------------------------------------
(* The log. *)

Printable == 32..126
Shown(c) == IF c \in 32..126 THEN c ELSE Question
LineState == [buf : Seq(Octet), out : Seq(Seq(Octet))]

(* The pieces written and the line in the buffer are the text t, and each fits
   its place. *)
Logged(l, t) ==
  /\ l \in LineState /\ FlattenSeq(l.out) \o l.buf = t
  /\ Len(l.buf) < LogSize
  /\ \A k \in 1..Len(l.out) : Len(l.out[k]) < LogSize

(* Writing the buffer changes nothing of the text, and leaves it empty. *)
LEMMA FlushKeeps ==
  ASSUME BytesParameters, NEW l, NEW t, Logged(l, t)
  PROVE  Logged(flush(l), t) /\ flush(l).buf = <<>>
<1>1. PICK b \in Seq(Octet), o \in Seq(Seq(Octet)) : l = [buf |-> b, out |-> o]
  <2>1. l \in LineState
    BY DEF Logged
  <2> QED
    BY <2>1 DEF LineState
<1>2. l.buf = b /\ l.out = o
  BY <1>1
<1>3. FlattenSeq(o) \o b = t /\ Len(b) < LogSize /\ \A k \in 1..Len(o) : Len(o[k]) < LogSize
  BY <1>2, Zenon DEF Logged
<1>4. PICK e, p : e = <<>> /\ p = Append(o, b)
  OBVIOUS
<1>5. e \in Seq(Octet) /\ Len(e) = 0
  BY <1>4
<1>6. PICK n \in Nat : n = Len(o)
  BY LenProperties
<1>7. p \in Seq(Seq(Octet)) /\ Len(p) = n + 1 /\ p[n + 1] = b /\ \A k \in 1..n : p[k] = o[k]
  BY <1>4, <1>6
<1>8. FlattenSeq(p) = t /\ t \in Seq(Octet)
  <2>1. FlattenSeq(o) \in Seq(Octet) /\ FlattenSeq(p) = FlattenSeq(o) \o b
    BY <1>4, FlatAppend, Zenon
  <2>2. FlattenSeq(o) \o b \in Seq(Octet)
    BY <2>1, Joint
  <2> QED
    BY <1>3, <2>1, <2>2, Zenon
<1>9. t \o e = t
  BY <1>4, <1>8
<1>10. \A k \in 1..(n + 1) : Len(p[k]) < LogSize
  <2>1. \A k \in 1..(n + 1) : k = n + 1 \/ k \in 1..n
    OBVIOUS
  <2> QED
    BY <1>3, <1>6, <1>7, <2>1, Zenon
<1>11. PICK f : f = flush(l)
  OBVIOUS
<1>12. f = [buf |-> e, out |-> p]
  BY <1>2, <1>4, <1>11, Zenon DEF flush
<1>13. f.buf = e /\ f.out = p /\ f \in LineState
  BY <1>5, <1>7, <1>12 DEF LineState
<1>14. Len(e) < LogSize
  BY <1>5 DEF BytesParameters
<1>15. Logged(f, t)
  BY <1>7, <1>8, <1>9, <1>10, <1>13, <1>14, Zenon DEF Logged
<1> QED
  BY <1>4, <1>11, <1>13, <1>15, Zenon

(* Room makes room for one more byte. *)
LEMMA RoomKeeps ==
  ASSUME BytesParameters, NEW l, NEW t, Logged(l, t)
  PROVE  Logged(Room(l), t) /\ Len(Room(l).buf) + 1 < LogSize
<1>1. LogSize \in Nat /\ LogSize > 1
  BY DEF BytesParameters
<1>2. PICK n \in Nat : n = Len(l.buf)
  <2>1. l.buf \in Seq(Octet)
    BY DEF Logged, LineState
  <2> QED
    BY <2>1, LenProperties
<1>3. CASE n >= LogSize - 1
  <2>1. Room(l) = flush(l)
    BY <1>2, <1>3, Zenon DEF Room
  <2>2. Logged(flush(l), t) /\ flush(l).buf = <<>>
    BY FlushKeeps
  <2>3. Len(<<>>) + 1 < LogSize
    BY <1>1
  <2> QED
    BY <2>1, <2>2, <2>3, Zenon
<1>4. CASE ~(n >= LogSize - 1)
  <2>1. Room(l) = l
    BY <1>2, <1>4, Zenon DEF Room
  <2>2. n + 1 < LogSize
    BY <1>1, <1>4
  <2> QED
    BY <1>2, <2>1, <2>2, Zenon
<1> QED
  BY <1>3, <1>4

(* l with one more byte in its buffer. *)
WithByte(l, c) == [l EXCEPT !.buf = Append(@, c)]

(* It is one more of the text. *)
LEMMA ByteKeeps ==
  ASSUME NEW l, NEW t, Logged(l, t), Len(l.buf) + 1 < LogSize, NEW c \in Octet
  PROVE  Logged(WithByte(l, c), Append(t, c))
<1>1. PICK b \in Seq(Octet), o \in Seq(Seq(Octet)) : l = [buf |-> b, out |-> o]
  <2>1. l \in LineState
    BY DEF Logged
  <2> QED
    BY <2>1 DEF LineState
<1>2. l.buf = b /\ l.out = o
  BY <1>1
<1>3. FlattenSeq(o) \o b = t /\ Len(b) + 1 < LogSize /\ \A k \in 1..Len(o) : Len(o[k]) < LogSize
  BY <1>2, Zenon DEF Logged
<1>4. PICK d : d = Append(b, c)
  OBVIOUS
<1>5. d \in Seq(Octet) /\ Len(d) = Len(b) + 1
  BY <1>4
<1>6. PICK a : a = FlattenSeq(o)
  OBVIOUS
<1>7. a \in Seq(Octet)
  BY <1>6, FlatAppend, Zenon
<1>8. a \o d = Append(t, c)
  <2>1. a \o Append(b, c) = Append(a \o b, c)
    BY <1>7
  <2> QED
    BY <1>3, <1>4, <1>6, <2>1, Zenon
<1>9. PICK f : f = WithByte(l, c)
  OBVIOUS
<1>10. f = [buf |-> d, out |-> o]
  BY <1>1, <1>4, <1>9 DEF WithByte
<1>11. f.buf = d /\ f.out = o /\ f \in LineState
  BY <1>5, <1>10 DEF LineState
<1>12. Logged(f, Append(t, c))
  BY <1>3, <1>5, <1>6, <1>8, <1>11, Zenon DEF Logged
<1> QED
  BY <1>9, <1>12, Zenon
-----------------------------------------------------------------------------
(* A byte as outs writes it, with char being signed. *)
Written1(c) ==
  IF (IF c >= 128 THEN c - 256 ELSE c) < 32 \/ (IF c >= 128 THEN c - 256 ELSE c) > 126
  THEN Question ELSE c

(* It is the byte itself if it can be printed, and '?' if not. *)
LEMMA WrittenIsShown ==
  ASSUME NEW c \in Octet
  PROVE  Written1(c) = Shown(c) /\ Shown(c) \in Printable /\ Shown(c) \in Octet
BY DEF Written1, Shown, Printable, Octet, Question

(* Every byte of a text as it is shown. *)
ShownAll(x, n) == [k \in 1..n |-> Shown(x[k])]

(* One more byte of it. *)
LEMMA ShownOne ==
  ASSUME NEW x \in Seq(Octet), NEW i \in 1..Len(x)
  PROVE  ShownAll(x, i) = Append(ShownAll(x, i - 1), Shown(x[i]))
<1>1. Len(x) \in Nat /\ \A k \in 1..Len(x) : x[k] \in Octet
  BY LenProperties, ElementOfSeq
<1>2. PICK j \in Nat : j = i - 1 /\ i = j + 1
  BY <1>1
<1>3. \A k \in 1..i : k \in 1..Len(x) /\ Shown(x[k]) \in Octet
  <2>1. \A k \in 1..i : k \in 1..Len(x)
    BY <1>1
  <2> QED
    BY <1>1, <2>1, WrittenIsShown
<1>4. ShownAll(x, i) \in Seq(Octet) /\ Len(ShownAll(x, i)) = i
  <2>1. [k \in 1..i |-> Shown(x[k])] \in [1..i -> Octet] /\ i \in Nat
    BY <1>1, <1>3
  <2> QED
    BY <2>1, Listed DEF ShownAll
<1>5. ShownAll(x, j) \in Seq(Octet) /\ Len(ShownAll(x, j)) = j
  <2>1. [k \in 1..j |-> Shown(x[k])] \in [1..j -> Octet]
    BY <1>2, <1>3
  <2> QED
    BY <2>1, Listed DEF ShownAll
<1>6. \A k \in 1..i : ShownAll(x, i)[k] = Shown(x[k])
  BY DEF ShownAll
<1>7. \A k \in 1..j : ShownAll(x, j)[k] = Shown(x[k])
  BY DEF ShownAll
<1>8. PICK y : y = Append(ShownAll(x, j), Shown(x[i]))
  OBVIOUS
<1>9. i \in 1..i
  BY <1>2
<1>10. y \in Seq(Octet) /\ Len(y) = i /\ y[i] = Shown(x[i]) /\ \A k \in 1..j : y[k] = Shown(x[k])
  BY <1>2, <1>3, <1>5, <1>7, <1>8, <1>9
<1>11. \A k \in 1..i : y[k] = Shown(x[k])
  <2>1. \A k \in 1..i : k = i \/ k \in 1..j
    BY <1>2
  <2> QED
    BY <1>10, <2>1, Zenon
<1>12. ShownAll(x, i) = y
  BY <1>4, <1>6, <1>10, <1>11, SameElements
<1> QED
  BY <1>2, <1>8, <1>12, Zenon

(* A log with nothing in it. *)
LEMMA NothingLogged ==
  ASSUME BytesParameters
  PROVE  Logged(NoLog, <<>>)
<1>1. PICK e : e = <<>>
  OBVIOUS
<1>2. e \in Seq(Octet) /\ e \in Seq(Seq(Octet)) /\ Len(e) = 0 /\ e \o e = e
  BY <1>1
<1>3. FlattenSeq(e) = e
  BY <1>2, Zenon DEF FlattenSeq
<1>4. NoLog.buf = e /\ NoLog.out = e /\ NoLog \in LineState
  BY <1>1, <1>2 DEF NoLog, LineState
<1>5. Len(e) < LogSize /\ 1..Len(e) = {}
  BY <1>2 DEF BytesParameters
<1>6. Logged(NoLog, e)
  BY <1>2, <1>3, <1>4, <1>5, Zenon DEF Logged
<1> QED
  BY <1>1, <1>6, Zenon

(* A log is one if it holds some text. *)
Sound(l) == \E t : Logged(l, t)

(* One byte through outs. *)
LEMMA OutOne ==
  ASSUME BytesParameters, NEW l, NEW t, Logged(l, t), NEW c \in Octet
  PROVE  Logged(WithByte(Room(l), c), Append(t, c))
<1>1. Logged(Room(l), t) /\ Len(Room(l).buf) + 1 < LogSize
  BY RoomKeeps
<1> QED
  BY <1>1, ByteKeeps

(* outs writes every byte as it is shown. *)
LEMMA OutsIs ==
  ASSUME BytesParameters, NEW x \in Seq(Octet)
  PROVE  Logged(outs(NoLog, x), ShownAll(x, Len(x)))
<1> DEFINE n == Len(x)
           S == {l \in LineState : Sound(l)}
           step == [u \in (1..n) \X S |-> WithByte(Room(u[2]), Written1(x[u[1]]))]
           Rule(f) == f = [i \in 0..n |-> IF i = 0 THEN NoLog
                                          ELSE WithByte(Room(f[i - 1]), Written1(x[i]))]
<1>1. n \in Nat /\ \A i \in 1..n : x[i] \in Octet
  BY LenProperties, ElementOfSeq
<1>2. \A i \in 1..n : Written1(x[i]) = Shown(x[i]) /\ Shown(x[i]) \in Octet
  BY <1>1, WrittenIsShown
<1>3. \A l \in S, i \in 1..n : WithByte(Room(l), Written1(x[i])) \in S
  <2> SUFFICES ASSUME NEW l \in S, NEW i \in 1..n PROVE WithByte(Room(l), Written1(x[i])) \in S
    OBVIOUS
  <2>1. PICK t : Logged(l, t)
    BY DEF Sound
  <2>2. PICK c \in Octet : c = Written1(x[i])
    BY <1>2
  <2>3. Logged(WithByte(Room(l), c), Append(t, c))
    BY <2>1, OutOne
  <2>4. WithByte(Room(l), c) \in LineState
    BY <2>3, Zenon DEF Logged
  <2> QED
    BY <2>2, <2>3, <2>4 DEF Sound
<1>4. NoLog \in S
  <2>1. Logged(NoLog, <<>>)
    BY NothingLogged
  <2>2. NoLog \in LineState
    BY <2>1, Zenon DEF Logged
  <2> QED
    BY <2>1, <2>2 DEF Sound
<1>5. \A i \in 1..n, l \in S : step[<<i, l>>] = WithByte(Room(l), Written1(x[i]))
  OBVIOUS
<1>6. step \in [(1..n) \X S -> S]
  BY <1>3
<1> HIDE DEF step, S
<1>7. PICK f : Steps(f, n, S, NoLog, step)
  BY <1>1, <1>4, <1>6, StepsExist, Zenon
<1>8. f \in [0..n -> S] /\ f[0] = NoLog /\ \A i \in 1..n : f[i] = step[<<i, f[i - 1]>>]
  BY <1>7 DEF Steps
<1>9. \A i \in 1..n : i - 1 \in 0..n
  BY <1>1
<1>10. \A i \in 1..n : f[i] = WithByte(Room(f[i - 1]), Written1(x[i]))
  <2>1. \A i \in 1..n : f[i - 1] \in S
    BY <1>8, <1>9, Zenon
  <2> QED
    BY <1>5, <1>8, <2>1, Zenon
<1>11. \A i \in 0..n : f[i] = IF i = 0 THEN NoLog ELSE WithByte(Room(f[i - 1]), Written1(x[i]))
  <2>1. \A i \in 0..n : i = 0 \/ i \in 1..n
    BY <1>1
  <2>2. \A i \in 1..n : i # 0
    OBVIOUS
  <2> QED
    BY <1>8, <1>10, <2>1, <2>2, Zenon
<1>12. ASSUME NEW g, Rule(g) PROVE g = f
  <2> DEFINE T == {i \in 0..n : g[i] = f[i]}
  <2>0. \A i \in 0..n : g[i] = IF i = 0 THEN NoLog ELSE WithByte(Room(g[i - 1]), Written1(x[i]))
    BY <1>12, Zenon
  <2>1. 0 \in T
    BY <1>1, <1>8, <2>0
  <2>2. ASSUME NEW i \in 1..n, i - 1 \in T PROVE i \in T
    <3>1. g[i - 1] = f[i - 1] /\ i \in 0..n /\ i # 0
      BY <2>2
    <3>2. g[i] = f[i]
      BY <1>11, <2>0, <3>1, Zenon
    <3> QED
      BY <3>1, <3>2
  <2> HIDE DEF T
  <2>3. 0..n \subseteq T
    BY <1>1, <2>1, <2>2, Climb
  <2>4. \A i \in 0..n : g[i] = f[i]
    BY <2>3 DEF T
  <2>5. g = [i \in 0..n |-> g[i]]
    BY <1>12
  <2>6. f = [i \in 0..n |-> f[i]]
    BY <1>8
  <2> QED
    BY <2>4, <2>5, <2>6
<1>13. outs(NoLog, x) = (CHOOSE g : Rule(g))[n]
  BY Zenon DEF outs, WithByte, Written1
<1>14. Rule(f)
  <2>1. f = [i \in 0..n |-> f[i]]
    BY <1>8
  <2> QED
    BY <1>11, <2>1, Zenon
<1> DEFINE T == {i \in 0..n : Logged(f[i], ShownAll(x, i))}
<1>15. 0 \in T
  <2>1. ShownAll(x, 0) = <<>>
    BY DEF ShownAll
  <2>2. Logged(f[0], ShownAll(x, 0))
    BY <1>8, <2>1, NothingLogged, Zenon
  <2> QED
    BY <1>1, <2>2
<1>16. ASSUME NEW i \in 1..n, i - 1 \in T PROVE i \in T
  <2>1. Logged(f[i - 1], ShownAll(x, i - 1)) /\ i \in 0..n
    BY <1>16
  <2>2. PICK c \in Octet : c = Shown(x[i])
    BY <1>2
  <2>3. Logged(WithByte(Room(f[i - 1]), c), Append(ShownAll(x, i - 1), c))
    BY <2>1, OutOne
  <2>4. f[i] = WithByte(Room(f[i - 1]), c)
    BY <1>2, <1>10, <2>2, Zenon
  <2>5. Append(ShownAll(x, i - 1), c) = ShownAll(x, i)
    BY <2>2, ShownOne, Zenon
  <2>6. Logged(f[i], ShownAll(x, i))
    BY <2>3, <2>4, <2>5, Zenon
  <2> QED
    BY <2>1, <2>6
<1> HIDE DEF T
<1>17. 0..n \subseteq T
  BY <1>1, <1>15, <1>16, Climb
<1>18. Logged(f[n], ShownAll(x, n))
  <2>1. n \in 0..n
    BY <1>1
  <2> QED
    BY <1>17, <2>1 DEF T
<1> HIDE DEF Rule
<1>19. Rule(CHOOSE g : Rule(g))
  BY <1>14
<1>20. (CHOOSE g : Rule(g)) = f
  BY <1>12, <1>19
<1> QED
  BY <1>13, <1>18, <1>20, Zenon
-----------------------------------------------------------------------------
(* What a line is made of: levels and switches, and the parts as bytes. *)
LogLine ==
  [level : Int, loglevel : Int, syslog : BOOLEAN, fnln : BOOLEAN, ignoreerrno : BOOLEAN,
   errno : Int, place : BOOLEAN, name : Seq(Octet), session : Seq(Octet), kind : Seq(Octet),
   s : Seq(Seq(Octet)), error : Seq(Octet), where : Seq(Octet)]

(* The middle part of a line lies in it behind the first i bytes. *)
Middle(x, y, i) ==
  /\ x \in Seq(Octet) /\ y \in Seq(Octet) /\ i \in Nat /\ i + Len(y) <= Len(x)
  /\ \A k \in 1..Len(y) : x[i + k] = y[k]

(* It does so whatever comes before and behind it. *)
LEMMA MiddleIs ==
  ASSUME NEW a \in Seq(Octet), NEW y \in Seq(Octet), NEW b \in Seq(Octet)
  PROVE  Middle((a \o y) \o b, y, Len(a))
<1>1. PICK h : h = a \o y
  OBVIOUS
<1>2. PICK n \in Nat, m \in Nat, o \in Nat : n = Len(a) /\ m = Len(y) /\ o = Len(b)
  BY LenProperties
<1>3. h \in Seq(Octet) /\ Len(h) = n + m
  BY <1>1, <1>2, Joint, Zenon
<1>4. \A k \in 1..m : h[n + k] = y[k]
  BY <1>1, <1>2, JointSecond, Zenon
<1>5. h \o b \in Seq(Octet) /\ Len(h \o b) = (n + m) + o
  <2>1. Len(h \o b) = Len(h) + Len(b)
    BY <1>3, Joint, Zenon
  <2>2. h \o b \in Seq(Octet)
    BY <1>3, Joint, Zenon
  <2> QED
    BY <1>2, <1>3, <2>1, <2>2, Zenon
<1>6. \A k \in 1..m : n + k \in 1..(n + m)
  OBVIOUS
<1>7. \A k \in 1..m : (h \o b)[n + k] = h[n + k]
  BY <1>3, <1>6, JointFirst, Zenon
<1>8. n + m <= (n + m) + o
  OBVIOUS
<1>9. \A k \in 1..m : (h \o b)[n + k] = y[k]
  BY <1>4, <1>7, Zenon
<1>10. Middle(h \o b, y, n)
  BY <1>2, <1>5, <1>8, <1>9, Zenon DEF Middle
<1> QED
  BY <1>1, <1>2, <1>10, Zenon

(* More behind it changes nothing of that. *)
LEMMA MiddleMore ==
  ASSUME NEW x, NEW y, NEW i, Middle(x, y, i), NEW b \in Seq(Octet)
  PROVE  Middle(x \o b, y, i)
<1>1. x \in Seq(Octet) /\ y \in Seq(Octet) /\ i \in Nat /\ i + Len(y) <= Len(x)
      /\ \A k \in 1..Len(y) : x[i + k] = y[k]
  BY DEF Middle
<1>2. PICK n \in Nat, m \in Nat, o \in Nat : n = Len(x) /\ m = Len(y) /\ o = Len(b)
  BY <1>1, LenProperties
<1>3. x \o b \in Seq(Octet) /\ Len(x \o b) = n + o
  BY <1>1, <1>2, Joint, Zenon
<1>4. i + m <= n
  BY <1>1, <1>2, Zenon
<1>5. \A k \in 1..m : i + k \in 1..n
  BY <1>1, <1>4
<1>6. \A k \in 1..m : (x \o b)[i + k] = x[i + k]
  BY <1>1, <1>2, <1>5, JointFirst, Zenon
<1>7. i + m <= n + o
  BY <1>1, <1>4
<1> QED
  BY <1>1, <1>2, <1>3, <1>6, <1>7, Zenon DEF Middle

(* What stands behind the first i bytes. *)
LEMMA MiddlePiece ==
  ASSUME NEW x, NEW y, NEW i, Middle(x, y, i)
  PROVE  i \in 0..Len(x) /\ SubSeq(x, i + 1, i + Len(y)) = y
<1>1. x \in Seq(Octet) /\ y \in Seq(Octet) /\ i \in Nat /\ i + Len(y) <= Len(x)
      /\ \A k \in 1..Len(y) : x[i + k] = y[k]
  BY DEF Middle
<1>2. PICK n \in Nat, m \in Nat : n = Len(x) /\ m = Len(y)
  BY <1>1, LenProperties
<1>3. PICK p, q : p = i + 1 /\ q = i + m
  OBVIOUS
<1>4. p \in 1..(n + 1) /\ q \in (p - 1)..n /\ q - p + 1 = m /\ i \in 0..n
  BY <1>1, <1>2, <1>3
<1>5. PICK z : z = SubSeq(x, p, q)
  OBVIOUS
<1>6. z \in Seq(Octet) /\ Len(z) = q - p + 1 /\ \A k \in 1..(q - p + 1) : z[k] = x[p + k - 1]
  BY <1>1, <1>2, <1>4, <1>5, Piece, Zenon
<1>7. \A k \in 1..m : p + k - 1 = i + k
  BY <1>1, <1>3
<1>8. \A k \in 1..m : z[k] = y[k]
  BY <1>1, <1>2, <1>4, <1>6, <1>7, Zenon
<1>9. Len(z) = m
  BY <1>4, <1>6, Zenon
<1>10. z = y
  BY <1>1, <1>2, <1>6, <1>8, <1>9, SameElements, Zenon
<1> QED
  BY <1>2, <1>3, <1>4, <1>5, <1>10, Zenon

(* A text shown is as long, and shows its middle where it lies. *)
LEMMA ShownMiddle ==
  ASSUME NEW x, NEW y, NEW i, Middle(x, y, i)
  PROVE  Middle(ShownAll(x, Len(x)), ShownAll(y, Len(y)), i)
<1>1. x \in Seq(Octet) /\ y \in Seq(Octet) /\ i \in Nat /\ i + Len(y) <= Len(x)
      /\ \A k \in 1..Len(y) : x[i + k] = y[k]
  BY DEF Middle
<1>2. PICK n \in Nat, m \in Nat : n = Len(x) /\ m = Len(y)
  BY <1>1, LenProperties
<1>3. (\A k \in 1..n : x[k] \in Octet) /\ (\A k \in 1..m : y[k] \in Octet)
  BY <1>1, <1>2, ElementOfSeq
<1>4. (\A k \in 1..n : Shown(x[k]) \in Octet) /\ (\A k \in 1..m : Shown(y[k]) \in Octet)
  BY <1>3, WrittenIsShown, Zenon
<1>5. [k \in 1..n |-> Shown(x[k])] \in [1..n -> Octet] /\ [k \in 1..m |-> Shown(y[k])] \in [1..m -> Octet]
  BY <1>4
<1>6. PICK u, v : u = ShownAll(x, n) /\ v = ShownAll(y, m)
  OBVIOUS
<1>7. u \in Seq(Octet) /\ Len(u) = n /\ v \in Seq(Octet) /\ Len(v) = m
  BY <1>5, <1>6, Listed, Zenon DEF ShownAll
<1>8. (\A k \in 1..n : u[k] = Shown(x[k])) /\ (\A k \in 1..m : v[k] = Shown(y[k]))
  BY <1>6 DEF ShownAll
<1>9. \A k \in 1..m : i + k \in 1..n
  BY <1>1, <1>2
<1>10. \A k \in 1..m : u[i + k] = v[k]
  BY <1>1, <1>2, <1>8, <1>9, Zenon
<1> QED
  BY <1>1, <1>2, <1>6, <1>7, <1>10, Zenon DEF Middle
-----------------------------------------------------------------------------
(* A part that is in the line or not, and the text of a line before it is
   written out. *)
Opt(cond, x) == IF cond THEN x ELSE <<>>
LogText(m) ==
  Opt(m.level # 0 /\ ~m.syslog, m.name \o <<Colon, 32>>)
    \o Opt(m.level # 0 /\ m.fnln, m.session \o <<Colon, 32>>)
    \o Opt(m.level # 0, m.kind \o <<Colon, 32>>)
    \o FlattenSeq(m.s) \o << 32 >>
    \o Opt(m.errno # 0 /\ ~m.ignoreerrno, << 40 >> \o m.error \o << 41 >>)
    \o Opt(m.level # 0 /\ m.place /\ (m.fnln \/ m.level = -1), m.where)

(* Such a part is a text. *)
LEMMA OptIs ==
  ASSUME NEW c, NEW x \in Seq(Octet)
  PROVE  Opt(c, x) \in Seq(Octet)
BY DEF Opt

(* The message lies in the line, whatever stands before and behind it. *)
LEMMA LineHolds ==
  ASSUME NEW m \in LogLine
  PROVE  /\ FlattenSeq(m.s) \in Seq(Octet)
         /\ \E i : Middle(LogText(m), FlattenSeq(m.s), i)
<1>1. PICK a1, a2, a3, e1, w : /\ a1 = m.name /\ a2 = m.session /\ a3 = m.kind
                               /\ e1 = m.error /\ w = m.where
  OBVIOUS
<1>2. /\ a1 \in Seq(Octet) /\ a2 \in Seq(Octet) /\ a3 \in Seq(Octet) /\ e1 \in Seq(Octet)
      /\ w \in Seq(Octet) /\ m.s \in Seq(Seq(Octet))
  BY <1>1 DEF LogLine
<1>3. PICK f : f = FlattenSeq(m.s)
  OBVIOUS
<1>4. f \in Seq(Octet)
  <2>1. FlattenSeq(m.s) \in Seq(Octet)
    BY <1>2, FlatAppend, Zenon
  <2> QED
    BY <1>3, <2>1, Zenon
<1>5. PICK sep, sp, ob, cb : /\ sep = <<Colon, 32>> /\ sp = << 32 >> /\ ob = << 40 >> /\ cb = << 41 >>
  OBVIOUS
<1>6. sep \in Seq(Octet) /\ sp \in Seq(Octet) /\ ob \in Seq(Octet) /\ cb \in Seq(Octet)
  BY <1>5 DEF Octet, Colon
<1>7. /\ a1 \o sep \in Seq(Octet) /\ a2 \o sep \in Seq(Octet) /\ a3 \o sep \in Seq(Octet)
      /\ ob \o e1 \in Seq(Octet)
  BY <1>2, <1>6, Joint, Zenon
<1>8. (ob \o e1) \o cb \in Seq(Octet)
  BY <1>6, <1>7, Joint, Zenon
<1>9. PICK p1, p2, p3, p4, p5 :
        /\ p1 = Opt(m.level # 0 /\ ~m.syslog, a1 \o sep)
        /\ p2 = Opt(m.level # 0 /\ m.fnln, a2 \o sep)
        /\ p3 = Opt(m.level # 0, a3 \o sep)
        /\ p4 = Opt(m.errno # 0 /\ ~m.ignoreerrno, (ob \o e1) \o cb)
        /\ p5 = Opt(m.level # 0 /\ m.place /\ (m.fnln \/ m.level = -1), w)
  OBVIOUS
<1>10. /\ p1 \in Seq(Octet) /\ p2 \in Seq(Octet) /\ p3 \in Seq(Octet)
       /\ p4 \in Seq(Octet) /\ p5 \in Seq(Octet)
  BY <1>2, <1>7, <1>8, <1>9, OptIs, Zenon
<1>11. LogText(m) = (((((p1 \o p2) \o p3) \o f) \o sp) \o p4) \o p5
  BY <1>1, <1>3, <1>5, <1>9, Zenon DEF LogText
<1>12. p1 \o p2 \in Seq(Octet)
  BY <1>10, Joint, Zenon
<1>13. (p1 \o p2) \o p3 \in Seq(Octet)
  BY <1>10, <1>12, Joint, Zenon
<1>14. PICK p : p = (p1 \o p2) \o p3
  OBVIOUS
<1>15. p \in Seq(Octet)
  BY <1>13, <1>14, Zenon
<1>16. Middle((p \o f) \o sp, f, Len(p))
  BY <1>4, <1>6, <1>15, MiddleIs, Zenon
<1>17. Middle(((p \o f) \o sp) \o p4, f, Len(p))
  BY <1>10, <1>16, MiddleMore, Zenon
<1>18. Middle((((p \o f) \o sp) \o p4) \o p5, f, Len(p))
  BY <1>10, <1>17, MiddleMore, Zenon
<1> QED
  BY <1>3, <1>4, <1>11, <1>14, <1>18, Zenon

(* A text shown is as long as the text. *)
LEMMA ShownLength ==
  ASSUME NEW x \in Seq(Octet)
  PROVE  Len(ShownAll(x, Len(x))) = Len(x)
<1>1. Len(x) \in Nat /\ \A k \in 1..Len(x) : x[k] \in Octet
  BY LenProperties, ElementOfSeq
<1>2. [k \in 1..Len(x) |-> Shown(x[k])] \in [1..Len(x) -> Octet]
  <2>1. \A k \in 1..Len(x) : Shown(x[k]) \in Octet
    BY <1>1, WrittenIsShown, Zenon
  <2> QED
    BY <2>1
<1> QED
  BY <1>1, <1>2, Listed, ZenonT(40) DEF ShownAll

(* A log line arrives whole, in pieces that fit the buffer, and holds nothing
   but printable characters and the newline at its end: log.c, log_9. *)
THEOREM LogsWhole ==
  ASSUME BytesParameters, NEW m \in LogLine
  PROVE  LogRight(m)
<1>1. CASE m.level > m.loglevel
  <2>1. log_9(m) = NoLog
    BY <1>1, Zenon DEF log_9
  <2> QED
    BY <1>1, <2>1, Zenon DEF LogRight
<1>2. CASE ~(m.level > m.loglevel)
  <2>1. PICK x, y, i : x = LogText(m) /\ y = FlattenSeq(m.s) /\ y \in Seq(Octet) /\ Middle(x, y, i)
    BY LineHolds, Zenon
  <2>2. x \in Seq(Octet)
    BY <2>1, Zenon DEF Middle
  <2>3. log_9(m) = flush(outnewline(outs(NoLog, x)))
    BY <1>2, <2>1, ZenonT(40) DEF log_9, LogText, Opt
  <2>4. PICK v, w : v = ShownAll(x, Len(x)) /\ w = ShownAll(y, Len(y))
    OBVIOUS
  <2>5. Logged(outs(NoLog, x), v)
    BY <2>2, <2>4, OutsIs, Zenon
  <2>6. PICK o : o = outs(NoLog, x)
    OBVIOUS
  <2>7. outnewline(o) = WithByte(Room(o), Newline)
    BY DEF outnewline, WithByte
  <2>8. Newline \in Octet
    BY DEF Newline, Octet
  <2>9. Logged(outnewline(o), Append(v, Newline))
    <3>1. Logged(WithByte(Room(o), Newline), Append(v, Newline))
      BY <2>5, <2>6, <2>8, OutOne, Zenon
    <3> QED
      BY <2>7, <3>1, Zenon
  <2>10. PICK l, u : l = flush(outnewline(o)) /\ u = Append(v, Newline)
    OBVIOUS
  <2>11. Logged(l, u) /\ l.buf = <<>>
    BY <2>9, <2>10, FlushKeeps, Zenon
  <2>12. Middle(v, w, i)
    BY <2>1, <2>4, ShownMiddle, Zenon
  <2>13. v \in Seq(Octet)
    BY <2>12, Zenon DEF Middle
  <2>14. PICK nl : nl = << Newline >>
    OBVIOUS
  <2>15. nl \in Seq(Octet) /\ u = v \o nl
    BY <2>8, <2>10, <2>13, <2>14
  <2>16. Middle(u, w, i)
    BY <2>12, <2>15, MiddleMore, Zenon
  <2>17. FlattenSeq(l.out) = u
    <3>1. FlattenSeq(l.out) \o <<>> = u /\ l.out \in Seq(Seq(Octet))
      BY <2>11 DEF Logged, LineState
    <3>2. FlattenSeq(l.out) \in Seq(Octet)
      BY <2>2, <3>1, FlatAppend, Zenon
    <3>3. FlattenSeq(l.out) \o <<>> = FlattenSeq(l.out)
      BY <3>2
    <3> QED
      BY <3>1, <3>3, Zenon
  <2>18. PICK n \in Nat, h \in Nat : n = Len(x) /\ h = Len(y)
    BY <2>1, <2>2, LenProperties
  <2>19. Len(v) = n /\ Len(w) = h
    BY <2>1, <2>2, <2>4, <2>18, ShownLength, Zenon
  <2>20. Len(u) = n + 1 /\ u[n + 1] = Newline /\ \A k \in 1..n : u[k] = v[k]
    BY <2>10, <2>13, <2>19
  <2>21. \A k \in 1..n : x[k] \in Octet
    BY <2>2, <2>18, ElementOfSeq
  <2>22. \A k \in 1..n : v[k] = Shown(x[k])
    BY <2>4, <2>18 DEF ShownAll
  <2>23. \A k \in 1..n : u[k] \in 32..126
    BY <2>20, <2>21, <2>22, WrittenIsShown, ZenonT(40) DEF Printable
  <2>24. \A k \in 1..(Len(u) - 1) : u[k] \in 32..126
    <3>1. Len(u) - 1 = n
      BY <2>20
    <3> QED
      BY <2>23, <3>1, Zenon
  <2>25. u[Len(u)] = Newline
    BY <2>20, Zenon
  <2>26. \A k \in DOMAIN l.out : Len(l.out[k]) < LogSize
    <3>1. l.out \in Seq(Seq(Octet)) /\ \A k \in 1..Len(l.out) : Len(l.out[k]) < LogSize
      BY <2>11 DEF Logged, LineState
    <3>2. DOMAIN l.out = 1..Len(l.out)
      BY <3>1, LenProperties
    <3> QED
      BY <3>1, <3>2, Zenon
  <2>27. i \in 0..Len(u) /\ SubSeq(u, i + 1, i + Len(w)) = w
    BY <2>16, MiddlePiece, Zenon
  <2>28. w = [k \in 1..Len(y) |-> LET c == y[k] IN IF c \in 32..126 THEN c ELSE Question]
    BY <2>4, Zenon DEF ShownAll, Shown
  <2>29. Len(w) = Len(y)
    BY <2>18, <2>19, Zenon
  <2>30. l = log_9(m)
    BY <2>3, <2>6, <2>10, Zenon
  <2> QED
    <3>1. \E j \in 0..Len(u) : SubSeq(u, j + 1, j + Len(y))
             = [k \in 1..Len(y) |-> LET c == y[k] IN IF c \in 32..126 THEN c ELSE Question]
      BY <2>27, <2>28, <2>29, Zenon
    <3> QED
      BY <1>2, <2>1, <2>11, <2>17, <2>24, <2>25, <2>26, <2>30, <3>1, Zenon DEF LogRight
<1> QED
  BY <1>1, <1>2, Zenon
-----------------------------------------------------------------------------
(* Addresses. *)
Word16 == 0..65535
Address == [0..7 -> Word16]

(* How many zeros end at a group. *)
ZerosAt(ip, j) == Cardinality({i \in 0..j : \A k \in i..j : ip[k] = 0})

(* That many groups up to this one are zero, and the one before them is not. *)
ZerosUpTo(ip, j, c) ==
  /\ c \in 0..(j + 1) /\ \A k \in (j - c + 1)..j : ip[k] = 0
  /\ c = j + 1 \/ ip[j - c] # 0

(* ZerosAt is that number. *)
LEMMA ZerosAtIs ==
  ASSUME NEW ip \in Address, NEW j \in 0..7
  PROVE  ZerosUpTo(ip, j, ZerosAt(ip, j))
<1> DEFINE A == {i \in 0..j : \A k \in i..j : ip[k] = 0}
<1>1. CASE A = {}
  <2>1. ZerosAt(ip, j) = 0
    BY <1>1, FS_EmptySet, Zenon DEF ZerosAt
  <2>2. ip[j] # 0
    <3>1. j \notin A /\ j \in 0..j
      BY <1>1
    <3>2. \A k \in j..j : k = j
      OBVIOUS
    <3> QED
      BY <3>1, <3>2, Zenon
  <2> QED
    BY <2>1, <2>2 DEF ZerosUpTo
<1>2. CASE A # {}
  <2>1. A \subseteq Nat
    OBVIOUS
  <2>2. PICK b : b \in A /\ \A y \in A : b <= y
    <3> HIDE DEF A
    <3> QED
      BY <1>2, <2>1, LeastIs, Zenon
  <2>3. b \in 0..j /\ \A k \in b..j : ip[k] = 0
    BY <2>2
  <2>4. A = b..j
    <3>1. \A i \in A : i \in b..j
      BY <2>2
    <3>2. ASSUME NEW i \in b..j PROVE i \in A
      <4>1. i \in 0..j /\ \A k \in i..j : k \in b..j
        BY <2>3
      <4> QED
        BY <2>3, <4>1, Zenon
    <3> HIDE DEF A
    <3> QED
      BY <3>1, <3>2, Zenon
  <2>5. Cardinality(b..j) = j - b + 1
    <3>1. b \in Int /\ j \in Int /\ ~(b > j)
      BY <2>3
    <3> QED
      BY <3>1, FS_Interval, Zenon
  <2>6. PICK c : c = ZerosAt(ip, j)
    OBVIOUS
  <2>7. c = j - b + 1
    BY <2>4, <2>5, <2>6, Zenon DEF ZerosAt
  <2>8. b = 0 \/ ip[b - 1] # 0
    <3>1. ASSUME b # 0, ip[b - 1] = 0 PROVE FALSE
      <4>1. b - 1 \in 0..j /\ ~(b <= b - 1) /\ \A k \in (b - 1)..j : k = b - 1 \/ k \in b..j
        BY <2>3, <3>1
      <4>2. b - 1 \in A
        BY <2>3, <3>1, <4>1, Zenon
      <4> QED
        BY <2>2, <4>1, <4>2, Zenon
    <3> QED
      BY <3>1, Zenon
  <2>9. c \in 0..(j + 1) /\ j - c + 1 = b /\ j - c = b - 1 /\ (b = 0 => c = j + 1)
    BY <2>3, <2>7
  <2>10. ZerosUpTo(ip, j, c)
    BY <2>3, <2>8, <2>9, Zenon DEF ZerosUpTo
  <2> QED
    BY <2>6, <2>10, Zenon
<1> QED
  BY <1>1, <1>2, Zenon

(* Two groups or more, all of them zero. *)
ZeroRun(ip, a, b) == a \in 0..7 /\ b \in 0..7 /\ a < b /\ \A k \in a..b : ip[k] = 0

(* A run of zeros is no longer than the count at its end. *)
LEMMA RunCounted ==
  ASSUME NEW ip \in Address, NEW a, NEW b, ZeroRun(ip, a, b)
  PROVE  b - a + 1 <= ZerosAt(ip, b)
<1>1. PICK c : c = ZerosAt(ip, b)
  OBVIOUS
<1>2. a \in 0..7 /\ b \in 0..7 /\ a < b /\ \A k \in a..b : ip[k] = 0
  BY DEF ZeroRun
<1>3. c \in 0..(b + 1) /\ (c = b + 1 \/ ip[b - c] # 0)
  BY <1>1, <1>2, ZerosAtIs, Zenon DEF ZerosUpTo
<1>4. b - a + 1 <= c
  BY <1>2, <1>3
<1> QED
  BY <1>1, <1>4, Zenon

(* What countz finds: nothing, when no two zeros stand side by side, and the
   first of the longest runs otherwise. *)
CountzFound(ip, z) ==
  \/ /\ \A a, b : ~ZeroRun(ip, a, b)
     /\ z \in Int \X Int /\ (z[1] = z[2] \/ z[1] = z[2] + 1)
  \/ /\ ZeroRun(ip, z[1], z[2])
     /\ \A a, b : ZeroRun(ip, a, b) => b - a <= z[2] - z[1] /\ (b - a = z[2] - z[1] => z[1] <= a)

(* Where the longest run of zeros ends first. *)
Block(ip) ==
  LET best == {j \in 0..7 : \A k \in 0..7 : ZerosAt(ip, k) <= ZerosAt(ip, j)}
  IN IF \A j \in 0..7 : ZerosAt(ip, j) = 0 THEN 0 ELSE Min(best)

(* No count is greater than the one there, and none before it is as great. *)
LEMMA BlockIs ==
  ASSUME NEW ip \in Address
  PROVE  /\ Block(ip) \in 0..7
         /\ \A k \in 0..7 : ZerosAt(ip, k) <= ZerosAt(ip, Block(ip))
         /\ \A k \in 0..7 : 0 < ZerosAt(ip, k) /\ ZerosAt(ip, k) = ZerosAt(ip, Block(ip))
                              => Block(ip) <= k
<1> DEFINE C == {ZerosAt(ip, k) : k \in 0..7}
           best == {j \in 0..7 : \A k \in 0..7 : ZerosAt(ip, k) <= ZerosAt(ip, j)}
<1>1. \A k \in 0..7 : ZerosAt(ip, k) \in 0..8
  <2>1. ASSUME NEW k \in 0..7 PROVE ZerosAt(ip, k) \in 0..8
    <3>1. PICK c : c = ZerosAt(ip, k)
      OBVIOUS
    <3>2. c \in 0..(k + 1)
      BY <3>1, ZerosAtIs, Zenon DEF ZerosUpTo
    <3>3. c \in 0..8
      BY <3>2
    <3> QED
      BY <3>1, <3>3, Zenon
  <2> QED
    BY <2>1, Zenon
<1>2. CASE \A j \in 0..7 : ZerosAt(ip, j) = 0
  <2>1. Block(ip) = 0
    BY <1>2, Zenon DEF Block
  <2>2. 0 \in 0..7 /\ 0 <= 0 /\ ~(0 < 0)
    OBVIOUS
  <2> QED
    BY <1>2, <2>1, <2>2, Zenon
<1>3. CASE ~\A j \in 0..7 : ZerosAt(ip, j) = 0
  <2>1. C \subseteq 0..8 /\ C # {}
    <3>1. C \subseteq 0..8
      BY <1>1, Zenon
    <3>2. 0 \in 0..7
      OBVIOUS
    <3>3. ZerosAt(ip, 0) \in C
      BY <3>2, Zenon
    <3> QED
      BY <3>1, <3>3, Zenon
  <2>2. Max(C) \in C /\ \A y \in C : Max(C) >= y
    <3>1. PICK n \in Nat : n = 8
      OBVIOUS
    <3> HIDE DEF C
    <3> QED
      BY <2>1, <3>1, GreatestIs, Zenon
  <2>3. PICK q \in 0..7 : Max(C) = ZerosAt(ip, q)
    BY <2>2, Zenon
  <2>4. \A k \in 0..7 : ZerosAt(ip, q) >= ZerosAt(ip, k)
    BY <2>2, <2>3, Zenon
  <2>5. PICK w : w = [k \in 0..7 |-> ZerosAt(ip, k)]
    OBVIOUS
  <2>6. \A k \in 0..7 : w[k] = ZerosAt(ip, k)
    BY <2>5, Zenon
  <2>7. \A k \in 0..7 : w[k] \in 0..8
    BY <1>1, <2>6, Zenon
  <2>8. \A k \in 0..7 : w[k] <= w[q]
    <3>1. \A k \in 0..7 : w[q] >= w[k]
      BY <2>4, <2>6, Zenon
    <3> QED
      BY <2>7, <3>1
  <2>9. q \in best
    BY <2>6, <2>8, Zenon
  <2>10. best \subseteq Nat
    <3>1. 0..7 \subseteq Nat
      OBVIOUS
    <3> QED
      BY <3>1, Zenon
  <2>11. Min(best) \in best /\ \A y \in best : Min(best) <= y
    <3> HIDE DEF best
    <3> QED
      BY <2>9, <2>10, LeastIs, Zenon
  <2>12. Block(ip) = Min(best)
    BY <1>3, Zenon DEF Block
  <2>13. PICK m : m = Block(ip)
    OBVIOUS
  <2>14. m \in 0..7 /\ \A k \in 0..7 : ZerosAt(ip, k) <= ZerosAt(ip, m)
    BY <2>11, <2>12, <2>13, Zenon
  <2>15. \A k \in 0..7 : ZerosAt(ip, k) = ZerosAt(ip, m) => k \in best
    BY <2>14, Zenon
  <2>16. \A k \in 0..7 : ZerosAt(ip, k) = ZerosAt(ip, m) => m <= k
    BY <2>11, <2>12, <2>13, <2>15, Zenon
  <2> QED
    BY <2>13, <2>14, <2>16, Zenon
<1> QED
  BY <1>2, <1>3, Zenon

(* That is what countz finds. *)
LEMMA CountzIs ==
  ASSUME NEW ip \in Address
  PROVE  CountzFound(ip, countz(ip))
<1>1. PICK m, c : m = Block(ip) /\ c = ZerosAt(ip, m)
  OBVIOUS
<1>2. countz(ip) = <<m - c + 1, m>>
  BY <1>1, Zenon DEF countz, Block, ZerosAt
<1>3. /\ m \in 0..7 /\ \A k \in 0..7 : ZerosAt(ip, k) <= c
      /\ \A k \in 0..7 : 0 < ZerosAt(ip, k) /\ ZerosAt(ip, k) = c => m <= k
  BY <1>1, BlockIs, Zenon
<1>4. c \in 0..(m + 1) /\ \A k \in (m - c + 1)..m : ip[k] = 0
  BY <1>1, <1>3, ZerosAtIs, Zenon DEF ZerosUpTo
<1>5. PICK p, z : p = m - c + 1 /\ z = countz(ip)
  OBVIOUS
<1>6. p \in 0..8 /\ c = m - p + 1 /\ \A k \in p..m : ip[k] = 0
  BY <1>3, <1>4, <1>5
<1>7. z = <<p, m>> /\ z[1] = p /\ z[2] = m /\ z \in Int \X Int
  BY <1>2, <1>3, <1>5, <1>6
<1>8. \A a, b : ZeroRun(ip, a, b) => a \in 0..7 /\ b \in 0..7 /\ a < b
  BY Zenon DEF ZeroRun
<1>9. \A k \in 0..7 : ZerosAt(ip, k) \in Nat
  <2>1. ASSUME NEW k \in 0..7 PROVE ZerosAt(ip, k) \in Nat
    <3>1. PICK e : e = ZerosAt(ip, k)
      OBVIOUS
    <3>2. e \in 0..(k + 1)
      BY <3>1, ZerosAtIs, Zenon DEF ZerosUpTo
    <3>3. e \in Nat
      BY <3>2
    <3> QED
      BY <3>1, <3>3, Zenon
  <2> QED
    BY <2>1, Zenon
<1>10. ASSUME NEW a, NEW b, ZeroRun(ip, a, b)
       PROVE  b - a <= m - p /\ (b - a = m - p => p <= a)
  <2>1. PICK e : e = ZerosAt(ip, b)
    OBVIOUS
  <2>2. a \in 0..7 /\ b \in 0..7 /\ a < b
    BY <1>8, <1>10, Zenon
  <2>3. b - a + 1 <= e
    BY <1>10, <2>1, RunCounted, Zenon
  <2>4. e <= c /\ e \in Nat /\ (0 < e /\ e = c => m <= b)
    BY <1>3, <1>9, <2>1, <2>2, Zenon
  <2> QED
    BY <1>3, <1>4, <1>6, <2>2, <2>3, <2>4
<1>11. CASE p < m
  <2>1. p \in 0..7
    BY <1>3, <1>6, <1>11
  <2>2. ZeroRun(ip, p, m)
    BY <1>3, <1>6, <1>11, <2>1, Zenon DEF ZeroRun
  <2>3. CountzFound(ip, z)
    BY <1>7, <1>10, <2>2, Zenon DEF CountzFound
  <2> QED
    BY <1>5, <2>3, Zenon
<1>12. CASE ~(p < m)
  <2>1. p = m \/ p = m + 1
    BY <1>3, <1>4, <1>6, <1>12
  <2>2. ASSUME NEW a, NEW b, ZeroRun(ip, a, b) PROVE FALSE
    <3>1. a \in 0..7 /\ b \in 0..7 /\ a < b
      BY <1>8, <2>2, Zenon
    <3>2. b - a <= m - p
      BY <1>10, <2>2, Zenon
    <3> QED
      BY <1>3, <1>6, <1>12, <3>1, <3>2
  <2>3. CountzFound(ip, z)
    BY <1>7, <2>1, <2>2, Zenon DEF CountzFound
  <2> QED
    BY <1>5, <2>3, Zenon
<1> QED
  BY <1>11, <1>12, Zenon

(* The runs of two zeros or more, and the first of the longest. *)
Runs(ip) == {r \in (0..7) \X (0..7) : r[1] < r[2] /\ \A k \in r[1]..r[2] : ip[k] = 0}
Longest(ip) == {r \in Runs(ip) : \A s \in Runs(ip) : s[2] - s[1] <= r[2] - r[1]}
FirstRun(ip) == CHOOSE r \in Longest(ip) : \A s \in Longest(ip) : r[1] <= s[1]

(* Either there is none, or z is that one. *)
RunFound(ip, z) ==
  \/ Runs(ip) = {} /\ z \in Int \X Int /\ (z[1] = z[2] \/ z[1] = z[2] + 1)
  \/ /\ Runs(ip) # {} /\ ZeroRun(ip, z[1], z[2])
     /\ FirstRun(ip)[1] = z[1] /\ FirstRun(ip)[2] = z[2]

(* countz finds it. *)
LEMMA FirstRunIs ==
  ASSUME NEW ip \in Address, NEW z, CountzFound(ip, z)
  PROVE  RunFound(ip, z)
<1>1. ASSUME NEW r \in Runs(ip)
      PROVE  r \in (0..7) \X (0..7) /\ ZeroRun(ip, r[1], r[2])
  <2>1. r \in (0..7) \X (0..7) /\ r[1] < r[2] /\ \A k \in r[1]..r[2] : ip[k] = 0
    BY <1>1, Zenon DEF Runs
  <2>2. r[1] \in 0..7 /\ r[2] \in 0..7
    BY <2>1
  <2> QED
    BY <2>1, <2>2, Zenon DEF ZeroRun
<1>2. CASE (\A a, b : ~ZeroRun(ip, a, b)) /\ z \in Int \X Int /\ (z[1] = z[2] \/ z[1] = z[2] + 1)
  BY <1>1, <1>2, Zenon DEF RunFound
<1>3. CASE /\ ZeroRun(ip, z[1], z[2])
           /\ \A a, b : ZeroRun(ip, a, b)
                => b - a <= z[2] - z[1] /\ (b - a = z[2] - z[1] => z[1] <= a)
  <2>1. PICK p, m : p = z[1] /\ m = z[2]
    OBVIOUS
  <2>2. p \in 0..7 /\ m \in 0..7 /\ p < m /\ \A k \in p..m : ip[k] = 0
    BY <1>3, <2>1, Zenon DEF ZeroRun
  <2>3. PICK y : y = <<p, m>>
    OBVIOUS
  <2>4. y \in (0..7) \X (0..7) /\ y[1] = p /\ y[2] = m
    BY <2>2, <2>3
  <2>5. y \in Runs(ip)
    BY <2>2, <2>4, Zenon DEF Runs
  <2>6. \A s \in Runs(ip) : s[2] - s[1] <= y[2] - y[1] /\ (s[2] - s[1] = y[2] - y[1] => y[1] <= s[1])
    BY <1>1, <1>3, <2>1, <2>4, Zenon
  <2>7. y \in Longest(ip)
    BY <2>5, <2>6, Zenon DEF Longest
  <2>8. ASSUME NEW r \in Longest(ip) PROVE r \in Runs(ip) /\ r[2] - r[1] = y[2] - y[1]
    <3>1. r \in Runs(ip) /\ \A s \in Runs(ip) : s[2] - s[1] <= r[2] - r[1]
      BY <2>8, Zenon DEF Longest
    <3>2. y[2] - y[1] <= r[2] - r[1] /\ r[2] - r[1] <= y[2] - y[1]
      BY <2>5, <2>6, <3>1, Zenon
    <3>3. r[1] \in 0..7 /\ r[2] \in 0..7
      BY <1>1, <3>1, Zenon DEF ZeroRun
    <3> QED
      BY <2>2, <2>4, <3>1, <3>2, <3>3
  <2>9. \A s \in Longest(ip) : y[1] <= s[1]
    BY <2>6, <2>8, Zenon
  <2>10. PICK r : r = FirstRun(ip)
    OBVIOUS
  <2>11. r \in Longest(ip) /\ \A s \in Longest(ip) : r[1] <= s[1]
    BY <2>7, <2>9, <2>10, Zenon DEF FirstRun
  <2>12. r[1] <= y[1] /\ y[1] <= r[1] /\ r[2] - r[1] = y[2] - y[1]
    BY <2>7, <2>8, <2>9, <2>11, Zenon
  <2>13. r[1] \in 0..7 /\ r[2] \in 0..7
    BY <1>1, <2>8, <2>11, Zenon DEF ZeroRun
  <2>14. r[1] = p /\ r[2] = m
    BY <2>2, <2>4, <2>12, <2>13
  <2> QED
    BY <1>3, <2>1, <2>5, <2>10, <2>14, Zenon DEF RunFound
<1> QED
  BY <1>2, <1>3, Zenon DEF CountzFound

-----------------------------------------------------------------------------
(* The groups of an address as text, with and without the colon in front. *)
Group(ip, i) == Digits(16, ip[i])
ColonGroup(ip, i) == << Colon >> \o Digits(16, ip[i])

(* They are texts. *)
LEMMA GroupsAre ==
  ASSUME NEW ip \in Address, NEW i \in 0..7
  PROVE  /\ Group(ip, i) \in Seq(Nat) /\ ColonGroup(ip, i) \in Seq(Nat)
         /\ ColonGroup(ip, i) = << Colon >> \o Group(ip, i)
<1>1. PICK b \in Nat : b = 16
  OBVIOUS
<1>2. b > 1 /\ ip[i] \in Nat
  <2>1. ip[i] \in Word16
    BY Zenon DEF Address
  <2>2. Word16 \subseteq Nat
    BY DEF Word16
  <2>3. b > 1
    BY <1>1
  <2> QED
    BY <2>1, <2>2, <2>3, Zenon
<1>3. Group(ip, i) \in Seq(Nat)
  BY <1>1, <1>2, DigitsIs, Zenon DEF Group
<1>4. PICK c : c = << Colon >>
  OBVIOUS
<1>5. c \in Seq(Nat)
  BY <1>4 DEF Colon
<1>6. ColonGroup(ip, i) = c \o Group(ip, i)
  BY <1>4, Zenon DEF ColonGroup, Group
<1>7. c \o Group(ip, i) \in Seq(Nat)
  BY <1>3, <1>5, Joint, Zenon
<1> QED
  BY <1>3, <1>4, <1>6, <1>7, Zenon

(* Groups with a colon between each two. *)
GroupsJoined(ip, a, b) ==
  [i \in 1..(b - a + 1) |-> (IF i > 1 THEN << Colon >> ELSE <<>>) \o Digits(16, ip[a + i - 1])]

(* y is the groups a to b, with a colon between each two. *)
GroupsFrom(ip, y, a, b) ==
  /\ y \in Seq(Seq(Nat)) /\ Len(y) = b - a + 1
  /\ \A i \in 1..(b - a + 1) : y[i] = IF i = 1 THEN Group(ip, a) ELSE ColonGroup(ip, a + i - 1)

(* That is what GroupsJoined is. *)
LEMMA JoinedIs ==
  ASSUME NEW ip \in Address, NEW a \in Nat, NEW b \in Int, b <= 7, a <= b + 1
  PROVE  GroupsFrom(ip, GroupsJoined(ip, a, b), a, b)
<1>1. PICK n \in Nat, y \in {GroupsJoined(ip, a, b)} : n = b - a + 1 /\ y = GroupsJoined(ip, a, b)
  OBVIOUS
<1>2. \A i \in 1..n : a + i - 1 \in 0..7 /\ (i = 1 => a + i - 1 = a) /\ (i > 1 <=> i # 1)
  BY <1>1
<1>3. \A k \in 0..7 : Group(ip, k) \in Seq(Nat) /\ ColonGroup(ip, k) \in Seq(Nat)
  BY GroupsAre, Zenon
<1>4. ASSUME NEW x \in Seq(Nat) PROVE <<>> \o x = x
  BY <1>4
<1>5. ASSUME NEW i \in 1..n
      PROVE  /\ (IF i > 1 THEN << Colon >> ELSE <<>>) \o Digits(16, ip[a + i - 1])
                  = IF i = 1 THEN Group(ip, a) ELSE ColonGroup(ip, a + i - 1)
             /\ (IF i = 1 THEN Group(ip, a) ELSE ColonGroup(ip, a + i - 1)) \in Seq(Nat)
  <2>1. CASE i = 1
    <3>1. <<>> \o Group(ip, a + i - 1) = Group(ip, a + i - 1)
      BY <1>2, <1>3, <1>4, <1>5, Zenon
    <3> QED
      BY <1>2, <1>3, <1>5, <2>1, <3>1, Zenon DEF Group
  <2>2. CASE i # 1
    BY <1>2, <1>3, <1>5, <2>2, Zenon DEF ColonGroup
  <2> QED
    BY <2>1, <2>2, Zenon
<1>6. y = [i \in 1..n |-> IF i = 1 THEN Group(ip, a) ELSE ColonGroup(ip, a + i - 1)]
  <2>1. y = [i \in 1..n |-> (IF i > 1 THEN << Colon >> ELSE <<>>) \o Digits(16, ip[a + i - 1])]
    BY <1>1, Zenon DEF GroupsJoined
  <2> QED
    BY <1>5, <2>1, Zenon
<1>7. y \in [1..n -> Seq(Nat)]
  BY <1>5, <1>6, Zenon
<1>8. y \in Seq(Seq(Nat)) /\ Len(y) = n
  BY <1>7, Listed, Zenon
<1>9. \A i \in 1..n : y[i] = IF i = 1 THEN Group(ip, a) ELSE ColonGroup(ip, a + i - 1)
  BY <1>6, Zenon
<1> QED
  BY <1>1, <1>8, <1>9, Zenon DEF GroupsFrom

(* The pieces iptostr6 writes, and what they are: nothing for the zeros of the
   run but the colons at its ends. *)
Pieces(ip, z) ==
  LET piece(i) == IF z[1] <= i /\ i <= z[2] /\ z[1] # z[2]
                  THEN (IF i = 7 THEN << Colon >> ELSE <<>>) \o (IF i = z[2] THEN << Colon >> ELSE <<>>)
                  ELSE (IF i > 0 THEN << Colon >> ELSE <<>>) \o Digits(16, ip[i])
  IN [i \in 1..8 |-> piece(i - 1)]
Skipped(i, m) == (IF i = 7 THEN << Colon >> ELSE <<>>) \o (IF i = m THEN << Colon >> ELSE <<>>)
PiecesFrom(ip, y, p, m) ==
  /\ y \in Seq(Seq(Nat)) /\ Len(y) = 8
  /\ \A i \in 0..7 : y[i + 1] = IF p <= i /\ i <= m /\ p # m THEN Skipped(i, m)
                                ELSE IF i = 0 THEN Group(ip, 0) ELSE ColonGroup(ip, i)

(* Two colons, end to end. *)
LEMMA TwoColons == << Colon >> \o << Colon >> = <<Colon, Colon>>
<1>1. PICK c, d : c = << Colon >> /\ d = <<Colon, Colon>>
  OBVIOUS
<1>2. c \in Seq(Nat) /\ d \in Seq(Nat)
  BY <1>1 DEF Colon
<1>3. c \o c = d
  <2>1. Len(c) = 1 /\ c[1] = Colon /\ Len(d) = 2 /\ d[1] = Colon /\ d[2] = Colon
    BY <1>1
  <2>2. PICK x : x = c \o c
    OBVIOUS
  <2>3. x \in Seq(Nat) /\ Len(x) = 2 /\ x[1] = Colon /\ x[2] = Colon
    <3>1. x \in Seq(Nat) /\ Len(x) = Len(c) + Len(c)
      BY <1>2, <2>2, Joint, Zenon
    <3>2. 1 \in 1..Len(c) /\ Len(c) + Len(c) = 2 /\ Len(c) + 1 = 2
      BY <2>1
    <3>3. \A k \in 1..Len(c) : (c \o c)[k] = c[k]
      BY <1>2, Joint, Zenon
    <3>4. \A k \in 1..Len(c) : (c \o c)[Len(c) + k] = c[k]
      BY <1>2, JointSecond, Zenon
    <3>5. x[1] = c[1] /\ x[Len(c) + 1] = c[1]
      BY <2>2, <3>2, <3>3, <3>4, Zenon
    <3> QED
      BY <2>1, <3>1, <3>2, <3>5, Zenon
  <2>4. \A k \in 1..2 : k = 1 \/ k = 2
    OBVIOUS
  <2>5. x = d
    BY <1>2, <2>1, <2>3, <2>4, SameElements, Zenon
  <2> QED
    BY <2>2, <2>5, Zenon
<1> QED
  BY <1>1, <1>3, Zenon

(* What of the run is written is one or two colons. *)
LEMMA SkippedIs ==
  ASSUME NEW i \in 0..7, NEW m \in Int
  PROVE  /\ Skipped(i, m) \in Seq(Nat)
         /\ i # 7 /\ i # m => Skipped(i, m) = <<>>
         /\ i # 7 /\ i = m => Skipped(i, m) = << Colon >>
         /\ i = 7 /\ i = m => Skipped(i, m) = << Colon, Colon >>
<1>1. PICK c, e, d : c = << Colon >> /\ e = <<>> /\ d = <<Colon, Colon>>
  OBVIOUS
<1>2. c \in Seq(Nat) /\ e \in Seq(Nat) /\ d \in Seq(Nat)
  BY <1>1 DEF Colon
<1>3. e \o e = e /\ e \o c = c /\ c \o e = c
  BY <1>1, <1>2, ConcatEmptySeq, Zenon
<1>4. c \o c = d
  BY <1>1, TwoColons, Zenon
<1>5. CASE i = 7 /\ i = m
  BY <1>1, <1>2, <1>4, <1>5, Zenon DEF Skipped
<1>6. CASE i = 7 /\ i # m
  BY <1>1, <1>2, <1>3, <1>6, Zenon DEF Skipped
<1>7. CASE i # 7
  BY <1>1, <1>2, <1>3, <1>7, Zenon DEF Skipped
<1> QED
  BY <1>5, <1>6, <1>7, Zenon

(* That is what Pieces is. *)
LEMMA PiecesAre ==
  ASSUME NEW ip \in Address, NEW z, z \in Int \X Int
  PROVE  PiecesFrom(ip, Pieces(ip, z), z[1], z[2])
<1>1. PICK p, m, y : p = z[1] /\ m = z[2] /\ y = Pieces(ip, z)
  OBVIOUS
<1>2. p \in Int /\ m \in Int
  BY <1>1
<1> DEFINE At(i) == IF p <= i /\ i <= m /\ p # m THEN Skipped(i, m)
                    ELSE IF i = 0 THEN Group(ip, 0) ELSE ColonGroup(ip, i)
<1>3. \A k \in 0..7 : Group(ip, k) \in Seq(Nat) /\ ColonGroup(ip, k) \in Seq(Nat)
  BY GroupsAre, Zenon
<1>4. ASSUME NEW x \in Seq(Nat) PROVE <<>> \o x = x
  BY <1>4
<1>5. (\A i \in 0..7 : i > 0 <=> i # 0) /\ (\A i \in 1..8 : i - 1 \in 0..7)
      /\ \A i \in 0..7 : i + 1 \in 1..8 /\ (i + 1) - 1 = i
  OBVIOUS
<1>6. \A i \in 0..7 : At(i) \in Seq(Nat)
  BY <1>2, <1>3, SkippedIs, Zenon
<1>7. ASSUME NEW i \in 0..7
      PROVE  (IF i > 0 THEN << Colon >> ELSE <<>>) \o Digits(16, ip[i])
                = IF i = 0 THEN Group(ip, 0) ELSE ColonGroup(ip, i)
  <2>1. CASE i = 0
    <3>1. <<>> \o Group(ip, i) = Group(ip, i)
      BY <1>3, <1>4, <1>7, Zenon
    <3> QED
      BY <1>5, <1>7, <2>1, <3>1, Zenon DEF Group
  <2>2. CASE i # 0
    BY <1>5, <1>7, <2>2, Zenon DEF ColonGroup
  <2> QED
    BY <2>1, <2>2, Zenon
<1>8. y = [i \in 1..8 |-> At(i - 1)]
  <2>1. y = [i \in 1..8 |-> IF p <= i - 1 /\ i - 1 <= m /\ p # m THEN Skipped(i - 1, m)
                  ELSE (IF i - 1 > 0 THEN << Colon >> ELSE <<>>) \o Digits(16, ip[i - 1])]
    BY <1>1, Zenon DEF Pieces, Skipped
  <2> QED
    BY <1>5, <1>7, <2>1, Zenon
<1> HIDE DEF At
<1>9. y \in [1..8 -> Seq(Nat)]
  BY <1>5, <1>6, <1>8, Zenon
<1>10. y \in Seq(Seq(Nat)) /\ Len(y) = 8
  <2>1. PICK n \in Nat : n = 8
    OBVIOUS
  <2>2. y \in [1..n -> Seq(Nat)]
    BY <1>9, <2>1, Zenon
  <2>3. y \in Seq(Seq(Nat)) /\ Len(y) = n
    BY <2>2, Listed, Zenon
  <2> QED
    BY <2>1, <2>3, Zenon
<1>11. \A i \in 0..7 : y[i + 1] = At(i)
  BY <1>5, <1>8, Zenon
<1> QED
  BY <1>1, <1>10, <1>11, Zenon DEF PiecesFrom, At

(* Two texts that are the same. *)
SameText(x, y) == x = y

(* Laying texts end to end, it does not matter which are laid first. *)
LEMMA Regroup ==
  ASSUME NEW S, NEW x \in Seq(S), NEW y \in Seq(S), NEW z \in Seq(S)
  PROVE  SameText((x \o y) \o z, x \o (y \o z))
BY DEF SameText

(* Without a run of zeros the pieces are the groups. *)
LEMMA PlainAddress ==
  ASSUME NEW ip \in Address, NEW p \in Int, NEW m \in Int, p = m \/ p = m + 1,
         NEW y, PiecesFrom(ip, y, p, m), NEW u, GroupsFrom(ip, u, 0, 7)
  PROVE  SameText(y, u)
<1>1. PICK n \in Nat : n = 8 /\ n = 7 - 0 + 1
  OBVIOUS
<1>2. y \in Seq(Seq(Nat)) /\ u \in Seq(Seq(Nat)) /\ Len(y) = n /\ Len(u) = n
  BY <1>1, Zenon DEF PiecesFrom, GroupsFrom
<1>3. /\ \A i \in 0..7 : ~(p <= i /\ i <= m /\ p # m)
      /\ \A i \in 1..n : i - 1 \in 0..7 /\ (i - 1) + 1 = i /\ (i - 1 = 0 <=> i = 1) /\ 0 + i - 1 = i - 1
  BY <1>1
<1>4. \A i \in 0..7 : y[i + 1] = IF i = 0 THEN Group(ip, 0) ELSE ColonGroup(ip, i)
  BY <1>3, Zenon DEF PiecesFrom
<1>5. \A i \in 1..n : y[i] = IF i = 1 THEN Group(ip, 0) ELSE ColonGroup(ip, i - 1)
  BY <1>3, <1>4, Zenon
<1>6. \A i \in 1..n : u[i] = IF i = 1 THEN Group(ip, 0) ELSE ColonGroup(ip, i - 1)
  BY <1>1, <1>3, Zenon DEF GroupsFrom
<1>7. \A i \in 1..n : y[i] = u[i]
  BY <1>5, <1>6, Zenon
<1> QED
  BY <1>2, <1>7, SameElements, Zenon DEF SameText

(* With one, the pieces up to its end are the groups before it. *)
LEMMA BeforeRun ==
  ASSUME NEW ip \in Address, NEW p \in 0..7, NEW m \in 0..7, p < m,
         NEW y, PiecesFrom(ip, y, p, m), NEW f, Flats(f, Nat, y),
         NEW u, GroupsFrom(ip, u, 0, p - 1)
  PROVE  f[m] = FlattenSeq(u) /\ f[m] \in Seq(Nat)
<1>1. PICK n : n = (p - 1) - 0 + 1
  OBVIOUS
<1>2. n = p
  BY <1>1
<1>3. y \in Seq(Seq(Nat)) /\ u \in Seq(Seq(Nat)) /\ Len(y) = 8 /\ Len(u) = p
  BY <1>1, <1>2, Zenon DEF PiecesFrom, GroupsFrom
<1>4. \A i \in 1..p : i - 1 \in 0..7 /\ (i - 1) + 1 = i /\ (i - 1 = 0 <=> i = 1) /\ 0 + i - 1 = i - 1
                      /\ ~(p <= i - 1)
  OBVIOUS
<1>5. \A i \in 1..p : y[i] = IF i = 1 THEN Group(ip, 0) ELSE ColonGroup(ip, i - 1)
  BY <1>4, Zenon DEF PiecesFrom
<1>6. \A i \in 1..p : u[i] = IF i = 1 THEN Group(ip, 0) ELSE ColonGroup(ip, i - 1)
  BY <1>1, <1>2, <1>4, Zenon DEF GroupsFrom
<1>7. \A i \in 1..p : y[i] = u[i]
  BY <1>5, <1>6, Zenon
<1>8. PICK g : Flats(g, Nat, u) /\ FlattenSeq(u) = g[Len(u)]
  BY <1>3, FlatIs, Zenon
<1>9. p \in Nat /\ p <= Len(y) /\ p <= Len(u)
  BY <1>3
<1>10. f[p] = FlattenSeq(u)
  <2>1. f[p] = g[p]
    <3>1. y \in Seq(Seq(Nat)) /\ u \in Seq(Seq(Nat)) /\ Flats(f, Nat, y) /\ Flats(g, Nat, u)
      BY <1>3, <1>8, Zenon
    <3> QED
      BY <1>7, <1>9, <3>1, FlatsAgree
  <2> QED
    BY <1>3, <1>8, <2>1, Zenon
<1>11. f \in [0..8 -> Seq(Nat)] /\ \A i \in 1..8 : f[i] = f[i - 1] \o y[i]
  BY <1>3, Zenon DEF Flats
<1>12. ASSUME NEW i \in (p + 1)..m PROVE f[i] = f[i - 1]
  <2>1. i \in 1..8 /\ i - 1 \in 0..7 /\ (i - 1) + 1 = i /\ p <= i - 1 /\ i - 1 <= m /\ p # m
        /\ i - 1 # 7 /\ i - 1 # m /\ i - 1 \in 0..8
    BY <1>12
  <2>2. y[i] = Skipped(i - 1, m)
    BY <2>1, Zenon DEF PiecesFrom
  <2>3. m \in Int
    OBVIOUS
  <2>4. Skipped(i - 1, m) = <<>>
    BY <2>1, <2>3, SkippedIs, Zenon
  <2>5. f[i - 1] \in Seq(Nat)
    BY <1>11, <2>1, Zenon
  <2>6. f[i - 1] \o <<>> = f[i - 1]
    BY <2>5, ConcatEmptySeq, Zenon
  <2> QED
    BY <1>11, <2>1, <2>2, <2>4, <2>6, Zenon
<1> DEFINE T == {j \in 0..(m - p) : f[p + j] = f[p]}
<1>13. 0 \in T
  <2>1. p + 0 = p /\ 0 \in 0..(m - p)
    OBVIOUS
  <2> QED
    BY <2>1, Zenon
<1>14. ASSUME NEW j \in 1..(m - p), j - 1 \in T PROVE j \in T
  <2>1. p + j \in (p + 1)..m /\ (p + j) - 1 = p + (j - 1) /\ j \in 0..(m - p)
    BY <1>14
  <2>2. f[p + j] = f[p + (j - 1)]
    BY <1>12, <2>1, Zenon
  <2>3. f[p + (j - 1)] = f[p]
    BY <1>14, Zenon
  <2> QED
    BY <2>1, <2>2, <2>3, Zenon
<1>15. m - p \in Nat /\ m - p \in 0..(m - p) /\ p + (m - p) = m /\ m \in 0..8
  OBVIOUS
<1>16. 0..(m - p) \subseteq T
  <2> HIDE DEF T
  <2> QED
    BY <1>13, <1>14, <1>15, Climb, Zenon
<1>17. f[p + (m - p)] = f[p]
  BY <1>15, <1>16, Zenon
<1>18. f[m] = f[p]
  BY <1>15, <1>17, Zenon
<1>19. f[m] \in Seq(Nat)
  BY <1>11, <1>15, Zenon
<1> QED
  BY <1>10, <1>18, <1>19, Zenon

(* From there on the pieces are two colons and the groups behind the run. *)
LEMMA BehindRun ==
  ASSUME NEW ip \in Address, NEW p \in 0..7, NEW m \in 0..7, p < m,
         NEW y, PiecesFrom(ip, y, p, m), NEW f, Flats(f, Nat, y),
         NEW w, GroupsFrom(ip, w, m + 1, 7), f[m] \in Seq(Nat)
  PROVE  SameText(f[8], (f[m] \o <<Colon, Colon>>) \o FlattenSeq(w))
<1>1. PICK n \in Nat, q \in Nat, a \in Nat : n = 7 - m /\ n = 7 - q + 1 /\ q = m + 1 /\ a = q + n
  OBVIOUS
<1>2. a = 8 /\ 7 + 1 = 8 /\ q \in 1..8 /\ q - 1 = m
  BY <1>1
<1>3. y \in Seq(Seq(Nat)) /\ w \in Seq(Seq(Nat)) /\ Len(y) = 8 /\ Len(w) = n
  BY <1>1, Zenon DEF PiecesFrom, GroupsFrom
<1>4. f \in [0..8 -> Seq(Nat)] /\ \A i \in 1..8 : f[i] = f[i - 1] \o y[i]
  BY <1>3, Zenon DEF Flats
<1>5. PICK g : Flats(g, Nat, w) /\ FlattenSeq(w) = g[Len(w)]
  BY <1>3, FlatIs, Zenon
<1>6. g \in [0..n -> Seq(Nat)] /\ g[0] = <<>> /\ \A i \in 1..n : g[i] = g[i - 1] \o w[i]
  BY <1>3, <1>5, Zenon DEF Flats
<1>7. PICK c, cc, x : c = << Colon >> /\ cc = <<Colon, Colon>> /\ x = f[m]
  OBVIOUS
<1>8. c \in Seq(Nat) /\ cc \in Seq(Nat) /\ x \in Seq(Nat)
  BY <1>7 DEF Colon
<1>9. c \o c = cc
  BY <1>7, TwoColons, Zenon
<1>10. f[q] = x \o y[q]
  BY <1>2, <1>4, <1>7, Zenon
<1>11. y[q] = Skipped(m, m)
  <2>1. m \in 0..7 /\ p <= m /\ m <= m /\ p # m /\ q = m + 1
    BY <1>1
  <2> QED
    BY <2>1, Zenon DEF PiecesFrom
<1>12. m \in Int
  OBVIOUS
<1>13. CASE m = 7
  <2>1. Skipped(m, m) = cc
    BY <1>7, <1>12, <1>13, SkippedIs, Zenon
  <2>2. q = 8 /\ n = 0
    BY <1>1, <1>13
  <2>3. f[8] = x \o cc
    BY <1>10, <1>11, <2>1, <2>2, Zenon
  <2>4. FlattenSeq(w) = <<>>
    BY <1>3, <1>5, <1>6, <2>2, Zenon
  <2>5. x \o cc \in Seq(Nat)
    BY <1>8, Joint, Zenon
  <2>6. (x \o cc) \o <<>> = x \o cc
    BY <2>5, ConcatEmptySeq, Zenon
  <2> QED
    BY <1>7, <2>3, <2>4, <2>6, Zenon DEF SameText
<1>14. CASE m # 7
  <2>1. Skipped(m, m) = c
    BY <1>7, <1>12, <1>14, SkippedIs, Zenon
  <2>2. f[q] = x \o c
    BY <1>10, <1>11, <2>1, Zenon
  <2>3. n \in Nat /\ n >= 1 /\ 1 \in 1..n
    BY <1>1, <1>14
  <2>4. \A i \in 1..n : /\ q + i \in 1..8 /\ (q + i) - 1 = q + (i - 1) /\ (q + i) - 1 \in 0..7
                        /\ ((q + i) - 1) + 1 = q + i /\ ~((q + i) - 1 <= m) /\ (q + i) - 1 # 0
                        /\ q + i - 1 = (q + i) - 1
    BY <1>1, <2>3
  <2>5. \A i \in 1..n : y[q + i] = ColonGroup(ip, (q + i) - 1)
    BY <2>4, Zenon DEF PiecesFrom
  <2>6. \A i \in 1..n : w[i] = IF i = 1 THEN Group(ip, q) ELSE ColonGroup(ip, (q + i) - 1)
    <3>1. GroupsFrom(ip, w, q, 7)
      BY <1>1, Zenon
    <3>2. \A i \in 1..(7 - q + 1) : w[i] = IF i = 1 THEN Group(ip, q) ELSE ColonGroup(ip, q + i - 1)
      BY <3>1, Zenon DEF GroupsFrom
    <3>3. 7 - q + 1 = n
      BY <1>1
    <3> QED
      BY <2>4, <3>2, <3>3, Zenon
  <2>7. \A i \in 1..n : /\ Group(ip, (q + i) - 1) \in Seq(Nat) /\ ColonGroup(ip, (q + i) - 1) \in Seq(Nat)
                        /\ ColonGroup(ip, (q + i) - 1) = c \o Group(ip, (q + i) - 1)
    BY <1>7, <2>4, GroupsAre, Zenon
  <2> DEFINE T == {j \in 0..n : j = 0 \/ f[q + j] = (x \o cc) \o g[j]}
  <2>8. 0 \in T
    BY <2>3
  <2>9. ASSUME NEW j \in 1..n, j - 1 \in T PROVE j \in T
    <3>1. f[q + j] = f[q + (j - 1)] \o y[q + j] /\ g[j] = g[j - 1] \o w[j]
      BY <1>4, <1>6, <2>4, <2>9, Zenon
    <3>2. j \in 0..n /\ j - 1 \in 0..n
      BY <2>9
    <3>3. CASE j = 1
      <4>1. q + (j - 1) = q /\ j - 1 = 0 /\ (q + j) - 1 = q
        BY <1>1, <3>3
      <4>2. PICK d : d = Group(ip, q)
        OBVIOUS
      <4>3. d \in Seq(Nat) /\ y[q + j] = c \o d /\ w[j] = d
        BY <2>5, <2>6, <2>7, <2>9, <3>3, <4>1, <4>2, Zenon
      <4>4. g[j] = d
        <5>1. <<>> \o d = d
          BY <4>3, ConcatEmptySeq, Zenon
        <5> QED
          BY <1>6, <3>1, <4>1, <4>3, <5>1, Zenon
      <4>5. f[q + j] = (x \o c) \o (c \o d)
        BY <2>2, <3>1, <4>1, <4>3, Zenon
      <4>6. (x \o c) \o (c \o d) = (x \o cc) \o d
        <5>1. c \o d \in Seq(Nat)
          BY <1>8, <4>3, Joint, Zenon
        <5>2. (x \o c) \o (c \o d) = x \o (c \o (c \o d))
          <6>1. SameText((x \o c) \o (c \o d), x \o (c \o (c \o d)))
            BY <1>8, <5>1, Regroup, Zenon
          <6> QED
            BY <6>1, Zenon DEF SameText
        <5>3. c \o (c \o d) = cc \o d
          <6>1. SameText((c \o c) \o d, c \o (c \o d))
            BY <1>8, <4>3, Regroup, Zenon
          <6> QED
            BY <1>9, <6>1, Zenon DEF SameText
        <5>4. x \o (cc \o d) = (x \o cc) \o d
          <6>1. SameText((x \o cc) \o d, x \o (cc \o d))
            BY <1>8, <4>3, Regroup, Zenon
          <6> QED
            BY <6>1, Zenon DEF SameText
        <5> QED
          BY <5>2, <5>3, <5>4, Zenon
      <4> QED
        BY <3>2, <4>4, <4>5, <4>6, Zenon
    <3>4. CASE j # 1
      <4>1. j - 1 # 0
        BY <3>4
      <4>2. f[q + (j - 1)] = (x \o cc) \o g[j - 1]
        BY <2>9, <4>1, Zenon
      <4>3. PICK d : d = ColonGroup(ip, (q + j) - 1)
        OBVIOUS
      <4>4. d \in Seq(Nat) /\ y[q + j] = d /\ w[j] = d
        BY <2>5, <2>6, <2>7, <2>9, <3>4, <4>3, Zenon
      <4>5. g[j - 1] \in Seq(Nat)
        BY <1>6, <3>2, Zenon
      <4>6. x \o cc \in Seq(Nat)
        BY <1>8, Joint, Zenon
      <4>7. ((x \o cc) \o g[j - 1]) \o d = (x \o cc) \o (g[j - 1] \o d)
        <5>1. SameText(((x \o cc) \o g[j - 1]) \o d, (x \o cc) \o (g[j - 1] \o d))
          BY <4>4, <4>5, <4>6, Regroup, Zenon
        <5> QED
          BY <5>1, Zenon DEF SameText
      <4>8. f[q + j] = (x \o cc) \o g[j]
        BY <3>1, <4>2, <4>4, <4>7, Zenon
      <4> QED
        BY <3>2, <4>8, Zenon
    <3> QED
      BY <3>3, <3>4, Zenon
  <2>10. 0..n \subseteq T
    <3> HIDE DEF T
    <3> QED
      BY <2>3, <2>8, <2>9, Climb, Zenon
  <2>11. n \in 0..n /\ n # 0
    BY <2>3
  <2>12. f[q + n] = (x \o cc) \o g[n]
    BY <2>10, <2>11, Zenon
  <2>13. q + n = 8
    BY <1>1, <1>2
  <2> QED
    BY <1>3, <1>5, <1>7, <2>12, <2>13, Zenon DEF SameText
<1> QED
  BY <1>13, <1>14, Zenon

(* An address is written as RFC 5952 asks: the first of the longest runs of two
   or more zero groups becomes "::", and no other: iptostr.c, iptostr6. *)
THEOREM AddressesShortest ==
  ASSUME NEW ip \in Address
  PROVE  AddressRight(ip)
<1>1. PICK z, y : z = countz(ip) /\ y = Pieces(ip, z)
  OBVIOUS
<1>2. iptostr6(ip) = FlattenSeq(y)
  BY <1>1, Zenon DEF iptostr6, Pieces
<1>3. RunFound(ip, z)
  BY <1>1, CountzIs, FirstRunIs, Zenon
<1>4. CASE Runs(ip) = {} /\ z \in Int \X Int /\ (z[1] = z[2] \/ z[1] = z[2] + 1)
  <2>1. PiecesFrom(ip, y, z[1], z[2])
    BY <1>1, <1>4, PiecesAre, Zenon
  <2>2. PICK e \in Int, a \in Nat : e = 7 /\ a = 0 /\ e <= 7 /\ a <= e + 1
    OBVIOUS
  <2>3. PICK u : u = GroupsJoined(ip, 0, 7) /\ GroupsFrom(ip, u, 0, 7)
    <3>1. GroupsFrom(ip, GroupsJoined(ip, a, e), a, e)
      BY <2>2, JoinedIs, Zenon
    <3> QED
      BY <2>2, <3>1, Zenon
  <2>4. z[1] \in Int /\ z[2] \in Int
    BY <1>4
  <2>5. y = GroupsJoined(ip, 0, 7)
    <3>1. PICK p, m : p = z[1] /\ m = z[2]
      OBVIOUS
    <3>2. p \in Int /\ m \in Int /\ (p = m \/ p = m + 1) /\ PiecesFrom(ip, y, p, m)
      BY <1>4, <2>1, <2>4, <3>1, Zenon
    <3>3. SameText(y, u)
      BY <2>3, <3>2, PlainAddress, Zenon
    <3> QED
      BY <2>3, <3>3, Zenon DEF SameText
  <2>6. iptostr6(ip) = FlattenSeq(GroupsJoined(ip, 0, 7))
    BY <1>2, <2>5, Zenon
  <2> QED
    BY <1>4, <2>6, Zenon DEF AddressRight, Runs, GroupsJoined
<1>5. CASE /\ Runs(ip) # {} /\ ZeroRun(ip, z[1], z[2])
           /\ FirstRun(ip)[1] = z[1] /\ FirstRun(ip)[2] = z[2]
  <2>1. PICK p, m : p = z[1] /\ m = z[2]
    OBVIOUS
  <2>2. p \in 0..7 /\ m \in 0..7 /\ p < m
    BY <1>5, <2>1, Zenon DEF ZeroRun
  <2>3. z \in Int \X Int
    <3>1. z = <<m - ZerosAt(ip, m) + 1, m>>
      <4>1. z = <<Block(ip) - ZerosAt(ip, Block(ip)) + 1, Block(ip)>>
        BY <1>1, Zenon DEF countz, Block, ZerosAt
      <4>2. z[2] = Block(ip)
        BY <4>1
      <4> QED
        BY <2>1, <4>1, <4>2, Zenon
    <3>2. PICK h : h = m - ZerosAt(ip, m) + 1
      OBVIOUS
    <3>3. z = <<h, m>>
      BY <3>1, <3>2, Zenon
    <3>4. z[1] = h
      BY <3>3
    <3> QED
      BY <2>1, <2>2, <3>3, <3>4
  <2>4. PiecesFrom(ip, y, p, m)
    BY <1>1, <2>1, <2>3, PiecesAre, Zenon
  <2>5. y \in Seq(Seq(Nat)) /\ Len(y) = 8
    BY <2>4, Zenon DEF PiecesFrom
  <2>6. PICK f : Flats(f, Nat, y) /\ FlattenSeq(y) = f[Len(y)]
    BY <2>5, FlatIs, Zenon
  <2>7. PICK e \in Int, a \in Nat, b \in Int, q \in Nat :
          e = 7 /\ a = 0 /\ b = p - 1 /\ q = m + 1 /\ e <= 7 /\ b <= 7 /\ a <= b + 1 /\ q <= e + 1
    BY <2>2
  <2>8. PICK u, w : u = GroupsJoined(ip, 0, p - 1) /\ w = GroupsJoined(ip, m + 1, 7)
    OBVIOUS
  <2>9. GroupsFrom(ip, u, 0, p - 1)
    <3>1. GroupsFrom(ip, GroupsJoined(ip, a, b), a, b)
      BY <2>7, JoinedIs, Zenon
    <3> QED
      BY <2>7, <2>8, <3>1, Zenon
  <2>10. GroupsFrom(ip, w, m + 1, 7)
    <3>1. GroupsFrom(ip, GroupsJoined(ip, q, e), q, e)
      BY <2>7, JoinedIs, Zenon
    <3> QED
      BY <2>7, <2>8, <3>1, Zenon
  <2>11. f[m] = FlattenSeq(u) /\ f[m] \in Seq(Nat)
    BY <2>2, <2>4, <2>6, <2>9, BeforeRun, Zenon
  <2>12. f[8] = (f[m] \o <<Colon, Colon>>) \o FlattenSeq(w)
    <3>1. Flats(f, Nat, y) /\ f[m] \in Seq(Nat)
      BY <2>6, <2>11, Zenon
    <3>2. SameText(f[8], (f[m] \o <<Colon, Colon>>) \o FlattenSeq(w))
      BY <2>2, <2>4, <2>10, <3>1, BehindRun, Zenon
    <3> QED
      BY <3>2, Zenon DEF SameText
  <2>13. iptostr6(ip) = (FlattenSeq(u) \o <<Colon, Colon>>) \o FlattenSeq(w)
    BY <1>2, <2>5, <2>6, <2>11, <2>12, Zenon
  <2>14. u = GroupsJoined(ip, 0, FirstRun(ip)[1] - 1) /\ w = GroupsJoined(ip, FirstRun(ip)[2] + 1, 7)
    BY <1>5, <2>1, <2>8, Zenon
  <2>15. Runs(ip) # {}
    BY <1>5
  <2> QED
    BY <2>13, <2>14, <2>15, Zenon DEF AddressRight, FirstRun, Longest, Runs, GroupsJoined
<1> QED
  BY <1>3, <1>4, <1>5, Zenon DEF RunFound
-----------------------------------------------------------------------------
(* Base64: the bits that wait, and the loop that takes six of them at a time. *)
Waiting == [v : Nat, bits : 0..14, out : Seq(Nat)]
Taken6(s) == [v |-> s.v % 2^(s.bits - 6), bits |-> s.bits - 6,
              out |-> Append(s.out, (s.v \div 2^(s.bits - 6)) % 64)]
DrainRule(d) == d = [s \in Waiting |-> IF s.bits <= 6 THEN s ELSE d[Taken6(s)]]
Drained == CHOOSE d : DrainRule(d)

(* The powers of two that come in there. *)
LEMMA Powers ==
  /\ 2^0 = 1 /\ 2^1 = 2 /\ 2^2 = 4 /\ 2^3 = 8 /\ 2^4 = 16 /\ 2^5 = 32 /\ 2^6 = 64
  /\ 2^7 = 128 /\ 2^8 = 256
OBVIOUS

(* Eight bits at most are left when six are taken. *)
LEMMA TakenSix ==
  ASSUME NEW s \in Waiting, s.bits > 6
  PROVE  Taken6(s) \in Waiting /\ Taken6(s).bits = s.bits - 6
<1>1. PICK v \in Nat, b \in 0..14, o \in Seq(Nat) : v = s.v /\ b = s.bits /\ o = s.out
  BY DEF Waiting
<1>2. PICK k : k = b - 6
  OBVIOUS
<1>3. k \in 1..8 /\ k \in 0..14
  BY <1>1, <1>2
<1>4. 2^k \in Nat \ {0}
  <2>1. k = 1 \/ k = 2 \/ k = 3 \/ k = 4 \/ k = 5 \/ k = 6 \/ k = 7 \/ k = 8
    BY <1>3
  <2>2. CASE k = 1
    BY <2>2
  <2>3. CASE k = 2
    BY <2>3
  <2>4. CASE k = 3
    BY <2>4
  <2>5. CASE k = 4
    BY <2>5
  <2>6. CASE k = 5
    BY <2>6
  <2>7. CASE k = 6
    BY <2>7
  <2>8. CASE k = 7
    BY <2>8
  <2>9. CASE k = 8
    BY <2>9
  <2> QED
    BY <2>1, <2>2, <2>3, <2>4, <2>5, <2>6, <2>7, <2>8, <2>9, Zenon
<1>5. PICK q : q = 2^k
  OBVIOUS
<1>6. v % q \in Nat /\ (v \div q) % 64 \in Nat
  BY <1>4, <1>5
<1>7. PICK w, d : w = v % q /\ d = (v \div q) % 64
  OBVIOUS
<1>8. Append(o, d) \in Seq(Nat)
  BY <1>6, <1>7
<1>9. Taken6(s) = [v |-> w, bits |-> k, out |-> Append(o, d)]
  BY <1>1, <1>2, <1>5, <1>7, Zenon DEF Taken6
<1>10. [v |-> w, bits |-> k, out |-> Append(o, d)] \in Waiting
  BY <1>3, <1>6, <1>7, <1>8 DEF Waiting
<1>11. [v |-> w, bits |-> k, out |-> Append(o, d)].bits = k
  OBVIOUS
<1> QED
  BY <1>1, <1>2, <1>9, <1>10, <1>11, Zenon

(* There is such a loop: it ends after one or two rounds. *)
LEMMA DrainedIs ==
  ASSUME NEW s \in Waiting
  PROVE  Drained[s] = IF s.bits <= 6 THEN s ELSE Drained[Taken6(s)]
<1> DEFINE d == [t \in Waiting |->
                   IF t.bits <= 6 THEN t
                   ELSE IF Taken6(t).bits <= 6 THEN Taken6(t) ELSE Taken6(Taken6(t))]
<1>1. \A t \in Waiting : t.bits \in 0..14
  BY DEF Waiting
<1>2. ASSUME NEW t \in Waiting
      PROVE  d[t] = IF t.bits <= 6 THEN t ELSE d[Taken6(t)]
  <2>1. CASE t.bits <= 6
    BY <1>2, <2>1, Zenon
  <2>2. CASE ~(t.bits <= 6)
    <3>1. t.bits > 6
      BY <1>1, <2>2
    <3>2. PICK u : u = Taken6(t)
      OBVIOUS
    <3>3. u \in Waiting /\ u.bits = t.bits - 6
      BY <3>1, <3>2, TakenSix, Zenon
    <3>4. d[t] = IF u.bits <= 6 THEN u ELSE Taken6(u)
      BY <2>2, <3>2, Zenon
    <3>5. CASE u.bits <= 6
      BY <2>2, <3>2, <3>3, <3>4, <3>5, Zenon
    <3>6. CASE ~(u.bits <= 6)
      <4>1. u.bits > 6
        BY <1>1, <3>3, <3>6
      <4>2. Taken6(u).bits = u.bits - 6
        BY <3>3, <4>1, TakenSix, Zenon
      <4>3. u.bits - 6 <= 6
        BY <1>1, <3>3
      <4>4. d[u] = Taken6(u)
        BY <3>3, <3>6, <4>2, <4>3, Zenon
      <4> QED
        BY <2>2, <3>2, <3>4, <3>6, <4>4, Zenon
    <3> QED
      BY <3>5, <3>6, Zenon
  <2> QED
    BY <2>1, <2>2, Zenon
<1>3. DrainRule(d)
  <2>1. d = [t \in Waiting |-> d[t]]
    BY Zenon
  <2> HIDE DEF d
  <2>2. [t \in Waiting |-> d[t]] = [t \in Waiting |-> IF t.bits <= 6 THEN t ELSE d[Taken6(t)]]
    BY <1>2, Zenon
  <2> QED
    BY <2>1, <2>2, Zenon DEF DrainRule
<1> HIDE DEF d
<1>4. DrainRule(Drained)
  BY <1>3, Zenon DEF Drained
<1> QED
  BY <1>4, Zenon DEF DrainRule

(* One round of it, which leaves b bits. *)
OneRound(v, b, o, q) ==
  Drained[[v |-> v, bits |-> b + 6, out |-> o]]
    = [v |-> v % q, bits |-> b, out |-> Append(o, (v \div q) % 64)]

(* That is what is done when six bits at most are left. *)
LEMMA DrainOne ==
  ASSUME NEW v \in Nat, NEW b \in 1..6, NEW o \in Seq(Nat), NEW q, q = 2^b
  PROVE  OneRound(v, b, o, q)
<1>1. PICK a, s : a = b + 6 /\ s = [v |-> v, bits |-> a, out |-> o]
  OBVIOUS
<1>2. s \in Waiting /\ s.bits > 6 /\ ~(s.bits <= 6) /\ s.v = v /\ s.bits = a /\ s.out = o /\ a - 6 = b
  BY <1>1 DEF Waiting
<1>3. Taken6(s) = [v |-> v % q, bits |-> b, out |-> Append(o, (v \div q) % 64)]
  BY <1>2, Zenon DEF Taken6
<1>4. PICK u : u = Taken6(s)
  OBVIOUS
<1>5. u \in Waiting /\ u.bits = b
  BY <1>2, <1>4, TakenSix, Zenon
<1>6. b <= 6
  OBVIOUS
<1>7. Drained[u] = u
  BY <1>5, <1>6, DrainedIs, Zenon
<1>8. Drained[s] = u
  BY <1>2, <1>4, <1>7, DrainedIs, Zenon
<1> QED
  BY <1>1, <1>3, <1>4, <1>8, Zenon DEF OneRound

(* Two rounds of it, of which the first leaves eight bits. *)
TwoRounds(v, b, o) ==
  Drained[[v |-> v, bits |-> b, out |-> o]]
    = [v |-> (v % 256) % 4, bits |-> 2,
       out |-> Append(Append(o, (v \div 256) % 64), ((v % 256) \div 4) % 64)]

(* That is what is done when fourteen wait. *)
LEMMA DrainTwo ==
  ASSUME NEW v \in Nat, NEW b \in Nat, b = 14, NEW o \in Seq(Nat)
  PROVE  TwoRounds(v, b, o)
<1>1. PICK s : s = [v |-> v, bits |-> b, out |-> o]
  OBVIOUS
<1>2. s \in Waiting /\ s.bits > 6 /\ ~(s.bits <= 6) /\ s.v = v /\ s.bits = b /\ s.out = o
  BY <1>1 DEF Waiting
<1>3. PICK q : q = 256
  OBVIOUS
<1>4. b - 6 = 8 /\ 2^(b - 6) = q
  BY <1>3
<1>5. PICK d, w, p : d = (v \div q) % 64 /\ w = v % q /\ p = Append(o, d)
  OBVIOUS
<1>6. Taken6(s) = [v |-> w, bits |-> 8, out |-> p]
  BY <1>2, <1>4, <1>5, Zenon DEF Taken6
<1>7. w \in Nat /\ d \in Nat
  BY <1>3, <1>5
<1>8. p \in Seq(Nat)
  BY <1>5, <1>7
<1>9. PICK e \in 1..6, f \in {4} : e = 2 /\ f = 4 /\ f = 2^e /\ e + 6 = 8
  <2>1. 2 \in 1..6 /\ 4 = 2^2 /\ 2 + 6 = 8
    OBVIOUS
  <2> QED
    BY <2>1, Zenon
<1>10. OneRound(w, e, p, f)
  BY <1>7, <1>8, <1>9, DrainOne, Zenon
<1>11. Drained[s] = [v |-> w % f, bits |-> e, out |-> Append(p, (w \div f) % 64)]
  <2>1. Drained[[v |-> w, bits |-> e + 6, out |-> p]] = [v |-> w % f, bits |-> e, out |-> Append(p, (w \div f) % 64)]
    BY <1>10, Zenon DEF OneRound
  <2>2. Drained[s] = Drained[Taken6(s)]
    BY <1>2, DrainedIs, Zenon
  <2> QED
    BY <1>6, <1>9, <2>1, <2>2, Zenon
<1> QED
  BY <1>1, <1>3, <1>5, <1>9, <1>11, ZenonT(40) DEF TwoRounds

(* The bytes of a text, and zeros behind it; and every six bits of them. *)
At(x, i) == IF i <= Len(x) THEN x[i] ELSE 0
Sextet(x, k) ==
  LET g == (k - 1) \div 4
      r == (k - 1) % 4
  IN IF r = 0 THEN At(x, 3 * g + 1) \div 4
     ELSE IF r = 1 THEN (At(x, 3 * g + 1) % 4) * 16 + (At(x, 3 * g + 2) \div 16)
     ELSE IF r = 2 THEN (At(x, 3 * g + 2) % 16) * 4 + (At(x, 3 * g + 3) \div 64)
     ELSE At(x, 3 * g + 3) % 64

(* Four of them are three bytes. *)
LEMMA SextetIs ==
  ASSUME NEW x, NEW g \in Nat
  PROVE  /\ Sextet(x, 4 * g + 1) = At(x, 3 * g + 1) \div 4
         /\ Sextet(x, 4 * g + 2) = (At(x, 3 * g + 1) % 4) * 16 + (At(x, 3 * g + 2) \div 16)
         /\ Sextet(x, 4 * g + 3) = (At(x, 3 * g + 2) % 16) * 4 + (At(x, 3 * g + 3) \div 64)
         /\ Sextet(x, 4 * g + 4) = At(x, 3 * g + 3) % 64
<1>1. PICK a, b, c, d : a = 4 * g + 1 /\ b = 4 * g + 2 /\ c = 4 * g + 3 /\ d = 4 * g + 4
  OBVIOUS
<1>2. /\ (a - 1) \div 4 = g /\ (a - 1) % 4 = 0 /\ (b - 1) \div 4 = g /\ (b - 1) % 4 = 1
      /\ (c - 1) \div 4 = g /\ (c - 1) % 4 = 2 /\ (d - 1) \div 4 = g /\ (d - 1) % 4 = 3
  BY <1>1
<1>3. 1 # 0 /\ 2 # 0 /\ 2 # 1 /\ 3 # 0 /\ 3 # 1 /\ 3 # 2
  OBVIOUS
<1>4. Sextet(x, a) = At(x, 3 * g + 1) \div 4
  BY <1>2, Zenon DEF Sextet
<1>5. Sextet(x, b) = (At(x, 3 * g + 1) % 4) * 16 + (At(x, 3 * g + 2) \div 16)
  BY <1>2, <1>3, Zenon DEF Sextet
<1>6. Sextet(x, c) = (At(x, 3 * g + 2) % 16) * 4 + (At(x, 3 * g + 3) \div 64)
  BY <1>2, <1>3, Zenon DEF Sextet
<1>7. Sextet(x, d) = At(x, 3 * g + 3) % 64
  BY <1>2, <1>3, Zenon DEF Sextet
<1> QED
  BY <1>1, <1>4, <1>5, <1>6, <1>7, Zenon

(* The characters so far are the first ones of x. *)
Sextets(x, o) == o \in Seq(Nat) /\ \A k \in 1..Len(o) : o[k] = Sextet(x, k)

SextetsTo(x, o, k) == Sextets(x, o) /\ Len(o) = k

(* A byte is a number below 256. *)
LEMMA OctetLess ==
  ASSUME NEW c \in Octet
  PROVE  c \in Nat /\ c < 256
BY DEF Octet

(* And with one more of them. *)
LEMMA SextetsMore ==
  ASSUME NEW x, NEW o, Sextets(x, o), NEW e \in Nat, NEW k, k = Len(o) + 1, e = Sextet(x, k)
  PROVE  SextetsTo(x, Append(o, e), k)
<1>1. o \in Seq(Nat) /\ \A j \in 1..Len(o) : o[j] = Sextet(x, j)
  BY DEF Sextets
<1>2. PICK p : p = Append(o, e)
  OBVIOUS
<1>3. p \in Seq(Nat) /\ Len(p) = k /\ p[k] = e /\ \A j \in 1..Len(o) : p[j] = o[j]
  BY <1>1, <1>2
<1>4. \A j \in 1..k : j = k \/ j \in 1..Len(o)
  BY <1>1
<1>5. \A j \in 1..k : p[j] = Sextet(x, j)
  BY <1>1, <1>3, <1>4, Zenon
<1> QED
  BY <1>2, <1>3, <1>5, Zenon DEF Sextets, SextetsTo

(* The bits that wait after i bytes, and the value they have. *)
Left(x, i, b, v) ==
  /\ i = 0 => b = 0 /\ v = 0
  /\ i % 3 = 1 => b = 2 /\ v = x[i] % 4
  /\ i % 3 = 2 => b = 4 /\ v = x[i] % 16
  /\ i > 0 /\ i % 3 = 0 => b = 6 /\ v = x[i] % 64

(* After i bytes: the characters written, and the bits that wait. *)
Encoded(x, i, s) ==
  \E b \in {0, 2, 4, 6}, v \in Nat, o \in Seq(Nat) :
    /\ s = [v |-> v, bits |-> b, out |-> o] /\ 6 * Len(o) + b = 8 * i
    /\ Left(x, i, b, v) /\ Sextets(x, o)

(* What one more byte does. *)
MoreBits(s, c) == Drained[[v |-> s.v * 256 + c, bits |-> s.bits + 8, out |-> s.out]]

(* The states stay of that kind with one more byte: what waited comes first,
   and the byte's bits after it. *)
LEMMA EncodedMore ==
  ASSUME NEW x \in Seq(Octet), NEW i \in 1..Len(x), NEW s, Encoded(x, i - 1, s)
  PROVE  Encoded(x, i, MoreBits(s, x[i]))
<1>1. PICK b \in {0, 2, 4, 6}, v \in Nat, o \in Seq(Nat) :
        /\ s = [v |-> v, bits |-> b, out |-> o] /\ 6 * Len(o) + b = 8 * (i - 1)
        /\ Left(x, i - 1, b, v) /\ Sextets(x, o)
  BY Zenon DEF Encoded
<1>2. s.v = v /\ s.bits = b /\ s.out = o
  BY <1>1
<1>3. PICK n \in Nat, L \in Nat, c \in {x[i]} : n = Len(x) /\ L = Len(o) /\ c = x[i]
  BY LenProperties
<1>4. c \in Octet
  BY <1>3, ElementOfSeq
<1>5. c \in Nat /\ c < 256
  BY <1>4 DEF Octet
<1>6. PICK u : u = v * 256 + c
  OBVIOUS
<1>7. u \in Nat
  BY <1>5, <1>6
<1>8. MoreBits(s, c) = Drained[[v |-> u, bits |-> b + 8, out |-> o]]
  BY <1>2, <1>6, Zenon DEF MoreBits
<1>9. 6 * L + b = 8 * (i - 1)
  BY <1>1, <1>3
<1>10. /\ i - 1 = 0 => b = 0 /\ v = 0
       /\ (i - 1) % 3 = 1 => b = 2 /\ v = x[i - 1] % 4
       /\ (i - 1) % 3 = 2 => b = 4 /\ v = x[i - 1] % 16
       /\ i - 1 > 0 /\ (i - 1) % 3 = 0 => b = 6 /\ v = x[i - 1] % 64
  BY <1>1, Zenon DEF Left
<1>11. \A k \in 1..n : At(x, k) = x[k]
  <2>1. \A k \in 1..n : k <= n
    OBVIOUS
  <2> QED
    BY <1>3, <2>1, Zenon DEF At
<1>12. i \in 1..n
  BY <1>3
<1>13. PICK p : p = i - 1
  OBVIOUS
<1>14. p \in Nat /\ (p > 0 => p \in 1..n /\ x[p] \in Octet)
  BY <1>3, <1>12, <1>13, ElementOfSeq
<1>15. PICK g \in Nat, r \in 0..2 : p = 3 * g + r /\ p % 3 = r
  <2>1. p \div 3 \in Nat /\ p % 3 \in 0..2 /\ p = 3 * (p \div 3) + (p % 3)
    BY <1>14
  <2> QED
    BY <2>1, Zenon
<1>16. CASE r = 0
  <2>1. i = 3 * g + 1 /\ i % 3 = 1 /\ i # 0 /\ i % 3 # 2 /\ i % 3 # 0
    BY <1>13, <1>15, <1>16
  <2>2. At(x, 3 * g + 1) = c
    BY <1>3, <1>11, <1>12, <2>1, Zenon
  <2>3. Sextet(x, 4 * g + 1) = c \div 4
    BY <2>2, SextetIs, Zenon
  <2>4. CASE p = 0
    <3>1. b = 0 /\ v = 0 /\ g = 0 /\ L = 0 /\ u = c
      BY <1>5, <1>6, <1>9, <1>10, <1>13, <1>15, <1>16, <2>4
    <3>2. PICK e \in 1..6, q \in {4} : e = 2 /\ q = 4 /\ q = 2^e /\ e + 6 = b + 8
      <4>1. 2 \in 1..6 /\ 4 = 2^2 /\ 2 + 6 = 0 + 8
        OBVIOUS
      <4> QED
        BY <3>1, <4>1, Zenon
    <3>3. OneRound(u, e, o, q)
      BY <1>7, <3>2, DrainOne, Zenon
    <3>4. PICK d, w : d = (u \div q) % 64 /\ w = u % q
      OBVIOUS
    <3>5. MoreBits(s, c) = [v |-> w, bits |-> e, out |-> Append(o, d)]
      BY <1>8, <3>2, <3>3, <3>4, Zenon DEF OneRound
    <3>6. d = c \div 4 /\ d \in Nat /\ w = c % 4 /\ w \in Nat /\ 4 * g + 1 = L + 1
      BY <1>5, <3>1, <3>2, <3>4, SMTT(30)
    <3>7. PICK k : k = Len(o) + 1
      OBVIOUS
    <3>8. d = Sextet(x, k)
      BY <1>3, <2>3, <3>6, <3>7, Zenon
    <3>9. Sextets(x, Append(o, d)) /\ Len(Append(o, d)) = k
      <4>1. SextetsTo(x, Append(o, d), k)
        BY <1>1, <3>6, <3>7, <3>8, SextetsMore, Zenon
      <4> QED
        BY <4>1, Zenon DEF SextetsTo
    <3>10. 6 * k + e = 8 * i /\ e \in {0, 2, 4, 6}
      <4>1. k = L + 1
        BY <1>3, <3>7, Zenon
      <4>2. e = 2
        BY <3>2, Zenon
      <4>3. L = 0 /\ g = 0 /\ i = 3 * g + 1
        BY <2>1, <3>1, Zenon
      <4> QED
        BY <4>1, <4>2, <4>3
    <3>11. Left(x, i, e, w)
      BY <1>3, <2>1, <3>2, <3>6, Zenon DEF Left
    <3>12. Append(o, d) \in Seq(Nat)
      BY <3>9, Zenon DEF Sextets
    <3> QED
      BY <1>3, <3>5, <3>6, <3>9, <3>10, <3>11, <3>12, Zenon DEF Encoded
  <2>5. CASE p # 0
    <3>1. p > 0 /\ b = 6 /\ v = x[p] % 64
      BY <1>10, <1>13, <1>14, <1>15, <1>16, <2>5
    <3>2. PICK h \in Nat : g = h + 1 /\ p = 3 * h + 3 /\ L = 4 * h + 3 /\ 4 * g + 1 = (L + 1) + 1 /\ 4 * h + 4 = L + 1
      <4>1. g > 0
        BY <1>15, <1>16, <2>5
      <4>2. g - 1 \in Nat /\ g = (g - 1) + 1 /\ p = 3 * (g - 1) + 3 /\ L = 4 * (g - 1) + 3
            /\ 4 * g + 1 = (L + 1) + 1 /\ 4 * (g - 1) + 4 = L + 1
        BY <1>9, <1>13, <1>15, <1>16, <3>1, <4>1
      <4> QED
        BY <4>2, Zenon
    <3>3. Sextet(x, L + 1) = x[p] % 64
      <4>1. At(x, 3 * h + 3) = x[p]
        BY <1>11, <1>14, <3>1, <3>2, Zenon
      <4>2. Sextet(x, 4 * h + 4) = At(x, 3 * h + 3) % 64
        BY SextetIs, Zenon
      <4> QED
        BY <3>2, <4>1, <4>2, Zenon
    <3>4. PICK z \in Nat : z = x[p] /\ z < 256
      <4>1. x[p] \in Octet
        BY <1>14, <3>1, Zenon
      <4> QED
        BY <4>1, OctetLess, Zenon
    <3>5. PICK a \in Nat : a = b + 8 /\ a = 14
      BY <3>1
    <3>6. TwoRounds(u, a, o)
      BY <1>7, <3>5, DrainTwo, Zenon
    <3>7. PICK d, f, w : d = (u \div 256) % 64 /\ f = ((u % 256) \div 4) % 64 /\ w = (u % 256) % 4
      OBVIOUS
    <3>8. MoreBits(s, c) = [v |-> w, bits |-> 2, out |-> Append(Append(o, d), f)]
      BY <1>8, <3>5, <3>6, <3>7, ZenonT(40) DEF TwoRounds
    <3>9. u \div 256 = v /\ u % 256 = c
      BY <1>5, <1>6
    <3>10. d = z % 64 /\ f = c \div 4 /\ w = c % 4 /\ d \in Nat /\ f \in Nat /\ w \in Nat
      <4>1. v = z % 64
        BY <3>1, <3>4, Zenon
      <4>2. d = v % 64 /\ f = (c \div 4) % 64 /\ w = c % 4
        BY <3>7, <3>9, Zenon
      <4>3. (z % 64) % 64 = z % 64 /\ z % 64 \in Nat
        OBVIOUS
      <4>4. (c \div 4) % 64 = c \div 4 /\ c \div 4 \in Nat /\ c % 4 \in Nat
        BY <1>5, SMTT(30)
      <4> QED
        BY <4>1, <4>2, <4>3, <4>4, Zenon
    <3>11. PICK k, l : k = Len(o) + 1 /\ l = k + 1
      OBVIOUS
    <3>12. d = Sextet(x, k) /\ f = Sextet(x, l)
      BY <1>3, <2>3, <3>2, <3>3, <3>4, <3>10, <3>11, Zenon
    <3>13. PICK o1 : o1 = Append(o, d)
      OBVIOUS
    <3>14. Sextets(x, o1) /\ Len(o1) = k
      <4>1. SextetsTo(x, Append(o, d), k)
        BY <1>1, <3>10, <3>11, <3>12, <3>13, SextetsMore, Zenon
      <4> QED
        BY <3>13, <4>1, Zenon DEF SextetsTo
    <3>15. Sextets(x, Append(o1, f)) /\ Len(Append(o1, f)) = l
      <4>1. l = Len(o1) + 1
        BY <3>11, <3>14, Zenon
      <4>2. SextetsTo(x, Append(o1, f), l)
        BY <3>10, <3>12, <3>14, <4>1, SextetsMore, Zenon
      <4> QED
        BY <4>2, Zenon DEF SextetsTo
    <3>16. 6 * l + 2 = 8 * i /\ 2 \in {0, 2, 4, 6}
      <4>1. l = (L + 1) + 1
        BY <1>3, <3>11, Zenon
      <4>2. i = 3 * g + 1 /\ g = h + 1 /\ L = 4 * h + 3
        BY <2>1, <3>2, Zenon
      <4> QED
        BY <4>1, <4>2
    <3>17. Left(x, i, 2, w)
      BY <1>3, <2>1, <3>10, Zenon DEF Left
    <3>18. Append(o1, f) \in Seq(Nat)
      BY <3>15, Zenon DEF Sextets
    <3> QED
      BY <1>3, <3>8, <3>10, <3>13, <3>15, <3>16, <3>17, <3>18, Zenon DEF Encoded
  <2> QED
    BY <2>4, <2>5, Zenon
<1>17. CASE r = 1
  <2>1. i = 3 * g + 2 /\ i % 3 = 2 /\ i # 0 /\ i % 3 # 1 /\ i % 3 # 0 /\ p > 0 /\ p = 3 * g + 1
    BY <1>13, <1>15, <1>17
  <2>2. At(x, 3 * g + 1) = x[p] /\ At(x, 3 * g + 2) = c
    BY <1>3, <1>11, <1>12, <1>14, <2>1, Zenon
  <2>3. b = 2 /\ v = x[p] % 4
    BY <1>10, <1>13, <1>15, <1>17, Zenon
  <2>4. PICK z \in Nat : z = x[p] /\ z < 256
    <3>1. x[p] \in Octet
      BY <1>14, <2>1, Zenon
    <3> QED
      BY <3>1, OctetLess, Zenon
  <2>5. Sextet(x, 4 * g + 2) = (z % 4) * 16 + (c \div 16)
    BY <2>2, <2>4, SextetIs, ZenonT(40)
  <2>6. PICK e \in 1..6, q \in {16} : e = 4 /\ q = 16 /\ q = 2^e /\ e + 6 = b + 8
    <3>1. 4 \in 1..6 /\ 16 = 2^4 /\ 4 + 6 = 2 + 8
      OBVIOUS
    <3> QED
      BY <2>3, <3>1, Zenon
  <2>7. OneRound(u, e, o, q)
    BY <1>7, <2>6, DrainOne, Zenon
  <2>8. PICK d, w : d = (u \div q) % 64 /\ w = u % q
    OBVIOUS
  <2>9. MoreBits(s, c) = [v |-> w, bits |-> e, out |-> Append(o, d)]
    BY <1>8, <2>6, <2>7, <2>8, Zenon DEF OneRound
  <2>10. v = z % 4 /\ v \in 0..3
    BY <2>3, <2>4, SMTT(30)
  <2>11. u \div 16 = v * 16 + (c \div 16) /\ u % 16 = c % 16 /\ c \div 16 < 16
    BY <1>5, <1>6, <2>10
  <2>12. d = (z % 4) * 16 + (c \div 16) /\ d \in Nat /\ w = c % 16 /\ w \in Nat
    BY <1>5, <2>6, <2>8, <2>10, <2>11, SMTT(30)
  <2>13. 4 * g + 2 = L + 1
    BY <1>9, <2>1, <2>3
  <2>14. PICK k : k = Len(o) + 1
    OBVIOUS
  <2>15. d = Sextet(x, k)
    BY <1>3, <2>5, <2>12, <2>13, <2>14, Zenon
  <2>16. Sextets(x, Append(o, d)) /\ Len(Append(o, d)) = k
    <3>1. SextetsTo(x, Append(o, d), k)
      BY <1>1, <2>12, <2>14, <2>15, SextetsMore, Zenon
    <3> QED
      BY <3>1, Zenon DEF SextetsTo
  <2>17. 6 * k + e = 8 * i /\ e \in {0, 2, 4, 6}
    BY <1>3, <2>1, <2>6, <2>13, <2>14
  <2>18. Left(x, i, e, w)
    BY <1>3, <2>1, <2>6, <2>12, Zenon DEF Left
  <2>19. Append(o, d) \in Seq(Nat)
    BY <2>16, Zenon DEF Sextets
  <2> QED
    BY <1>3, <2>9, <2>12, <2>16, <2>17, <2>18, <2>19, Zenon DEF Encoded
<1>18. CASE r = 2
  <2>1. i = 3 * g + 3 /\ i % 3 = 0 /\ i # 0 /\ i % 3 # 1 /\ i % 3 # 2 /\ p > 0 /\ p = 3 * g + 2
    BY <1>13, <1>15, <1>18
  <2>2. At(x, 3 * g + 2) = x[p] /\ At(x, 3 * g + 3) = c
    BY <1>3, <1>11, <1>12, <1>14, <2>1, Zenon
  <2>3. b = 4 /\ v = x[p] % 16
    BY <1>10, <1>13, <1>15, <1>18, Zenon
  <2>4. PICK z \in Nat : z = x[p] /\ z < 256
    <3>1. x[p] \in Octet
      BY <1>14, <2>1, Zenon
    <3> QED
      BY <3>1, OctetLess, Zenon
  <2>5. Sextet(x, 4 * g + 3) = (z % 16) * 4 + (c \div 64)
    BY <2>2, <2>4, SextetIs, ZenonT(40)
  <2>6. PICK e \in 1..6, q \in {64} : e = 6 /\ q = 64 /\ q = 2^e /\ e + 6 = b + 8
    <3>1. 6 \in 1..6 /\ 64 = 2^6 /\ 6 + 6 = 4 + 8
      OBVIOUS
    <3> QED
      BY <2>3, <3>1, Zenon
  <2>7. OneRound(u, e, o, q)
    BY <1>7, <2>6, DrainOne, Zenon
  <2>8. PICK d, w : d = (u \div q) % 64 /\ w = u % q
    OBVIOUS
  <2>9. MoreBits(s, c) = [v |-> w, bits |-> e, out |-> Append(o, d)]
    BY <1>8, <2>6, <2>7, <2>8, Zenon DEF OneRound
  <2>10. v = z % 16 /\ v \in 0..15
    <3>1. v = z % 16
      BY <2>3, <2>4, Zenon
    <3>2. z % 16 \in 0..15
      OBVIOUS
    <3> QED
      BY <3>1, <3>2, Zenon
  <2>11. u \div 64 = v * 4 + (c \div 64) /\ u % 64 = c % 64 /\ c \div 64 < 4
    BY <1>5, <1>6, <2>10
  <2>12. d = (z % 16) * 4 + (c \div 64) /\ d \in Nat /\ w = c % 64 /\ w \in Nat
    BY <1>5, <2>6, <2>8, <2>10, <2>11, SMTT(30)
  <2>13. 4 * g + 3 = L + 1
    BY <1>9, <2>1, <2>3
  <2>14. PICK k : k = Len(o) + 1
    OBVIOUS
  <2>15. d = Sextet(x, k)
    BY <1>3, <2>5, <2>12, <2>13, <2>14, Zenon
  <2>16. Sextets(x, Append(o, d)) /\ Len(Append(o, d)) = k
    <3>1. SextetsTo(x, Append(o, d), k)
      BY <1>1, <2>12, <2>14, <2>15, SextetsMore, Zenon
    <3> QED
      BY <3>1, Zenon DEF SextetsTo
  <2>17. 6 * k + e = 8 * i /\ e \in {0, 2, 4, 6}
    BY <1>3, <2>1, <2>6, <2>13, <2>14
  <2>18. Left(x, i, e, w)
    BY <1>3, <2>1, <2>6, <2>12, Zenon DEF Left
  <2>19. Append(o, d) \in Seq(Nat)
    BY <2>16, Zenon DEF Sextets
  <2> QED
    BY <1>3, <2>9, <2>12, <2>16, <2>17, <2>18, <2>19, Zenon DEF Encoded
<1>19. r = 0 \/ r = 1 \/ r = 2
  OBVIOUS
<1> QED
  BY <1>16, <1>17, <1>18, <1>19, Zenon
-----------------------------------------------------------------------------
(* Bit k of a number of that many bits, the first one being the highest. *)
Bit(v, size, k) == (v \div 2^(size - 1 - k)) % 2

(* The bits of six and of eight. *)
Bits(v) ==
  /\ Bit(v, 6, 0) = (v \div 32) % 2 /\ Bit(v, 6, 1) = (v \div 16) % 2
  /\ Bit(v, 6, 2) = (v \div 8) % 2 /\ Bit(v, 6, 3) = (v \div 4) % 2
  /\ Bit(v, 6, 4) = (v \div 2) % 2 /\ Bit(v, 6, 5) = v % 2
  /\ Bit(v, 8, 0) = (v \div 128) % 2 /\ Bit(v, 8, 1) = (v \div 64) % 2
  /\ Bit(v, 8, 2) = (v \div 32) % 2 /\ Bit(v, 8, 3) = (v \div 16) % 2
  /\ Bit(v, 8, 4) = (v \div 8) % 2 /\ Bit(v, 8, 5) = (v \div 4) % 2
  /\ Bit(v, 8, 6) = (v \div 2) % 2 /\ Bit(v, 8, 7) = v % 2

(* Those are the bits of every number. *)
LEMMA BitIs ==
  ASSUME NEW v \in Nat
  PROVE  Bits(v)
<1>1. /\ 6 - 1 - 0 = 5 /\ 6 - 1 - 1 = 4 /\ 6 - 1 - 2 = 3 /\ 6 - 1 - 3 = 2 /\ 6 - 1 - 4 = 1 /\ 6 - 1 - 5 = 0
      /\ 8 - 1 - 0 = 7 /\ 8 - 1 - 1 = 6 /\ 8 - 1 - 2 = 5 /\ 8 - 1 - 3 = 4 /\ 8 - 1 - 4 = 3 /\ 8 - 1 - 5 = 2
      /\ 8 - 1 - 6 = 1 /\ 8 - 1 - 7 = 0
  OBVIOUS
<1>2. v \div 1 = v
  OBVIOUS
<1> QED
  BY <1>1, <1>2, Powers DEF Bit, Bits

(* The bits of the first character of four are those of the first byte. *)
LEMMA FirstSix ==
  ASSUME NEW a \in Nat, a < 256
  PROVE  \A t \in 0..5 : Bit(a \div 4, 6, t) = Bit(a, 8, t)
<1>1. PICK d \in Nat : d = a \div 4
  OBVIOUS
<1>2. /\ (d \div 32) % 2 = (a \div 128) % 2 /\ (d \div 16) % 2 = (a \div 64) % 2
      /\ (d \div 8) % 2 = (a \div 32) % 2 /\ (d \div 4) % 2 = (a \div 16) % 2
      /\ (d \div 2) % 2 = (a \div 8) % 2 /\ d % 2 = (a \div 4) % 2
  BY <1>1
<1>3. Bits(a) /\ Bits(d)
  BY <1>1, BitIs, Zenon
<1>4. /\ Bit(d, 6, 0) = Bit(a, 8, 0) /\ Bit(d, 6, 1) = Bit(a, 8, 1)
      /\ Bit(d, 6, 2) = Bit(a, 8, 2) /\ Bit(d, 6, 3) = Bit(a, 8, 3)
      /\ Bit(d, 6, 4) = Bit(a, 8, 4) /\ Bit(d, 6, 5) = Bit(a, 8, 5)
  BY <1>2, <1>3 DEF Bits
<1>5. ASSUME NEW t \in 0..5 PROVE Bit(d, 6, t) = Bit(a, 8, t)
  <2>1. t = 0 \/ t = 1 \/ t = 2 \/ t = 3 \/ t = 4 \/ t = 5
    OBVIOUS
  <2> QED
    BY <1>4, <2>1, Zenon
<1> QED
  BY <1>1, <1>5, Zenon

(* Those of the second are the last two of the first byte and four of the next. *)
LEMMA SecondSix ==
  ASSUME NEW a \in Nat, a < 256, NEW b \in Nat, b < 256
  PROVE  /\ \A t \in 0..1 : Bit((a % 4) * 16 + (b \div 16), 6, t) = Bit(a, 8, t + 6)
         /\ \A t \in 2..5 : Bit((a % 4) * 16 + (b \div 16), 6, t) = Bit(b, 8, t - 2)
<1>1. PICK d \in Nat : d = (a % 4) * 16 + (b \div 16)
  OBVIOUS
<1>2. /\ (d \div 32) % 2 = (a \div 2) % 2 /\ (d \div 16) % 2 = a % 2
      /\ (d \div 8) % 2 = (b \div 128) % 2 /\ (d \div 4) % 2 = (b \div 64) % 2
      /\ (d \div 2) % 2 = (b \div 32) % 2 /\ d % 2 = (b \div 16) % 2
  BY <1>1
<1>3. Bits(a) /\ Bits(b) /\ Bits(d)
  BY <1>1, BitIs, Zenon
<1>4. /\ Bit(d, 6, 0) = Bit(a, 8, 6) /\ Bit(d, 6, 1) = Bit(a, 8, 7)
      /\ Bit(d, 6, 2) = Bit(b, 8, 0) /\ Bit(d, 6, 3) = Bit(b, 8, 1)
      /\ Bit(d, 6, 4) = Bit(b, 8, 2) /\ Bit(d, 6, 5) = Bit(b, 8, 3)
  BY <1>2, <1>3 DEF Bits
<1>5. ASSUME NEW t \in 0..1 PROVE Bit(d, 6, t) = Bit(a, 8, t + 6)
  <2>1. (t = 0 /\ t + 6 = 6) \/ (t = 1 /\ t + 6 = 7)
    OBVIOUS
  <2> QED
    BY <1>4, <2>1, Zenon
<1>6. ASSUME NEW t \in 2..5 PROVE Bit(d, 6, t) = Bit(b, 8, t - 2)
  <2>1. \/ (t = 2 /\ t - 2 = 0) \/ (t = 3 /\ t - 2 = 1)
       \/ (t = 4 /\ t - 2 = 2) \/ (t = 5 /\ t - 2 = 3)
    OBVIOUS
  <2> QED
    BY <1>4, <2>1, Zenon
<1> QED
  BY <1>1, <1>5, <1>6, Zenon

(* Those of the third are four of one byte and two of the next. *)
LEMMA ThirdSix ==
  ASSUME NEW b \in Nat, b < 256, NEW c \in Nat, c < 256
  PROVE  /\ \A t \in 0..3 : Bit((b % 16) * 4 + (c \div 64), 6, t) = Bit(b, 8, t + 4)
         /\ \A t \in 4..5 : Bit((b % 16) * 4 + (c \div 64), 6, t) = Bit(c, 8, t - 4)
<1>1. PICK d \in Nat : d = (b % 16) * 4 + (c \div 64)
  OBVIOUS
<1>2. /\ (d \div 32) % 2 = (b \div 8) % 2 /\ (d \div 16) % 2 = (b \div 4) % 2
      /\ (d \div 8) % 2 = (b \div 2) % 2 /\ (d \div 4) % 2 = b % 2
      /\ (d \div 2) % 2 = (c \div 128) % 2 /\ d % 2 = (c \div 64) % 2
  BY <1>1
<1>3. Bits(b) /\ Bits(c) /\ Bits(d)
  BY <1>1, BitIs, Zenon
<1>4. /\ Bit(d, 6, 0) = Bit(b, 8, 4) /\ Bit(d, 6, 1) = Bit(b, 8, 5)
      /\ Bit(d, 6, 2) = Bit(b, 8, 6) /\ Bit(d, 6, 3) = Bit(b, 8, 7)
      /\ Bit(d, 6, 4) = Bit(c, 8, 0) /\ Bit(d, 6, 5) = Bit(c, 8, 1)
  BY <1>2, <1>3 DEF Bits
<1>5. ASSUME NEW t \in 0..3 PROVE Bit(d, 6, t) = Bit(b, 8, t + 4)
  <2>1. \/ (t = 0 /\ t + 4 = 4) \/ (t = 1 /\ t + 4 = 5)
       \/ (t = 2 /\ t + 4 = 6) \/ (t = 3 /\ t + 4 = 7)
    OBVIOUS
  <2> QED
    BY <1>4, <2>1, Zenon
<1>6. ASSUME NEW t \in 4..5 PROVE Bit(d, 6, t) = Bit(c, 8, t - 4)
  <2>1. (t = 4 /\ t - 4 = 0) \/ (t = 5 /\ t - 4 = 1)
    OBVIOUS
  <2> QED
    BY <1>4, <2>1, Zenon
<1> QED
  BY <1>1, <1>5, <1>6, Zenon

(* Those of the fourth are the last six of the third byte. *)
LEMMA FourthSix ==
  ASSUME NEW c \in Nat, c < 256
  PROVE  \A t \in 0..5 : Bit(c % 64, 6, t) = Bit(c, 8, t + 2)
<1>1. PICK d \in Nat : d = c % 64
  OBVIOUS
<1>2. /\ (d \div 32) % 2 = (c \div 32) % 2 /\ (d \div 16) % 2 = (c \div 16) % 2
      /\ (d \div 8) % 2 = (c \div 8) % 2 /\ (d \div 4) % 2 = (c \div 4) % 2
      /\ (d \div 2) % 2 = (c \div 2) % 2 /\ d % 2 = c % 2
  BY <1>1
<1>3. Bits(c) /\ Bits(d)
  BY <1>1, BitIs, Zenon
<1>4. /\ Bit(d, 6, 0) = Bit(c, 8, 2) /\ Bit(d, 6, 1) = Bit(c, 8, 3)
      /\ Bit(d, 6, 2) = Bit(c, 8, 4) /\ Bit(d, 6, 3) = Bit(c, 8, 5)
      /\ Bit(d, 6, 4) = Bit(c, 8, 6) /\ Bit(d, 6, 5) = Bit(c, 8, 7)
  BY <1>2, <1>3 DEF Bits
<1>5. ASSUME NEW t \in 0..5 PROVE Bit(d, 6, t) = Bit(c, 8, t + 2)
  <2>1. \/ (t = 0 /\ t + 2 = 2) \/ (t = 1 /\ t + 2 = 3) \/ (t = 2 /\ t + 2 = 4)
       \/ (t = 3 /\ t + 2 = 5) \/ (t = 4 /\ t + 2 = 6) \/ (t = 5 /\ t + 2 = 7)
    OBVIOUS
  <2> QED
    BY <1>4, <2>1, Zenon
<1> QED
  BY <1>1, <1>5, Zenon

(* Every byte of a text is one, and so are the zeros behind it. *)
LEMMA AtIs ==
  ASSUME NEW x \in Seq(Octet), NEW i \in Nat \ {0}
  PROVE  At(x, i) \in Octet
<1>1. CASE i <= Len(x)
  <2>1. i \in 1..Len(x)
    BY <1>1, LenProperties
  <2>2. x[i] \in Octet
    BY <2>1, ElementOfSeq
  <2> QED
    BY <1>1, <2>2, Zenon DEF At
<1>2. CASE ~(i <= Len(x))
  <2>1. 0 \in Octet
    BY DEF Octet
  <2> QED
    BY <1>2, <2>1, Zenon DEF At
<1> QED
  BY <1>1, <1>2, Zenon

(* Bit k of the characters is bit k of the bytes. *)
SameBits(x, k) == Bit(Sextet(x, k \div 6 + 1), 6, k % 6) = Bit(At(x, k \div 8 + 1), 8, k % 8)

(* It is, for all of them. *)
LEMMA SextetBits ==
  ASSUME NEW x \in Seq(Octet), NEW k \in Nat
  PROVE  SameBits(x, k)
<1>1. PICK g \in Nat, r \in 0..3, t \in 0..5 : k = 24 * g + 6 * r + t
  <2>1. PICK g \in Nat, j \in 0..23 : k = 24 * g + j
    <3>1. k \div 24 \in Nat /\ k % 24 \in 0..23 /\ k = 24 * (k \div 24) + (k % 24)
      OBVIOUS
    <3> QED
      BY <3>1, Zenon
  <2>2. PICK r \in 0..3, t \in 0..5 : j = 6 * r + t
    <3>1. j \div 6 \in 0..3 /\ j % 6 \in 0..5 /\ j = 6 * (j \div 6) + (j % 6)
      OBVIOUS
    <3> QED
      BY <3>1, Zenon
  <2>3. k = 24 * g + 6 * r + t
    BY <2>1, <2>2
  <2> QED
    BY <2>3, Zenon
<1>2. PICK a, b, c : a = At(x, 3 * g + 1) /\ b = At(x, 3 * g + 2) /\ c = At(x, 3 * g + 3)
  OBVIOUS
<1>3. \A i \in Nat \ {0} : At(x, i) \in Nat /\ At(x, i) < 256
  BY AtIs, OctetLess, Zenon
<1>4. a \in Nat /\ a < 256 /\ b \in Nat /\ b < 256 /\ c \in Nat /\ c < 256
  <2>1. 3 * g + 1 \in Nat \ {0} /\ 3 * g + 2 \in Nat \ {0} /\ 3 * g + 3 \in Nat \ {0}
    OBVIOUS
  <2> QED
    BY <1>2, <1>3, <2>1, Zenon
<1>5. PICK m, n, i, j : m = k \div 6 + 1 /\ n = k % 6 /\ i = k \div 8 + 1 /\ j = k % 8
  OBVIOUS
<1>6. /\ Sextet(x, 4 * g + 1) = a \div 4
      /\ Sextet(x, 4 * g + 2) = (a % 4) * 16 + (b \div 16)
      /\ Sextet(x, 4 * g + 3) = (b % 16) * 4 + (c \div 64)
      /\ Sextet(x, 4 * g + 4) = c % 64
  BY <1>2, SextetIs, Zenon
<1>7. n = t
  BY <1>1, <1>5
<1>8. SameBits(x, k) <=> Bit(Sextet(x, m), 6, t) = Bit(At(x, i), 8, j)
  BY <1>5, <1>7, Zenon DEF SameBits
<1>9. CASE r = 0
  <2>1. m = 4 * g + 1 /\ i = 3 * g + 1 /\ j = t
    BY <1>1, <1>5, <1>9
  <2>2. Bit(a \div 4, 6, t) = Bit(a, 8, t)
    BY <1>4, FirstSix, Zenon
  <2> QED
    BY <1>2, <1>6, <1>8, <2>1, <2>2, Zenon
<1>10. CASE r = 1 /\ t \in 0..1
  <2>1. m = 4 * g + 2 /\ i = 3 * g + 1 /\ j = t + 6
    BY <1>1, <1>5, <1>10
  <2>2. Bit((a % 4) * 16 + (b \div 16), 6, t) = Bit(a, 8, t + 6)
    BY <1>4, <1>10, SecondSix, Zenon
  <2> QED
    BY <1>2, <1>6, <1>8, <2>1, <2>2, Zenon
<1>11. CASE r = 1 /\ t \in 2..5
  <2>1. m = 4 * g + 2 /\ i = 3 * g + 2 /\ j = t - 2
    BY <1>1, <1>5, <1>11
  <2>2. Bit((a % 4) * 16 + (b \div 16), 6, t) = Bit(b, 8, t - 2)
    BY <1>4, <1>11, SecondSix, Zenon
  <2> QED
    BY <1>2, <1>6, <1>8, <2>1, <2>2, Zenon
<1>12. CASE r = 2 /\ t \in 0..3
  <2>1. m = 4 * g + 3 /\ i = 3 * g + 2 /\ j = t + 4
    BY <1>1, <1>5, <1>12
  <2>2. Bit((b % 16) * 4 + (c \div 64), 6, t) = Bit(b, 8, t + 4)
    BY <1>4, <1>12, ThirdSix, Zenon
  <2> QED
    BY <1>2, <1>6, <1>8, <2>1, <2>2, Zenon
<1>13. CASE r = 2 /\ t \in 4..5
  <2>1. m = 4 * g + 3 /\ i = 3 * g + 3 /\ j = t - 4
    BY <1>1, <1>5, <1>13
  <2>2. Bit((b % 16) * 4 + (c \div 64), 6, t) = Bit(c, 8, t - 4)
    BY <1>4, <1>13, ThirdSix, ZenonT(40)
  <2> QED
    BY <1>2, <1>6, <1>8, <2>1, <2>2, Zenon
<1>14. CASE r = 3
  <2>1. m = 4 * g + 4 /\ i = 3 * g + 3 /\ j = t + 2
    BY <1>1, <1>5, <1>14
  <2>2. Bit(c % 64, 6, t) = Bit(c, 8, t + 2)
    BY <1>4, FourthSix, Zenon
  <2> QED
    BY <1>2, <1>6, <1>8, <2>1, <2>2, Zenon
<1>15. \/ r = 0 \/ (r = 1 /\ t \in 0..1) \/ (r = 1 /\ t \in 2..5) \/ (r = 2 /\ t \in 0..3)
       \/ (r = 2 /\ t \in 4..5) \/ r = 3
  OBVIOUS
<1> QED
  BY <1>9, <1>10, <1>11, <1>12, <1>13, <1>14, <1>15, Zenon

(* A character of that kind is not '='. *)
LEMMA SextetLess ==
  ASSUME NEW x \in Seq(Octet), NEW k \in Nat \ {0}
  PROVE  Sextet(x, k) \in 0..63
<1>1. PICK g, r : g = (k - 1) \div 4 /\ r = (k - 1) % 4
  OBVIOUS
<1>2. g \in Nat
  BY <1>1
<1>3. \A i \in Nat \ {0} : At(x, i) \in Octet
  BY AtIs, Zenon
<1>4. PICK a, b, c : a = At(x, 3 * g + 1) /\ b = At(x, 3 * g + 2) /\ c = At(x, 3 * g + 3)
  OBVIOUS
<1>5. a \in Octet /\ b \in Octet /\ c \in Octet
  <2>1. 3 * g + 1 \in Nat \ {0} /\ 3 * g + 2 \in Nat \ {0} /\ 3 * g + 3 \in Nat \ {0}
    BY <1>2
  <2> QED
    BY <1>3, <1>4, <2>1, Zenon
<1>6. /\ a \div 4 \in 0..63 /\ (a % 4) * 16 + (b \div 16) \in 0..63
      /\ (b % 16) * 4 + (c \div 64) \in 0..63 /\ c % 64 \in 0..63
  BY <1>5 DEF Octet
<1> QED
  BY <1>1, <1>4, <1>6, Zenon DEF Sextet
-----------------------------------------------------------------------------
(* The states that buf_putbase64 goes through. *)
FeedRule(x, f) ==
  f = [i \in 0..Len(x) |->
        IF i = 0 THEN [v |-> 0, bits |-> 0, out |-> <<>>]
        ELSE MoreBits(f[i - 1], x[i])]
Fed(x) == CHOOSE f : FeedRule(x, f)

(* Each of them is one of those. *)
LEMMA EncodedTyped ==
  ASSUME NEW x, NEW i, NEW s, Encoded(x, i, s)
  PROVE  s \in Waiting
<1>1. PICK b \in {0, 2, 4, 6}, v \in Nat, o \in Seq(Nat) : s = [v |-> v, bits |-> b, out |-> o]
  BY Zenon DEF Encoded
<1> QED
  BY <1>1 DEF Waiting

(* Before the first byte. *)
LEMMA EncodedNothing ==
  ASSUME NEW x
  PROVE  Encoded(x, 0, [v |-> 0, bits |-> 0, out |-> <<>>])
<1>1. PICK e : e = <<>>
  OBVIOUS
<1>2. e \in Seq(Nat) /\ Len(e) = 0 /\ 1..Len(e) = {}
  BY <1>1
<1>3. Sextets(x, e)
  BY <1>2, Zenon DEF Sextets
<1>4. Left(x, 0, 0, 0)
  <2>1. 0 % 3 = 0 /\ 0 # 1 /\ 0 # 2 /\ ~(0 > 0)
    OBVIOUS
  <2> QED
    BY <2>1, Zenon DEF Left
<1>5. 6 * Len(e) + 0 = 8 * 0 /\ 0 \in {0, 2, 4, 6} /\ 0 \in Nat
  BY <1>2
<1> QED
  BY <1>1, <1>2, <1>3, <1>4, <1>5, Zenon DEF Encoded

(* They are states of that kind, up to the last byte. *)
LEMMA FedIs ==
  ASSUME NEW x \in Seq(Octet)
  PROVE  Encoded(x, Len(x), Fed(x)[Len(x)])
<1>1. PICK n \in Nat : n = Len(x)
  BY LenProperties
<1>2. PICK e : e = [v |-> 0, bits |-> 0, out |-> <<>>]
  OBVIOUS
<1>3. Encoded(x, 0, e) /\ e \in Waiting
  BY <1>2, EncodedNothing, EncodedTyped, Zenon
<1> DEFINE step == [u \in (1..n) \X Waiting |->
                      IF Encoded(x, u[1] - 1, u[2]) THEN MoreBits(u[2], x[u[1]]) ELSE u[2]]
<1>4. ASSUME NEW i \in 1..n, NEW s \in Waiting
      PROVE  (IF Encoded(x, i - 1, s) THEN MoreBits(s, x[i]) ELSE s) \in Waiting
  <2>1. CASE Encoded(x, i - 1, s)
    <3>1. Encoded(x, i, MoreBits(s, x[i]))
      BY <1>1, <1>4, <2>1, EncodedMore, Zenon
    <3> QED
      BY <2>1, <3>1, EncodedTyped, Zenon
  <2> QED
    BY <1>4, <2>1, Zenon
<1>5. step \in [(1..n) \X Waiting -> Waiting]
  <2>1. \A u \in (1..n) \X Waiting : u[1] \in 1..n /\ u[2] \in Waiting
    OBVIOUS
  <2> QED
    BY <1>4, <2>1, Zenon
<1>6. \A i \in 1..n, s \in Waiting : step[<<i, s>>] = IF Encoded(x, i - 1, s) THEN MoreBits(s, x[i]) ELSE s
  <2>1. ASSUME NEW i \in 1..n, NEW s \in Waiting
        PROVE  <<i, s>> \in (1..n) \X Waiting /\ <<i, s>>[1] = i /\ <<i, s>>[2] = s
    OBVIOUS
  <2> QED
    BY <2>1, Zenon
<1>7. PICK f : Steps(f, n, Waiting, e, step)
  <2> HIDE DEF step
  <2> QED
    BY <1>3, <1>5, StepsExist, Zenon
<1>8. f \in [0..n -> Waiting] /\ f[0] = e /\ \A i \in 1..n : f[i] = step[<<i, f[i - 1]>>]
  BY <1>7, Zenon DEF Steps
<1>9. \A i \in 1..n : i - 1 \in 0..n /\ i \in 0..n /\ i # 0
  OBVIOUS
<1>10. \A i \in 1..n : f[i] = IF Encoded(x, i - 1, f[i - 1]) THEN MoreBits(f[i - 1], x[i]) ELSE f[i - 1]
  <2>1. \A i \in 1..n : f[i - 1] \in Waiting
    BY <1>8, <1>9, Zenon
  <2> HIDE DEF step
  <2> QED
    BY <1>6, <1>8, <2>1, Zenon
<1> HIDE DEF step
<1>11. \A i \in 0..n : Encoded(x, i, f[i])
  <2> DEFINE T == {i \in 0..n : Encoded(x, i, f[i])}
  <2>1. 0 \in T
    BY <1>3, <1>8
  <2>2. ASSUME NEW i \in 1..n, i - 1 \in T PROVE i \in T
    <3>1. Encoded(x, i - 1, f[i - 1])
      BY <2>2, Zenon
    <3>2. f[i] = MoreBits(f[i - 1], x[i])
      BY <1>10, <2>2, <3>1, Zenon
    <3>3. Encoded(x, i, f[i])
      BY <1>1, <2>2, <3>1, <3>2, EncodedMore, Zenon
    <3> QED
      BY <1>9, <2>2, <3>3, Zenon
  <2>3. 0..n \subseteq T
    <3> HIDE DEF T
    <3> QED
      BY <2>1, <2>2, Climb, Zenon
  <2> QED
    BY <2>3, Zenon
<1>12. FeedRule(x, f)
  <2>1. \A i \in 0..n : f[i] = IF i = 0 THEN e
             ELSE MoreBits(f[i - 1], x[i])
    <3>1. ASSUME NEW i \in 0..n, i # 0
          PROVE  f[i] = MoreBits(f[i - 1], x[i])
      <4>1. i \in 1..n
        BY <3>1
      <4>2. Encoded(x, i - 1, f[i - 1])
        BY <1>9, <1>11, <4>1, Zenon
      <4> QED
        BY <1>10, <4>1, <4>2, Zenon
    <3> QED
      BY <1>8, <3>1, Zenon
  <2>2. f = [i \in 0..n |-> f[i]]
    BY <1>8
  <2>3. [i \in 0..n |-> f[i]]
          = [i \in 0..n |-> IF i = 0 THEN e
               ELSE MoreBits(f[i - 1], x[i])]
    BY <2>1, Zenon
  <2> QED
    BY <1>1, <1>2, <2>2, <2>3, Zenon DEF FeedRule
<1>13. PICK g : g = Fed(x)
  OBVIOUS
<1>14. FeedRule(x, g)
  BY <1>12, <1>13, Zenon DEF Fed
<1>15. g[0] = e /\ \A i \in 1..n : g[i] = MoreBits(g[i - 1], x[i])
  <2>1. 0 \in 0..n
    OBVIOUS
  <2> QED
    BY <1>1, <1>2, <1>9, <1>14, <2>1, Zenon DEF FeedRule
<1> DEFINE T == {i \in 0..n : Encoded(x, i, g[i])}
<1>16. 0 \in T
  <2>1. 0 \in 0..n
    OBVIOUS
  <2> QED
    BY <1>3, <1>15, <2>1, Zenon
<1>17. ASSUME NEW i \in 1..n, i - 1 \in T PROVE i \in T
  <2>1. Encoded(x, i - 1, g[i - 1])
    BY <1>17, Zenon
  <2>2. g[i] = MoreBits(g[i - 1], x[i])
    BY <1>15, <1>17, Zenon
  <2>3. Encoded(x, i, g[i])
    BY <1>1, <1>17, <2>1, <2>2, EncodedMore, Zenon
  <2> QED
    BY <1>9, <1>17, <2>3, Zenon
<1>18. 0..n \subseteq T
  <2> HIDE DEF T
  <2> QED
    BY <1>16, <1>17, Climb, Zenon
<1>19. n \in 0..n
  OBVIOUS
<1> QED
  BY <1>1, <1>13, <1>18, <1>19, Zenon

(* The characters, with the last one filled up with zeros. *)
Filled(e) == IF e.bits = 0 THEN e.out ELSE Append(e.out, (e.v * 2^(6 - e.bits)) % 64)

(* They are all the characters that there are bits for. *)
LEMMA FilledIs ==
  ASSUME NEW x \in Seq(Octet), NEW n, n = Len(x), NEW e, Encoded(x, n, e)
  PROVE  SextetsTo(x, Filled(e), (8 * n + 5) \div 6)
<1>1. PICK b \in {0, 2, 4, 6}, v \in Nat, o \in Seq(Nat) :
        /\ e = [v |-> v, bits |-> b, out |-> o] /\ 6 * Len(o) + b = 8 * n
        /\ Left(x, n, b, v) /\ Sextets(x, o)
  BY Zenon DEF Encoded
<1>2. e.v = v /\ e.bits = b /\ e.out = o
  BY <1>1
<1>3. PICK L \in Nat : L = Len(o)
  BY LenProperties
<1>4. n \in Nat
  BY LenProperties
<1>5. 6 * L + b = 8 * n
  BY <1>1, <1>3, Zenon
<1>6. /\ n = 0 => b = 0
      /\ n % 3 = 1 => b = 2 /\ v = x[n] % 4
      /\ n % 3 = 2 => b = 4 /\ v = x[n] % 16
      /\ n > 0 /\ n % 3 = 0 => b = 6 /\ v = x[n] % 64
  BY <1>1, Zenon DEF Left
<1>7. PICK m : m = (8 * n + 5) \div 6
  OBVIOUS
<1>8. CASE n = 0
  <2>1. b = 0 /\ m = 0 /\ L = 0
    BY <1>5, <1>6, <1>7, <1>8
  <2>2. Filled(e) = o
    BY <1>2, <2>1, Zenon DEF Filled
  <2> QED
    BY <1>1, <1>3, <1>7, <2>1, <2>2, Zenon DEF SextetsTo
<1>9. CASE n > 0
  <2>1. n \in 1..n /\ n \in 1..Len(x)
    BY <1>4, <1>9
  <2>2. PICK c \in Nat : c = x[n] /\ c < 256
    <3>1. x[n] \in Octet
      BY <2>1, ElementOfSeq
    <3> QED
      BY <3>1, OctetLess, Zenon
  <2>3. PICK g \in Nat, r \in 1..3 : n = 3 * g + r
    <3>1. (n - 1) \div 3 \in Nat /\ (n - 1) % 3 \in 0..2 /\ n - 1 = 3 * ((n - 1) \div 3) + ((n - 1) % 3)
      BY <1>4, <1>9
    <3>2. PICK g \in Nat, q \in 0..2 : n - 1 = 3 * g + q
      BY <3>1, Zenon
    <3>3. q + 1 \in 1..3 /\ n = 3 * g + (q + 1)
      BY <1>4, <3>2
    <3> QED
      BY <3>3, Zenon
  <2>4. At(x, n) = c
    <3>1. n <= Len(x)
      BY <2>1
    <3> QED
      BY <2>2, <3>1, Zenon DEF At
  <2>5. \A i \in Nat : i > n => At(x, i) = 0
    <3>1. ASSUME NEW i \in Nat, i > n PROVE ~(i <= Len(x))
      BY <1>4, <3>1
    <3> QED
      BY <3>1, Zenon DEF At
  <2>6. PICK k : k = Len(o) + 1
    OBVIOUS
  <2>7. k = L + 1
    BY <1>3, <2>6, Zenon
  <2>8. PICK d : d = (v * 2^(6 - b)) % 64
    OBVIOUS
  <2>9. (b = 2 /\ r = 1) \/ (b = 4 /\ r = 2) \/ (b = 6 /\ r = 3)
    BY <1>6, <1>9, <2>3
  <2>10. b # 0
    BY <2>9
  <2>11. Filled(e) = Append(o, d)
    BY <1>2, <2>8, <2>10, Zenon DEF Filled
  <2>12. d \in Nat /\ d = Sextet(x, k) /\ k = m
    <3>1. CASE r = 1
      <4>1. n = 3 * g + 1 /\ n % 3 = 1 /\ L = 4 * g + 1 /\ m = 4 * g + 2 /\ k = 4 * g + 2 /\ b = 2
        BY <1>5, <1>7, <2>3, <2>7, <2>9, <3>1
      <4>2. v = c % 4
        BY <1>6, <2>2, <4>1, Zenon
      <4>3. At(x, 3 * g + 1) = c /\ At(x, 3 * g + 2) = 0
        <5>1. 3 * g + 2 \in Nat /\ 3 * g + 2 > n
          BY <4>1
        <5> QED
          BY <2>4, <2>5, <4>1, <5>1, Zenon
      <4>4. Sextet(x, 4 * g + 2) = (c % 4) * 16 + (0 \div 16)
        <5>1. Sextet(x, 4 * g + 2) = (At(x, 3 * g + 1) % 4) * 16 + (At(x, 3 * g + 2) \div 16)
          BY SextetIs, Zenon
        <5> QED
          BY <4>3, <5>1, Zenon
      <4>5. 2^(6 - b) = 16
        BY <4>1
      <4>6. d = (v * 16) % 64
        BY <2>8, <4>5, Zenon
      <4>7. (c % 4) * 16 + (0 \div 16) = ((c % 4) * 16) % 64 /\ ((c % 4) * 16) % 64 \in Nat
        OBVIOUS
      <4> QED
        BY <4>1, <4>2, <4>4, <4>6, <4>7, Zenon
    <3>2. CASE r = 2
      <4>1. n = 3 * g + 2 /\ n % 3 = 2 /\ L = 4 * g + 2 /\ m = 4 * g + 3 /\ k = 4 * g + 3 /\ b = 4
        BY <1>5, <1>7, <2>3, <2>7, <2>9, <3>2
      <4>2. v = c % 16
        BY <1>6, <2>2, <4>1, Zenon
      <4>3. At(x, 3 * g + 2) = c /\ At(x, 3 * g + 3) = 0
        <5>1. 3 * g + 3 \in Nat /\ 3 * g + 3 > n
          BY <4>1
        <5> QED
          BY <2>4, <2>5, <4>1, <5>1, Zenon
      <4>4. Sextet(x, 4 * g + 3) = (c % 16) * 4 + (0 \div 64)
        BY <4>3, SextetIs, ZenonT(120)
      <4>5. 2^(6 - b) = 4
        BY <4>1
      <4>6. d = (v * 4) % 64
        BY <2>8, <4>5, Zenon
      <4>7. (c % 16) * 4 + (0 \div 64) = ((c % 16) * 4) % 64 /\ ((c % 16) * 4) % 64 \in Nat
        OBVIOUS
      <4> QED
        BY <4>1, <4>2, <4>4, <4>6, <4>7, Zenon
    <3>3. CASE r = 3
      <4>1. n = 3 * g + 3 /\ n % 3 = 0 /\ n > 0 /\ L = 4 * g + 3 /\ m = 4 * g + 4 /\ k = 4 * g + 4 /\ b = 6
        BY <1>5, <1>7, <2>3, <2>7, <2>9, <3>3
      <4>2. v = c % 64
        BY <1>6, <2>2, <4>1, Zenon
      <4>3. At(x, 3 * g + 3) = c
        BY <2>4, <4>1, Zenon
      <4>4. Sextet(x, 4 * g + 4) = c % 64
        BY <4>3, SextetIs, Zenon
      <4>5. 2^(6 - b) = 1
        BY <4>1
      <4>6. d = (v * 1) % 64
        BY <2>8, <4>5, Zenon
      <4>7. c % 64 = ((c % 64) * 1) % 64 /\ ((c % 64) * 1) % 64 \in Nat
        OBVIOUS
      <4> QED
        BY <4>1, <4>2, <4>4, <4>6, <4>7, Zenon
    <3> QED
      BY <2>9, <3>1, <3>2, <3>3, Zenon
  <2>13. SextetsTo(x, Append(o, d), k)
    BY <1>1, <2>6, <2>12, SextetsMore, Zenon
  <2> QED
    BY <1>7, <2>11, <2>12, <2>13, Zenon
<1> QED
  BY <1>4, <1>8, <1>9

(* Base64: the characters' bits are the bytes' bits, then zeros, then the
   characters are filled up to four with '=': buf.c, buf_putbase64_. *)
THEOREM Base64Exact ==
  ASSUME BytesParameters, NEW x \in Seq(Octet), 4 * ((Len(x) + 2) \div 3) < Alloc
  PROVE  Base64Right(x)
<1>1. PICK n \in Nat, m \in Nat, y \in {Filled(Fed(x)[Len(x)])}, h \in 0..3 :
        n = Len(x) /\ m = (8 * n + 5) \div 6 /\ y = Filled(Fed(x)[Len(x)]) /\ h = (4 - (m % 4)) % 4
  <2>1. PICK n \in Nat, m \in Nat : n = Len(x) /\ m = (8 * n + 5) \div 6
    <3>1. Len(x) \in Nat
      BY LenProperties
    <3> QED
      BY <3>1
  <2>2. PICK h \in 0..3 : h = (4 - (m % 4)) % 4
    BY <2>1
  <2> QED
    BY <2>1, <2>2, Zenon
<1>2. SextetsTo(x, y, m)
  BY <1>1, FedIs, FilledIs, Zenon
<1>3. y \in Seq(Nat) /\ Len(y) = m /\ \A k \in 1..m : y[k] = Sextet(x, k)
  BY <1>2, Zenon DEF SextetsTo, Sextets
<1>4. m \in Nat /\ h \in Nat /\ m + h = 4 * ((n + 2) \div 3)
  <2>1. PICK g \in Nat, r \in 0..2 : n = 3 * g + r
    <3>1. n \div 3 \in Nat /\ n % 3 \in 0..2 /\ n = 3 * (n \div 3) + (n % 3)
      OBVIOUS
    <3> QED
      BY <3>1, Zenon
  <2>2. CASE r = 0
    <3>1. m = 4 * g /\ (n + 2) \div 3 = g
      BY <1>1, <2>1, <2>2
    <3>2. h = 0
      BY <1>1, <3>1
    <3> QED
      BY <3>1, <3>2
  <2>3. CASE r = 1
    <3>1. m = 4 * g + 2 /\ (n + 2) \div 3 = g + 1
      BY <1>1, <2>1, <2>3
    <3>2. h = 2
      BY <1>1, <3>1
    <3> QED
      BY <3>1, <3>2
  <2>4. CASE r = 2
    <3>1. m = 4 * g + 3 /\ (n + 2) \div 3 = g + 1
      BY <1>1, <2>1, <2>4
    <3>2. h = 1
      BY <1>1, <3>1
    <3> QED
      BY <3>1, <3>2
  <2>5. r = 0 \/ r = 1 \/ r = 2
    OBVIOUS
  <2> QED
    BY <2>2, <2>3, <2>4, <2>5, Zenon
<1>5. PICK z : z = [i \in 1..h |-> 64]
  OBVIOUS
<1>6. z \in Seq(Nat) /\ Len(z) = h /\ \A k \in 1..h : z[k] = 64
  <2>1. z \in [1..h -> Nat]
    BY <1>5
  <2>2. z \in Seq(Nat) /\ Len(z) = h
    BY <1>4, <2>1, Listed, Zenon
  <2> QED
    BY <1>5, <2>2
<1>7. PICK w : w = y \o z
  OBVIOUS
<1>8. w \in Seq(Nat) /\ Len(w) = m + h
  <2>1. y \o z \in Seq(Nat) /\ Len(y \o z) = Len(y) + Len(z)
    BY <1>3, <1>6, Joint, Zenon
  <2> QED
    BY <1>3, <1>6, <1>7, <2>1, Zenon
<1>9. \A k \in 1..m : w[k] = Sextet(x, k)
  <2>1. ASSUME NEW k \in 1..Len(y) PROVE (y \o z)[k] = y[k]
    BY <1>3, <1>6
  <2> QED
    BY <1>3, <1>7, <2>1, Zenon
<1>10. \A k \in 1..h : w[m + k] = 64
  <2>1. ASSUME NEW k \in 1..Len(z) PROVE (y \o z)[Len(y) + k] = z[k]
    BY <1>3, <1>6
  <2>2. ASSUME NEW k \in 1..h PROVE w[m + k] = 64
    <3>1. k \in 1..Len(z)
      BY <1>6, Zenon
    <3>2. (y \o z)[Len(y) + k] = z[k]
      BY <2>1, <3>1, Zenon
    <3>3. w[Len(y) + k] = z[k]
      BY <1>7, <3>2, Zenon
    <3>4. w[m + k] = z[k]
      BY <1>3, <3>3, Zenon
    <3> QED
      BY <1>6, <3>4, Zenon
  <2> QED
    BY <2>2, Zenon
<1>11. buf_putbase64(<<>>, x) = w
  <2>1. buf_putbase64(<<>>, x) = buf_put(<<>>, y \o [i \in 1..((4 - (Len(y) % 4)) % 4) |-> 64])
    <3>1. buf_putbase64(<<>>, x) =
            LET last == Filled(Fed(x)[Len(x)])
            IN  buf_put(<<>>, last \o [i \in 1..((4 - (Len(last) % 4)) % 4) |-> 64])
      BY ZenonT(60) DEF buf_putbase64, Drained, DrainRule, Waiting, Taken6, Fed, FeedRule, MoreBits, Filled
    <3> QED
      BY <1>1, <3>1, Zenon
  <2>2. buf_putbase64(<<>>, x) = buf_put(<<>>, w)
    BY <1>1, <1>3, <1>5, <1>7, <2>1, Zenon
  <2>3. <<>> # Dead /\ buf_ready(<<>>, Len(w))
    <3>1. <<>> # Dead
      BY DEF Dead
    <3>2. Len(<<>>) + (m + h) = m + h
      BY <1>4
    <3>3. m + h < Alloc
      BY <1>1, <1>4, Zenon
    <3> QED
      BY <1>8, <3>1, <3>2, <3>3, Zenon DEF buf_ready
  <2>4. <<>> \o w = w
    BY <1>8, ConcatEmptySeq, Zenon
  <2> QED
    BY <2>2, <2>3, <2>4, Zenon DEF buf_put
<1>12. \A k \in 1..(m + h) : (k > m) <=> (w[k] = 64)
  <2>1. ASSUME NEW k \in 1..(m + h) PROVE (k > m) <=> (w[k] = 64)
    <3>1. CASE k <= m
      <4>1. k \in 1..m /\ k \in Nat \ {0} /\ ~(k > m)
        BY <1>4, <3>1
      <4>2. Sextet(x, k) \in 0..63
        BY <4>1, SextetLess, Zenon
      <4>3. w[k] \in 0..63
        BY <1>9, <4>1, <4>2, Zenon
      <4>4. w[k] # 64
        <5>1. PICK a : a = w[k]
          OBVIOUS
        <5>2. a \in 0..63
          BY <4>3, <5>1, Zenon
        <5>3. a # 64
          BY <5>2
        <5> QED
          BY <5>1, <5>3, Zenon
      <4> QED
        BY <4>1, <4>4, Zenon
    <3>2. CASE k > m
      <4>1. k - m \in 1..h /\ m + (k - m) = k
        BY <1>4, <3>2
      <4>2. w[m + (k - m)] = 64
        BY <1>10, <4>1, Zenon
      <4> QED
        BY <3>2, <4>1, <4>2, Zenon
    <3> QED
      BY <1>4, <3>1, <3>2
  <2> QED
    BY <2>1, Zenon
<1>13. \A k \in 0..(6 * m - 1) :
         Bit(w[k \div 6 + 1], 6, k % 6) = IF k < 8 * n THEN Bit(x[k \div 8 + 1], 8, k % 8) ELSE 0
  <2>1. ASSUME NEW k \in 0..(6 * m - 1)
        PROVE  Bit(w[k \div 6 + 1], 6, k % 6) = IF k < 8 * n THEN Bit(x[k \div 8 + 1], 8, k % 8) ELSE 0
    <3>1. k \in Nat /\ k \div 6 + 1 \in 1..m
      BY <1>4
    <3>2. w[k \div 6 + 1] = Sextet(x, k \div 6 + 1)
      BY <1>9, <3>1, Zenon
    <3>3. Bit(Sextet(x, k \div 6 + 1), 6, k % 6) = Bit(At(x, k \div 8 + 1), 8, k % 8)
      BY <3>1, SextetBits, Zenon DEF SameBits
    <3>4. CASE k < 8 * n
      <4>1. k \div 8 + 1 <= n
        BY <3>1, <3>4
      <4>2. At(x, k \div 8 + 1) = x[k \div 8 + 1]
        BY <1>1, <4>1, Zenon DEF At
      <4> QED
        BY <3>2, <3>3, <3>4, <4>2, Zenon
    <3>5. CASE ~(k < 8 * n)
      <4>1. ~(k \div 8 + 1 <= n)
        BY <3>1, <3>5
      <4>2. At(x, k \div 8 + 1) = 0
        BY <1>1, <4>1, Zenon DEF At
      <4>3. Bit(0, 8, k % 8) = 0
        <5>1. PICK t \in 0..7, o \in Nat : t = k % 8 /\ o = 0
          BY <3>1
        <5>2. t = 0 \/ t = 1 \/ t = 2 \/ t = 3 \/ t = 4 \/ t = 5 \/ t = 6 \/ t = 7
          OBVIOUS
        <5>3. Bits(o)
          BY BitIs, Zenon
        <5>4. /\ (o \div 128) % 2 = 0 /\ (o \div 64) % 2 = 0 /\ (o \div 32) % 2 = 0 /\ (o \div 16) % 2 = 0
              /\ (o \div 8) % 2 = 0 /\ (o \div 4) % 2 = 0 /\ (o \div 2) % 2 = 0 /\ o % 2 = 0
          BY <5>1
        <5>5. /\ Bit(o, 8, 0) = 0 /\ Bit(o, 8, 1) = 0 /\ Bit(o, 8, 2) = 0 /\ Bit(o, 8, 3) = 0
              /\ Bit(o, 8, 4) = 0 /\ Bit(o, 8, 5) = 0 /\ Bit(o, 8, 6) = 0 /\ Bit(o, 8, 7) = 0
          BY <5>3, <5>4 DEF Bits
        <5>6. Bit(o, 8, t) = 0
          BY <5>2, <5>5, Zenon
        <5> QED
          BY <5>1, <5>6, Zenon
      <4> QED
        BY <3>2, <3>3, <3>5, <4>2, <4>3, Zenon
    <3> QED
      BY <3>4, <3>5, Zenon
  <2> QED
    BY <2>1, Zenon
<1>14. Len(w) = 4 * ((Len(x) + 2) \div 3)
  BY <1>1, <1>4, <1>8, Zenon
<1>15. \A k \in 1..Len(w) : (k > m) <=> (w[k] = 64)
  BY <1>8, <1>12, Zenon
<1> QED
  BY <1>1, <1>11, <1>13, <1>14, <1>15, Zenon DEF Base64Right, Bit

-----------------------------------------------------------------------------
(* All of it. *)

(* A trial whose input is one the functions promise an answer for: bytes that
   fit the buffer they are encoded to, and numbers that fit their word. *)
Legal ==
  /\ Of("packet") => input[1] \in Seq(Item) /\ input[2] \in Nat
  /\ Of("blob") => input[1] \in Seq(Octet)
  /\ Of("bytes") => /\ input[1] \in Seq(Octet) /\ 5 + Len(input[1]) < Alloc
                    /\ 4 * ((Len(input[1]) + 2) \div 3) < Alloc
  /\ Of("text") => input[1] \in Int /\ input[2] \in Seq(Octet) /\ input[3] \in Seq(Seq(Octet))
  /\ Of("number") => /\ input[1] \in Nat /\ 2^input[1] \in Nat /\ input[2] \in Int
                     /\ -input[2] < 2^input[1] /\ input[3] \in Seq(Octet) /\ Len(input[3]) >= 2
  /\ Of("address") => input[1] \in Address
  /\ Of("log") => input[1] \in LogLine

(* Every legal trial of the functions on byte strings ends well: each does what
   its name and its use promise, whatever the input. *)
THEOREM BytesAreRight ==
  ASSUME BytesParameters, BlobFits, Legal
  PROVE  BytesRight
<1>1. Of("packet") => WireRight(input[1], input[2])
  BY PacketsReadBack DEF Legal
<1>2. Of("blob") => BlobRight(input[1])
  BY BlobsExact DEF Legal
<1>3. Of("bytes") => SecretRight(input[1]) /\ Base64Right(input[1])
  BY SecretsShortest, Base64Exact DEF Legal
<1>4. Of("text") => ListRight(input[2]) /\ StringRight(input[1], input[2], input[3])
  BY ListsRead, StringsFit DEF Legal
<1>5. Of("number") => NumberRight(input[1], input[2], input[3])
  <2>1. SUFFICES ASSUME Of("number") PROVE NumberRight(input[1], input[2], input[3])
    OBVIOUS
  <2>2. PICK width, n, r : width = input[1] /\ n = input[2] /\ r = input[3]
    OBVIOUS
  <2>3. width \in Nat /\ 2^width \in Nat /\ n \in Int /\ -n < 2^width /\ r \in Seq(Octet) /\ Len(r) >= 2
    BY <2>1, <2>2, Zenon DEF Legal
  <2> QED
    BY <2>2, <2>3, NumbersRead, Zenon
<1>6. Of("address") => AddressRight(input[1])
  BY AddressesShortest DEF Legal
<1>7. Of("log") => LogRight(input[1])
  BY LogsWhole DEF Legal
<1> QED
  BY <1>1, <1>2, <1>3, <1>4, <1>5, <1>6, <1>7, Zenon DEF BytesRight
==============================================================================

------------------------------ MODULE Symmetric ------------------------------
(***************************************************************************)
(* What protects a packet: the authenticator poly1305                      *)
(* (crypto_onetimeauth_poly1305_tinyssh.c), the stream cipher chacha20     *)
(* (crypto_stream_chacha20.c), and the hashes sha512 and sha256            *)
(* (crypto_hash_sha512_tinyssh.c, crypto_hash_sha256.c).                   *)
(*                                                                         *)
(* poly1305 is modelled with its five limbs and its carries, in limbs of   *)
(* LimbBits bits in place of 26 and words that are, as there, 6 bits wider *)
(* than a limb and 12 bits wider than a product. The rounds of the cipher  *)
(* and of the hashes are free: a byte of key stream is known by its place  *)
(* and a hash by the blocks it was made from. What is left is how messages *)
(* of any length are cut, counted and padded.                              *)
(***************************************************************************)
EXTENDS Integers, FiniteSets, FiniteSetsExt, Sequences, SequencesExt

CONSTANTS LimbBits,    \* 26
          Units,       \* 16: the bytes in a block of poly1305
          UnitBits,    \* 8
          Cleared,     \* the bits of r that are always 0
          StreamBlock, \* 64: the bytes in a block of chacha20
          CounterBits, \* 32
          ByteShift,   \* 3: a byte has 2^3 bits
          LenBytes     \* 8: the bytes in the length at a hash's end

(* What the constants must be like. *)
SymmetricParameters ==
  /\ 5 * LimbBits = Units * UnitBits + 2
  /\ Cleared \subseteq 0..(Units * UnitBits - 1)
  /\ StreamBlock > 0 /\ CounterBits > 0 /\ LenBytes > 0

-----------------------------------------------------------------------------
(* poly1305 *)
Limb == 2^LimbBits
Word(x) == x % (Limb * 2^6)
Wide(x) == x % (Limb * Limb * 2^12)
BlockBits == Units * UnitBits

Number(s) == MapThenSumSet(LAMBDA i : s[i] * 2^(UnitBits * (i - 1)), DOMAIN s)
Limbs(v) == [i \in 0..4 |-> (v \div Limb^i) % Limb]
BitsOf(v) == {i \in 0..(BlockBits + 8) : (v \div 2^i) % 2 = 1}
FromBits(b) == MapThenSumSet(LAMBDA i : 2^i, b)

(* h += m: a whole block has a bit above its top; a part of one has a 1 behind
   its last byte instead. *)
AddBlock(h, s) ==
  LET a == IF Len(s) = Units THEN Number(s) + 2^BlockBits ELSE Number(Append(s, 1))
  IN [i \in 0..4 |-> Word(h[i] + Limbs(a)[i])]

(* h *= r, partly reduced. *)
MulReduce(h, r) ==
  LET s == [i \in 1..4 |-> Word(5 * r[i])]
      d == [i \in 0..4 |->
              Wide(MapThenSumSet(LAMBDA j : h[j] * (IF j <= i THEN r[i - j] ELSE s[5 + i - j]), 0..4))]
      e[i \in 0..4] == IF i = 0 THEN d[0] ELSE Wide(d[i] + Word(e[i - 1] \div Limb))
      h0 == Word((e[0] % Limb) + 5 * Word(e[4] \div Limb))
  IN [i \in 0..4 |-> CASE i = 0 -> h0 % Limb
                       [] i = 1 -> Word((e[1] % Limb) + (h0 \div Limb))
                       [] OTHER -> e[i] % Limb]

(* "fully carry h" *)
FullyCarry(h) ==
  LET e[i \in 1..4] == IF i = 1 THEN h[1] ELSE Word(h[i] + (e[i - 1] \div Limb))
      h0 == Word(h[0] + 5 * (e[4] \div Limb))
  IN [i \in 0..4 |-> CASE i = 0 -> h0 % Limb
                       [] i = 1 -> Word((e[1] % Limb) + (h0 \div Limb))
                       [] OTHER -> e[i] % Limb]

Select_slip(h) == h

(* "select h if h < p, or h + -p if h >= p": the top bit of the last word. *)
Select(h) ==
  LET e[i \in 0..3] == IF i = 0 THEN Word(h[0] + 5) ELSE Word(h[i] + (e[i - 1] \div Limb))
      top == Word(h[4] + (e[3] \div Limb) - Limb)
  IN IF top >= Limb * 2^5 THEN h
     ELSE [i \in 0..4 |-> IF i = 4 THEN top ELSE e[i] % Limb]

(* op(v), worked out once. *)
Bind(op(_), v) == CHOOSE t \in {op(u) : u \in {v}} : t = t

(* The limbs are put side by side with OR, and the pad is added. *)
crypto_onetimeauth_poly1305(m, k) ==
  LET r == Limbs(FromBits(BitsOf(k.r) \ Cleared))
      f[n \in 0..Len(m)] ==
        IF n >= Len(m) THEN [i \in 0..4 |-> 0]
        ELSE \* the state after the first Len(m) - n bytes
             LET done == Len(m) - n
                 last == IF done % Units = 0 THEN Units ELSE done % Units
             IN Bind(LAMBDA x : MulReduce(AddBlock(x, SubSeq(m, done - last + 1, done)), r), f[n + last])
      h == Bind(LAMBDA x : Select(FullyCarry(x)), f[0])
      joined == UNION {{b + LimbBits * i : b \in BitsOf(h[i])} : i \in 0..4}
  IN (FromBits(joined \cap 0..(BlockBits - 1)) + k.pad) % 2^BlockBits

(* 0 if the tag is right, or else -1. *)
crypto_onetimeauth_poly1305_verify(h, m, k) ==
  IF h = crypto_onetimeauth_poly1305(m, k) THEN 0 ELSE -1

-----------------------------------------------------------------------------
(* chacha20: a byte is the set of the values whose XOR it is. *)
Xor(a, b) == (a \ b) \cup (b \ a)

(* A whole or a partial block under the counter's two words. *)
XorBlock(s, n0, n1) == [j \in 1..Len(s) |-> Xor(s[j], {<<n0, n1, j>>})]

crypto_stream_chacha20_xor(m) ==
  LET f[u \in 0..(Len(m) \div StreamBlock)] ==
        LET rest == SubSeq(m, u * StreamBlock + 1, Len(m))
            n0 == u % 2^CounterBits
            n1 == (u \div 2^CounterBits) % 2^CounterBits
        IN IF Len(rest) < StreamBlock THEN XorBlock(rest, n0, n1)
           ELSE XorBlock(SubSeq(rest, 1, StreamBlock), n0, n1) \o f[u + 1]
  IN f[0]

crypto_stream_chacha20(l) == crypto_stream_chacha20_xor([i \in 1..l |-> {}])

-----------------------------------------------------------------------------
(* The hashes: z is the blocks that went into it. *)
blocks(size, z, m) ==
  z \o [i \in 1..(Len(m) \div size) |-> SubSeq(m, (i - 1) * size + 1, i * size)]

Byte == 2^(2^ByteShift)
LenBits == 2^ByteShift * LenBytes

(* The last block or two: the rest of the message, a 1 bit, zeros, and the
   length in bits; high says whether there is a byte above the low word. *)
LastBlocks(size, room, high, m) ==
  LET rest == SubSeq(m, (Len(m) \div size) * size + 1, Len(m))
      n == IF Len(rest) < size - room THEN size ELSE 2 * size
      low == (Len(m) * 2^ByteShift) % 2^LenBits
  IN [i \in 1..n |->
        CASE i > n - LenBytes -> (low \div Byte^(n - i)) % Byte
          [] i = n - LenBytes /\ high -> Len(m) \div 2^(LenBits - ByteShift)
          [] i = Len(rest) + 1 -> Byte \div 2
          [] i <= Len(rest) -> rest[i]
          [] OTHER -> 0]

crypto_hash_sha512(size, m) ==
  blocks(size, blocks(size, <<>>, m), LastBlocks(size, 2 * LenBytes, TRUE, m))

crypto_hash_sha256(size, m) ==
  blocks(size, blocks(size, <<>>, m), LastBlocks(size, LenBytes, FALSE, m))

-----------------------------------------------------------------------------
(* What these promise, for one input. *)

(* The tag is the polynomial of the message's blocks at r modulo 2^130 - 5, plus
   the pad: no carry is lost, and the last subtraction is made when it must. *)
PolyRight(m, k) ==
  LET prime == Limb^5 - 5
      r == FromBits(BitsOf(k.r) \ Cleared)
      n == (Len(m) + Units - 1) \div Units
      part(i) == SubSeq(m, (i - 1) * Units + 1, IF i * Units < Len(m) THEN i * Units ELSE Len(m))
      value(i) == Number(Append(part(i), 1))
      horner[i \in 0..n] == IF i = 0 THEN 0 ELSE ((horner[i - 1] + value(i)) * r) % prime
      tag == (horner[n] + k.pad) % 2^BlockBits
  IN /\ crypto_onetimeauth_poly1305(m, k) = tag
     /\ \A t \in {0, tag, 2^BlockBits - 1} :
          (crypto_onetimeauth_poly1305_verify(t, m, k) = 0) <=> (t = tag)

(* No byte of key stream is used for two bytes of one packet, also when the
   counter's low word wraps; doing it twice gives the message back; and what
   comes out for a part of a message does not depend on the rest. *)
StreamRight(m, cut) ==
  LET c == crypto_stream_chacha20_xor(m)
      ks == crypto_stream_chacha20(Len(m))
  IN /\ Cardinality(UNION ToSet(ks)) = Len(m)
     /\ crypto_stream_chacha20_xor(c) = m
     /\ crypto_stream_chacha20_xor(SubSeq(m, 1, cut)) = SubSeq(c, 1, cut)

(* A message goes into its hash whole, followed by a 1 bit, as few zeros as
   there can be and its length: two messages never become the same blocks. *)
PaddingRight(m, size, room, out) ==
  LET bits == 2^ByteShift * Len(m)
      zeros == CHOOSE z \in 0..(2 * size) : /\ (Len(m) + 1 + z + room) % size = 0
                                            /\ \A y \in 0..(z - 1) : (Len(m) + 1 + y + room) % size # 0
      padded == m \o <<Byte \div 2>> \o [i \in 1..zeros |-> 0]
                  \o [i \in 1..room |-> (bits \div Byte^(room - i)) % Byte]
  IN FlattenSeq(out) = padded

HashRight(m) ==
  /\ PaddingRight(m, 4 * LenBytes, 2 * LenBytes, crypto_hash_sha512(4 * LenBytes, m))
  /\ Len(m) * 2^ByteShift < 2^LenBits =>
       PaddingRight(m, 2 * LenBytes, LenBytes, crypto_hash_sha256(2 * LenBytes, m))
=============================================================================

------------------------------- MODULE Sntrup -------------------------------
(***************************************************************************)
(* Streamlined NTRU Prime (crypto_kem_sntrup761_tinyssh.c), its sorting    *)
(* network (crypto_sort_uint32.c) and the hybrid with X25519               *)
(* (crypto_kem_sntrup761x25519.c). The client makes the key pair and opens *)
(* the ciphertext; the server encapsulates to the client's public key.     *)
(*                                                                         *)
(* The program has p = 761, q = 4591 and w = 286 and words of N = 32 bits; *)
(* all of its other constants follow from these, and so they do here, so   *)
(* that a smaller ring and a narrower word exercise the same carries. A    *)
(* polynomial is the sequence of its coefficients, the constant one first. *)
(* Hashes are free: the hash of an input is the pair of its prefix and the *)
(* input, one element of a byte string, and equal only to itself. Constant *)
(* time is not modelled: a mask applied to a value is a condition. The     *)
(* code under LPR is not compiled.                                         *)
(***************************************************************************)
EXTENDS CryptoInt, SequencesExt

CONSTANTS p, q, w,
          x25519(_, _)   \* the point that a scalar makes of a point

(* What the constants must be like. *)
SntrupParameters ==
  /\ p \in Nat /\ p % 4 = 1
  /\ q \in Nat /\ q % 6 = 1 /\ 16 * w + 1 <= q
  /\ w \in 1..p

Half == N \div 2            \* 16: the width of uint16
Limit == 2^((N - 4) \div 2)  \* 16384: what a modulus stays below
Octet == 2^(N \div 4)        \* 256: what a byte of a code word stays below
q12 == (q - 1) \div 2

(* A loop over a body: what the state is after its first n rounds. *)
Loop(body(_, _), init, n) ==
  LET f[k \in 0..n] ==
        IF k = 0 THEN init ELSE CHOOSE t \in {body(s, k - 1) : s \in {f[k - 1]}} : TRUE
  IN f[n]

-----------------------------------------------------------------------------
(* Division by a public modulus without a division instruction. *)

(* (x * v) >> (N - 1), the product taken in twice the width. *)
MulHigh(x, v) ==
  LET h == 2^Half IN ((x \div h) * v + ((x % h) * v) \div h) \div 2^(N - 1 - Half)

(* q and x are the quotient and the rest with m taken off once more than may
   have been right: if that went below 0, it is undone. *)
Corrected(q0, x, m) ==
  LET mask == x \div 2^(N - 1) IN <<(q0 + 1 - mask) % 2^N, (x + mask * m) % 2^Half>>

uint32_divmod_uint14(x, m) ==
  LET v == 2^(N - 1) \div m
      q1 == MulHigh(x, v)
      x1 == (x - q1 * m) % 2^N
      q2 == MulHigh(x1, v)
  IN Corrected(q1 + q2, (x1 - q2 * m - m) % 2^N, m)

(* u is what the word raised by 2^(N-1) divides to, t what 2^(N-1) does. *)
Recentred(u, t, m) ==
  LET r == (u[2] - t[2]) % 2^Half
      mask == r \div 2^(Half - 1)
      d == (u[1] - t[1] - mask) % 2^N
  IN <<IF d >= 2^(N - 1) THEN d - 2^N ELSE d, (r + mask * m) % 2^Half>>

int32_divmod_uint14(x, m) ==
  Recentred(uint32_divmod_uint14((2^(N - 1) + x) % 2^N, m), uint32_divmod_uint14(2^(N - 1), m), m)

int32_mod_uint14(x, m) == int32_divmod_uint14(x, m)[2]

-----------------------------------------------------------------------------
(* Lists of residues as bytes: the residues R[i] below M[i] are paired up, and
   each pair gives up its low bytes until its modulus is below the limit. *)

(* One step of giving up a byte, while the modulus is at least lim. *)
Shed(r, m, lim) ==
  LET f[s \in [out : Seq(Nat), r : Nat, m : Nat]] ==
        IF s.m < lim THEN s
        ELSE f[[out |-> Append(s.out, s.r % Octet), r |-> s.r \div Octet,
                m |-> (s.m + Octet - 1) \div Octet]]
  IN f[[out |-> <<>>, r |-> r, m |-> m]]

Encode(R, M) ==
  LET enc[x \in Seq(Nat) \X Seq(Nat)] ==
        LET n == Len(x[1])
            pair(i) == CHOOSE s \in {Shed(x[1][2*i-1] + x[1][2*i] * x[2][2*i-1],
                                          x[2][2*i-1] * x[2][2*i], Limit)} : TRUE
            pairs == CHOOSE t \in {[i \in 1..(n \div 2) |-> pair(i)]} : TRUE
            odd(s) == IF n % 2 = 1 THEN <<s[n]>> ELSE <<>>
        IN CASE n = 0 -> <<>>
             [] n = 1 -> Shed(x[1][1], x[2][1], 2).out
             [] OTHER -> FlattenSeq([i \in 1..(n \div 2) |-> pairs[i].out])
                           \o enc[<<[i \in 1..(n \div 2) |-> pairs[i].r] \o odd(x[1]),
                                    [i \in 1..(n \div 2) |-> pairs[i].m] \o odd(x[2])>>]
  IN enc[<<R, M>>]

(* How many low bytes a pair gave up, and the modulus it kept. *)
PairBytes(m) == IF m > Octet * (Limit - 1) THEN 2 ELSE IF m >= Limit THEN 1 ELSE 0
Kept(m) ==
  CASE PairBytes(m) = 2 -> ((m + Octet - 1) \div Octet + Octet - 1) \div Octet
    [] PairBytes(m) = 1 -> (m + Octet - 1) \div Octet
    [] OTHER -> m
Little(s) == IF Len(s) = 0 THEN 0 ELSE IF Len(s) = 1 THEN s[1] ELSE s[1] + Octet * s[2]

Decode(S, M) ==
  LET dec[x \in Seq(Nat) \X Seq(Nat)] ==
        LET s == x[1]
            m == x[2]
            n == Len(m)
            h == n \div 2
            mm == [i \in 1..h |-> m[2*i-1] * m[2*i]]
            at == [i \in 0..h |-> FoldFunctionOnSet(+, 0, [j \in 1..h |-> PairBytes(mm[j])], 1..i)]
            up == CHOOSE t \in {dec[<<SubSeq(s, at[h] + 1, Len(s)),
                                      [i \in 1..h |-> Kept(mm[i])]
                                        \o (IF n % 2 = 1 THEN <<m[n]>> ELSE <<>>)>>]} : TRUE
            both(i) == LET r == Little(SubSeq(s, at[i-1] + 1, at[i])) + Octet^PairBytes(mm[i]) * up[i]
                           d == uint32_divmod_uint14(r, m[2*i-1])
                       IN <<d[2], uint32_divmod_uint14(d[1], m[2*i])[2]>>
        IN CASE n = 0 -> <<>>
             [] n = 1 /\ m[1] = 1 -> <<0>>
             [] n = 1 /\ m[1] # 1 ->
                  <<uint32_divmod_uint14(Little(SubSeq(s, 1, IF m[1] <= Octet THEN 1 ELSE 2)), m[1])[2]>>
             [] OTHER -> FlattenSeq([i \in 1..h |-> both(i)])
                           \o (IF n % 2 = 1 THEN <<up[h+1]>> ELSE <<>>)
  IN dec[<<S, M>>]

-----------------------------------------------------------------------------
(* Arithmetic modulo 3 and modulo q, in representatives around 0. *)

int16_nonzero_mask(x) == -(((-(x % 2^Half)) % 2^N) \div 2^(N - 1))
int16_negative_mask(x) == -((x % 2^Half) \div 2^(Half - 1))

F3_freeze(x) == int32_mod_uint14(x + 1, 3) - 1

Fq_freeze(x) == int32_mod_uint14(x + q12, q) - q12

(* a1 to the power q - 2. *)
Fq_recip(a1) == Loop(LAMBDA ai, i : Fq_freeze(a1 * ai), a1, q - 3)

-----------------------------------------------------------------------------
(* Polynomials modulo x^p - x - 1. *)

Weightw_mask(r) == int16_nonzero_mask(Cardinality({i \in 1..p : r[i] % 2 = 1}) - w)

R3_fromRq(r) == [i \in 1..p |-> F3_freeze(r[i])]

(* The coefficients of the ring. *)
Freeze(ring, x) == IF ring = "R3" THEN F3_freeze(x) ELSE Fq_freeze(x)

(* The product's 2p - 1 coefficients, and then the ones from p up folded down,
   the highest first: each is added to two below it. *)
Product(ring, f, g) ==
  LET fg == [i \in 0..(2 * p - 2) |->
               LET lo == IF i < p THEN 0 ELSE i - p + 1
                   hi == IF i < p THEN i ELSE p - 1
               IN Loop(LAMBDA r, j : Freeze(ring, r + f[lo + j + 1] * g[i - lo - j + 1]), 0, hi - lo + 1)]
      fold(t, k) == LET i == 2 * p - 2 - k IN
                      [t EXCEPT ![i - p] = Freeze(ring, @ + t[i]), ![i - p + 1] = Freeze(ring, @ + t[i])]
      h == Loop(fold, fg, p - 1)
  IN CHOOSE t \in {[i \in 1..p |-> h[i - 1]]} : TRUE

R3_mult(f, g) == Product("R3", f, g)
Rq_mult_small(f, g) == Product("Rq", f, g)
Rq_mult3(f) == [i \in 1..p |-> Fq_freeze(3 * f[i])]

(* One division step on f and g, with v and r the multiples of the input that
   led to them: v is shifted up, the pairs may be swapped, g's constant term is
   cleared with f's, and g is shifted down. *)
DivStep(ring, s) ==
  LET shifted == [i \in 0..p |-> IF i = 0 THEN 0 ELSE s.v[i - 1]]
      swap == int16_negative_mask(-s.delta) # 0 /\ int16_nonzero_mask(s.g[0]) # 0
      f == IF swap THEN s.g ELSE s.f
      g == IF swap THEN s.f ELSE s.g
      v == IF swap THEN s.r ELSE shifted
      r == IF swap THEN shifted ELSE s.r
      k == IF ring = "R3" THEN <<1, -g[0] * f[0]>> ELSE <<f[0], -g[0]>>
  IN [delta |-> 1 + (IF swap THEN -s.delta ELSE s.delta), f |-> f, v |-> v,
      g |-> [i \in 0..p |-> IF i = p THEN 0 ELSE Freeze(ring, k[1] * g[i + 1] + k[2] * f[i + 1])],
      r |-> [i \in 0..p |-> Freeze(ring, k[1] * r[i] + k[2] * v[i])]]

(* f is the modulus with its coefficients reversed, g the input reversed. *)
DivSteps(ring, r0, in, rounds) ==
  Loop(LAMBDA s, loop : DivStep(ring, s),
       [delta |-> 1,
        f |-> [i \in 0..p |-> IF i = 0 THEN 1 ELSE IF i >= p - 1 THEN -1 ELSE 0],
        g |-> [i \in 0..p |-> IF i = p THEN 0 ELSE in[p - i]],
        v |-> [i \in 0..p |-> 0],
        r |-> [i \in 0..p |-> IF i = 0 THEN r0 ELSE 0]], rounds)

(* The inverse in R3 and 0, or -1 if there is none. *)
R3_recip(in) ==
  LET s == DivSteps("R3", 1, in, 2 * p - 1)
  IN <<[i \in 1..p |-> s.f[0] * s.v[p - i]], int16_nonzero_mask(s.delta)>>

(* 1/(3 in) in Rq and 0, or -1 if there is none. *)
Rq_recip3(in) ==
  LET scaled(s) == LET scale == Fq_recip(s.f[0])
                   IN <<[i \in 1..p |-> Fq_freeze(scale * s.v[p - i])], int16_nonzero_mask(s.delta)>>
  IN CHOOSE t \in {scaled(s) : s \in {DivSteps("Rq", Fq_recip(3), in, 2 * p - 1)}} : TRUE

Round(a) == [i \in 1..p |-> a[i] - F3_freeze(a[i])]

-----------------------------------------------------------------------------
(* Sorting, and what is drawn from random words. *)

minmax(x, y) ==
  LET xy == Xor(x, y)
      c == Minus(y, x)
      d == Xor(c, xy \cap Xor(Xor(c, y), Top))
      m == (IF N - 1 \in d THEN Ones ELSE Zero) \cap xy
  IN <<Xor(x, m), Xor(y, m)>>

(* Batcher's merge exchange. b is a power of 2, so i & b is a digit of i. *)
crypto_sort_uint32(x) ==
  LET n == Len(x)
      top == CHOOSE t \in {2^k : k \in 0..n} : 2 * t >= n /\ (t = 1 \/ t < n)
      at(y, i, j) == LET z == minmax(y[i + 1], y[j + 1])
                     IN [y EXCEPT ![i + 1] = z[1], ![j + 1] = z[2]]
      Set(i, b) == (i \div b) % 2 = 1
      pass(y, b, a, c) ==   \* compare i + a with i + c, for every i with i & b = 0
        Loop(LAMBDA z, i : IF Set(i, b) THEN z ELSE at(z, i + a, i + c), y, IF n > c THEN n - c ELSE 0)
      rounds(b) == LET e == CHOOSE e \in 0..n : 2^e * b = top IN e
      phase(y, b) ==
        Loop(LAMBDA z, k : pass(z, b, b, top \div 2^k), pass(y, b, 0, b), rounds(b))
      phases == rounds(1) + 1
  IN IF n < 2 THEN x ELSE Loop(LAMBDA y, k : phase(y, top \div 2^k), x, phases)

Short_fromlist(in) ==
  LET L == crypto_sort_uint32([i \in 1..p |-> IF i <= w THEN in[i] \ {0} ELSE (in[i] \ {1}) \cup {0}])
  IN [i \in 1..p |-> Value(L[i] \cap {0, 1}) - 1]

Small_random(in) == [i \in 1..p |-> (Value(in[i] \ {N - 1, N - 2}) * 3) \div 2^(N - 2) - 1]

-----------------------------------------------------------------------------
(* The core: polynomials in, polynomials out. *)

(* What Small_random and Short_random draw is given. The loop draws g again
   until it is invertible modulo 3. *)
KeyGen(g, f) ==
  LET key(ginv, inv3) == [ok |-> ginv[2] = 0, h |-> Rq_mult_small(inv3[1], g), f |-> f, ginv |-> ginv[1]]
  IN CHOOSE k \in {key(x, y) : x \in {R3_recip(g)}, y \in {Rq_recip3(f)}} : TRUE

Encrypt(r, h) == Round(Rq_mult_small(h, r))

Decrypt(c, f, ginv) ==
  LET ev == R3_mult(R3_fromRq(Rq_mult3(Rq_mult_small(c, f))), ginv)
  IN [i \in 1..p |-> IF Weightw_mask(ev) = 0 THEN ev[i] ELSE IF i <= w THEN 1 ELSE 0]

-----------------------------------------------------------------------------
(* Polynomials as bytes. Four small coefficients go into a byte of eight bits. *)

Small_bytes == (p + 3) \div 4

Small_encode(f) ==
  [k \in 1..Small_bytes |->
     LET n == IF k = Small_bytes THEN 1 ELSE 4
     IN MapThenSumSet(LAMBDA j : (f[4 * (k - 1) + j] + 1) * 4^(j - 1), 1..n)]

Small_decode(s) == [i \in 1..p |-> ((s[(i + 3) \div 4] \div 4^((i - 1) % 4)) % 4) - 1]

Rq_encode(r) == Encode([i \in 1..p |-> r[i] + q12], [i \in 1..p |-> q])
Rq_decode(s) ==
  LET R == Decode(s, [i \in 1..p |-> q]) IN [i \in 1..p |-> R[i] - q12]

(* 10923 / 2^15 is a third, rounded up. *)
Rounded_encode(r) ==
  Encode([i \in 1..p |-> ((r[i] + q12) * 10923) \div 2^15], [i \in 1..p |-> (q + 2) \div 3])

Rounded_decode(s) ==
  LET R == Decode(s, [i \in 1..p |-> (q + 2) \div 3]) IN [i \in 1..p |-> R[i] * 3 - q12]

Rounded_bytes == Len(Rounded_encode([i \in 1..p |-> 0]))
Rq_bytes == Len(Rq_encode([i \in 1..p |-> 0]))
SecretKeys_bytes == 2 * Small_bytes
Hash_bytes == 1

ZEncrypt(r, pk) == Rounded_encode(Encrypt(r, Rq_decode(pk)))

ZDecrypt(C, sk) ==
  Decrypt(Rounded_decode(SubSeq(C, 1, Rounded_bytes)),
          Small_decode(SubSeq(sk, 1, Small_bytes)),
          Small_decode(SubSeq(sk, Small_bytes + 1, SecretKeys_bytes)))

-----------------------------------------------------------------------------
(* The key encapsulation. *)

Hash_prefix(b, in) == << <<b, in>> >>

HashConfirm(r, cache) == Hash_prefix(2, Hash_prefix(3, r) \o cache)
HashSession(b, y, z) == Hash_prefix(b, Hash_prefix(3, y) \o z)

(* The secret key is f, 1/g, the public key, random bytes rho and a hash. *)
Packed(key, rho) ==
  LET pk == Rq_encode(key.h)
  IN [ok |-> key.ok, pk |-> pk,
      sk |-> Small_encode(key.f) \o Small_encode(key.ginv) \o pk \o rho \o Hash_prefix(4, pk)]
KEM_KeyGen(g, f, rho) == Packed(KeyGen(g, f), rho)

Hide(r, pk, cache) ==
  LET r_enc == Small_encode(r)
  IN [c |-> ZEncrypt(r, pk) \o HashConfirm(r_enc, cache), r_enc |-> r_enc]

Sealed(t) == [c |-> t.c, k |-> HashSession(1, t.r_enc, t.c)]
Encap(r, pk) == Sealed(Hide(r, pk, Hash_prefix(4, pk)))

(* 0 if the two are equal, or else -1. *)
Ciphertexts_diff_mask(c, c2) == IF c = c2 THEN 0 ELSE -1

(* The key made of the ciphertext t.c that the recovered r encrypts to. *)
Unsealed_slip(c, rho, t) ==
  HashSession(1 + Ciphertexts_diff_mask(SubSeq(c, 1, Rounded_bytes), SubSeq(t.c, 1, Rounded_bytes)), t.r_enc, c)

(* If that is not the one received, rho takes the place of r, and there is no
   error. *)
Unsealed(c, rho, t) ==
  LET mask == Ciphertexts_diff_mask(c, t.c)
  IN HashSession(1 + mask, IF mask = 0 THEN t.r_enc ELSE rho, c)

Decap(c, sk) ==
  LET pk == SubSeq(sk, SecretKeys_bytes + 1, SecretKeys_bytes + Rq_bytes)
      rho == SubSeq(sk, SecretKeys_bytes + Rq_bytes + 1, SecretKeys_bytes + Rq_bytes + Small_bytes)
      cache == SubSeq(sk, SecretKeys_bytes + Rq_bytes + Small_bytes + 1, Len(sk))
  IN Unsealed(c, rho, Hide(ZDecrypt(c, sk), pk, cache))

-----------------------------------------------------------------------------
(* The hybrid. *)

Joined(key, n, point) == [ok |-> key.ok, pk |-> key.pk \o <<point>>, sk |-> key.sk \o <<n>>]
crypto_kem_sntrup761x25519_keypair(g, f, rho, n, base) ==
  Joined(KEM_KeyGen(g, f, rho), n, x25519(n, base))

WithPoints(e, point, secret) == [c |-> e.c \o <<point>>, k |-> << <<"sha512", e.k, secret>> >>]
crypto_kem_sntrup761x25519_enc(pk, r, n, base) ==
  WithPoints(Encap(r, SubSeq(pk, 1, Rq_bytes)), x25519(n, base), x25519(n, pk[Rq_bytes + 1]))

crypto_kem_sntrup761x25519_dec(c, sk) ==
  LET n == Rounded_bytes + Hash_bytes
  IN << <<"sha512", Decap(SubSeq(c, 1, n), SubSeq(sk, 1, Len(sk) - 1)), x25519(sk[Len(sk)], c[n + 1])>> >>

-----------------------------------------------------------------------------
(* What these promise, for one input. *)
Small == [1..p -> {-1, 0, 1}]
Short == {r \in Small : Cardinality({i \in 1..p : r[i] # 0}) = w}
Unit == [i \in 1..p |-> IF i = 1 THEN 1 ELSE 0]

(* The quotient and the remainder, for every word and every modulus below the
   limit, signed words too. *)
DivmodRight(x, m) ==
  /\ uint32_divmod_uint14(x, m) = <<x \div m, x % m>>
  /\ LET v == x - 2^(N - 1) IN int32_divmod_uint14(v, m) = <<v \div m, v % m>>

(* The inverses are inverses; modulo 3 the code's answer that there is none is
   right, and a short polynomial always has one modulo q ("always works"). *)
RecipRight(g) ==
  /\ LET x == R3_recip(g) IN
       IF x[2] = 0 THEN R3_mult(x[1], g) = Unit ELSE \A h \in Small : R3_mult(h, g) # Unit
  /\ g \in Short => LET x == Rq_recip3(g) IN x[2] = 0 /\ Rq_mult3(Rq_mult_small(x[1], g)) = Unit

(* Decoding what was encoded gives it back, and any bytes decode to residues
   in range, so that a public key from the network cannot overflow the
   arithmetic. *)
CodecRight(R, M, S) ==
  /\ Decode(Encode(R, M), M) = R
  /\ Len(S) = Len(Encode(R, M)) => \A i \in DOMAIN M : Decode(S, M)[i] \in 0..(M[i] - 1)

(* The network sorts, words with the top bit set included, and a list of random
   words becomes a polynomial of weight w whatever the words are. *)
Sorted(x, y) ==
  /\ \A i \in 1..(Len(x) - 1) : Value(y[i]) <= Value(y[i + 1])
  /\ \A v \in ToSet(x) \cup ToSet(y) :
       Cardinality({i \in DOMAIN x : x[i] = v}) = Cardinality({i \in DOMAIN y : y[i] = v})
SortRight(x) == Sorted(x, crypto_sort_uint32(x))

(* The words are any words. *)
ShortRight(x) == Short_fromlist(x) \in Short /\ Small_random(x) \in Small

(* A ciphertext changed in one place: another byte, or another hash. *)
Changed(c, bad) == [c EXCEPT ![bad] = IF bad <= Rounded_bytes THEN (@ + 1) % Octet ELSE <<9, <<>> >>]

(* What the client opened to, given what the server sealed: the same key; or, of
   a changed ciphertext, a key made from the secret rho and not the sent one. *)
OpenedRight(sent, k) ==
  IF sent.bad = 0 THEN k = sent.e.k
  ELSE k = << <<"sha512", HashSession(0, sent.rho, SubSeq(sent.c, 1, Len(sent.c) - 1)), sent.e.k[1][3]>> >>
=============================================================================

-------------------------------- MODULE Curve --------------------------------
(***************************************************************************)
(* X25519 (crypto_scalarmult_curve25519.c, crypto_dh_x25519.c and the      *)
(* check of its result in sshcrypto_kex_curve25519.c) and Ed25519          *)
(* (ge25519.c, sc25519.c, crypto_sign_ed25519_tinyssh.c) over a small      *)
(* field. The curve is y^2 = x^3 + A x^2 + x with (A + 2)/4 = A24, which   *)
(* is 121666 in the program, and -x^2 + y^2 = 1 + D x^2 y^2 with           *)
(* D = -(A24 - 1)/A24; the prime is 5 modulo 8, A^2 - 4 and D are not      *)
(* squares, and there are 8 L points, L a prime, as in the program. The    *)
(* field's elements are numbers below P: module Field has the limbs.       *)
(* Scalars have ScalarBits bits (255) and are cut into digits of four      *)
(* bits. A packed point is the pair of its y and the sign of its x.        *)
(***************************************************************************)
EXTENDS Integers, FiniteSets, FiniteSetsExt, Sequences

CONSTANTS P, A24, L, Base, ScalarBits,
          hash(_, _, _)   \* sha512 of a point, a public key and a message, as a number

Pow(z, n) == LET f[k \in Nat] == IF k = 0 THEN 1
                                 ELSE LET h == f[k \div 2] IN (h * h * (IF k % 2 = 1 THEN z ELSE 1)) % P
             IN f[n]
Inv(z) == Pow(z % P, P - 2)
D == (-(A24 - 1) * Inv(A24)) % P
Squares == {(v * v) % P : v \in 0..(P - 1)}

(* What the constants must be like. *)
CurveParameters ==
  /\ P % 8 = 5 /\ A24 \in 2..(P - 1) /\ ScalarBits >= 5
  /\ D \notin Squares /\ ((4 * A24 - 2)^2 - 4) % P \notin Squares

(* v is computed once. *)
Bind(op(_), v) == CHOOSE t \in {op(u) : u \in {v}} : TRUE

-----------------------------------------------------------------------------
(* The Montgomery ladder. *)

Clamp(n) == ((n % 2^(ScalarBits - 1)) \div 8) * 8 + 2^(ScalarBits - 1)

LadderStep(x1, s, b) ==
  LET swap == s.swap # b
      x2 == IF swap THEN s.x3 ELSE s.x2
      x3 == IF swap THEN s.x2 ELSE s.x3
      z2 == IF swap THEN s.z3 ELSE s.z2
      z3 == IF swap THEN s.z2 ELSE s.z3
      da == ((x3 - z3) * (x2 + z2)) % P
      cb == ((x3 + z3) * (x2 - z2)) % P
      bb == ((x2 - z2) * (x2 - z2)) % P
      aa == ((x2 + z2) * (x2 + z2)) % P
      e == (aa - bb) % P
  IN [swap |-> b, x2 |-> (aa * bb) % P, z2 |-> (e * ((bb + A24 * e) % P)) % P,
      x3 |-> ((da + cb) * (da + cb)) % P,
      z3 |-> (x1 * (((da - cb) * (da - cb)) % P)) % P]

Ladder(e, x1) ==
  LET bit(i) == (e \div 2^i) % 2
      f[k \in 0..ScalarBits] ==   \* after k bits, the highest first
        IF k = 0 THEN [swap |-> 0, x2 |-> 1, z2 |-> 0, x3 |-> x1, z3 |-> 1]
        ELSE Bind(LAMBDA s : LadderStep(x1, s, bit(ScalarBits - k)), f[k - 1])
  IN f[ScalarBits]

crypto_scalarmult_curve25519(n, x) ==
  LET s == Ladder(Clamp(n), x % P)
  IN IF s.swap = 1 THEN (s.x3 * Inv(s.z3)) % P ELSE (s.x2 * Inv(s.z2)) % P

crypto_dh_x25519(pk, sk) == crypto_scalarmult_curve25519(sk, pk)
crypto_dh_x25519_keypair(n) == crypto_dh_x25519(Base, n)

(* The shared secret, and 0, or -1 if the secret is 0. *)
curve25519_enc(pk, n) ==
  LET k == crypto_dh_x25519(pk, n)
  IN [c |-> crypto_dh_x25519_keypair(n), k |-> k, ret |-> IF k = 0 THEN -1 ELSE 0]

-----------------------------------------------------------------------------
(* Points <<X, Y, Z, T>> with x = X/Z, y = Y/Z and x y = T/Z. *)
neutral == <<0, 1, 1, 0>>

ge25519_add(p, q) ==
  LET a == ((p[2] - p[1]) * (q[2] - q[1])) % P
      b == ((p[1] + p[2]) * (q[1] + q[2])) % P
      c == (p[4] * q[4] * ((2 * D) % P)) % P
      d == (2 * p[3] * q[3]) % P
      e == b - a
      f == d - c
      g == d + c
      h == b + a
  IN <<(e * f) % P, (h * g) % P, (g * f) % P, (e * h) % P>>

dbl(p) ==
  LET a == (p[1] * p[1]) % P
      b == (p[2] * p[2]) % P
      c == (2 * p[3] * p[3]) % P
      d == -a
      e == ((p[1] + p[2]) * (p[1] + p[2]) - a - b) % P
      g == d + b
      f == g - c
      h == d - b
  IN <<(e * f) % P, (g * h) % P, (f * g) % P, (e * h) % P>>

ge25519_tobytes(h) ==
  LET z == Inv(h[3]) IN <<(h[2] * z) % P, ((h[1] * z) % P) % 2>>

(* The negative of the point, or <<>> if there is none with that y. *)
ge25519_frombytes_negate_vartime(s) ==
  LET y == s[1] % P
      u == (y * y - 1) % P
      v == (D * y * y + 1) % P
      v3 == (v * v * v) % P
      root == (u * v3 * Pow((((u * v3) % P) * v3 * v) % P, (P - 5) \div 8)) % P
      vxx == (v * root * root) % P
      sqrtm1 == CHOOSE i \in 0..(P - 1) : (i * i + 1) % P = 0
      x == IF vxx = u THEN root ELSE (root * sqrtm1) % P
      xx == IF x % 2 = s[2] THEN (-x) % P ELSE x
  IN IF vxx # u /\ (vxx + u) % P # 0 THEN <<>> ELSE <<xx, y, 1, (xx * y) % P>>

(* Sixteen multiples in a table, and then four doublings and an addition for
   each digit of a, the highest first. *)
Nibbles == (ScalarBits + 4) \div 4
ge25519_scalarmult(q, a) ==
  LET t[i \in 0..15] == IF i = 0 THEN neutral ELSE IF i = 1 THEN q
                        ELSE IF i % 2 = 0 THEN Bind(dbl, t[i \div 2])
                        ELSE Bind(LAMBDA u : ge25519_add(u, q), t[i - 1])
      digit(i) == (a \div 16^i) % 16
      four(p) == Bind(dbl, Bind(dbl, Bind(dbl, Bind(dbl, p))))
      f[k \in 0..Nibbles] ==
        IF k = 0 THEN neutral
        ELSE Bind(LAMBDA p : ge25519_add(p, t[digit(Nibbles - k)]), four(f[k - 1]))
  IN f[Nibbles]

(* The base point has the y that is the ladder's base. *)
baseq ==
  LET y == ((Base - 1) * Inv(Base + 1)) % P
      p == ge25519_frombytes_negate_vartime(<<y, 1>>)
  IN p

-----------------------------------------------------------------------------
(* Signatures. hash(R, A, m) is what sha512 makes of a signature's first half,
   the public key and the message. *)
sc25519_reduce(s) == s % L
sc25519_muladd(a, b, c) == (a * b + c) % L

crypto_sign_ed25519_keypair(sk) == ge25519_tobytes(ge25519_scalarmult(baseq, Clamp(sk)))

crypto_sign_ed25519(m, sk, pk, nonce0) ==
  LET nonce == sc25519_reduce(nonce0)
      R == ge25519_tobytes(ge25519_scalarmult(baseq, nonce))
      hram == sc25519_reduce(hash(R, pk, m))
  IN [R |-> R, S |-> sc25519_muladd(hram, Clamp(sk), nonce), m |-> m]

(* TRUE if the signature is accepted. A half that is not reduced is refused. *)
crypto_sign_ed25519_open(sm, pk) ==
  LET A == ge25519_frombytes_negate_vartime(pk)
      scopy == sc25519_reduce(sm.S)
      hram == sc25519_reduce(hash(sm.R, pk, sm.m))
      R == ge25519_add(ge25519_scalarmult(baseq, scopy), ge25519_scalarmult(A, hram))
  IN /\ sm.S < 2^(ScalarBits - 2)
     /\ A # <<>>
     /\ scopy = sm.S
     /\ ge25519_tobytes(R) = sm.R

-----------------------------------------------------------------------------
(* What these promise, for one input. *)

Affine(p) == LET z == Inv(p[3]) IN <<(p[1] * z) % P, (p[2] * z) % P>>
OnCurve(a) == (a[2] * a[2] - a[1] * a[1] - 1 - D * ((a[1] * a[1] * a[2] * a[2]) % P)) % P = 0
Points == {a \in (0..(P - 1)) \X (0..(P - 1)) : OnCurve(a)}
Sum(a, b) ==
  LET t == (D * ((a[1] * b[1] * a[2] * b[2]) % P)) % P
  IN <<((a[1] * b[2] + a[2] * b[1]) * Inv(1 + t)) % P, ((a[2] * b[2] + a[1] * b[1]) * Inv(1 - t)) % P>>
(* n times a point. *)
Multiple(n, a) ==
  LET f[k \in Nat] == IF k = 0 THEN <<0, 1>>
                      ELSE Bind(LAMBDA s : IF k % 2 = 0 THEN Sum(s, s) ELSE Sum(Sum(s, s), a), f[k \div 2])
  IN f[n]
Lift(a, z) == <<(a[1] * z) % P, (a[2] * z) % P, z, (a[1] * a[2] * z) % P>>

(* Addition and doubling are the curve's addition for every two points, equal,
   opposite or neutral ones included, whatever Z is. *)
AddRight(a, b, z) ==
  LET o == ge25519_add(Lift(a, z), Lift(b, 1))
      d == dbl(Lift(a, z))
  IN /\ Affine(o) = Sum(a, b) /\ (o[1] * o[2] - o[3] * o[4]) % P = 0
     /\ Affine(d) = Sum(a, a) /\ (d[1] * d[2] - d[3] * d[4]) % P = 0

(* Multiplication with digits is the multiple of the point. *)
ScalarRight(n, a) == Affine(ge25519_scalarmult(Lift(a, 1), n)) = Multiple(n, a)

(* A point's bytes give back its negative; bytes that are no point are refused,
   and a y that is not reduced stands for the reduced one. *)
PackRight(y, sign) ==
  LET h == ge25519_frombytes_negate_vartime(<<y, sign>>)
      with == {a \in Points : a[2] = y % P}
  IN IF with = {} THEN h = <<>>
     ELSE /\ h # <<>> /\ Affine(h) \in with
          /\ h[1] # 0 => ge25519_tobytes(<<-h[1], h[2], h[3], -h[4]>>) = <<y % P, sign>>

(* A signature made with a key opens under its public key and under hashes of
   any value; the same signature with L added to its half does not open. *)
OpensOnce(sm, pk) ==
  /\ crypto_sign_ed25519_open(sm, pk)
  /\ ~crypto_sign_ed25519_open([sm EXCEPT !.S = @ + L], pk)
Signed(m, sk, pk, nonce) == OpensOnce(crypto_sign_ed25519(m, sk, pk, nonce), pk)
SignRight(m, sk, nonce) == Signed(m, sk, crypto_sign_ed25519_keypair(sk), nonce)

(* The ladder gives the u of the multiple, where u = (1 + y)/(1 - y) takes one
   curve to the other, and two sides agree on a secret for any point at all, on
   the curve or on its twist. *)
LadderRight(m, n, x) ==
  /\ crypto_dh_x25519(crypto_dh_x25519(x, m), n) = crypto_dh_x25519(crypto_dh_x25519(x, n), m)
  /\ \A a \in Points : (a[2] # 1 /\ ((1 + a[2]) * Inv(1 - a[2])) % P = x) =>
       LET b == Multiple(Clamp(n), a)
       IN crypto_dh_x25519(x, n) = (IF b[2] = 1 THEN 0 ELSE ((1 + b[2]) * Inv(1 - b[2])) % P)

(* The server refuses a client's point of small order, whose secret anyone can
   tell. *)
SecretShared(x, n) ==
  LET e == curve25519_enc(x, n)
      small == {(a[2] + 1) * Inv(1 - a[2]) % P : a \in {b \in Points : Multiple(8, b) = <<0, 1>>}}
  IN x % P \in small => e.ret = -1
=============================================================================

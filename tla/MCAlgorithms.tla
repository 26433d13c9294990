----------------------------- MODULE MCAlgorithms -----------------------------
(***************************************************************************)
(* The pure algorithms against their reference definitions. The first step *)
(* chooses an algorithm and its input, from a set with the edges of that   *)
(* algorithm, and the invariants compare the answers. The key exchange is  *)
(* made of three: a key pair, a ciphertext for it, and its opening.        *)
(***************************************************************************)
EXTENDS Integers, Sequences, FiniteSets, TrialIntegers, TrialBytes

Name == <<115, 115>>   \* the name of a kind of key

(* Stand-ins for one algorithm inside another: a product that may be taken in
   either order, and a hash of any values. *)
Dh(n, P) == (n * P) % 7
Sha(R, A, m) == (7 * R[1] + 3 * R[2] + 5 * A[1] + m) % 256

Kem == INSTANCE Sntrup WITH N <- 20, p <- 5, q <- 79, w <- 2, x25519 <- Dh
Fe == INSTANCE Field WITH Limbs <- 2, LimbBits <- 8, Mul24 <- 100
Crv == INSTANCE Curve WITH P <- 37, A24 <- 3, L <- 5, Base <- 3, ScalarBits <- 7, hash <- Sha
Sca == INSTANCE Scalar WITH Base <- 8, D <- 4, Lead <- 2, Span <- 3, Order <- 1031
Sym == INSTANCE Symmetric WITH LimbBits <- 2, Units <- 4, UnitBits <- 2, Cleared <- {4, 7},
                               StreamBlock <- 3, CounterBits <- 1, ByteShift <- 1, LenBytes <- 2

ASSUME /\ CryptoIntParameters /\ Kem!SntrupParameters /\ Fe!FieldParameters
       /\ Crv!CurveParameters /\ Sca!ScalarParameters /\ Sym!SymmetricParameters /\ BytesParameters
       /\ BlobFits
ASSUME Fe!ChainsRight

Init == trial = <<"none">>
Try(name, with) == trial' = <<name, with>>

Edges == {Word(v) : v \in {0, 1, 2, 3, 7, 8, 63, 127, 128, 129, 254, 255}}
Compare == \E b \in Builds, x \in Words, y \in Edges : Try("int", <<b, x, y>>)

Moduli == {1, 2, 3, 4, 79, 127, 128, 129, 200, 255}
Divide == \E k \in 0..127, d \in {-1, 0, 1}, m \in Moduli :
            Try("divide", <<(k * 8192 + d) % 2^20, m>>)
Invert == \E g \in Kem!Small : Try("invert", <<g>>)
Recode == \E M \in {<<79, 79, 79, 79, 79>>, <<27, 27, 27>>, <<255, 3>>, <<255, 255>>, <<16, 16>>, <<16, 17>>} :
          \E R \in {[i \in DOMAIN M |-> (a + b * i) % M[i]] : a \in {0, 1, 30, 78}, b \in {0, 1, 7}},
             c \in {0, 1, 17, 31} :
            Try("recode", <<R, M, [i \in 1..Len(Kem!Encode(R, M)) |-> c]>>)
Word20 == {Kem!Word(v) : v \in {0, 1, 2^19, 2^20 - 1}}
Arrange == \E x \in [1..5 -> Word20] : Try("arrange", <<x>>)
(* The exchange takes three steps: the client's keys, the server's ciphertext,
   which may be changed on the way, and the key that the client gets. *)
Rho == [i \in 1..Kem!Small_bytes |-> 200 + i]
Keypair == \E g \in {<<1, 0, 0, 1, 1>>, <<1, 1, 0, 0, 0>>}, f \in {<<1, 0, 0, 0, 1>>, <<0, -1, 1, 0, 0>>} :
             Try("keypair", Kem!crypto_kem_sntrup761x25519_keypair(g, f, Rho, 4, 3))
Seal == /\ trial[1] = "keypair" /\ trial[2].ok
        /\ \E r \in {<<1, 1, 0, 0, 0>>, <<0, 0, -1, 0, 1>>}, m \in {1, 6} :
             \E e \in {Kem!crypto_kem_sntrup761x25519_enc(trial[2].pk, r, m, 3)}, bad \in 0..3 :
               Try("sealed", [sk |-> trial[2].sk, rho |-> Rho, e |-> e, bad |-> bad,
                              c |-> IF bad = 0 THEN e.c ELSE Kem!Changed(e.c, bad)])
Open == /\ trial[1] = "sealed"
        /\ Try("opened", <<trial[2], Kem!crypto_kem_sntrup761x25519_dec(trial[2].c, trial[2].sk)>>)

Limb == {0, 1, 2, 18, 19, 127, 128, 236, 237, 238, 255}
FieldOps == \E a, b, c \in Limb, d \in {0, 127, 128, 255} :
              Try("field", <<[i \in 0..1 |-> IF i = 0 THEN a ELSE b], [i \in 0..1 |-> IF i = 0 THEN c ELSE d]>>)
Add == \E a \in Crv!Points, b \in Crv!Points, z \in {1, 2} : Try("add", <<a, b, z>>)
Multiply == \E a \in Crv!Points, n \in {0, 1, 15, 16, 100, 255} : Try("multiply", <<n, a>>)
Pack == \E y \in 0..63, s \in 0..1 : Try("pack", <<y, s>>)
Sign == \E m \in {3, 4, 12, 13}, sk \in 0..7, nonce \in 0..9 : Try("sign", <<m, 8 * sk, nonce>>)
Agree == \E m \in {0, 8, 40}, n \in {16, 56}, x \in 0..36 : Try("agree", <<m, n, x>>)

Scalars == {0, 1, 7, 8, 511, 1030, 1031, 1032, 2061, 2062, 2063, 4092, 4093, 4095}
Reduce == \/ \E k \in 0..180, d \in {-1, 0, 1} : Try("reduce", <<(k * 92790 + d) % 8^8, 1030, 4095>>)
          \/ \E v \in {0, 1030, 4095}, a, b \in Scalars : Try("reduce", <<v, a, b>>)

Blocks == {<<>>, <<0>>, <<3, 3, 3>>, <<0, 0, 0, 0>>, <<3, 3, 3, 3>>, <<2, 3, 2, 3>>, <<3, 3, 3, 3, 3>>,
           <<1, 2, 3, 0, 3, 3>>, <<3, 3, 3, 3, 3, 3, 3, 3>>, <<3, 3, 3, 3, 0, 0, 0, 0, 1>>}
Authenticate == \E r \in 0..255, pad \in {0, 255}, m \in Blocks : Try("tag", <<m, [r |-> r, pad |-> pad]>>)
Encrypt == \E n \in 0..12 : \E cut \in 0..n : Try("stream", <<[i \in 1..n |-> {<<9, 9, i>>}], cut>>)
Hash == \E n \in 0..15, a \in 0..3 : Try("hash", <<[i \in 1..n |-> (a * i) % 4]>>)

Text == UNION {[1..n -> {44, 47, 61, 97}] : n \in 0..4}
Samples == UNION {[1..n -> {0, 1, 127, 128, 255}] : n \in 0..3}
Parts == {<<"num8", 200>>, <<"num32", 0>>, <<"num32", 65536>>, <<"string", <<>> >>,
          <<"string", <<7, 8, 9>> >>, <<"zeros", 2>>, <<"padding", <<99>> >>, <<"string", <<1, 2, 3, 4, 5, 6>> >>}
Packets == \E items \in UNION {[1..n -> Parts] : n \in 1..3}, cut \in 0..2 : Try("packet", <<items, cut>>)
Blobs == \E len \in {1, 2, 3}, name \in {115, 116}, size \in {0, 2, 3, 255}, extra \in {<<>>, <<0>>, <<0, 0, 0>>} :
           Try("blob", << <<0, 0, 0, len, 115, name, 0, 0, 0, size, 5, 6>> \o extra >>)
ByteStrings == \E x \in Samples : Try("bytes", <<x>>)
Texts == \E s \in Text, size \in 0..6 :
           Try("text", <<size, s, << <<97, 97, 61, 97>>, <<97, 61, 44>>, <<97, 61, 97>>, <<97>> >> >>)
Numbers == \E n \in -128..127, r \in {<<0, 0>>, <<0, 255>>, <<1, 0>>, <<255, 255>>} : Try("number", <<8, n, r>>)
Addresses == \E z \in SUBSET (0..7), v \in {1, 255, 65535} :
               Try("address", <<[i \in 0..7 |-> IF i \in z THEN 0 ELSE v]>>)
Logs == \E level \in {-1, 0, 1, 2}, syslog, fnln, ignore \in BOOLEAN, errno \in {0, 2},
           s \in {<<>>, << <<104>> >>, << <<104, 10>>, <<200, 127, 31>> >>} :
          Try("log", <<[level |-> level, loglevel |-> 1, syslog |-> syslog, fnln |-> fnln,
                        ignoreerrno |-> ignore, errno |-> errno, place |-> TRUE, name |-> <<116>>,
                        session |-> <<49>>, kind |-> <<105>>, s |-> s, error |-> <<101>>,
                        where |-> <<123, 125>>]>>)

Choose ==
  /\ trial = <<"none">>
  /\ \/ Compare
     \/ Divide \/ Invert \/ Recode \/ Arrange \/ Keypair
     \/ FieldOps \/ Add \/ Multiply \/ Pack \/ Sign \/ Agree \/ Reduce
     \/ Authenticate \/ Encrypt \/ Hash
     \/ Packets \/ Blobs \/ ByteStrings \/ Texts \/ Numbers \/ Addresses \/ Logs

Next == Choose \/ Seal \/ Open

Spec == Init /\ [][Next]_trial

(* crypto_kem_sntrup761_tinyssh.c, crypto_sort_uint32.c: division by
   multiplication is exact, polynomials have the inverses the code says,
   encoding is undone by decoding, random words become a short polynomial, and
   with all that both sides of the exchange hold one key, or the key of a
   forged ciphertext is one nobody else knows. *)
KemRight ==
  /\ Of("divide") => Kem!DivmodRight(input[1], input[2])
  /\ Of("invert") => Kem!RecipRight(input[1])
  /\ Of("recode") => Kem!CodecRight(input[1], input[2], input[3])
  /\ Of("arrange") => Kem!SortRight(input[1]) /\ Kem!ShortRight(input[1])
  /\ Of("opened") => Kem!OpenedRight(input[1], input[2])

(* fe25519.c, sc25519.c, ge25519.c, crypto_sign_ed25519_tinyssh.c and
   crypto_scalarmult_curve25519.c: limbs hold the field's answers and one
   subtraction makes them canonical, numbers are reduced modulo the order to one
   form, the formulas add any two points, points
   unpack to their negative or are refused, a signature opens and its double
   with another half does not, and two sides agree on a secret unless the point
   is of small order. *)
CurveRight ==
  /\ Of("field") => Fe!FieldRight(input[1], input[2])
  /\ Of("add") => Crv!AddRight(input[1], input[2], input[3])
  /\ Of("multiply") => Crv!ScalarRight(input[1], input[2])
  /\ Of("pack") => Crv!PackRight(input[1], input[2])
  /\ Of("sign") => Crv!SignRight(input[1], input[2], input[3])
  /\ Of("agree") => Crv!LadderRight(input[1], input[2], input[3]) /\ Crv!SecretShared(input[3], input[2])
  /\ Of("reduce") => Sca!ScalarRight(input[1], input[2], input[3])

(* crypto_onetimeauth_poly1305_tinyssh.c, crypto_stream_chacha20.c,
   crypto_hash_sha512_tinyssh.c, crypto_hash_sha256.c: a tag is the polynomial
   it should be, also just around the prime, no byte of key stream serves twice
   when the block counter carries, and a message and its length go whole into
   the hash, also where the length needs a block of its own. *)
SymmetricRight ==
  /\ Of("tag") => Sym!PolyRight(input[1], input[2])
  /\ Of("stream") => Sym!StreamRight(input[1], input[2])
  /\ Of("hash") => Sym!HashRight(input[1])
==============================================================================

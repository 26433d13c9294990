-------------------------------- MODULE Bytes --------------------------------
(***************************************************************************)
(* Byte strings: the buffers packets are written to (buf.c), the parsers   *)
(* that read them (packetparser.c, stringparser.c, the key blobs of        *)
(* sshcrypto_key_ed25519.c), strings (str.c, byte.c, env.c) and the        *)
(* conversions to text (numtostr.c, porttostr.c, iptostr.c, loginshell.c,  *)
(* log.c).                                                                 *)
(*                                                                         *)
(* A byte is its value and a string in C is the sequence of its bytes      *)
(* without the zero at its end. Functions that kill the process (bug_inval *)
(* bug_nomem, bug_proto: exit code 111) return Dead, and a dead process    *)
(* writes and reads nothing more.                                          *)
(***************************************************************************)
EXTENDS Integers, FiniteSets, FiniteSetsExt, Sequences, SequencesExt

CONSTANTS Alloc,      \* the size of the buffer written to
          LogSize,    \* sizeof buf in log.c (257)
          KeyName,    \* the bytes of "ssh-ed25519"
          KeyBytes    \* the length of a public key or signature

Largest == 2^30      \* what the checks of the arguments allow

(* What the constants must be like. *)
BytesParameters ==
  /\ Alloc \in 1..Largest /\ LogSize \in Nat /\ LogSize > 1 /\ KeyBytes \in Nat \ {0}
  /\ KeyName \in Seq(1..255)

(* The blob of a key and four bytes for its length fit a buffer. *)
BlobFits == 12 + Len(KeyName) + KeyBytes < Alloc

Dead == <<-1>>

Slash == 47
Comma == 44
Equals == 61
Dot == 46
Colon == 58
Dash == 45
Question == 63
Newline == 10

-----------------------------------------------------------------------------
(* buf.c *)

buf_ready(b, n) == Len(b) + n < Alloc

buf_put(b, x) ==
  IF b = Dead \/ ~buf_ready(b, Len(x)) THEN Dead ELSE b \o x

buf_putzerobytes(b, n) == buf_put(b, [i \in 1..n |-> 0])

(* purge() leaves bytes of its own choice, given as x. *)
buf_putpadding(b, x) == buf_put(b, x)

Big(x) == [i \in 1..4 |-> (x \div 256^(4 - i)) % 256]
buf_putnum32(b, x) == buf_put(b, Big(x))
buf_putnum8(b, u) == buf_put(b, <<u>>)

buf_putstringlen(b, x) == buf_put(buf_putnum32(b, Len(x)), x)

buf_putsharedsecret_slip(b, x) ==
  LET pos == CHOOSE k \in 0..Len(x) : /\ \A i \in 1..k : x[i] = 0
                                      /\ k = Len(x) \/ x[k + 1] # 0
  IN buf_putstringlen(b, SubSeq(x, pos + 1, Len(x)))

(* Leading zeros go, and one comes back before a byte with its top bit set. *)
buf_putsharedsecret(b, x) ==
  LET pos == CHOOSE k \in 0..Len(x) : /\ \A i \in 1..k : x[i] = 0
                                      /\ k = Len(x) \/ x[k + 1] # 0
      rest == SubSeq(x, pos + 1, Len(x))
  IN IF rest # <<>> /\ rest[1] >= 128
     THEN buf_put(buf_putnum8(buf_putnum32(b, Len(rest) + 1), 0), rest)
     ELSE buf_put(buf_putnum32(b, Len(rest)), rest)

(* Six bits at a time, as long as more than six are waiting: six at most were
   left when a byte brings its eight. Only the waiting bits of v are ever
   looked at. A character is its index, and 64 is '='. *)
buf_putbase64(b, x) ==
  LET drain[s \in [v : Nat, bits : 0..14, out : Seq(Nat)]] ==
        IF s.bits <= 6 THEN s
        ELSE drain[[v |-> s.v % 2^(s.bits - 6), bits |-> s.bits - 6,
                    out |-> Append(s.out, (s.v \div 2^(s.bits - 6)) % 64)]]
      f[i \in 0..Len(x)] ==
        IF i = 0 THEN [v |-> 0, bits |-> 0, out |-> <<>>]
        ELSE LET s == f[i - 1] IN drain[[v |-> s.v * 256 + x[i], bits |-> s.bits + 8, out |-> s.out]]
      e == f[Len(x)]
      last == IF e.bits = 0 THEN e.out ELSE Append(e.out, (e.v * 2^(6 - e.bits)) % 64)
  IN buf_put(b, last \o [i \in 1..((4 - (Len(last) % 4)) % 4) |-> 64])

-----------------------------------------------------------------------------
(* packetparser.c: the next position and what was read, or position -1 when
   the process dies. *)
DeadAt == [pos |-> -1, out |-> <<>>]

packetparser_copy(buf, pos, n) ==
  IF pos \notin 0..Largest \/ n \notin 0..Largest \/ pos + n > Len(buf) THEN DeadAt
  ELSE [pos |-> pos + n, out |-> SubSeq(buf, pos + 1, pos + n)]

(* The callers look at the bytes they skipped. *)
packetparser_skip(buf, pos, n) == packetparser_copy(buf, pos, n)

packetparser_uint8(buf, pos) == packetparser_copy(buf, pos, 1)

(* Numbers stay below 2^31 here, the largest number TLC knows. *)
packetparser_uint32(buf, pos) ==
  LET r == packetparser_copy(buf, pos, 4)
  IN IF r = DeadAt THEN r
     ELSE [r EXCEPT !.out = <<@[1] * 256^3 + @[2] * 256^2 + @[3] * 256 + @[4]>>]

packetparser_end(buf, pos) == IF pos # Len(buf) THEN DeadAt ELSE [pos |-> pos, out |-> <<>>]

(* A string: its length, and then that many bytes. *)
String(buf, pos) ==
  LET n == packetparser_uint32(buf, pos)
  IN IF n = DeadAt THEN n ELSE packetparser_skip(buf, n.pos, n.out[1])

-----------------------------------------------------------------------------
(* sshcrypto_key_ed25519.c: blobs of a name and a key. Signatures have the
   same form. *)
ed25519_putsignpk(b, x) ==
  buf_putstringlen(buf_putstringlen(buf_putnum32(b, KeyBytes + Len(KeyName) + 8), KeyName), x)

(* The key, <<>> for another kind of key, or Dead. *)
ed25519_parsesignpk(x) ==
  LET name == String(x, 0)
      n == packetparser_uint32(x, name.pos)
      key == packetparser_copy(x, n.pos, n.out[1])
  IN IF name = DeadAt THEN Dead
     ELSE IF name.out # KeyName THEN <<>>
     ELSE IF n = DeadAt THEN Dead
     ELSE IF n.out[1] # KeyBytes THEN <<>>
     ELSE IF key = DeadAt \/ packetparser_end(x, key.pos) = DeadAt THEN Dead
     ELSE key.out

-----------------------------------------------------------------------------
(* Strings. *)
str_start(s, t) == IsPrefix(t, s)
str_equaln(y, x) == Len(x) = Len(y) /\ \A i \in DOMAIN y : y[i] = x[i]

(* What is in the ylen bytes at y, up to the zero, and the value returned. *)
str_copyn(ylen, x) ==
  IF ylen <= 0 THEN [ret |-> 0, y |-> <<>>]
  ELSE IF ylen - 1 < Len(x) THEN [ret |-> 0, y |-> SubSeq(x, 1, ylen - 1)]
  ELSE [ret |-> 1, y |-> x]

(* The value in the first entry "name=value", with the entry's index; 0 if
   there is none. *)
FirstNamed(list, name) ==
  LET hits == {i \in DOMAIN list : /\ str_start(list[i], name)
                                   /\ Len(list[i]) > Len(name)
                                   /\ list[i][Len(name) + 1] = Equals}
  IN IF hits = {} THEN [index |-> 0, value |-> <<>>]
     ELSE [index |-> Min(hits), value |-> SubSeq(list[Min(hits)], Len(name) + 2, Len(list[Min(hits)]))]
env_get(environ, name) == FirstNamed(environ, name)
channel_subsystem_get(list, name) == FirstNamed(list, name)

(* The next item that is not empty, and the position after it; 0 at the end. *)
stringparser(buf, pos0) ==
  LET f[pos \in Nat] ==
        LET i == CHOOSE i \in pos..Len(buf) : /\ \A j \in (pos + 1)..i : buf[j] # Comma
                                              /\ i = Len(buf) \/ buf[i + 1] = Comma
        IN IF pos >= Len(buf) THEN [pos |-> 0, x |-> <<>>]
           ELSE IF i = pos THEN f[i + 1]
           ELSE [pos |-> i + 1, x |-> SubSeq(buf, pos + 1, i)]
  IN f[pos0]

(* Every item a caller's loop gets. *)
Items(buf) ==
  LET f[pos \in Nat] == LET s == stringparser(buf, pos)
                        IN IF s.pos = 0 THEN <<>> ELSE <<s.x>> \o f[s.pos]
  IN f[0]

-----------------------------------------------------------------------------
(* Numbers and addresses as text. *)

(* do { digit; n /= base } while (n) *)
Digit(d) == IF d < 10 THEN 48 + d ELSE 87 + d
Digits(base, n) ==
  LET f[k \in Nat] == IF k < base THEN <<Digit(k)>> ELSE Append(f[k \div base], Digit(k % base))
  IN f[n]

(* The number has width bits and a sign; its absolute value has no sign. *)
numtostr(width, n) ==
  IF n < 0 THEN <<Dash>> \o Digits(10, (-n) % 2^width) ELSE Digits(10, n)

porttostr(port) == Digits(10, port[1] * 256 + port[2])

iptostr4(ip) ==
  FlattenSeq([i \in 1..4 |-> (IF i > 1 THEN <<Dot>> ELSE <<>>) \o Digits(10, ip[i])])

(* How many zeros end at each position; the block is the longest, and the first
   of those. With no zero, the block is empty: it ends before it begins. *)
countz(ip) ==
  LET count(j) == Cardinality({i \in 0..j : \A k \in i..j : ip[k] = 0})
      best == {j \in 0..7 : \A k \in 0..7 : count(k) <= count(j)}
      last == IF \A j \in 0..7 : count(j) = 0 THEN 0 ELSE Min(best)
  IN <<last - count(last) + 1, last>>

iptostr6(ip) ==
  LET z == countz(ip)
      piece(i) == IF z[1] <= i /\ i <= z[2] /\ z[1] # z[2]
                  THEN (IF i = 7 THEN <<Colon>> ELSE <<>>) \o (IF i = z[2] THEN <<Colon>> ELSE <<>>)
                  ELSE (IF i > 0 THEN <<Colon>> ELSE <<>>) \o Digits(16, ip[i])
  IN FlattenSeq([i \in 1..8 |-> piece(i - 1)])

(* An address is its eight groups of 16 bits, numbered from 0. *)
iptostr(ip) ==
  IF (\A i \in 0..4 : ip[i] = 0) /\ ip[5] = 65535
  THEN iptostr4(<<ip[6] \div 256, ip[6] % 256, ip[7] \div 256, ip[7] % 256>>)
  ELSE iptostr6(ip)

randommod(n, r) ==
  LET f[j \in 0..Len(r)] == IF j = 0 THEN 0 ELSE (f[j - 1] * 256 + r[j]) % n
  IN IF n <= 1 THEN 0 ELSE f[Len(r)]

(* -name, from the last component of the path, cut to fit outlen bytes. *)
loginshell(outlen, in) ==
  LET pos == Max({0} \cup {i \in DOMAIN in : in[i] = Slash})
      len == Len(in) - pos
      cut == IF len > outlen - 2 THEN outlen - 2 ELSE len
  IN IF outlen < 2 THEN <<>> ELSE <<Dash>> \o SubSeq(in, pos + 1, pos + cut)

-----------------------------------------------------------------------------
(* log.c: buf collects a line, and is written out when it is full. *)
NoLog == [buf |-> <<>>, out |-> <<>>]

flush(l) == [buf |-> <<>>, out |-> Append(l.out, l.buf)]

Room(l) == IF Len(l.buf) >= LogSize - 1 THEN flush(l) ELSE l

(* char is signed: a byte from 128 up is a negative number. *)
outs(l0, x) ==
  LET signed(c) == IF c >= 128 THEN c - 256 ELSE c
      f[i \in 0..Len(x)] ==
        IF i = 0 THEN l0
        ELSE LET l == Room(f[i - 1])
             IN [l EXCEPT !.buf = Append(@, IF signed(x[i]) < 32 \/ signed(x[i]) > 126
                                            THEN Question ELSE x[i])]
  IN f[Len(x)]

outnewline(l0) == LET l == Room(l0) IN [l EXCEPT !.buf = Append(@, Newline)]

(* The parts of a line: name, session, level, message, error, place. m says
   which of them there are and what they hold. *)
log_9(m) ==
  LET opt(cond, x) == IF cond THEN x ELSE <<>>
      sep == <<Colon, 32>>
      line == opt(m.level # 0 /\ ~m.syslog, m.name \o sep)
                \o opt(m.level # 0 /\ m.fnln, m.session \o sep)
                \o opt(m.level # 0, m.kind \o sep)
                \o FlattenSeq(m.s) \o <<32>>
                \o opt(m.errno # 0 /\ ~m.ignoreerrno, <<40>> \o m.error \o <<41>>)
                \o opt(m.level # 0 /\ m.place /\ (m.fnln \/ m.level = -1), m.where)
  IN IF m.level > m.loglevel THEN NoLog ELSE flush(outnewline(outs(NoLog, line)))

-----------------------------------------------------------------------------
(* What these promise, for one input. *)

(* What a packet is made of: a tag and a value. *)
PutItem(b, item) ==
  CASE item[1] = "num8" -> buf_putnum8(b, item[2])
    [] item[1] = "num32" -> buf_putnum32(b, item[2])
    [] item[1] = "string" -> buf_putstringlen(b, item[2])
    [] item[1] = "zeros" -> buf_putzerobytes(b, item[2])
    [] item[1] = "padding" -> buf_putpadding(b, item[2])

TakeItem(buf, pos, item) ==
  CASE item[1] = "num8" -> packetparser_uint8(buf, pos)
    [] item[1] = "num32" -> packetparser_uint32(buf, pos)
    [] item[1] = "string" -> String(buf, pos)
    [] item[1] = "zeros" -> packetparser_skip(buf, pos, item[2])
    [] item[1] = "padding" -> packetparser_copy(buf, pos, Len(item[2]))

ItemSize(item) ==
  CASE item[1] = "num8" -> 1
    [] item[1] = "num32" -> 4
    [] item[1] = "string" -> 4 + Len(item[2])
    [] item[1] = "zeros" -> item[2]
    [] item[1] = "padding" -> Len(item[2])

Content(item) ==
  CASE item[1] \in {"num8", "num32"} -> <<item[2]>>
    [] item[1] \in {"string", "padding"} -> item[2]
    [] item[1] = "zeros" -> [k \in 1..item[2] |-> 0]

Size(items) ==
  LET f[i \in 0..Len(items)] == IF i = 0 THEN 0 ELSE f[i - 1] + ItemSize(items[i]) IN f[Len(items)]

Written(items) ==
  LET f[i \in 0..Len(items)] == IF i = 0 THEN <<>> ELSE PutItem(f[i - 1], items[i]) IN f[Len(items)]

(* Positions after reading the items, from 0; all that follow a death are -1. *)
Read(buf, items) ==
  LET f[i \in 0..Len(items)] ==
        IF i = 0 THEN [pos |-> 0, out |-> <<>>]
        ELSE IF f[i - 1].pos < 0 THEN DeadAt ELSE TakeItem(buf, f[i - 1].pos, items[i])
  IN f

(* A packet reads back as it was written. One that does not fit is not written
   in part, the process dies; one cut short kills the reader, and the reader
   never stands beyond the end of the bytes it has. *)
WireRight(items, cut) ==
  LET b == Written(items)
      c == SubSeq(b, 1, Len(b) - cut)
      r == Read(c, items)
      n == Len(items)
  IN IF Size(items) >= Alloc THEN b = Dead
     ELSE /\ Len(b) = Size(items)
          /\ \A i \in 0..n : r[i].pos <= Len(c)
          /\ cut > 0 /\ Len(b) > 0 => r[n].pos < 0
          /\ cut = 0 => /\ packetparser_end(c, r[n].pos) # DeadAt
                        /\ \A i \in 1..n : r[i].out = Content(items[i])

(* A key blob is accepted if and only if it is, byte for byte, what would be
   written for the key it gives. *)
BlobRight(x) ==
  LET key == ed25519_parsesignpk(x)
      of(k) == LET b == ed25519_putsignpk(<<>>, k) IN SubSeq(b, 5, Len(b))
  IN (key # Dead /\ key # <<>>) <=> (Len(x) >= KeyBytes /\ x = of(SubSeq(x, Len(x) - KeyBytes + 1, Len(x))))

(* The number that digits stand for, of which zero is the least. *)
ValueOf(base, zero, y) ==
  LET f[i \in 0..Len(y)] == IF i = 0 THEN 0 ELSE f[i - 1] * base + (y[i] - zero) IN f[Len(y)]

(* The shared secret is written as the shortest sequence of bytes that is the
   same number and not a negative one. *)
SecretRight(x) ==
  LET b == buf_putsharedsecret(<<>>, x)
      s == String(b, 0)
  IN /\ s.pos = Len(b) /\ ValueOf(256, 0, s.out) = ValueOf(256, 0, x)
     /\ s.out # <<>> => \/ s.out[1] \in 1..127
                        \/ Len(s.out) > 1 /\ s.out[1] = 0 /\ s.out[2] >= 128

(* Base64: the characters' bits are the bytes' bits, then zeros, then the
   characters are filled up to four with '='. *)
Base64Right(x) ==
  LET out == buf_putbase64(<<>>, x)
      chars == (8 * Len(x) + 5) \div 6
      bit(v, size, k) == (v \div 2^(size - 1 - k)) % 2
  IN /\ Len(out) = 4 * ((Len(x) + 2) \div 3)
     /\ \A k \in 1..Len(out) : (k > chars) <=> (out[k] = 64)
     /\ \A k \in 0..(6 * chars - 1) :
          bit(out[k \div 6 + 1], 6, k % 6)
            = IF k < 8 * Len(x) THEN bit(x[k \div 8 + 1], 8, k % 8) ELSE 0

(* Where the text of a list is cut, where its items end, and the item that
   ends at c. *)
Cuts(s) == {0, Len(s) + 1} \cup {i \in DOMAIN s : s[i] = Comma}
ItemEnds(s) == {c \in Cuts(s) \ {0} : c - 1 \notin Cuts(s)}
ItemBefore(s, c) == SubSeq(s, Max({d \in Cuts(s) : d < c}) + 1, c - 1)

(* The items of a list are what stands between the commas, in their order, and
   nothing empty. *)
ListRight(s) ==
  \E e \in [DOMAIN Items(s) -> ItemEnds(s)] :
    /\ \A c \in ItemEnds(s) : \E k \in DOMAIN e : e[k] = c
    /\ \A j, k \in DOMAIN e : j < k => e[j] < e[k]
    /\ \A k \in DOMAIN e : Items(s)[k] = ItemBefore(s, e[k])

(* A number's text has no needless zero and reads as the number, the most
   negative one included; a remainder is in range and is the remainder. *)
NumberRight(width, n, r) ==
  LET t == numtostr(width, n)
      digits == IF n < 0 THEN Tail(t) ELSE t
  IN /\ (t[1] = Dash) <=> (n < 0)
     /\ ValueOf(10, 48, digits) = (IF n < 0 THEN -n ELSE n)
     /\ digits[1] = 48 => digits = <<48>>
     /\ ValueOf(10, 48, porttostr(r)) = r[1] * 256 + r[2]
     /\ randommod(n, r) = (IF n <= 1 THEN 0 ELSE ValueOf(256, 0, r) % n)

(* An address is written as RFC 5952 asks: the first of the longest runs of two
   or more zero groups becomes "::", and no other. *)
AddressRight(ip) ==
  LET runs == {r \in (0..7) \X (0..7) : r[1] < r[2] /\ \A k \in r[1]..r[2] : ip[k] = 0}
      long == {r \in runs : \A s \in runs : s[2] - s[1] <= r[2] - r[1]}
      run == CHOOSE r \in long : \A s \in long : r[1] <= s[1]
      Join(a, b) == FlattenSeq([i \in 1..(b - a + 1) |->
                      (IF i > 1 THEN <<Colon>> ELSE <<>>) \o Digits(16, ip[a + i - 1])])
  IN iptostr6(ip) = IF runs = {} THEN Join(0, 7)
                    ELSE Join(0, run[1] - 1) \o <<Colon, Colon>> \o Join(run[2] + 1, 7)

(* Strings fit where they are put: a shell's name is cut to the buffer, and a
   variable's value is that of its own name, not of one that begins with it. *)
StringRight(size, s, list) ==
  LET shell == loginshell(size, s)
      copy == str_copyn(size, s)
  IN /\ Len(shell) < size \/ size <= 0
     /\ size >= 2 => shell[1] = Dash
     /\ size > Len(s) + 1 => /\ copy = [ret |-> 1, y |-> s]
                             /\ \A i \in 2..Len(shell) : shell[i] # Slash
     /\ size > 0 => Len(copy.y) < size /\ (copy.ret = 1 <=> copy.y = s)
     /\ \A got \in {env_get(list, s), channel_subsystem_get(list, s)} :
          LET named == {i \in DOMAIN list : \E k \in 0..Len(list[i]) :
                                               list[i] = s \o <<Equals>> \o SubSeq(list[i], k + 1, Len(list[i]))}
          IN IF named = {} THEN got.index = 0
             ELSE got.index = Min(named) /\ list[got.index] = s \o <<Equals>> \o got.value
     /\ \A x \in ToSet(list) : str_equaln(s, x) <=> str_start(s, x) /\ str_start(x, s)

(* A log line arrives whole, in pieces that fit the buffer, and holds nothing
   but printable characters and the newline at its end. *)
LogRight(m) ==
  LET l == log_9(m)
      text == FlattenSeq(l.out)
  IN IF m.level > m.loglevel THEN l = NoLog
     ELSE /\ l.buf = <<>>
          /\ \A k \in DOMAIN l.out : Len(l.out[k]) < LogSize
          /\ text[Len(text)] = Newline
          /\ \A i \in 1..(Len(text) - 1) : text[i] \in 32..126
          /\ \E i \in 0..Len(text) :
               SubSeq(text, i + 1, i + Len(FlattenSeq(m.s)))
                 = [k \in 1..Len(FlattenSeq(m.s)) |->
                      LET c == FlattenSeq(m.s)[k] IN IF c \in 32..126 THEN c ELSE Question]
=============================================================================

--------------------------- MODULE TransportProofs ---------------------------
(***************************************************************************)
(* What holds of the transport for every limit, every width of the numbers *)
(* and every client, whatever it offers and says.                          *)
(*                                                                         *)
(* A nonce is used once because a key is made from the server's KEXINIT,   *)
(* no two of which are the same: the key of an exchange is younger than    *)
(* all that was sent under (KeysAreOld), and while it is in use the number *)
(* is above all that were used with it (NumbersGrow). Between NEWKEYS and  *)
(* the new key, where strict mode has already reset the number and the old *)
(* key is still there, the server sends nothing: that is the one place the *)
(* second part leaves out.                                                 *)
(*                                                                         *)
(* The limit on packets from a client that is not authenticated survives   *)
(* the resets of strict mode since that mode says how many packets come    *)
(* before each NEWKEYS (CountedSince), and it ends packet_auth before the  *)
(* number of tries does since every request was counted (TriesCounted).    *)
(*                                                                         *)
(* That both sides agree on every packet is proved of a client that keeps  *)
(* the rules (Polite). What such a client knows of the server is where the *)
(* server will be when it has taken all that is on its way, not where it   *)
(* is. So the invariant (Agreed) is a prophecy: for the packets on their   *)
(* way there is a script, of what the server knows before each of them and *)
(* of the answers it will have given, in which each packet is legal, and   *)
(* whose end is what the client counts on (Foretold, Knows). When the      *)
(* server takes a packet it goes one place on in the script; when the      *)
(* client speaks, the script grows by a place; when the client hears an    *)
(* answer, that answer is struck from the whole script. The other stream   *)
(* explains itself: it has at most one NEWKEYS, up to which all is under   *)
(* the old key, and numbers that go on by one (Readable).                  *)
(***************************************************************************)
EXTENDS Transport, SequenceTheorems, FiniteSetTheorems, TLAPS

(* The server's KEXINIT that key k was made from. *)
Age(k) == k[1].si

SendTypes == sendid \in 0..IdMax /\ kexsend \in Nat

Streams == s2c \in Seq(Range(s2c))

Exchanging == pc \in {"kexinit", "guess", "kexdh", "newkeys"}

(* k was made in an exchange that is over. *)
OldKey(k) ==
  /\ Age(k) \in Nat
  /\ Age(k) <= kexsend
  /\ Exchanging => Age(k) < kexsend

KeysAreOld ==
  /\ flagkeys => key # NoKey /\ OldKey(key)
  /\ \A u \in used : u[1] # NoKey => OldKey(u[1])
  /\ pc = "newkeys" => hash.si = kexsend
  /\ pc = "hello" => sendid = 0

NumbersGrow ==
  /\ \A u \in used : u[2] \in Nat
  /\ pc # "newkeys" /\ flagkeys => \A u \in used : u[1] = key => u[2] < sendid

NonceInv == SendTypes /\ Streams /\ KeysAreOld /\ NumbersGrow

CountTypes ==
  /\ recvid \in 0..IdMax /\ taken \in Nat
  /\ tries \in 0..MaxTries /\ outleft \in 0..OutputMax

(* What a place in the program says of the connection. *)
Places ==
  /\ pc \in DOMAIN Expected \cup {"hello"}
  /\ pc = "run" => flagauthorized
  /\ pc \in {"service", "auth"} => ~flagauthorized
  /\ Exchanging /\ ~flagauthorized => ~flagkeys
  /\ pc \in {"hello", "kexinit"} => ~strict /\ ~flagauthorized /\ ~flagkeys

(* How many packets were taken when the number was last set to 0, which may
   have been at any NEWKEYS. *)
CountedSince ==
  status = "run" /\ ~flagauthorized =>
    /\ recvid <= MsgLimit
    /\ ~strict => taken = recvid
    /\ strict /\ pc = "guess" => taken <= 1
    /\ strict /\ pc = "kexdh" => taken <= 2
    /\ strict /\ pc = "newkeys" => taken <= 3
    /\ strict /\ pc \in {"service", "auth"} => taken <= recvid + 4

TriesCounted ==
  status = "run" =>
    /\ tries < MaxTries
    /\ pc = "auth" => tries < recvid

Flags == {strict, flagkeys, flagauthorized, flagrekeying} \subseteq BOOLEAN

LimitsInv == CountTypes /\ Places /\ CountedSince /\ TriesCounted /\ LimitsHold

-----------------------------------------------------------------------------
(* The constants, as numbers. *)
LEMMA Constants ==
  /\ MsgLimit \in Nat /\ MaxTries \in Nat /\ MaxTries > 0
  /\ IdMax \in Nat /\ IdMax > 1 /\ OutputMax \in Nat
  BY TransportAssumption

(* What packet_put and packet_sendall do with packets whose numbers do not
   overflow: each has the key in use and its own number, from sendid on
   (packet_put.c, packet_send.c). *)
LEMMA PutFits ==
  ASSUME NEW ts, NEW bs, Put(ts, bs), Len(ts) \in Nat, Fits(ts),
         SendTypes, Streams
  PROVE  /\ Streams' /\ Len(s2c') = Len(s2c) + Len(ts)
         /\ \A i \in (Len(s2c) + 1)..Len(s2c') :
               /\ s2c'[i].key = SendKey
               /\ s2c'[i].id \in sendid..(sendid + Len(ts) - 1)
         /\ \A u \in used' : \/ u \in used
                             \/ \E n \in sendid..(sendid + Len(ts) - 1) : u = <<SendKey, n>>
         /\ sendid' = IF ts[Len(ts)] = "NEWKEYS" /\ strict THEN 0 ELSE sendid + Len(ts)
<1> DEFINE numbered(i) == Wrap(sendid + i - 1)
           p(i) == Packet(ts[i], bs[i], SendKey, numbered(i))
           new == [i \in 1..Len(ts) |-> p(i)]
<1> USE Constants DEF SendTypes
<1>1. /\ s2c' = s2c \o new
      /\ used' = used \cup {<<SendKey, numbered(i)>> : i \in 1..Len(ts)}
      /\ sendid' = IF ts[Len(ts)] = "NEWKEYS" /\ strict THEN 0 ELSE Wrap(sendid + Len(ts))
  BY DEF Put
<1>2. \A i \in 1..Len(ts) : numbered(i) = sendid + i - 1
  BY DEF Wrap, Fits
<1>3. Wrap(sendid + Len(ts)) = sendid + Len(ts)
  BY DEF Wrap, Fits
<1>4. \A i \in 1..Len(ts) : p(i).key = SendKey /\ p(i).id = sendid + i - 1
  BY <1>2 DEF Packet
<1> DEFINE S == Range(s2c) \cup {p(i) : i \in 1..Len(ts)}
<1>5. s2c \in Seq(S)
  <2>1. Range(s2c) \subseteq S
    OBVIOUS
  <2> HIDE DEF S
  <2> QED
    BY <2>1, SeqMonotonic DEF Streams
<1>6. new \in Seq(S) /\ Len(new) = Len(ts)
  <2>1. new \in [1..Len(ts) -> S]
    OBVIOUS
  <2> HIDE DEF new, S
  <2> QED
    BY <2>1, IsASeq, LenProperties
<1>7. /\ s2c' \in Seq(S) /\ Len(s2c') = Len(s2c) + Len(ts)
      /\ \A i \in 1..Len(s2c') :
            s2c'[i] = IF i <= Len(s2c) THEN s2c[i] ELSE new[i - Len(s2c)]
  <2> HIDE DEF new, S
  <2>1. s2c \o new \in Seq(S) /\ Len(s2c \o new) = Len(s2c) + Len(new)
    BY <1>5, <1>6, ConcatProperties
  <2>2. \A i \in 1..(Len(s2c) + Len(new)) :
           (s2c \o new)[i] = IF i <= Len(s2c) THEN s2c[i] ELSE new[i - Len(s2c)]
    BY <1>5, <1>6, ConcatProperties, Zenon
  <2> QED
    BY <1>1, <1>6, <2>1, <2>2
<1>8. Streams'
  <2> HIDE DEF S
  <2> QED
    BY <1>7, SeqOfRange DEF Streams
<1>9. ASSUME NEW i \in (Len(s2c) + 1)..Len(s2c')
      PROVE  s2c'[i].key = SendKey /\ s2c'[i].id \in sendid..(sendid + Len(ts) - 1)
  <2>1. Len(s2c) \in Nat
    BY LenProperties DEF Streams
  <2> DEFINE j == i - Len(s2c)
  <2>2. j \in 1..Len(ts) /\ s2c'[i] = new[j]
    BY <1>7, <2>1
  <2>3. new[j] = p(j)
    BY <2>2
  <2> HIDE DEF j, p, new
  <2> QED
    BY <1>4, <2>2, <2>3
<1>10. ASSUME NEW u \in used', u \notin used
       PROVE  \E n \in sendid..(sendid + Len(ts) - 1) : u = <<SendKey, n>>
  <2>1. PICK i \in 1..Len(ts) : u = <<SendKey, numbered(i)>>
    BY <1>1, <1>10
  <2> QED
    BY <1>2, <2>1
<1> QED
  BY <1>1, <1>3, <1>7, <1>8, <1>9, <1>10

(* A single packet that is no NEWKEYS takes the next number. *)
LEMMA PutOne ==
  ASSUME NEW t, NEW b, Put(<<t>>, <<b>>), Fits(<<t>>), t # "NEWKEYS", SendTypes, Streams
  PROVE  /\ Streams' /\ sendid' = sendid + 1 /\ sendid' \in 0..IdMax
         /\ \A u \in used' : u \in used \/ u = <<SendKey, sendid>>
<1> DEFINE ts == <<t>>
<1>1. Len(ts) = 1 /\ ts[Len(ts)] = t /\ Put(ts, <<b>>) /\ Fits(ts)
  OBVIOUS
<1>2. sendid \in Nat /\ sendid + 1 <= IdMax
  BY <1>1 DEF Fits, SendTypes
<1> HIDE DEF ts
<1>3. /\ Streams'
      /\ \A u \in used' : \/ u \in used
                          \/ \E n \in sendid..(sendid + Len(ts) - 1) : u = <<SendKey, n>>
      /\ sendid' = IF ts[Len(ts)] = "NEWKEYS" /\ strict THEN 0 ELSE sendid + Len(ts)
  BY <1>1, PutFits
<1>4. \A n \in sendid..(sendid + Len(ts) - 1) : n = sendid
  BY <1>1, <1>2
<1> QED
  BY <1>1, <1>2, <1>3, <1>4, Constants

-----------------------------------------------------------------------------
(* What a step can do to keys and numbers. *)

kept == <<key, flagkeys, kexsend, hash>>

Silent ==
  /\ UNCHANGED <<sendid, used, kept>>
  /\ s2c' = s2c \/ (s2c # <<>> /\ s2c' = Tail(s2c))
  /\ pc' = pc \/ (pc \in {"kexinit", "guess"} /\ pc' \in {"guess", "kexdh"})

Speaks(t, b) ==
  /\ Put(<<t>>, <<b>>) /\ Fits(<<t>>) /\ t # "NEWKEYS"
  /\ UNCHANGED kept
  /\ pc \in {"service", "auth", "run"} /\ pc' \in {"service", "auth", "run"}

Begins ==
  /\ packet_kex_send /\ Fits(<<"KEXINIT">>)
  /\ UNCHANGED <<key, flagkeys, hash>>
  /\ pc \in {"hello", "run"} /\ pc' \in {"kexinit", "guess", "kexdh"}

Replies ==
  /\ \E b : Put(<<"REPLY", "NEWKEYS">>, b) /\ Fits(<<"REPLY", "NEWKEYS">>)
  /\ hash'.si = kexsend
  /\ UNCHANGED <<key, flagkeys, kexsend>>
  /\ pc = "kexdh" /\ pc' = "newkeys"

Switches ==
  /\ UNCHANGED <<sendvars, kexsend, hash>>
  /\ key' = <<hash, sessionid>> /\ flagkeys' = TRUE
  /\ pc = "newkeys" /\ pc' \in {"service", "run"}

(* Every step of the program is one of the five (packet_put is called by
   packet_kex_send, packet_kexdh, packet_auth and the main loop only). *)
LEMMA Effects ==
  ASSUME NonceInv, [Next]_vars
  PROVE  Silent \/ (\E t, b : Speaks(t, b)) \/ Begins \/ Replies \/ Switches
<1> USE Constants DEF sendvars, kexvars, authvars, kept
<1> DEFINE Goal == Silent \/ (\E t, b : Speaks(t, b)) \/ Begins \/ Replies \/ Switches
<1>0. ASSUME NEW why, stop(why) PROVE Goal
  BY <1>0 DEF stop, Silent
<1>1. CASE packet_hello
  BY <1>1 DEF packet_hello, Begins, Fits, NonceInv, KeysAreOld
<1>2. CASE packet_get_stop
  BY <1>0, <1>2 DEF packet_get_stop
<1>3. CASE packet_get_ignore
  BY <1>3 DEF packet_get_ignore, Silent
<1>4. CASE packet_kex_receive
  <2>1. CASE \E why : stop(why)
    BY <1>0, <2>1
  <2>2. CASE UNCHANGED <<sendid, s2c, used, kexsend, hash, key, flagkeys>>
             /\ pc' \in {"guess", "kexdh"}
    BY <1>4, <2>2 DEF packet_kex_receive, Got, Silent
  <2> QED
    BY <1>4, <2>1, <2>2 DEF packet_kex_receive, AfterParse
<1>5. CASE packet_kex_rekey
  <2>1. CASE \E why : stop(why)
    BY <1>0, <2>1
  <2>2. CASE packet_kex_send /\ Fits(<<"KEXINIT">>) /\ UNCHANGED <<key, flagkeys, hash>>
             /\ pc' \in {"guess", "kexdh"}
    BY <1>5, <2>2 DEF packet_kex_rekey, Got, Begins
  <2> QED
    BY <1>5, <2>1, <2>2 DEF packet_kex_rekey, AfterParse
<1>6. CASE packet_kexdh_guess
  BY <1>6 DEF packet_kexdh_guess, Got, Silent
<1>7. CASE packet_kexdh
  <2>1. CASE \E why : stop(why)
    BY <1>0, <2>1
  <2> DEFINE h == [ci |-> kexrecv.n, si |-> kexsend, e |-> Head(c2s).b.guess]
             ts == <<"REPLY", "NEWKEYS">>
  <2>2. CASE Fits(ts) /\ hash' = h /\ Put(ts, <<h, 0>>) /\ pc' = "newkeys"
             /\ UNCHANGED <<kexsend, key, flagkeys>>
    <3>1. pc = "kexdh"
      BY <1>7 DEF packet_kexdh, Got
    <3>2. hash'.si = kexsend
      BY <2>2
    <3>3. \E b : Put(ts, b) /\ Fits(ts)
      BY <2>2
    <3> QED
      BY <2>2, <3>1, <3>2, <3>3 DEF Replies
  <2> QED
    BY <1>7, <2>1, <2>2 DEF packet_kexdh
<1>8. CASE packet_kexdh_newkeys
  <2>1. CASE \E why : stop(why)
    BY <1>0, <2>1
  <2>2. CASE UNCHANGED <<pc, sendid, s2c, used, kexsend, hash, key, flagkeys>>
    BY <2>2 DEF Silent
  <2>3. CASE Switches
    BY <2>3
  <2> QED
    BY <1>8, <2>1, <2>2, <2>3 DEF packet_kexdh_newkeys, Switches, Got
<1>9. ASSUME NEW t, Refuse(t), pc \in {"service", "auth"} PROVE Goal
  <2>1. CASE UNCHANGED <<pc, sendid, s2c, used, kexsend, hash, key, flagkeys>>
    BY <2>1 DEF Silent
  <2>2. CASE Fits(<<t>>) /\ Put(<<"DISCONNECT">>, <<0>>)
    <3>1. Fits(<<"DISCONNECT">>)
      BY <2>2 DEF Fits
    <3>2. Speaks("DISCONNECT", 0)
      BY <1>9, <2>2, <3>1 DEF Speaks, Refuse
    <3> QED
      BY <3>2
  <2> QED
    BY <1>9, <2>1, <2>2 DEF Refuse
<1>10. CASE packet_auth_service
  <2>1. CASE \E why : stop(why)
    BY <1>0, <2>1
  <2>2. pc = "service"
    BY <1>10 DEF packet_auth_service, Got
  <2>3. CASE \E t : Refuse(t)
    BY <1>9, <2>2, <2>3
  <2>4. CASE Fits(<<"ACCEPT">>) /\ Put(<<"ACCEPT">>, <<0>>) /\ pc' = "auth" /\ UNCHANGED kexvars
    BY <2>2, <2>4 DEF Speaks
  <2> QED
    BY <1>10, <2>1, <2>3, <2>4 DEF packet_auth_service
<1>11. CASE packet_auth_request
  <2>1. CASE \E why : stop(why)
    BY <1>0, <2>1
  <2>2. pc = "auth"
    BY <1>11 DEF packet_auth_request, Got
  <2>3. CASE \E t : Refuse(t)
    BY <1>9, <2>2, <2>3
  <2>4. CASE \E t \in {"SUCCESS", "PK_OK", "FAILURE"} :
               Fits(<<t>>) /\ Put(<<t>>, <<0>>) /\ pc' \in {"run", "auth"} /\ UNCHANGED kexvars
    BY <2>2, <2>4 DEF Speaks
  <2> QED
    BY <1>11, <2>1, <2>3, <2>4 DEF packet_auth_request
<1>12. CASE loop_packet
  <2>1. CASE \E why : stop(why)
    BY <1>0, <2>1
  <2>2. CASE UNCHANGED <<pc, sendid, s2c, used, kexsend, hash, key, flagkeys>>
    BY <2>2 DEF Silent
  <2>3. CASE Fits(<<"UNIMPL">>) /\ (\E b : Put(<<"UNIMPL">>, <<b>>)) /\ UNCHANGED <<pc, kexvars>>
    BY <1>12, <2>3 DEF Speaks, loop_packet, Got
  <2> QED
    BY <1>12, <2>1, <2>2, <2>3 DEF loop_packet
<1>13. CASE loop_output
  <2>1. CASE UNCHANGED <<pc, sendid, s2c, used, kexsend, hash, key, flagkeys>>
    BY <2>1 DEF Silent
  <2>2. CASE Fits(<<"DATA">>) /\ Put(<<"DATA">>, <<0>>) /\ UNCHANGED <<pc, kexvars>>
    BY <1>13, <2>2 DEF Speaks, loop_output
  <2> QED
    BY <1>13, <2>1, <2>2 DEF loop_output
<1>14. CASE Client
  <2>1. s2c' = s2c \/ (s2c # <<>> /\ s2c' = Tail(s2c))
    BY <1>14 DEF Client, ClientKexinit, ClientNewkeys, ClientService, ClientAuth, ClientChats,
                 ClientRecv
  <2> QED
    BY <1>14, <2>1 DEF Client, Silent
<1>15. CASE Stopped \/ Idle \/ UNCHANGED vars
  BY <1>15 DEF Stopped, Idle, vars, Silent
<1> QED
  BY <1>1, <1>2, <1>3, <1>4, <1>5, <1>6, <1>7, <1>8, <1>10, <1>11, <1>12, <1>13, <1>14, <1>15
     DEF Next, Server
-----------------------------------------------------------------------------
(* The packets that a step adds to the stream are under the key in use, and
   their numbers were not used under it. *)
Fresh ==
  \A i \in (Len(s2c) + 1)..Len(s2c') :
     s2c'[i].key # NoKey => <<s2c'[i].key, s2c'[i].id>> \notin used

(* A step that sends packets which fit sends fresh ones, unless it waits for
   NEWKEYS, where it sends none. *)
LEMMA SendFresh ==
  ASSUME NonceInv, NEW ts, NEW bs, Put(ts, bs), Fits(ts), Len(ts) \in Nat, pc # "newkeys"
  PROVE  Fresh
<1> SUFFICES ASSUME NEW i \in (Len(s2c) + 1)..Len(s2c'), s2c'[i].key # NoKey,
                    <<s2c'[i].key, s2c'[i].id>> \in used
             PROVE  FALSE
  BY DEF Fresh
<1> DEFINE u == <<s2c'[i].key, s2c'[i].id>>
<1>1. s2c'[i].key = SendKey /\ s2c'[i].id \in sendid..(sendid + Len(ts) - 1)
  BY PutFits DEF NonceInv
<1>2. flagkeys /\ u[1] = key
  BY <1>1 DEF SendKey
<1>3. u[2] < sendid
  BY <1>2 DEF NonceInv, NumbersGrow
<1> QED
  BY <1>1, <1>3 DEF NonceInv, SendTypes

(* No step breaks the invariant or uses a number again (packet_kexdh.c,
   packet_send.c, packet_recv.c). *)
LEMMA NonceStep == NonceInv /\ [Next]_vars => NonceInv' /\ Fresh
<1> SUFFICES ASSUME NonceInv, [Next]_vars PROVE NonceInv' /\ Fresh
  OBVIOUS
<1> USE Constants DEF SendTypes, Exchanging, OldKey, Age, sendvars, kept
<1>1. CASE Silent
  <2>1. SendTypes' /\ KeysAreOld' /\ NumbersGrow'
    BY <1>1 DEF NonceInv, KeysAreOld, NumbersGrow, Silent
  <2>2. Streams' /\ Len(s2c') <= Len(s2c) /\ Len(s2c) \in Nat /\ Len(s2c') \in Nat
    <3>1. CASE s2c' = s2c
      BY <3>1, LenProperties DEF NonceInv, Streams
    <3>2. CASE s2c # <<>> /\ s2c' = Tail(s2c)
      <4>1. Tail(s2c) \in Seq(Range(s2c)) /\ Len(Tail(s2c)) = Len(s2c) - 1
        BY <3>2, HeadTailProperties DEF NonceInv, Streams
      <4>2. Streams'
        BY <3>2, <4>1, SeqOfRange DEF Streams
      <4> QED
        BY <3>2, <4>1, <4>2, LenProperties DEF NonceInv, Streams
    <3> QED
      BY <1>1, <3>1, <3>2 DEF Silent
  <2>3. Fresh
    BY <2>2 DEF Fresh
  <2> QED
    BY <2>1, <2>2, <2>3 DEF NonceInv
<1>2. ASSUME NEW t, NEW b, Speaks(t, b) PROVE NonceInv' /\ Fresh
  <2>1. /\ Streams' /\ sendid' = sendid + 1 /\ sendid' \in 0..IdMax
        /\ \A u \in used' : u \in used \/ u = <<SendKey, sendid>>
    BY <1>2, PutOne DEF NonceInv, Speaks
  <2>2. KeysAreOld'
    BY <1>2, <2>1 DEF NonceInv, KeysAreOld, Speaks, SendKey
  <2>3. NumbersGrow'
    <3> SUFFICES ASSUME NEW u \in used'
                 PROVE  u[2] \in Nat /\ (flagkeys /\ u[1] = key => u[2] < sendid')
      BY <1>2 DEF NumbersGrow, Speaks
    <3>1. u \in used => u[2] \in Nat /\ (flagkeys /\ u[1] = key => u[2] < sendid)
      BY <1>2 DEF NonceInv, NumbersGrow, Speaks
    <3> QED
      BY <2>1, <3>1 DEF NonceInv
  <2>4. Fresh
    BY <1>2, SendFresh DEF Speaks
  <2> QED
    BY <1>2, <2>1, <2>2, <2>3, <2>4 DEF NonceInv, Speaks
<1>3. CASE Begins
  <2>1. /\ Streams' /\ sendid' = sendid + 1 /\ sendid' \in 0..IdMax
        /\ \A u \in used' : u \in used \/ u = <<SendKey, sendid>>
    BY <1>3, PutOne DEF NonceInv, Begins, packet_kex_send
  <2>2. KeysAreOld'
    BY <1>3, <2>1 DEF NonceInv, KeysAreOld, Begins, packet_kex_send, SendKey
  <2>3. NumbersGrow'
    <3> SUFFICES ASSUME NEW u \in used'
                 PROVE  u[2] \in Nat /\ (flagkeys /\ u[1] = key => u[2] < sendid')
      BY <1>3 DEF NumbersGrow, Begins
    <3>1. u \in used => u[2] \in Nat /\ (flagkeys /\ u[1] = key => u[2] < sendid)
      BY <1>3 DEF NonceInv, NumbersGrow, Begins
    <3> QED
      BY <2>1, <3>1 DEF NonceInv
  <2>4. Fresh
    BY <1>3, SendFresh DEF Begins, packet_kex_send
  <2> QED
    BY <1>3, <2>1, <2>2, <2>3, <2>4 DEF NonceInv, Begins, packet_kex_send
<1>4. CASE Replies
  <2> DEFINE ts == <<"REPLY", "NEWKEYS">>
  <2>1. PICK b : Put(ts, b) /\ Fits(ts)
    BY <1>4 DEF Replies
  <2>2. Len(ts) = 2 /\ sendid + 2 <= IdMax
    BY <2>1 DEF Fits
  <2> HIDE DEF ts
  <2>3. /\ Streams' /\ sendid' \in 0..IdMax
        /\ \A u \in used' : u \in used \/ (u[1] = SendKey /\ u[2] \in Nat)
    <3>1. /\ Streams'
          /\ \A u \in used' : \/ u \in used
                              \/ \E n \in sendid..(sendid + Len(ts) - 1) : u = <<SendKey, n>>
          /\ sendid' = IF ts[Len(ts)] = "NEWKEYS" /\ strict THEN 0 ELSE sendid + Len(ts)
      <4>1. Len(ts) \in Nat /\ SendTypes /\ Streams
        BY <2>2 DEF NonceInv
      <4> QED
        BY <2>1, <4>1, PutFits
    <3> QED
      BY <2>2, <3>1 DEF NonceInv
  <2>4. KeysAreOld'
    BY <1>4, <2>3 DEF NonceInv, KeysAreOld, Replies, SendKey
  <2>5. NumbersGrow'
    BY <1>4, <2>3 DEF NonceInv, NumbersGrow, Replies
  <2>6. Fresh
    BY <1>4, <2>1, <2>2, SendFresh DEF Replies
  <2> QED
    BY <1>4, <2>3, <2>4, <2>5, <2>6 DEF NonceInv, Replies
<1>5. CASE Switches
  <2>1. SendTypes' /\ Streams'
    BY <1>5 DEF NonceInv, Switches, Streams
  <2>2. key' # NoKey /\ Age(key') = kexsend
    BY <1>5 DEF NonceInv, KeysAreOld, Switches, NoKey
  <2>3. KeysAreOld'
    BY <1>5, <2>2 DEF NonceInv, KeysAreOld, Switches
  <2>4. NumbersGrow'
    BY <1>5, <2>2 DEF NonceInv, KeysAreOld, NumbersGrow, Switches
  <2>5. Fresh
    BY <1>5, LenProperties DEF Fresh, Switches, NonceInv, Streams
  <2> QED
    BY <2>1, <2>3, <2>4, <2>5 DEF NonceInv
<1> QED
  BY <1>1, <1>2, <1>3, <1>4, <1>5, Effects

(* Nothing was sent yet (packet_init.c). *)
LEMMA NonceInit == Init => NonceInv
  BY Constants, EmptySeq DEF Init, NonceInv, SendTypes, Streams, KeysAreOld, NumbersGrow, Exchanging

(* Whatever the client offers, asks for and says, for any number of key
   exchanges and any width of the numbers: no nonce is used twice under one
   key (packet_put.c, packet_send.c, packet_kexdh.c). *)
THEOREM NonceUsedOnce == Spec => NonceOnce
<1>1. NonceInv /\ [Next]_vars => [Fresh]_vars
  BY NonceStep
<1> QED
  BY <1>1, NonceInit, NonceStep, PTL DEF Spec, NonceOnce, Fresh
-----------------------------------------------------------------------------
(* The places where the server waits. *)
LEMMA Waiting ==
  /\ DOMAIN Expected = {"kexinit", "guess", "kexdh", "newkeys", "service", "auth", "run"}
  /\ Expected["kexinit"] = "KEXINIT" /\ Expected["guess"] = "KEXDH" /\ Expected["kexdh"] = "KEXDH"
  BY DEF Expected

(* What packet_get has checked of a packet that it hands on (packet_get.c). *)
LEMMA Handed ==
  ASSUME NEW m, Verdict(m) = "run", CountTypes
  PROVE  /\ recvid + 1 <= IdMax
         /\ ~flagauthorized => recvid + 1 <= MsgLimit
         /\ ReceivedId(m.t) = (IF m.t = "NEWKEYS" /\ strict THEN 0 ELSE recvid + 1)
         /\ m.t = "IGNORE" => flagkeys \/ ~strict
         /\ pc \in {"kexinit", "guess", "kexdh"} => m.t \in {"IGNORE", "NEWKEYS", Expected[pc]}
<1> USE Constants DEF CountTypes
<1>1. ~(Wrap(recvid + 1) < recvid)
  BY DEF Verdict
<1>2. recvid + 1 <= IdMax
  BY <1>1 DEF Wrap
<1>3. ~flagauthorized => recvid + 1 <= MsgLimit
  BY <1>1 DEF Verdict
<1>4. ReceivedId(m.t) = (IF m.t = "NEWKEYS" /\ strict THEN 0 ELSE recvid + 1)
  BY <1>2 DEF ReceivedId, Wrap
<1>5. m.t = "IGNORE" => flagkeys \/ ~strict
  BY DEF Verdict
<1>6. Expected[pc] # "any" => m.t \in {"IGNORE", "NEWKEYS", Expected[pc]}
  BY DEF Verdict
<1> QED
  BY <1>2, <1>3, <1>4, <1>5, <1>6, Waiting

(* The server may take one packet more, and then stop. *)
LEMMA OneMore ==
  ASSUME LimitsInv, status = "run", ~flagauthorized
  PROVE  taken + 1 <= MsgLimit + 5
<1> USE Constants, Waiting DEF LimitsInv, CountTypes
<1>1. CASE ~strict
  BY <1>1 DEF CountedSince
<1>2. CASE strict
  <2>1. pc \in {"guess", "kexdh", "newkeys", "service", "auth"}
    BY <1>2 DEF Places
  <2> QED
    BY <1>2, <2>1 DEF CountedSince
<1> QED
  BY <1>1, <1>2

(* A stop, whatever its reason but the number of tries, keeps the limits. *)
LEMMA StopLimits ==
  ASSUME LimitsInv, Take, NEW why, stop(why), why \notin {"run", "tries"}, recvid' \in 0..IdMax
  PROVE  LimitsInv'
<1> USE Constants DEF LimitsInv, sendvars, kexvars, authvars
<1>1. UNCHANGED <<pc, strict, flagkeys, flagauthorized, flagrekeying, tries, outleft>> /\ status' = why
  BY DEF stop
<1>2. taken' = (IF flagauthorized THEN taken ELSE taken + 1) /\ status = "run"
  BY DEF Take
<1>3. CountTypes'
  BY <1>1, <1>2 DEF CountTypes
<1>4. Places'
  BY <1>1 DEF Places, Exchanging
<1>5. CountedSince' /\ TriesCounted'
  BY <1>1 DEF CountedSince, TriesCounted
<1>6. LimitsHold'
  BY <1>1, <1>2, OneMore DEF LimitsHold, UnauthenticatedBounded, LimitBeforeTries
<1> QED
  BY <1>3, <1>4, <1>5, <1>6

(* So does a step that takes no packet and changes no place or count. *)
LEMMA RestLimits ==
  ASSUME LimitsInv, UNCHANGED <<pc, strict, flagkeys, flagauthorized, recvid, tries, taken>>,
         outleft' \in 0..OutputMax, status' \in {status, "overflow"}
  PROVE  LimitsInv'
<1> USE DEF LimitsInv
<1>1. CountTypes' /\ Places'
  BY DEF CountTypes, Places, Exchanging
<1>2. status' = "run" => status = "run"
  OBVIOUS
<1>3. CountedSince' /\ TriesCounted'
  BY <1>2 DEF CountedSince, TriesCounted
<1>4. LimitsHold'
  BY DEF LimitsHold, UnauthenticatedBounded, LimitBeforeTries
<1> QED
  BY <1>1, <1>3, <1>4

(* What a handler that packet_get hands a packet to can rely on. *)
LEMMA GotCounts ==
  ASSUME LimitsInv, NEW p, Got(p)
  PROVE  /\ Take /\ status = "run" /\ pc = p /\ p \in DOMAIN Expected
         /\ recvid' \in 0..IdMax
         /\ recvid' = IF Head(c2s).t = "NEWKEYS" /\ strict THEN 0 ELSE recvid + 1
         /\ ~flagauthorized => recvid + 1 <= MsgLimit /\ taken + 1 <= MsgLimit + 5
         /\ taken' = IF flagauthorized THEN taken ELSE taken + 1
         /\ p \in {"kexinit", "guess", "kexdh"} => Head(c2s).t \in {"NEWKEYS", Expected[p]}
<1> USE Constants
<1>1. Take /\ pc = p /\ Verdict(Head(c2s)) = "run" /\ Head(c2s).t # "IGNORE"
      /\ recvid' = ReceivedId(Head(c2s).t)
  BY DEF Got
<1>2. status = "run" /\ pc \in DOMAIN Expected
      /\ taken' = IF flagauthorized THEN taken ELSE taken + 1
  BY <1>1 DEF Take
<1>3. /\ recvid + 1 <= IdMax
      /\ ~flagauthorized => recvid + 1 <= MsgLimit
      /\ recvid' = (IF Head(c2s).t = "NEWKEYS" /\ strict THEN 0 ELSE recvid + 1)
      /\ pc \in {"kexinit", "guess", "kexdh"} => Head(c2s).t \in {"IGNORE", "NEWKEYS", Expected[pc]}
  BY <1>1, Handed DEF LimitsInv
<1>4. recvid' \in 0..IdMax
  BY <1>3 DEF LimitsInv, CountTypes
<1>5. ~flagauthorized => taken + 1 <= MsgLimit + 5
  BY <1>2, OneMore
<1> QED
  BY <1>1, <1>2, <1>3, <1>4, <1>5

(* A handler that goes on keeps the limits if it keeps what its place says. *)
LEMMA GoesOn ==
  ASSUME LimitsInv, NEW p, Got(p), status' = "run", UNCHANGED <<tries, outleft>>,
         flagauthorized' = flagauthorized, Places', CountedSince',
         pc' = "auth" => tries < recvid'
  PROVE  LimitsInv'
<1> USE Constants DEF LimitsInv
<1>1. CountTypes'
  BY GotCounts DEF CountTypes
<1>2. TriesCounted'
  BY GotCounts DEF TriesCounted
<1>3. LimitsHold'
  BY GotCounts DEF LimitsHold, UnauthenticatedBounded, LimitBeforeTries
<1> QED
  BY <1>1, <1>2, <1>3

(* No packet and no answer breaks the limits (packet_get.c, packet_auth.c). *)
LEMMA LimitsStep == LimitsInv /\ [Next]_vars => LimitsInv'
<1> SUFFICES ASSUME LimitsInv, [Next]_vars PROVE LimitsInv'
  OBVIOUS
<1> USE Constants, Waiting DEF sendvars, kexvars, authvars, Exchanging
<1>0. ASSUME NEW p, Got(p), NEW why, stop(why), why \notin {"run", "tries"} PROVE LimitsInv'
  BY <1>0, GotCounts, StopLimits
<1>1. CASE packet_hello
  <2>1. /\ UNCHANGED <<strict, flagkeys, flagauthorized, flagrekeying, recvid, tries, outleft, status, taken>>
        /\ pc = "hello" /\ pc' = "kexinit" /\ status = "run"
    BY <1>1 DEF packet_hello
  <2>2. ~strict /\ ~flagauthorized /\ ~flagkeys /\ CountTypes' /\ TriesCounted' /\ LimitsHold'
    BY <2>1 DEF LimitsInv, CountTypes, Places, TriesCounted, LimitsHold, UnauthenticatedBounded,
                LimitBeforeTries
  <2>3. CountedSince'
    BY <2>1, <2>2 DEF LimitsInv, CountedSince
  <2>4. Places'
    BY <2>1, <2>2 DEF LimitsInv, Places
  <2> QED
    BY <2>2, <2>3, <2>4 DEF LimitsInv
<1>2. CASE packet_get_stop
  <2>1. Verdict(Head(c2s)) \notin {"run", "tries"}
    BY <1>2 DEF packet_get_stop, Verdict
  <2>2. Take /\ stop(Verdict(Head(c2s))) /\ recvid' \in 0..IdMax
    BY <1>2 DEF packet_get_stop, LimitsInv, CountTypes
  <2> QED
    BY <2>1, <2>2, StopLimits
<1>3. CASE packet_get_ignore
  <2>1. /\ UNCHANGED <<pc, status, strict, flagkeys, flagauthorized, tries, outleft>>
        /\ Take /\ Verdict(Head(c2s)) = "run" /\ Head(c2s).t = "IGNORE"
        /\ recvid' = ReceivedId(Head(c2s).t)
    BY <1>3 DEF packet_get_ignore
  <2>2. status = "run" /\ taken' = IF flagauthorized THEN taken ELSE taken + 1
    BY <2>1 DEF Take
  <2>3. /\ recvid + 1 <= IdMax /\ recvid' = recvid + 1
        /\ ~flagauthorized => recvid + 1 <= MsgLimit
        /\ flagkeys \/ ~strict
    BY <2>1, Handed DEF LimitsInv
  <2>4. CountTypes' /\ Places'
    BY <2>1, <2>2, <2>3 DEF LimitsInv, CountTypes, Places
  <2>5. CountedSince'
    <3>1. pc \in {"guess", "kexdh", "newkeys"} /\ ~flagauthorized => ~strict
      BY <2>3 DEF LimitsInv, Places
    <3> QED
      BY <2>1, <2>2, <2>3, <3>1 DEF LimitsInv, CountTypes, CountedSince
  <2>6. TriesCounted'
    BY <2>1, <2>2, <2>3 DEF LimitsInv, CountTypes, TriesCounted
  <2>7. LimitsHold'
    BY <2>1, <2>2, OneMore DEF LimitsInv, LimitsHold, UnauthenticatedBounded, LimitBeforeTries
  <2> QED
    BY <2>4, <2>5, <2>6, <2>7 DEF LimitsInv
<1>4. CASE packet_kex_receive
  <2>1. Got("kexinit")
    BY <1>4 DEF packet_kex_receive
  <2>2. CASE \E why \in {"proto", "strict"} : stop(why)
    BY <1>0, <2>1, <2>2
  <2>3. CASE /\ UNCHANGED <<status, flagkeys, flagauthorized, tries, outleft>>
             /\ pc' \in {"guess", "kexdh"} /\ Head(c2s).t = "KEXINIT"
             /\ strict' => recvid' = 1
    <3>1. ~strict /\ ~flagauthorized /\ ~flagkeys
      BY <2>1, GotCounts DEF LimitsInv, Places
    <3>2. taken = recvid /\ taken' = taken + 1 /\ recvid' = recvid + 1 /\ recvid + 1 <= MsgLimit
      BY <2>1, <3>1, GotCounts DEF LimitsInv, CountedSince
    <3>3. Places'
      BY <2>3, <3>1 DEF LimitsInv, Places
    <3>4. CountedSince'
      BY <2>3, <3>1, <3>2 DEF LimitsInv, CountTypes, CountedSince
    <3> QED
      BY <2>1, <2>3, <3>3, <3>4, GotCounts, GoesOn
  <2> QED
    BY <1>4, <2>2, <2>3 DEF packet_kex_receive, AfterParse
<1>5. CASE packet_kex_rekey
  <2>1. Got("run") /\ flagauthorized
    BY <1>5, GotCounts DEF packet_kex_rekey, LimitsInv, Places
  <2>2. CASE \E why \in {"proto", "overflow"} : stop(why)
    BY <1>0, <2>1, <2>2
  <2>3. CASE /\ UNCHANGED <<status, flagkeys, flagauthorized, tries, outleft>>
             /\ pc' \in {"guess", "kexdh"}
    <3>1. Places' /\ CountedSince'
      BY <2>1, <2>3 DEF LimitsInv, Places, CountedSince
    <3> QED
      BY <2>1, <2>3, <3>1, GotCounts, GoesOn
  <2> QED
    BY <1>5, <2>2, <2>3 DEF packet_kex_rekey, AfterParse
<1>6. CASE packet_kexdh_guess
  <2>1. Got("guess") /\ pc' = "kexdh"
        /\ UNCHANGED <<status, strict, flagkeys, flagauthorized, tries, outleft>>
    BY <1>6 DEF packet_kexdh_guess
  <2>2. Places'
    BY <2>1, GotCounts DEF LimitsInv, Places
  <2>3. CountedSince'
    BY <2>1, GotCounts DEF LimitsInv, CountTypes, CountedSince
  <2> QED
    BY <2>1, <2>2, <2>3, GotCounts, GoesOn
<1>7. CASE packet_kexdh
  <2>1. Got("kexdh")
    BY <1>7 DEF packet_kexdh
  <2>2. CASE \E why \in {"proto", "overflow"} : stop(why)
    BY <1>0, <2>1, <2>2
  <2>3. CASE /\ UNCHANGED <<status, strict, flagkeys, flagauthorized, tries, outleft>>
             /\ pc' = "newkeys" /\ Head(c2s).t = "KEXDH"
    <3>1. Places'
      BY <2>1, <2>3, GotCounts DEF LimitsInv, Places
    <3>2. CountedSince'
      BY <2>1, <2>3, GotCounts DEF LimitsInv, CountTypes, CountedSince
    <3> QED
      BY <2>1, <2>3, <3>1, <3>2, GotCounts, GoesOn
  <2> QED
    BY <1>7, <2>2, <2>3 DEF packet_kexdh
<1>8. CASE packet_kexdh_newkeys
  <2>1. Got("newkeys")
    BY <1>8 DEF packet_kexdh_newkeys
  <2>2. CASE stop("strict")
    BY <1>0, <2>1, <2>2
  <2>3. CASE /\ UNCHANGED <<status, strict, flagauthorized, tries, outleft>>
             /\ \/ UNCHANGED <<pc, flagkeys>> /\ ~strict
                \/ /\ Head(c2s).t = "NEWKEYS"
                   /\ pc' = IF flagauthorized THEN "run" ELSE "service"
    <3>1. Places'
      BY <2>1, <2>3, GotCounts DEF LimitsInv, Places
    <3>2. CountedSince'
      BY <2>1, <2>3, GotCounts DEF LimitsInv, CountTypes, CountedSince
    <3>3. pc' # "auth"
      BY <2>1, <2>3, GotCounts
    <3> QED
      BY <2>1, <2>3, <3>1, <3>2, <3>3, GotCounts, GoesOn
  <2> QED
    BY <1>8, <2>2, <2>3 DEF packet_kexdh_newkeys
<1>9. ASSUME NEW p, Got(p), NEW t, Refuse(t) PROVE LimitsInv'
  <2>1. /\ UNCHANGED <<pc, strict, flagkeys, flagauthorized, tries, outleft>>
        /\ status' = "proto"
    BY <1>9 DEF Refuse
  <2>2. CountTypes' /\ Places'
    BY <1>9, <2>1, GotCounts DEF LimitsInv, CountTypes, Places
  <2>3. CountedSince' /\ TriesCounted' /\ LimitsHold'
    BY <1>9, <2>1, GotCounts DEF LimitsInv, CountedSince, TriesCounted, LimitsHold,
                                 UnauthenticatedBounded, LimitBeforeTries
  <2> QED
    BY <2>2, <2>3 DEF LimitsInv
<1>10. CASE packet_auth_service
  <2>1. Got("service") /\ ~flagauthorized
    BY <1>10, GotCounts DEF packet_auth_service, LimitsInv, Places
  <2>2. CASE stop("overflow")
    BY <1>0, <2>1, <2>2
  <2>3. CASE \E t : Refuse(t)
    BY <1>9, <2>1, <2>3
  <2>4. CASE /\ UNCHANGED <<status, strict, flagkeys, flagauthorized, outleft>>
             /\ pc' = "auth" /\ tries' = 0 /\ Head(c2s).t = "SERVICE"
    <3>1. recvid' = recvid + 1 /\ recvid \in Nat /\ status' = "run" /\ taken' = taken + 1 /\ taken \in Nat
      BY <2>1, <2>4, GotCounts DEF LimitsInv, CountTypes
    <3>2. CountTypes' /\ Places'
      BY <2>1, <2>4, <3>1, GotCounts DEF LimitsInv, CountTypes, Places
    <3>3. CountedSince'
      BY <2>1, <2>4, <3>1, GotCounts DEF LimitsInv, CountedSince
    <3>4. TriesCounted' /\ LimitsHold'
      BY <2>1, <2>4, <3>1, GotCounts DEF TriesCounted, LimitsHold, UnauthenticatedBounded, LimitBeforeTries
    <3> QED
      BY <3>2, <3>3, <3>4 DEF LimitsInv
  <2> QED
    BY <1>10, <2>2, <2>3, <2>4 DEF packet_auth_service
<1>11. CASE packet_auth_request
  <2>1. Got("auth") /\ ~flagauthorized
    BY <1>11, GotCounts DEF packet_auth_request, LimitsInv, Places
  <2>2. CASE \E why \in {"auth", "overflow"} : stop(why)
    BY <1>0, <2>1, <2>2
  <2>3. CASE \E t : Refuse(t)
    BY <1>9, <2>1, <2>3
  <2>4. CASE /\ UNCHANGED <<strict, flagkeys, outleft>> /\ Head(c2s).t = "USERAUTH"
             /\ status' = IF tries' = MaxTries THEN "tries" ELSE "run"
             /\ \/ flagauthorized' /\ tries' = tries /\ pc' = "run"
                \/ ~flagauthorized' /\ tries' = tries + 1 /\ pc' = "auth"
    <3>1. /\ recvid' = recvid + 1 /\ recvid \in Nat /\ taken' = taken + 1 /\ taken \in Nat
          /\ tries \in Nat /\ tries < MaxTries /\ tries < recvid /\ recvid + 1 <= MsgLimit
      BY <2>1, <2>4, GotCounts DEF LimitsInv, CountTypes, TriesCounted
    <3>2. CountTypes' /\ Places'
      BY <2>1, <2>4, <3>1, GotCounts DEF LimitsInv, CountTypes, Places
    <3>3. CountedSince'
      BY <2>1, <2>4, <3>1, GotCounts DEF LimitsInv, CountedSince
    <3>4. TriesCounted'
      BY <2>4, <3>1 DEF TriesCounted
    <3>5. LimitsHold'
      BY <2>1, <2>4, <3>1, GotCounts DEF LimitsInv, LimitsHold, UnauthenticatedBounded, LimitBeforeTries
    <3> QED
      BY <3>2, <3>3, <3>4, <3>5 DEF LimitsInv
  <2> QED
    BY <1>11, <2>2, <2>3, <2>4 DEF packet_auth_request
<1>12. CASE loop_packet
  <2>1. Got("run") /\ flagauthorized
    BY <1>12, GotCounts DEF loop_packet, LimitsInv, Places
  <2>2. CASE stop("overflow")
    BY <1>0, <2>1, <2>2
  <2>3. CASE UNCHANGED <<pc, status, kexvars, authvars, outleft>>
    <3>1. Places' /\ CountedSince'
      BY <2>1, <2>3 DEF LimitsInv, Places, CountedSince
    <3> QED
      BY <2>1, <2>3, <3>1, GotCounts, GoesOn
  <2> QED
    BY <1>12, <2>2, <2>3 DEF loop_packet
<1>13. CASE loop_output
  <2>1. outleft' \in 0..OutputMax
    BY <1>13 DEF loop_output, LimitsInv, CountTypes
  <2> QED
    BY <1>13, <2>1, RestLimits DEF loop_output
<1>14. CASE Client \/ Stopped \/ Idle \/ UNCHANGED vars
  <2>1. UNCHANGED <<pc, status, strict, flagkeys, flagauthorized, recvid, tries, outleft, taken>>
    BY <1>14 DEF Client, Stopped, Idle, vars
  <2>2. outleft' \in 0..OutputMax
    BY <2>1 DEF LimitsInv, CountTypes
  <2> QED
    BY <2>1, <2>2, RestLimits
<1> QED
  BY <1>1, <1>2, <1>3, <1>4, <1>5, <1>6, <1>7, <1>8, <1>10, <1>11, <1>12, <1>13, <1>14
     DEF Next, Server

(* Nothing was taken yet (packet_init.c). *)
LEMMA LimitsInit == Init => LimitsInv
  BY Constants, Waiting DEF Init, LimitsInv, CountTypes, Places, CountedSince, TriesCounted, LimitsHold,
     UnauthenticatedBounded, LimitBeforeTries, Exchanging

(* Whatever the client says: it has at most MsgLimit + 5 packets taken from it
   before it is authenticated, and packet_auth does not run out of tries before
   packet_get stops it, if it has as many (packet_get.c, packet_auth.c). *)
THEOREM LimitsAlwaysHold == Spec => []LimitsHold
<1>1. LimitsInv => LimitsHold
  BY DEF LimitsInv
<1> QED
  BY <1>1, LimitsInit, LimitsStep, PTL DEF Spec

(* The flags are truth values: only the start of an exchange, its end and a
   request for authentication set one (packet_kex.c, packet_kexdh.c,
   packet_auth.c). *)
LEMMA FlagsStep == Flags /\ [Next]_vars => Flags'
<1> SUFFICES ASSUME Flags, [Next]_vars PROVE Flags'
  OBVIOUS
<1> USE DEF sendvars, kexvars, authvars
<1>1. CASE UNCHANGED <<strict, flagkeys, flagauthorized, flagrekeying>>
  BY <1>1 DEF Flags
<1>2. CASE /\ \E b : strict' = (strict \/ b)
           /\ UNCHANGED <<flagkeys, flagauthorized, flagrekeying>>
  <2>1. strict' \in BOOLEAN
    BY <1>2
  <2> QED
    BY <1>2, <2>1, Zenon DEF Flags
<1>3. CASE flagrekeying' = TRUE /\ UNCHANGED <<strict, flagkeys, flagauthorized>>
  BY <1>3, Zenon DEF Flags
<1>4. CASE flagkeys' = TRUE /\ UNCHANGED <<strict, flagrekeying, flagauthorized>>
  BY <1>4, Zenon DEF Flags
<1>5. CASE /\ \E a, b : flagauthorized' = (a /\ b)
           /\ UNCHANGED <<strict, flagkeys, flagrekeying>>
  <2>1. flagauthorized' \in BOOLEAN
    BY <1>5
  <2> QED
    BY <1>5, <2>1, Zenon DEF Flags
<1>6. CASE packet_kex_receive
  BY <1>1, <1>2, <1>6, Zenon DEF packet_kex_receive, stop
<1>7. CASE packet_kex_rekey
  BY <1>1, <1>2, <1>7, Zenon DEF packet_kex_rekey, stop
<1>8. CASE packet_kexdh
  BY <1>1, <1>3, <1>8 DEF packet_kexdh, stop
<1>9. CASE packet_kexdh_newkeys
  BY <1>1, <1>4, <1>9 DEF packet_kexdh_newkeys, stop
<1>10. CASE packet_auth_request
  BY <1>1, <1>5, <1>10, Zenon DEF packet_auth_request, stop, Refuse
<1>11. CASE packet_hello \/ packet_get_stop \/ packet_get_ignore \/ packet_kexdh_guess
            \/ packet_auth_service \/ loop_packet \/ loop_output
  BY <1>1, <1>11 DEF packet_hello, packet_get_stop, packet_get_ignore, packet_kexdh_guess,
     packet_auth_service, loop_packet, loop_output, stop, Refuse
<1>12. CASE Client \/ Stopped \/ Idle \/ UNCHANGED vars
  BY <1>1, <1>12 DEF Client, Stopped, Idle, vars
<1> QED
  BY <1>6, <1>7, <1>8, <1>9, <1>10, <1>11, <1>12 DEF Next, Server

-----------------------------------------------------------------------------
(* Both sides agree. What the server does with a packet depends on nothing
   but the packet and what it did with those before it, so its state is
   foretold by the packets on their way to it: they are legal one after the
   other, and the client knows the state the server has when it has taken them
   all, and which answers it has put by then. *)

(* The answers of a key exchange and of authentication. *)
Kex == {"KEXINIT", "REPLY", "NEWKEYS"}
Auth == {"ACCEPT", "FAILURE", "PK_OK", "SUCCESS"}

(* What the server knows of the connection. *)
Present ==
  [pc |-> pc, strict |-> strict, key |-> SendKey, id |-> recvid, offer |-> kexrecv,
   si |-> kexsend, hash |-> hash, session |-> sessionid, auth |-> flagauthorized]

(* The answers on their way. *)
Types(q) == {q[i].t : i \in 1..Len(q)}
Owed == Types(s2c) \cap (Kex \cup Auth)

(* A server that knows x takes packet m: what it answers, and what it knows then. *)
Granted(m) == m.b.authorized /\ (m.b.how = "signed" \/ (m.b.how = "none" /\ FlagNoneAuth))
Verdicts(m) == IF Granted(m) THEN "SUCCESS" ELSE IF m.b.how = "query" THEN "PK_OK" ELSE "FAILURE"
Exchanged(x, m) == m.t = "KEXDH" /\ x.pc = "kexdh"
NewHash(x, m) == [ci |-> x.offer.n, si |-> x.si, e |-> m.b.guess]

Answer(x, m) ==
  IF m.t = "HELLO" \/ (m.t = "KEXINIT" /\ x.pc = "run") THEN {"KEXINIT"}
  ELSE IF Exchanged(x, m) THEN {"REPLY", "NEWKEYS"}
  ELSE IF m.t = "SERVICE" THEN {"ACCEPT"}
  ELSE IF m.t = "USERAUTH" THEN {Verdicts(m)}
  ELSE {}

Place(x, m) ==
  IF m.t = "HELLO" THEN "kexinit"
  ELSE IF m.t = "KEXINIT" THEN AfterParse(m.b)
  ELSE IF m.t = "KEXDH" THEN IF x.pc = "guess" THEN "kexdh" ELSE "newkeys"
  ELSE IF m.t = "NEWKEYS" THEN IF x.auth THEN "run" ELSE "service"
  ELSE IF m.t = "SERVICE" THEN "auth"
  ELSE IF m.t = "USERAUTH" THEN IF Granted(m) THEN "run" ELSE "auth"
  ELSE x.pc

After(x, m) ==
  [pc |-> Place(x, m),
   strict |-> IF m.t = "KEXINIT" THEN x.strict \/ StrictToken \in Range(m.b.kex) ELSE x.strict,
   key |-> IF m.t = "NEWKEYS" THEN <<x.hash, x.session>> ELSE x.key,
   id |-> IF m.t = "HELLO" THEN x.id
          ELSE IF m.t = "NEWKEYS" /\ x.strict THEN 0 ELSE x.id + 1,
   offer |-> IF m.t = "KEXINIT" THEN m.b ELSE x.offer,
   si |-> IF "KEXINIT" \in Answer(x, m) THEN x.si + 1 ELSE x.si,
   hash |-> IF Exchanged(x, m) THEN NewHash(x, m) ELSE x.hash,
   session |-> IF Exchanged(x, m) /\ x.session = NoHash THEN NewHash(x, m) ELSE x.session,
   auth |-> IF m.t = "USERAUTH" THEN Granted(m) ELSE x.auth]

(* The packet is one the server expects when w is on its way. *)
Expects(x, w, m) ==
  \/ m.t = "HELLO" /\ x.pc = "hello" /\ w \cap Kex = {}
  \/ m.t = "KEXINIT" /\ Acceptable(m.b) /\ x.pc = "kexinit" /\ x.id = 0
  \/ m.t = "KEXINIT" /\ Acceptable(m.b) /\ x.pc = "run" /\ w \cap Kex = {}
     /\ (StrictToken \in Range(m.b.kex) => x.strict)
  \/ m.t = "KEXDH" /\ x.pc = "guess"
  \/ m.t = "KEXDH" /\ x.pc = "kexdh" /\ m.b.alg = KexChoice(x.offer)
     /\ "REPLY" \notin w /\ "NEWKEYS" \notin w
  \/ m.t = "NEWKEYS" /\ x.pc = "newkeys"
  \/ m.t = "SERVICE" /\ x.pc = "service" /\ m.b = "ssh-userauth" /\ w \cap Auth = {}
  \/ m.t = "USERAUTH" /\ x.pc = "auth" /\ w \cap Auth = {}
     /\ (m.b.how = "signed" => m.b.session = x.session)
  \/ m.t = "IGNORE" /\ x.pc # "hello" /\ (x.key # NoKey \/ ~x.strict)
  \/ m.t \in {"DATA", "OTHER"} /\ x.pc = "run"

Legal(x, w, m) == m.key = x.key /\ m.id = x.id /\ Expects(x, w, m)

(* From x and w to y and v, further on: answers are added to those on their
   way, and an exchange is not begun before the one before it was answered. *)
Onward(x, w, y, v) ==
  /\ w \subseteq v
  /\ "NEWKEYS" \in w => v \cap Kex = w \cap Kex /\ y.hash = x.hash /\ y.session = x.session
  /\ "KEXINIT" \in w => y.si = x.si
  /\ x.pc \notin {"hello", "kexinit"} => y.pc \notin {"hello", "kexinit"} /\ (y.strict <=> x.strict)

(* f and o are what the server will know and will have answered before each
   of the packets of q, and after the last. *)
Script(q, f, o) ==
  /\ \A i \in 1..Len(q) :
       /\ Legal(f[i], o[i], q[i])
       /\ f[i + 1] = After(f[i], q[i])
       /\ o[i + 1] = o[i] \cup Answer(f[i], q[i])
  /\ \A i \in 1..(Len(q) + 1) : \A j \in i..(Len(q) + 1) : Onward(f[i], o[i], f[j], o[j])

-----------------------------------------------------------------------------
(* The streams as sequences, whatever they hold. *)
Sequence(q) == q \in Seq(Range(q))

(* A packet more at the end. *)
LEMMA Longer ==
  ASSUME NEW q, Sequence(q), NEW m
  PROVE  /\ Sequence(Append(q, m)) /\ Len(q) \in Nat /\ Len(Append(q, m)) = Len(q) + 1
         /\ \A i \in 1..Len(q) : Append(q, m)[i] = q[i]
         /\ Append(q, m)[Len(q) + 1] = m
<1> DEFINE S == Range(q) \cup {m}
<1>1. Range(q) \subseteq S /\ m \in S
  OBVIOUS
<1> HIDE DEF S
<1>2. q \in Seq(S)
  BY <1>1, SeqMonotonic DEF Sequence
<1>3. Append(q, m) \in Seq(S)
  BY <1>1, <1>2, AppendProperties
<1>4. Sequence(Append(q, m))
  BY <1>3, SeqOfRange DEF Sequence
<1> QED
  BY <1>1, <1>2, <1>4, AppendProperties, LenProperties

(* A packet less at the head. *)
LEMMA Shorter ==
  ASSUME NEW q, Sequence(q), q # <<>>
  PROVE  /\ Sequence(Tail(q)) /\ Len(q) \in Nat /\ Len(q) > 0 /\ Len(Tail(q)) = Len(q) - 1
         /\ \A i \in 1..(Len(q) - 1) : Tail(q)[i] = q[i + 1]
         /\ Head(q) = q[1]
<1>1. Tail(q) \in Seq(Range(q)) /\ Len(Tail(q)) = Len(q) - 1 /\ Len(q) \in Nat /\ Len(q) > 0
      /\ (\A i \in 1..(Len(q) - 1) : Tail(q)[i] = q[i + 1]) /\ Head(q) = q[1]
  BY HeadTailProperties, LenProperties, EmptySeq DEF Sequence
<1>2. Sequence(Tail(q))
  BY <1>1, SeqOfRange DEF Sequence
<1> QED
  BY <1>1, <1>2

-----------------------------------------------------------------------------
(* No answer is put twice. *)
LEMMA AnswersAreNew ==
  ASSUME NEW x, NEW w, NEW m, Expects(x, w, m) PROVE Answer(x, m) \cap w = {}
<1> USE DEF Kex, Auth
<1>1. CASE m.t = "HELLO" \/ (m.t = "KEXINIT" /\ x.pc = "run")
  BY <1>1 DEF Answer, Expects
<1>2. CASE Exchanged(x, m)
  BY <1>2 DEF Answer, Expects, Exchanged
<1>3. CASE m.t = "SERVICE"
  BY <1>3 DEF Answer, Expects, Exchanged
<1>4. CASE m.t = "USERAUTH"
  BY <1>4 DEF Answer, Expects, Exchanged, Verdicts
<1> QED
  BY <1>1, <1>2, <1>3, <1>4 DEF Answer

(* One packet is a step onward. *)
LEMMA StepsOnward ==
  ASSUME NEW x, NEW w, NEW m, Expects(x, w, m)
  PROVE  Onward(x, w, After(x, m), w \cup Answer(x, m))
<1> DEFINE y == After(x, m)
           v == w \cup Answer(x, m)
<1>1. "NEWKEYS" \in w => Answer(x, m) \cap Kex = {} /\ ~Exchanged(x, m)
  BY DEF Answer, Expects, Exchanged, Kex, Verdicts
<1>2. "KEXINIT" \in w => "KEXINIT" \notin Answer(x, m)
  BY AnswersAreNew
<1>3. y.hash = (IF Exchanged(x, m) THEN NewHash(x, m) ELSE x.hash)
      /\ y.session = (IF Exchanged(x, m) /\ x.session = NoHash THEN NewHash(x, m) ELSE x.session)
      /\ y.si = (IF "KEXINIT" \in Answer(x, m) THEN x.si + 1 ELSE x.si)
  BY DEF After
<1>5. x.pc \notin {"hello", "kexinit"} => y.pc \notin {"hello", "kexinit"} /\ (y.strict <=> x.strict)
  <2>1. y.pc = Place(x, m)
        /\ y.strict = (IF m.t = "KEXINIT" THEN x.strict \/ StrictToken \in Range(m.b.kex) ELSE x.strict)
    BY DEF After
  <2> QED
    BY <2>1 DEF Place, AfterParse, Expects
<1> HIDE DEF y
<1>4. Onward(x, w, y, v)
  BY <1>1, <1>2, <1>3, <1>5 DEF Onward
<1> QED
  BY <1>4 DEF y

(* Going onward goes on. *)
LEMMA OnwardOn ==
  ASSUME NEW x, NEW w, NEW y, NEW v, NEW z, NEW u, Onward(x, w, y, v), Onward(y, v, z, u)
  PROVE  Onward(x, w, z, u)
  BY DEF Onward

(* To stay is to go onward. *)
LEMMA OnwardStays == \A x, w : Onward(x, w, x, w)
  BY DEF Onward

(* Nothing on its way. *)
Starts(x, w) == \E f, o : Script(<<>>, f, o) /\ f[1] = x /\ o[1] = w

(* Nothing on its way has a script from anywhere. *)
LEMMA ScriptEmpty == ASSUME NEW x, NEW w PROVE Starts(x, w)
<1> DEFINE f == <<x>>
           o == <<w>>
<1>1. f[1] = x /\ o[1] = w
  OBVIOUS
<1>2. Len(<<>>) = 0
  OBVIOUS
<1> HIDE DEF f, o
<1>3. Script(<<>>, f, o)
  BY <1>1, <1>2, OnwardStays DEF Script
<1> QED
  BY <1>1, <1>3 DEF Starts

(* A packet more, at the client's end. *)
Continued(q, f, o, m) ==
  \E g, u : /\ Script(Append(q, m), g, u)
            /\ g[1] = f[1] /\ u[1] = o[1]
            /\ g[Len(q) + 2] = After(f[Len(q) + 1], m)
            /\ u[Len(q) + 2] = o[Len(q) + 1] \cup Answer(f[Len(q) + 1], m)

(* A legal packet more prolongs the script. *)
LEMMA ScriptLonger ==
  ASSUME NEW q, Sequence(q), NEW f, NEW o, NEW m, Script(q, f, o),
         Legal(f[Len(q) + 1], o[Len(q) + 1], m)
  PROVE  Continued(q, f, o, m)
<1> DEFINE n == Len(q) + 1
           r == Append(q, m)
           y == After(f[n], m)
           v == o[n] \cup Answer(f[n], m)
           g == [i \in 1..(n + 1) |-> IF i <= n THEN f[i] ELSE y]
           u == [i \in 1..(n + 1) |-> IF i <= n THEN o[i] ELSE v]
<1>0. Len(q) \in Nat /\ Len(r) = n /\ (\A i \in 1..Len(q) : r[i] = q[i]) /\ r[n] = m
  BY Longer
<1>1. \A i \in 1..n : g[i] = f[i] /\ u[i] = o[i]
  BY <1>0
<1>2. g[n + 1] = y /\ u[n + 1] = v
  BY <1>0
<1>3. Onward(f[n], o[n], y, v)
  BY StepsOnward DEF Legal
<1> HIDE DEF g, u, y, v, r
<1>4. ASSUME NEW i \in 1..n
      PROVE  /\ Legal(g[i], u[i], r[i])
             /\ g[i + 1] = After(g[i], r[i])
             /\ u[i + 1] = u[i] \cup Answer(g[i], r[i])
  <2>1. CASE i = n
    BY <1>0, <1>1, <1>2, <2>1 DEF y, v
  <2>2. CASE i # n
    <3>1. i \in 1..Len(q) /\ i + 1 \in 1..n
      BY <1>0, <2>2
    <3> QED
      BY <1>0, <1>1, <3>1 DEF Script
  <2> QED
    BY <2>1, <2>2
<1>5. ASSUME NEW i \in 1..(n + 1), NEW j \in i..(n + 1)
      PROVE  Onward(g[i], u[i], g[j], u[j])
  <2>1. CASE j \in 1..n
    <3>1. i \in 1..n /\ j \in i..n
      BY <1>0, <2>1
    <3> QED
      BY <1>1, <3>1 DEF Script
  <2>2. CASE j = n + 1 /\ i \in 1..n
    <3>1. Onward(f[i], o[i], f[n], o[n])
      BY <1>0, <2>2 DEF Script
    <3>2. Onward(f[i], o[i], y, v)
      BY <1>3, <3>1, OnwardOn
    <3> QED
      BY <1>1, <1>2, <2>2, <3>2
  <2>3. CASE j = n + 1 /\ i = n + 1
    BY <2>3, OnwardStays
  <2> QED
    BY <1>0, <2>1, <2>2, <2>3
<1>6. Script(r, g, u)
  BY <1>0, <1>4, <1>5 DEF Script
<1>7. g[1] = f[1] /\ u[1] = o[1]
  BY <1>0, <1>1
<1>8. Len(q) + 2 = n + 1
  BY <1>0
<1> QED
  BY <1>2, <1>6, <1>7, <1>8 DEF Continued, r, y, v

(* A packet less, at the server's. *)
LEMMA ScriptShorter ==
  ASSUME NEW q, Sequence(q), q # <<>>, NEW f, NEW o, Script(q, f, o)
  PROVE  /\ Legal(f[1], o[1], Head(q))
         /\ \E g, u : /\ Script(Tail(q), g, u)
                      /\ g[1] = After(f[1], Head(q))
                      /\ u[1] = o[1] \cup Answer(f[1], Head(q))
                      /\ g[Len(q)] = f[Len(q) + 1] /\ u[Len(q)] = o[Len(q) + 1]
<1> DEFINE n == Len(q)
           r == Tail(q)
           g == [i \in 1..n |-> f[i + 1]]
           u == [i \in 1..n |-> o[i + 1]]
<1>0. n \in Nat /\ n > 0 /\ Len(r) = n - 1 /\ (\A i \in 1..(n - 1) : r[i] = q[i + 1]) /\ Head(q) = q[1]
  BY Shorter
<1>1. \A i \in 1..n : g[i] = f[i + 1] /\ u[i] = o[i + 1]
  OBVIOUS
<1> HIDE DEF g, u, r, n
<1>2. ASSUME NEW i \in 1..(n - 1)
      PROVE  /\ Legal(g[i], u[i], r[i])
             /\ g[i + 1] = After(g[i], r[i])
             /\ u[i + 1] = u[i] \cup Answer(g[i], r[i])
  <2>1. i \in 1..n /\ i + 1 \in 1..n /\ r[i] = q[i + 1]
    BY <1>0
  <2>2. Legal(f[i + 1], o[i + 1], q[i + 1])
        /\ f[(i + 1) + 1] = After(f[i + 1], q[i + 1])
        /\ o[(i + 1) + 1] = o[i + 1] \cup Answer(f[i + 1], q[i + 1])
    BY <2>1 DEF Script, n
  <2> QED
    BY <1>1, <2>1, <2>2
<1>3. ASSUME NEW i \in 1..n, NEW j \in i..n
      PROVE  Onward(g[i], u[i], g[j], u[j])
  <2>1. j \in 1..n /\ i + 1 \in 1..(n + 1) /\ j + 1 \in (i + 1)..(n + 1)
    BY <1>0
  <2>2. Onward(f[i + 1], o[i + 1], f[j + 1], o[j + 1])
    BY <2>1 DEF Script, n
  <2> QED
    BY <1>1, <2>1, <2>2
<1>4. Script(r, g, u)
  <2>1. Len(r) + 1 = n
    BY <1>0
  <2> QED
    BY <1>0, <1>2, <1>3, <2>1 DEF Script
<1>5. Legal(f[1], o[1], q[1]) /\ f[1 + 1] = After(f[1], q[1]) /\ o[1 + 1] = o[1] \cup Answer(f[1], q[1])
  BY <1>0 DEF Script, n
<1>6. g[1] = f[1 + 1] /\ u[1] = o[1 + 1] /\ g[n] = f[n + 1] /\ u[n] = o[n + 1]
  BY <1>0, <1>1
<1> QED
  BY <1>0, <1>4, <1>5, <1>6 DEF n, r

(* An answer less, when the client has it. *)
LEMMA ScriptHeard ==
  ASSUME NEW q, Sequence(q), NEW f, NEW o, Script(q, f, o), NEW t \in o[1]
  PROVE  \E u : /\ Script(q, f, u)
                /\ u[1] = o[1] \ {t} /\ u[Len(q) + 1] = o[Len(q) + 1] \ {t}
<1> DEFINE n == Len(q) + 1
           u == [i \in 1..n |-> o[i] \ {t}]
<1>0. Len(q) \in Nat /\ n \in Nat /\ 1 \in 1..n /\ n \in 1..n
  BY LenProperties DEF Sequence
<1>1. \A i \in 1..n : u[i] = o[i] \ {t}
  OBVIOUS
<1> HIDE DEF u
<1>2. ASSUME NEW i \in 1..n PROVE t \in o[i]
  <2>1. Onward(f[1], o[1], f[i], o[i])
    BY <1>0 DEF Script
  <2> QED
    BY <2>1 DEF Onward
<1>3. ASSUME NEW i \in 1..Len(q)
      PROVE  /\ Legal(f[i], u[i], q[i])
             /\ u[i + 1] = u[i] \cup Answer(f[i], q[i])
  <2>1. i \in 1..n /\ i + 1 \in 1..n
    BY <1>0
  <2>2. Legal(f[i], o[i], q[i]) /\ o[i + 1] = o[i] \cup Answer(f[i], q[i])
    BY DEF Script
  <2>3. t \notin Answer(f[i], q[i])
    BY <1>2, <2>1, <2>2, AnswersAreNew DEF Legal
  <2>4. ASSUME NEW x, NEW w, NEW m, Expects(x, w, m) PROVE Expects(x, w \ {t}, m)
    BY <2>4 DEF Expects
  <2>5. Legal(f[i], u[i], q[i])
    BY <1>1, <2>1, <2>2, <2>4 DEF Legal
  <2>6. u[i + 1] = u[i] \cup Answer(f[i], q[i])
    BY <1>1, <2>1, <2>2, <2>3
  <2> QED
    BY <2>5, <2>6
<1>4. ASSUME NEW i \in 1..n, NEW j \in i..n PROVE Onward(f[i], u[i], f[j], u[j])
  <2>1. j \in 1..n /\ Onward(f[i], o[i], f[j], o[j])
    BY <1>0 DEF Script
  <2>2. ASSUME NEW x, NEW w, NEW y, NEW v, Onward(x, w, y, v) PROVE Onward(x, w \ {t}, y, v \ {t})
    BY <2>2 DEF Onward
  <2> QED
    BY <1>1, <2>1, <2>2
<1>5. Script(q, f, u)
  BY <1>3, <1>4 DEF Script
<1> QED
  BY <1>0, <1>1, <1>5

-----------------------------------------------------------------------------
(* What is on its way to the client. *)

(* A packet of type t may come behind those of types T. *)
Behind(T, t) ==
  /\ t \in Kex \cup Auth => t \notin T
  /\ t = "KEXINIT" => "REPLY" \notin T /\ "NEWKEYS" \notin T
  /\ t = "REPLY" => "NEWKEYS" \notin T

Arranged(q) ==
  \A j \in 1..Len(q) : \A i \in 1..(j - 1) :
    /\ q[j].t \in Kex \cup Auth => q[i].t # q[j].t
    /\ q[j].t = "KEXINIT" => q[i].t # "REPLY" /\ q[i].t # "NEWKEYS"
    /\ q[j].t = "REPLY" => q[i].t # "NEWKEYS"

(* The packets up to a NEWKEYS are under key k, those behind it under l, which
   is in use when all have gone. *)
Renewed(q, i) == \E j \in 1..(i - 1) : q[j].t = "NEWKEYS"
Keyed(q, k, l) ==
  /\ \A i \in 1..Len(q) : q[i].key = IF Renewed(q, i) THEN l ELSE k
  /\ "NEWKEYS" \notin Types(q) => k = l

(* Their numbers go from a on and the next one is z; s is strict mode. *)
NextId(m, s) == IF m.t = "NEWKEYS" /\ s THEN 0 ELSE m.id + 1
Counted(q, a, z, s) ==
  /\ \A i \in 1..Len(q) : q[i].id = IF i = 1 THEN a ELSE NextId(q[i - 1], s)
  /\ z = IF Len(q) = 0 THEN a ELSE NextId(q[Len(q)], s)

Readable(q, k, l, a, z, s) == Arranged(q) /\ Keyed(q, k, l) /\ Counted(q, a, z, s)

(* The KEXINIT has number si, the REPLY is to exchange h. *)
Means(q, si, h) ==
  \A i \in 1..Len(q) : /\ q[i].t = "KEXINIT" => q[i].b = si
                       /\ q[i].t = "REPLY" => q[i].b = h

(* The types of a longer stream. *)
LEMMA TypesLonger ==
  ASSUME NEW q, Sequence(q), NEW m PROVE Types(Append(q, m)) = Types(q) \cup {m.t}
<1> DEFINE r == Append(q, m)
<1>1. Len(q) \in Nat /\ Len(r) = Len(q) + 1 /\ (\A i \in 1..Len(q) : r[i] = q[i]) /\ r[Len(q) + 1] = m
  BY Longer
<1> HIDE DEF r
<1>2. Types(r) = Types(q) \cup {m.t}
  <2>1. ASSUME NEW t \in Types(r) PROVE t \in Types(q) \cup {m.t}
    <3>1. PICK i \in 1..Len(r) : t = r[i].t
      BY DEF Types
    <3>2. i \in 1..Len(q) \/ i = Len(q) + 1
      BY <1>1, <3>1
    <3> QED
      BY <1>1, <3>1, <3>2 DEF Types
  <2>2. ASSUME NEW t \in Types(q) PROVE t \in Types(r)
    <3>1. PICK i \in 1..Len(q) : t = q[i].t
      BY DEF Types
    <3>2. i \in 1..Len(r) /\ t = r[i].t
      BY <1>1, <3>1
    <3> QED
      BY <3>2 DEF Types
  <2>3. m.t \in Types(r)
    <3>1. Len(q) + 1 \in 1..Len(r)
      BY <1>1
    <3> QED
      BY <1>1, <3>1 DEF Types
  <2> QED
    BY <2>1, <2>2, <2>3
<1> QED
  BY <1>2 DEF r

(* What the head of the stream leaves. *)
LEMMA TypesShorter ==
  ASSUME NEW q, Sequence(q), q # <<>>, Arranged(q)
  PROVE  /\ Head(q).t \in Types(q)
         /\ Types(Tail(q)) \cap (Kex \cup Auth) = (Types(q) \cap (Kex \cup Auth)) \ {Head(q).t}
         /\ Head(q).t = "REPLY" => "KEXINIT" \notin Types(q)
         /\ Head(q).t = "NEWKEYS" => "KEXINIT" \notin Types(q) /\ "REPLY" \notin Types(q)
<1> DEFINE r == Tail(q)
           m == Head(q)
           W == Kex \cup Auth
<1>1. Len(q) \in Nat /\ Len(q) > 0 /\ Len(r) = Len(q) - 1
      /\ (\A i \in 1..(Len(q) - 1) : r[i] = q[i + 1]) /\ m = q[1]
  BY Shorter
<1> HIDE DEF r, m, W
<1>2. m.t \in Types(q)
  <2>1. 1 \in 1..Len(q)
    BY <1>1
  <2> QED
    BY <1>1, <2>1 DEF Types
<1>3. ASSUME NEW j \in 2..Len(q)
      PROVE  /\ q[j].t \in W => m.t # q[j].t
             /\ q[j].t = "KEXINIT" => m.t # "REPLY" /\ m.t # "NEWKEYS"
             /\ q[j].t = "REPLY" => m.t # "NEWKEYS"
  <2>1. j \in 1..Len(q) /\ 1 \in 1..(j - 1)
    BY <1>1
  <2> QED
    BY <1>1, <2>1 DEF Arranged, W
<1>4. ASSUME NEW t \in Types(r) PROVE \E j \in 2..Len(q) : t = q[j].t
  <2>1. PICK i \in 1..Len(r) : t = r[i].t
    BY DEF Types
  <2>2. i + 1 \in 2..Len(q) /\ t = q[i + 1].t
    BY <1>1, <2>1
  <2> QED
    BY <2>2
<1>5. ASSUME NEW t \in Types(q), t # m.t PROVE t \in Types(r) /\ \E j \in 2..Len(q) : t = q[j].t
  <2>1. PICK i \in 1..Len(q) : t = q[i].t
    BY DEF Types
  <2>2. i \in 2..Len(q) /\ i - 1 \in 1..Len(r) /\ r[i - 1] = q[(i - 1) + 1] /\ (i - 1) + 1 = i
    BY <1>1, <1>5, <2>1
  <2> QED
    BY <2>1, <2>2 DEF Types
<1>6. ASSUME NEW t \in Types(r) PROVE t \in Types(q)
  <2>1. PICK j \in 2..Len(q) : t = q[j].t
    BY <1>4
  <2>2. j \in 1..Len(q)
    BY <1>1
  <2> QED
    BY <2>1, <2>2 DEF Types
<1>7. Types(r) \cap W = (Types(q) \cap W) \ {m.t}
  BY <1>3, <1>4, <1>5, <1>6
<1>8. m.t = "REPLY" => "KEXINIT" \notin Types(q)
  BY <1>3, <1>5
<1>9. m.t = "NEWKEYS" => "KEXINIT" \notin Types(q) /\ "REPLY" \notin Types(q)
  BY <1>3, <1>5
<1> QED
  BY <1>2, <1>7, <1>8, <1>9 DEF r, m, W

(* A packet more. *)
LEMMA ArrangedLonger ==
  ASSUME NEW q, Sequence(q), NEW m, Arranged(q), Behind(Types(q), m.t)
  PROVE  Arranged(Append(q, m))
<1> DEFINE r == Append(q, m)
           n == Len(q) + 1
<1>1. Len(q) \in Nat /\ Len(r) = n /\ (\A i \in 1..Len(q) : r[i] = q[i]) /\ r[n] = m
  BY Longer
<1> HIDE DEF r
<1>2. ASSUME NEW j \in 1..n, NEW i \in 1..(j - 1)
      PROVE  /\ r[j].t \in Kex \cup Auth => r[i].t # r[j].t
             /\ r[j].t = "KEXINIT" => r[i].t # "REPLY" /\ r[i].t # "NEWKEYS"
             /\ r[j].t = "REPLY" => r[i].t # "NEWKEYS"
  <2>1. CASE j \in 1..Len(q)
    <3>1. i \in 1..Len(q)
      BY <1>1, <2>1
    <3> QED
      BY <1>1, <2>1, <3>1 DEF Arranged
  <2>2. CASE j = n
    <3>1. i \in 1..Len(q)
      BY <1>1, <2>2
    <3>2. r[i].t \in Types(q)
      BY <1>1, <3>1 DEF Types
    <3> QED
      BY <1>1, <2>2, <3>2 DEF Behind
  <2> QED
    BY <1>1, <2>1, <2>2
<1>3. Arranged(r)
  BY <1>1, <1>2 DEF Arranged
<1> QED
  BY <1>3 DEF r

(* A packet with the next number can be added. *)
LEMMA CountedLonger ==
  ASSUME NEW q, Sequence(q), NEW m, NEW a, NEW s, Counted(q, a, m.id, s)
  PROVE  Counted(Append(q, m), a, NextId(m, s), s)
<1> DEFINE r == Append(q, m)
           n == Len(q) + 1
<1>1. Len(q) \in Nat /\ Len(r) = n /\ (\A i \in 1..Len(q) : r[i] = q[i]) /\ r[n] = m
  BY Longer
<1> HIDE DEF r
<1>2. ASSUME NEW i \in 1..n PROVE r[i].id = IF i = 1 THEN a ELSE NextId(r[i - 1], s)
  <2>1. CASE i \in 1..Len(q)
    <3>1. i # 1 => i - 1 \in 1..Len(q)
      BY <2>1
    <3> QED
      BY <1>1, <2>1, <3>1 DEF Counted
  <2>2. CASE i = n
    <3>1. i # 1 => i - 1 = Len(q) /\ Len(q) # 0 /\ Len(q) \in 1..Len(q)
      BY <1>1, <2>2
    <3>2. i = 1 => Len(q) = 0
      BY <1>1, <2>2
    <3> QED
      BY <1>1, <2>2, <3>1, <3>2 DEF Counted
  <2> QED
    BY <1>1, <2>1, <2>2
<1>3. NextId(m, s) = IF Len(r) = 0 THEN a ELSE NextId(r[Len(r)], s)
  BY <1>1
<1>4. Counted(r, a, NextId(m, s), s)
  BY <1>1, <1>2, <1>3 DEF Counted
<1> QED
  BY <1>4 DEF r

(* So can one under the key in use, and a NEWKEYS changes that key. *)
LEMMA KeyedLonger ==
  ASSUME NEW q, Sequence(q), NEW m, NEW k, NEW l, Keyed(q, k, l), NEW x,
         \/ m.t # "NEWKEYS" /\ m.key = l /\ x = l
         \/ m.t = "NEWKEYS" /\ "NEWKEYS" \notin Types(q) /\ m.key = l
  PROVE  Keyed(Append(q, m), k, x)
<1> DEFINE r == Append(q, m)
           n == Len(q) + 1
<1>1. Len(q) \in Nat /\ Len(r) = n /\ (\A i \in 1..Len(q) : r[i] = q[i]) /\ r[n] = m
  BY Longer
<1>2. Types(r) = Types(q) \cup {m.t}
  BY TypesLonger
<1> HIDE DEF r
<1>3. ASSUME NEW i \in 1..n PROVE Renewed(r, i) <=> Renewed(q, i)
  <2>1. \A j \in 1..(i - 1) : r[j] = q[j]
    BY <1>1
  <2> QED
    BY <2>1 DEF Renewed
<1>4. Renewed(q, n) <=> "NEWKEYS" \in Types(q)
  <2>1. n - 1 = Len(q)
    BY <1>1
  <2> QED
    BY <2>1 DEF Renewed, Types
<1>5. ASSUME NEW i \in 1..Len(q) PROVE Renewed(q, i) => "NEWKEYS" \in Types(q)
  <2>1. \A j \in 1..(i - 1) : j \in 1..Len(q)
    BY <1>1
  <2> QED
    BY <2>1 DEF Renewed, Types
<1>6. ASSUME NEW i \in 1..n PROVE r[i].key = IF Renewed(r, i) THEN x ELSE k
  <2>1. CASE i \in 1..Len(q)
    BY <1>1, <1>3, <1>5, <2>1 DEF Keyed
  <2>2. CASE i = n
    BY <1>1, <1>3, <1>4, <2>2 DEF Keyed
  <2> QED
    BY <1>1, <2>1, <2>2
<1>7. "NEWKEYS" \notin Types(r) => k = x
  BY <1>2 DEF Keyed
<1>8. Keyed(r, k, x)
  BY <1>1, <1>6, <1>7 DEF Keyed
<1> QED
  BY <1>8 DEF r

(* A packet the server puts leaves the stream readable. *)
LEMMA ReadableLonger ==
  ASSUME NEW q, Sequence(q), NEW m, NEW k, NEW l, NEW a, NEW s,
         Readable(q, k, l, a, m.id, s), Behind(Types(q), m.t), m.key = l
  PROVE  /\ m.t # "NEWKEYS" => Readable(Append(q, m), k, l, a, m.id + 1, s)
         /\ m.t = "NEWKEYS" => \A x : Readable(Append(q, m), k, x, a, NextId(m, s), s)
<1>1. Arranged(Append(q, m)) /\ Counted(Append(q, m), a, NextId(m, s), s)
  BY ArrangedLonger, CountedLonger DEF Readable
<1>2. m.t # "NEWKEYS" => NextId(m, s) = m.id + 1
  BY DEF NextId
<1>3. m.t # "NEWKEYS" => Keyed(Append(q, m), k, l)
  BY KeyedLonger DEF Readable
<1>4. m.t = "NEWKEYS" => \A x : Keyed(Append(q, m), k, x)
  <2> SUFFICES ASSUME m.t = "NEWKEYS", NEW x PROVE Keyed(Append(q, m), k, x)
    OBVIOUS
  <2>1. "NEWKEYS" \notin Types(q)
    BY DEF Behind, Kex
  <2>2. Keyed(q, k, l)
    BY DEF Readable
  <2> QED
    BY <2>1, <2>2, KeyedLonger
<1> QED
  BY <1>1, <1>2, <1>3, <1>4 DEF Readable

(* A packet less. *)
LEMMA ArrangedShorter ==
  ASSUME NEW q, Sequence(q), q # <<>>, Arranged(q)
  PROVE  Arranged(Tail(q))
<1> DEFINE r == Tail(q)
<1>1. Len(q) \in Nat /\ Len(q) > 0 /\ Len(r) = Len(q) - 1
      /\ (\A i \in 1..(Len(q) - 1) : r[i] = q[i + 1])
  BY Shorter
<1> HIDE DEF r
<1>2. ASSUME NEW j \in 1..Len(r), NEW i \in 1..(j - 1)
      PROVE  /\ j + 1 \in 1..Len(q) /\ i + 1 \in 1..((j + 1) - 1)
             /\ r[j] = q[j + 1] /\ r[i] = q[i + 1]
  BY <1>1
<1>3. Arranged(r)
  BY <1>2 DEF Arranged
<1> QED
  BY <1>3 DEF r

(* The head has the number that is expected. *)
LEMMA CountedShorter ==
  ASSUME NEW q, Sequence(q), q # <<>>, NEW a, NEW z, NEW s, Counted(q, a, z, s)
  PROVE  Head(q).id = a /\ Counted(Tail(q), NextId(Head(q), s), z, s)
<1> DEFINE r == Tail(q)
           m == Head(q)
<1>1. Len(q) \in Nat /\ Len(q) > 0 /\ Len(r) = Len(q) - 1
      /\ (\A i \in 1..(Len(q) - 1) : r[i] = q[i + 1]) /\ m = q[1]
  BY Shorter
<1> HIDE DEF r, m
<1>2. m.id = a
  BY <1>1 DEF Counted
<1>3. ASSUME NEW i \in 1..Len(r) PROVE r[i].id = IF i = 1 THEN NextId(m, s) ELSE NextId(r[i - 1], s)
  <2>1. i + 1 \in 1..Len(q) /\ i + 1 # 1 /\ (i + 1) - 1 = i /\ r[i] = q[i + 1]
    BY <1>1
  <2>2. r[i].id = NextId(q[i], s)
    BY <2>1 DEF Counted
  <2>3. i # 1 => r[i - 1] = q[(i - 1) + 1] /\ (i - 1) + 1 = i
    BY <1>1
  <2> QED
    BY <1>1, <2>2, <2>3
<1>4. z = IF Len(r) = 0 THEN NextId(m, s) ELSE NextId(r[Len(r)], s)
  <2>1. z = NextId(q[Len(q)], s)
    BY <1>1 DEF Counted
  <2>2. Len(r) # 0 => r[Len(r)] = q[Len(r) + 1]
    BY <1>1
  <2>3. Len(r) + 1 = Len(q)
    BY <1>1
  <2> QED
    BY <1>1, <2>1, <2>2, <2>3
<1>5. Counted(r, NextId(m, s), z, s)
  BY <1>3, <1>4 DEF Counted
<1> QED
  BY <1>2, <1>5 DEF r, m

(* The head is under the key that is expected. *)
LEMMA KeyedShorter ==
  ASSUME NEW q, Sequence(q), q # <<>>, NEW k, NEW l, Keyed(q, k, l), Arranged(q)
  PROVE  /\ Head(q).key = k
         /\ Keyed(Tail(q), IF Head(q).t = "NEWKEYS" THEN l ELSE k, l)
<1> DEFINE r == Tail(q)
           m == Head(q)
<1>1. Len(q) \in Nat /\ Len(q) > 0 /\ Len(r) = Len(q) - 1
      /\ (\A i \in 1..(Len(q) - 1) : r[i] = q[i + 1]) /\ m = q[1]
  BY Shorter
<1>2. "NEWKEYS" \in Types(r) <=> "NEWKEYS" \in Types(q) /\ m.t # "NEWKEYS"
  <2>1. "NEWKEYS" \in Kex \cup Auth
    BY DEF Kex
  <2> QED
    BY <2>1, TypesShorter
<1> HIDE DEF r, m
<1>3. m.key = k
  BY <1>1 DEF Keyed, Renewed
<1>4. ASSUME NEW i \in 1..Len(r)
      PROVE  Renewed(q, i + 1) <=> m.t = "NEWKEYS" \/ Renewed(r, i)
  <2>1. ASSUME NEW j \in 1..((i + 1) - 1), q[j].t = "NEWKEYS", j # 1 PROVE Renewed(r, i)
    <3>1. j - 1 \in 1..(i - 1) /\ r[j - 1] = q[(j - 1) + 1] /\ (j - 1) + 1 = j
      BY <1>1, <2>1
    <3> QED
      BY <2>1, <3>1 DEF Renewed
  <2>2. ASSUME NEW j \in 1..(i - 1), r[j].t = "NEWKEYS" PROVE Renewed(q, i + 1)
    <3>1. j + 1 \in 1..((i + 1) - 1) /\ r[j] = q[j + 1]
      BY <1>1, <2>2
    <3> QED
      BY <2>2, <3>1 DEF Renewed
  <2>3. 1 \in 1..((i + 1) - 1)
    BY <1>1
  <2> QED
    BY <1>1, <2>1, <2>2, <2>3 DEF Renewed
<1>5. ASSUME NEW i \in 1..Len(r)
      PROVE  r[i].key = IF Renewed(r, i) THEN l ELSE IF m.t = "NEWKEYS" THEN l ELSE k
  <2>1. i + 1 \in 1..Len(q) /\ r[i] = q[i + 1]
    BY <1>1
  <2>2. r[i].key = IF Renewed(q, i + 1) THEN l ELSE k
    BY <2>1 DEF Keyed
  <2> QED
    BY <1>4, <2>2
<1>6. Keyed(r, IF m.t = "NEWKEYS" THEN l ELSE k, l)
  BY <1>2, <1>5 DEF Keyed
<1> QED
  BY <1>3, <1>6 DEF r, m

(* The client can read the head, and the rest after it. *)
LEMMA ReadableShorter ==
  ASSUME NEW q, Sequence(q), q # <<>>, NEW k, NEW l, NEW a, NEW z, NEW s,
         Readable(q, k, l, a, z, s)
  PROVE  /\ Head(q).key = k /\ Head(q).id = a
         /\ Readable(Tail(q), IF Head(q).t = "NEWKEYS" THEN l ELSE k, l,
                     IF Head(q).t = "NEWKEYS" /\ s THEN 0 ELSE a + 1, z, s)
<1>1. Arranged(Tail(q))
  BY ArrangedShorter DEF Readable
<1>2. Head(q).id = a /\ Counted(Tail(q), NextId(Head(q), s), z, s)
  BY CountedShorter DEF Readable
<1>3. Head(q).key = k /\ Keyed(Tail(q), IF Head(q).t = "NEWKEYS" THEN l ELSE k, l)
  BY KeyedShorter DEF Readable
<1>4. NextId(Head(q), s) = IF Head(q).t = "NEWKEYS" /\ s THEN 0 ELSE a + 1
  BY <1>2 DEF NextId
<1> QED
  BY <1>1, <1>2, <1>3, <1>4 DEF Readable

(* Nothing is readable. *)
LEMMA ReadableEmpty ==
  ASSUME NEW k, NEW a, NEW s PROVE Readable(<<>>, k, k, a, a, s)
<1>1. Len(<<>>) = 0
  OBVIOUS
<1> QED
  BY <1>1 DEF Readable, Arranged, Keyed, Counted

(* The bodies. *)
LEMMA MeansLonger ==
  ASSUME NEW q, Sequence(q), NEW m, NEW si, NEW h, Means(q, si, h),
         m.t = "KEXINIT" => m.b = si, m.t = "REPLY" => m.b = h
  PROVE  Means(Append(q, m), si, h)
<1> DEFINE r == Append(q, m)
<1>1. Len(q) \in Nat /\ Len(r) = Len(q) + 1 /\ (\A i \in 1..Len(q) : r[i] = q[i]) /\ r[Len(q) + 1] = m
  BY Longer
<1> HIDE DEF r
<1>2. \A i \in 1..Len(r) : i \in 1..Len(q) \/ i = Len(q) + 1
  BY <1>1
<1>3. Means(r, si, h)
  BY <1>1, <1>2 DEF Means
<1> QED
  BY <1>3 DEF r

(* The bodies of the head and of the rest. *)
LEMMA MeansShorter ==
  ASSUME NEW q, Sequence(q), q # <<>>, NEW si, NEW h, Means(q, si, h)
  PROVE  /\ Head(q).t = "KEXINIT" => Head(q).b = si
         /\ Head(q).t = "REPLY" => Head(q).b = h
         /\ Means(Tail(q), si, h)
<1> DEFINE r == Tail(q)
<1>1. Len(q) \in Nat /\ Len(q) > 0 /\ Len(r) = Len(q) - 1
      /\ (\A i \in 1..(Len(q) - 1) : r[i] = q[i + 1]) /\ Head(q) = q[1]
  BY Shorter
<1> HIDE DEF r
<1>2. 1 \in 1..Len(q) /\ \A i \in 1..Len(r) : i + 1 \in 1..Len(q) /\ r[i] = q[i + 1]
  BY <1>1
<1>3. Means(r, si, h)
  BY <1>2 DEF Means
<1> QED
  BY <1>1, <1>2, <1>3 DEF Means, r

(* Where there is no KEXINIT or REPLY, they may mean anything. *)
LEMMA MeansAnew ==
  ASSUME NEW q, NEW si, NEW h, NEW sj, NEW g, Means(q, si, h),
         "KEXINIT" \in Types(q) => sj = si, "REPLY" \in Types(q) => g = h
  PROVE  Means(q, sj, g)
  BY DEF Means, Types

-----------------------------------------------------------------------------
(* What the server does with a packet it expects: nothing that After does not
   foretell, unless a number overflows or the client has sent too many. *)

(* A packet of type t and body b is put. *)
Adds(t, b) ==
  /\ s2c' = Append(s2c, Packet(t, b, SendKey, sendid))
  /\ sendid' = sendid + 1

AddsPair(h) ==
  /\ s2c' = Append(Append(s2c, Packet("REPLY", h, SendKey, sendid)),
                   Packet("NEWKEYS", 0, SendKey, sendid + 1))
  /\ sendid' = IF strict THEN 0 ELSE sendid + 2

(* packet_put of one packet that fits (packet_put.c). *)
LEMMA PutSingle ==
  ASSUME NEW t, NEW b, Put(<<t>>, <<b>>), Fits(<<t>>), t # "NEWKEYS", SendTypes, Streams
  PROVE  Adds(t, b)
<1> DEFINE p(i) == Packet(<<t>>[i], <<b>>[i], SendKey, Wrap(sendid + i - 1))
           new == [i \in 1..1 |-> p(i)]
           one == Packet(t, b, SendKey, sendid)
<1>1. sendid \in Nat /\ sendid + 1 <= IdMax
  BY DEF Fits, SendTypes
<1>2. Wrap(sendid + 1 - 1) = sendid /\ Wrap(sendid + 1) = sendid + 1
  BY <1>1, Constants DEF Wrap
<1>3. p(1) = one
  BY <1>2
<1>4. s2c' = s2c \o new /\ sendid' = sendid + 1
  BY <1>2 DEF Put
<1> HIDE DEF p, one
<1>5. new = <<one>>
  BY <1>3
<1> HIDE DEF new
<1>6. s2c \o <<one>> = Append(s2c, one)
  <2> DEFINE S == Range(s2c) \cup {one}
  <2>1. Range(s2c) \subseteq S /\ one \in S
    OBVIOUS
  <2> HIDE DEF S
  <2>2. s2c \in Seq(S)
    BY <2>1, SeqMonotonic DEF Streams
  <2> QED
    BY <2>1, <2>2, AppendIsConcat
<1> QED
  BY <1>4, <1>5, <1>6 DEF Adds, one

(* packet_kexdh puts the REPLY and the NEWKEYS (packet_kexdh.c). *)
LEMMA PutPair ==
  ASSUME NEW h, Put(<<"REPLY", "NEWKEYS">>, <<h, 0>>), Fits(<<"REPLY", "NEWKEYS">>),
         SendTypes, Streams
  PROVE  AddsPair(h)
<1> DEFINE ts == <<"REPLY", "NEWKEYS">>
           bs == <<h, 0>>
           p(i) == Packet(ts[i], bs[i], SendKey, Wrap(sendid + i - 1))
           new == [i \in 1..2 |-> p(i)]
           a == Packet("REPLY", h, SendKey, sendid)
           b == Packet("NEWKEYS", 0, SendKey, sendid + 1)
<1>1. sendid \in Nat /\ sendid + 2 <= IdMax
  BY DEF Fits, SendTypes
<1>2. Wrap(sendid + 1 - 1) = sendid /\ Wrap(sendid + 2 - 1) = sendid + 1 /\ Wrap(sendid + 2) = sendid + 2
  BY <1>1, Constants DEF Wrap
<1>3. p(1) = a /\ p(2) = b
  BY <1>2
<1>4. s2c' = s2c \o new /\ sendid' = IF strict THEN 0 ELSE sendid + 2
  BY <1>2 DEF Put
<1> HIDE DEF p, a, b
<1>5. new = <<a, b>>
  <2>1. new = [i \in 1..2 |-> IF i = 1 THEN a ELSE b]
    BY <1>3
  <2> QED
    BY <2>1
<1> HIDE DEF new
<1>6. s2c \o <<a, b>> = Append(Append(s2c, a), b)
  <2> DEFINE S == Range(s2c) \cup {a, b}
  <2>1. Range(s2c) \subseteq S /\ a \in S /\ b \in S
    OBVIOUS
  <2> HIDE DEF S
  <2>2. s2c \in Seq(S)
    BY <2>1, SeqMonotonic DEF Streams
  <2> QED
    BY <2>1, <2>2
<1> QED
  BY <1>4, <1>5, <1>6 DEF AddsPair, a, b

(* The fields of both, one by one. *)
LEMMA PresentIs ==
  /\ Present.pc = pc /\ Present.strict = strict /\ Present.key = SendKey /\ Present.id = recvid
  /\ Present.offer = kexrecv /\ Present.si = kexsend /\ Present.hash = hash
  /\ Present.session = sessionid /\ Present.auth = flagauthorized
  BY DEF Present

(* The fields of what the server knows after a packet. *)
LEMMA AfterIs ==
  ASSUME NEW x, NEW m
  PROVE  /\ After(x, m).pc = Place(x, m)
         /\ After(x, m).strict = IF m.t = "KEXINIT" THEN x.strict \/ StrictToken \in Range(m.b.kex)
                                 ELSE x.strict
         /\ After(x, m).key = IF m.t = "NEWKEYS" THEN <<x.hash, x.session>> ELSE x.key
         /\ After(x, m).id = IF m.t = "HELLO" THEN x.id
                             ELSE IF m.t = "NEWKEYS" /\ x.strict THEN 0 ELSE x.id + 1
         /\ After(x, m).offer = IF m.t = "KEXINIT" THEN m.b ELSE x.offer
         /\ After(x, m).si = IF "KEXINIT" \in Answer(x, m) THEN x.si + 1 ELSE x.si
         /\ After(x, m).hash = IF Exchanged(x, m) THEN NewHash(x, m) ELSE x.hash
         /\ After(x, m).session = IF Exchanged(x, m) /\ x.session = NoHash THEN NewHash(x, m)
                                  ELSE x.session
         /\ After(x, m).auth = IF m.t = "USERAUTH" THEN Granted(m) ELSE x.auth
  BY DEF After

(* The server's variables after a packet are those foretold. *)
LEMMA Becomes ==
  ASSUME NEW m,
         pc' = Place(Present, m),
         strict' = (IF m.t = "KEXINIT" THEN strict \/ StrictToken \in Range(m.b.kex) ELSE strict),
         SendKey' = (IF m.t = "NEWKEYS" THEN <<hash, sessionid>> ELSE SendKey),
         recvid' = (IF m.t = "HELLO" THEN recvid
                    ELSE IF m.t = "NEWKEYS" /\ strict THEN 0 ELSE recvid + 1),
         kexrecv' = (IF m.t = "KEXINIT" THEN m.b ELSE kexrecv),
         kexsend' = (IF "KEXINIT" \in Answer(Present, m) THEN kexsend + 1 ELSE kexsend),
         hash' = (IF Exchanged(Present, m) THEN NewHash(Present, m) ELSE hash),
         sessionid' = (IF Exchanged(Present, m) /\ sessionid = NoHash THEN NewHash(Present, m)
                       ELSE sessionid),
         flagauthorized' = (IF m.t = "USERAUTH" THEN Granted(m) ELSE flagauthorized)
  PROVE  Present' = After(Present, m)
<1>1. Present' = [pc |-> pc', strict |-> strict', key |-> SendKey', id |-> recvid', offer |-> kexrecv',
                  si |-> kexsend', hash |-> hash', session |-> sessionid', auth |-> flagauthorized']
  BY DEF Present
<1> QED
  BY <1>1, PresentIs DEF After

-----------------------------------------------------------------------------
(* The packet at the head of the stream is one the server expects. *)
Rekeyed == flagrekeying <=> sessionid # NoHash
Ready(m) ==
  /\ NonceInv /\ LimitsInv /\ Rekeyed
  /\ c2s # <<>> /\ m = Head(c2s) /\ Legal(Present, Owed, m)

(* What it puts for packet m. *)
Says(m) ==
  \/ s2c' = s2c /\ sendid' = sendid /\ Answer(Present, m) = {} /\ m.t # "OTHER"
  \/ m.t = "OTHER" /\ Adds("UNIMPL", m.id)
  \/ \E t \in (Kex \cup Auth) \ {"REPLY", "NEWKEYS"} : \E b :
        Answer(Present, m) = {t} /\ Adds(t, b) /\ (t = "KEXINIT" => b = kexsend')
  \/ Exchanged(Present, m) /\ AddsPair(hash')

Halts == status' \in {"overflow", "toomany"} /\ UNCHANGED <<s2c, client>>
Handles(m) ==
  /\ status' \in {"run", "tries"} /\ UNCHANGED client /\ c2s' = Tail(c2s)
  /\ Present' = After(Present, m) /\ Says(m) /\ Rekeyed'

(* packet_get finds nothing wrong with it (packet_get.c). *)
LEMMA NothingWrong ==
  ASSUME NEW m, Ready(m), pc \in DOMAIN Expected
  PROVE  Verdict(m) \in {"run", "overflow", "toomany"}
<1>1. Legal(Present, Owed, m) /\ LimitsInv
  BY DEF Ready
<1>2. m.key = SendKey /\ m.id = recvid /\ Expects(Present, Owed, m)
  BY <1>1, PresentIs DEF Legal
<1>3. Authentic(m)
  BY <1>2 DEF Authentic
<1>4. m.t # "DISCONNECT"
  BY <1>2 DEF Expects
<1>5. ~(m.t = "IGNORE" /\ ~flagkeys /\ strict)
  BY <1>2, PresentIs DEF Expects, SendKey
<1>6. m.t \in {"IGNORE", "NEWKEYS", Expected[pc]} \/ Expected[pc] = "any"
  BY <1>2, PresentIs, Waiting DEF Expects, Expected
<1> QED
  BY <1>3, <1>4, <1>5, <1>6 DEF Verdict

(* Which packets it can be handed in each of its places. *)
LEMMA WhatComes ==
  ASSUME NEW m, Ready(m), NEW p, Got(p), p \in DOMAIN Expected
  PROVE  /\ m = Head(c2s) /\ m.id = recvid /\ m.key = SendKey /\ pc = p /\ status = "run" /\ recvid + 1 <= IdMax
         /\ recvid' = IF m.t = "NEWKEYS" /\ strict THEN 0 ELSE recvid + 1
         /\ c2s' = Tail(c2s) /\ client' = client
         /\ p = "kexinit" => m.t = "KEXINIT" /\ Acceptable(m.b) /\ recvid = 0
         /\ p = "guess" => m.t = "KEXDH"
         /\ p = "kexdh" => m.t = "KEXDH" /\ m.b.alg = KexChoice(kexrecv)
         /\ p = "newkeys" => m.t = "NEWKEYS"
         /\ p = "service" => m.t = "SERVICE" /\ m.b = "ssh-userauth"
         /\ p = "auth" => m.t = "USERAUTH" /\ (m.b.how = "signed" => m.b.session = sessionid)
         /\ p = "run" => m.t \in {"DATA", "OTHER"} \/ (m.t = "KEXINIT" /\ Acceptable(m.b))
<1>1. m = Head(c2s) /\ Legal(Present, Owed, m) /\ LimitsInv
  BY DEF Ready
<1>2. Verdict(m) = "run" /\ m.t # "IGNORE" /\ recvid' = ReceivedId(m.t) /\ Take /\ pc = p
  BY <1>1 DEF Got
<1>3. recvid + 1 <= IdMax /\ ReceivedId(m.t) = (IF m.t = "NEWKEYS" /\ strict THEN 0 ELSE recvid + 1)
  BY <1>1, <1>2, Handed DEF LimitsInv
<1>4. m.key = SendKey /\ m.id = recvid /\ Expects(Present, Owed, m)
  BY <1>1, PresentIs DEF Legal
<1>5. pc # "hello"
  BY <1>2, Waiting
<1> USE PresentIs
<1>6. p = "kexinit" => m.t = "KEXINIT" /\ Acceptable(m.b) /\ recvid = 0
  BY <1>2, <1>4 DEF Expects
<1>7. p = "guess" => m.t = "KEXDH"
  BY <1>2, <1>4 DEF Expects
<1>8. p = "kexdh" => m.t = "KEXDH" /\ m.b.alg = KexChoice(kexrecv)
  BY <1>2, <1>4 DEF Expects
<1>9. p = "newkeys" => m.t = "NEWKEYS"
  BY <1>2, <1>4 DEF Expects
<1>10. p = "service" => m.t = "SERVICE" /\ m.b = "ssh-userauth"
  BY <1>2, <1>4 DEF Expects
<1>11. p = "auth" => m.t = "USERAUTH" /\ (m.b.how = "signed" => m.b.session = sessionid)
  BY <1>2, <1>4 DEF Expects
<1>12. p = "run" => m.t \in {"DATA", "OTHER"} \/ (m.t = "KEXINIT" /\ Acceptable(m.b))
  BY <1>2, <1>4 DEF Expects
<1> QED
  BY <1>1, <1>2, <1>3, <1>4, <1>6, <1>7, <1>8, <1>9, <1>10, <1>11, <1>12 DEF Take

-----------------------------------------------------------------------------
(* The handlers, one by one. *)
LEMMA HelloHandles ==
  ASSUME NEW m, Ready(m), packet_hello PROVE Handles(m)
<1> USE DEF authvars
<1>1. /\ pc = "hello" /\ m.t = "HELLO" /\ c2s' = Tail(c2s) /\ packet_kex_send /\ pc' = "kexinit"
      /\ UNCHANGED <<status, strict, kexrecv, hash, sessionid, flagrekeying, key, flagkeys,
                     flagauthorized, recvid, client>>
      /\ status = "run"
  BY DEF packet_hello, Ready
<1>2. NonceInv /\ Rekeyed /\ sendid = 0
  BY <1>1 DEF Ready, NonceInv, KeysAreOld
<1>3. Answer(Present, m) = {"KEXINIT"} /\ ~Exchanged(Present, m) /\ Place(Present, m) = "kexinit"
  BY <1>1 DEF Answer, Exchanged, Place
<1>4. Fits(<<"KEXINIT">>)
  BY <1>2, Constants DEF Fits
<1>5. Adds("KEXINIT", kexsend + 1) /\ kexsend' = kexsend + 1
  BY <1>1, <1>2, <1>4, PutSingle DEF packet_kex_send, NonceInv
<1>6. SendKey' = SendKey
  BY <1>1 DEF SendKey
<1>7. Present' = After(Present, m)
  BY <1>1, <1>3, <1>5, <1>6, Becomes
<1>8. Says(m)
  <2>1. "KEXINIT" \in (Kex \cup Auth) \ {"REPLY", "NEWKEYS"}
    BY DEF Kex
  <2> QED
    BY <1>3, <1>5, <2>1 DEF Says
<1>9. Rekeyed'
  BY <1>1, <1>2 DEF Rekeyed
<1> QED
  BY <1>1, <1>7, <1>8, <1>9 DEF Handles

(* packet_get stops for one of the two limits only (packet_get.c). *)
LEMMA StopHalts ==
  ASSUME NEW m, Ready(m), packet_get_stop PROVE Halts
<1>1. m = Head(c2s) /\ Take /\ Verdict(m) # "run" /\ stop(Verdict(m))
  BY DEF packet_get_stop, Ready
<1>2. Verdict(m) \in {"overflow", "toomany"}
  BY <1>1, NothingWrong DEF Take
<1> QED
  BY <1>1, <1>2 DEF Halts, stop, Take, sendvars

(* IGNORE is counted and skipped (packet_get.c). *)
LEMMA IgnoreHandles ==
  ASSUME NEW m, Ready(m), packet_get_ignore PROVE Handles(m)
<1> USE DEF sendvars, kexvars, authvars
<1>1. /\ m = Head(c2s) /\ Take /\ Verdict(m) = "run" /\ m.t = "IGNORE" /\ recvid' = ReceivedId(m.t)
      /\ UNCHANGED <<pc, status, sendid, s2c, strict, kexrecv, kexsend, hash, sessionid,
                     flagrekeying, key, flagkeys, flagauthorized>>
      /\ LimitsInv /\ Rekeyed
  BY DEF packet_get_ignore, Ready
<1>2. recvid' = recvid + 1
  BY <1>1, Handed DEF LimitsInv
<1>3. Answer(Present, m) = {} /\ ~Exchanged(Present, m) /\ Place(Present, m) = pc
  BY <1>1, PresentIs DEF Answer, Exchanged, Place
<1>4. Present' = After(Present, m)
  <2>1. SendKey' = SendKey
    BY <1>1 DEF SendKey
  <2> QED
    BY <1>1, <1>2, <1>3, <2>1, Becomes
<1>5. Says(m)
  BY <1>1, <1>3 DEF Says
<1>6. Rekeyed' /\ status' = "run" /\ UNCHANGED client /\ c2s' = Tail(c2s)
  BY <1>1 DEF Rekeyed, Take
<1> QED
  BY <1>4, <1>5, <1>6 DEF Handles

(* packet_kex_receive takes a KEXINIT as foretold (packet_kex.c). *)
LEMMA KexinitHandles ==
  ASSUME NEW m, Ready(m), packet_kex_receive PROVE Handles(m)
<1> USE DEF sendvars, kexvars, authvars
<1>0. Got("kexinit") /\ "kexinit" \in DOMAIN Expected
  BY Waiting DEF packet_kex_receive
<1>1. /\ m = Head(c2s) /\ pc = "kexinit" /\ status = "run" /\ c2s' = Tail(c2s) /\ client' = client
      /\ recvid' = (IF m.t = "NEWKEYS" /\ strict THEN 0 ELSE recvid + 1)
      /\ m.t = "KEXINIT" /\ Acceptable(m.b) /\ recvid = 0
  BY <1>0, WhatComes
<1>2. recvid' = 1 /\ recvid' = recvid + 1
  BY <1>1
<1>3. /\ strict' = (strict \/ StrictToken \in Range(m.b.kex)) /\ kexrecv' = m.b /\ pc' = AfterParse(m.b)
      /\ UNCHANGED <<status, sendid, s2c, kexsend, hash, sessionid, flagrekeying, key, flagkeys,
                     flagauthorized>>
  BY <1>1, <1>2 DEF packet_kex_receive
<1>4. Answer(Present, m) = {} /\ ~Exchanged(Present, m) /\ Place(Present, m) = AfterParse(m.b)
  BY <1>1, PresentIs DEF Answer, Exchanged, Place
<1>5. Present' = After(Present, m)
  <2>1. SendKey' = SendKey
    BY <1>3 DEF SendKey
  <2> QED
    BY <1>1, <1>2, <1>3, <1>4, <2>1, Becomes
<1>6. Says(m)
  BY <1>1, <1>3, <1>4 DEF Says
<1>7. Rekeyed'
  BY <1>3 DEF Rekeyed, Ready
<1> QED
  BY <1>1, <1>3, <1>5, <1>6, <1>7 DEF Handles

(* So does packet_kex_receive_rekey, which answers (packet_kex.c). *)
LEMMA RekeyHandles ==
  ASSUME NEW m, Ready(m), packet_kex_rekey PROVE Halts \/ Handles(m)
<1> USE DEF sendvars, kexvars, authvars
<1>0. Got("run") /\ "run" \in DOMAIN Expected /\ Head(c2s).t = "KEXINIT"
  BY Waiting DEF packet_kex_rekey
<1>1. /\ m = Head(c2s) /\ pc = "run" /\ status = "run" /\ c2s' = Tail(c2s) /\ client' = client
      /\ recvid' = (IF m.t = "NEWKEYS" /\ strict THEN 0 ELSE recvid + 1)
      /\ m.t \in {"DATA", "OTHER"} \/ (m.t = "KEXINIT" /\ Acceptable(m.b))
  BY <1>0, WhatComes
<1>2. m.t = "KEXINIT" /\ Acceptable(m.b) /\ recvid' = recvid + 1
  BY <1>0, <1>1
<1>3. CASE ~Fits(<<"KEXINIT">>)
  <2>1. stop("overflow")
    BY <1>1, <1>2, <1>3 DEF packet_kex_rekey
  <2> QED
    BY <1>1, <2>1 DEF stop, Halts
<1>4. CASE Fits(<<"KEXINIT">>)
  <2>1. /\ strict' = (strict \/ StrictToken \in Range(m.b.kex)) /\ kexrecv' = m.b
        /\ pc' = AfterParse(m.b) /\ packet_kex_send
        /\ UNCHANGED <<status, hash, sessionid, flagrekeying, key, flagkeys, flagauthorized>>
    BY <1>1, <1>2, <1>4 DEF packet_kex_rekey
  <2>2. Answer(Present, m) = {"KEXINIT"} /\ ~Exchanged(Present, m) /\ Place(Present, m) = AfterParse(m.b)
    BY <1>1, <1>2, PresentIs DEF Answer, Exchanged, Place
  <2>3. Adds("KEXINIT", kexsend + 1) /\ kexsend' = kexsend + 1
    BY <1>4, <2>1, PutSingle DEF packet_kex_send, NonceInv, Ready
  <2>4. Present' = After(Present, m)
    <3>1. SendKey' = SendKey
      BY <2>1 DEF SendKey
    <3> QED
      BY <1>1, <1>2, <2>1, <2>2, <2>3, <3>1, Becomes
  <2>5. Says(m)
    <3>1. "KEXINIT" \in (Kex \cup Auth) \ {"REPLY", "NEWKEYS"}
      BY DEF Kex
    <3> QED
      BY <2>2, <2>3, <3>1 DEF Says
  <2>6. Rekeyed'
    BY <2>1 DEF Rekeyed, Ready
  <2> QED
    BY <1>1, <2>1, <2>4, <2>5, <2>6 DEF Handles
<1> QED
  BY <1>3, <1>4

(* The wrong guess is thrown away (packet_kexdh.c). *)
LEMMA GuessHandles ==
  ASSUME NEW m, Ready(m), packet_kexdh_guess PROVE Handles(m)
<1> USE DEF sendvars, kexvars, authvars
<1>0. Got("guess") /\ "guess" \in DOMAIN Expected
  BY Waiting DEF packet_kexdh_guess
<1>1. /\ m = Head(c2s) /\ pc = "guess" /\ status = "run" /\ c2s' = Tail(c2s) /\ client' = client
      /\ recvid' = (IF m.t = "NEWKEYS" /\ strict THEN 0 ELSE recvid + 1) /\ m.t = "KEXDH"
  BY <1>0, WhatComes
<1>2. /\ pc' = "kexdh"
      /\ UNCHANGED <<status, sendid, s2c, strict, kexrecv, kexsend, hash, sessionid,
                     flagrekeying, key, flagkeys, flagauthorized>>
  BY DEF packet_kexdh_guess
<1>3. Answer(Present, m) = {} /\ ~Exchanged(Present, m) /\ Place(Present, m) = "kexdh"
  BY <1>1, PresentIs DEF Answer, Exchanged, Place
<1>4. Present' = After(Present, m)
  <2>1. SendKey' = SendKey
    BY <1>2 DEF SendKey
  <2> QED
    BY <1>1, <1>2, <1>3, <2>1, Becomes
<1>5. Says(m)
  BY <1>1, <1>2, <1>3 DEF Says
<1>6. Rekeyed'
  BY <1>2 DEF Rekeyed, Ready
<1> QED
  BY <1>1, <1>2, <1>4, <1>5, <1>6 DEF Handles

(* The client's key is answered with REPLY and NEWKEYS (packet_kexdh.c). *)
LEMMA KexdhHandles ==
  ASSUME NEW m, Ready(m), packet_kexdh PROVE Halts \/ Handles(m)
<1> USE DEF sendvars, kexvars, authvars
<1> DEFINE ts == <<"REPLY", "NEWKEYS">>
           h == [ci |-> kexrecv.n, si |-> kexsend, e |-> m.b.guess]
<1>0. Got("kexdh") /\ "kexdh" \in DOMAIN Expected
  BY Waiting DEF packet_kexdh
<1>1. /\ m = Head(c2s) /\ pc = "kexdh" /\ status = "run" /\ c2s' = Tail(c2s) /\ client' = client
      /\ recvid' = (IF m.t = "NEWKEYS" /\ strict THEN 0 ELSE recvid + 1) /\ m.t = "KEXDH"
      /\ m.b.alg = KexChoice(kexrecv)
  BY <1>0, WhatComes
<1>2. CASE ~Fits(ts)
  <2>1. stop("overflow")
    BY <1>1, <1>2 DEF packet_kexdh
  <2> QED
    BY <1>1, <2>1 DEF stop, Halts
<1>3. CASE Fits(ts)
  <2>1. /\ hash' = h /\ sessionid' = (IF flagrekeying THEN sessionid ELSE h) /\ flagrekeying' = TRUE
        /\ Put(ts, <<h, 0>>) /\ pc' = "newkeys"
        /\ UNCHANGED <<status, strict, kexrecv, kexsend, key, flagkeys, flagauthorized>>
    BY <1>1, <1>3 DEF packet_kexdh
  <2>2. AddsPair(h)
    BY <1>3, <2>1, PutPair DEF NonceInv, Ready
  <2>3. Exchanged(Present, m) /\ Answer(Present, m) = {"REPLY", "NEWKEYS"} /\ Place(Present, m) = "newkeys"
        /\ NewHash(Present, m) = h
    BY <1>1, PresentIs DEF Answer, Exchanged, Place, NewHash
  <2>4. h # NoHash
    BY DEF NoHash
  <2> HIDE DEF h
  <2>5. Rekeyed
    BY DEF Ready
  <2>6. Present' = After(Present, m)
    <3>1. SendKey' = SendKey
      BY <2>1 DEF SendKey
    <3>2. sessionid' = IF sessionid = NoHash THEN h ELSE sessionid
      BY <2>1, <2>5 DEF Rekeyed
    <3> QED
      BY <1>1, <2>1, <2>3, <3>1, <3>2, Becomes
  <2>7. Says(m)
    BY <2>1, <2>2, <2>3 DEF Says
  <2>8. Rekeyed'
    BY <2>1, <2>4, <2>5 DEF Rekeyed
  <2> QED
    BY <1>1, <2>1, <2>6, <2>7, <2>8 DEF Handles
<1> QED
  BY <1>2, <1>3

(* NEWKEYS switches the keys (packet_kexdh.c). *)
LEMMA NewkeysHandles ==
  ASSUME NEW m, Ready(m), packet_kexdh_newkeys PROVE Handles(m)
<1> USE DEF sendvars, kexvars, authvars
<1>0. Got("newkeys") /\ "newkeys" \in DOMAIN Expected
  BY Waiting DEF packet_kexdh_newkeys
<1>1. /\ m = Head(c2s) /\ pc = "newkeys" /\ status = "run" /\ c2s' = Tail(c2s) /\ client' = client
      /\ recvid' = (IF m.t = "NEWKEYS" /\ strict THEN 0 ELSE recvid + 1) /\ m.t = "NEWKEYS"
  BY <1>0, WhatComes
<1>2. /\ key' = <<hash, sessionid>> /\ flagkeys' = TRUE
      /\ pc' = (IF flagauthorized THEN "run" ELSE "service")
      /\ UNCHANGED <<status, sendid, s2c, strict, kexrecv, kexsend, hash, sessionid,
                     flagrekeying, flagauthorized>>
  BY <1>1 DEF packet_kexdh_newkeys
<1>3. Answer(Present, m) = {} /\ ~Exchanged(Present, m)
      /\ Place(Present, m) = (IF flagauthorized THEN "run" ELSE "service")
  BY <1>1, PresentIs DEF Answer, Exchanged, Place
<1>4. Present' = After(Present, m)
  <2>1. SendKey' = <<hash, sessionid>>
    BY <1>2 DEF SendKey
  <2> QED
    BY <1>1, <1>2, <1>3, <2>1, Becomes
<1>5. Says(m)
  BY <1>1, <1>2, <1>3 DEF Says
<1>6. Rekeyed'
  BY <1>2 DEF Rekeyed, Ready
<1> QED
  BY <1>1, <1>2, <1>4, <1>5, <1>6 DEF Handles

(* The request for the service is accepted (packet_auth.c). *)
LEMMA ServiceHandles ==
  ASSUME NEW m, Ready(m), packet_auth_service PROVE Halts \/ Handles(m)
<1> USE DEF sendvars, kexvars, authvars
<1>0. Got("service") /\ "service" \in DOMAIN Expected
  BY Waiting DEF packet_auth_service
<1>1. /\ m = Head(c2s) /\ pc = "service" /\ status = "run" /\ c2s' = Tail(c2s) /\ client' = client
      /\ recvid' = (IF m.t = "NEWKEYS" /\ strict THEN 0 ELSE recvid + 1)
      /\ m.t = "SERVICE" /\ m.b = "ssh-userauth"
  BY <1>0, WhatComes
<1>2. CASE ~Fits(<<"ACCEPT">>)
  <2>1. stop("overflow")
    BY <1>1, <1>2 DEF packet_auth_service
  <2> QED
    BY <1>1, <2>1 DEF stop, Halts
<1>3. CASE Fits(<<"ACCEPT">>)
  <2>1. /\ Put(<<"ACCEPT">>, <<0>>) /\ pc' = "auth"
        /\ UNCHANGED <<status, strict, kexrecv, kexsend, hash, sessionid, flagrekeying, key,
                       flagkeys, flagauthorized>>
    BY <1>1, <1>3 DEF packet_auth_service
  <2>2. Adds("ACCEPT", 0)
    BY <1>3, <2>1, PutSingle DEF NonceInv, Ready
  <2>3. Answer(Present, m) = {"ACCEPT"} /\ ~Exchanged(Present, m) /\ Place(Present, m) = "auth"
    BY <1>1, PresentIs DEF Answer, Exchanged, Place
  <2>4. Present' = After(Present, m)
    <3>1. SendKey' = SendKey
      BY <2>1 DEF SendKey
    <3> QED
      BY <1>1, <2>1, <2>3, <3>1, Becomes
  <2>5. Says(m)
    <3>1. "ACCEPT" \in (Kex \cup Auth) \ {"REPLY", "NEWKEYS"}
      BY DEF Auth
    <3> QED
      BY <2>2, <2>3, <3>1 DEF Says
  <2>6. Rekeyed'
    BY <2>1 DEF Rekeyed, Ready
  <2> QED
    BY <1>1, <2>1, <2>4, <2>5, <2>6 DEF Handles
<1> QED
  BY <1>2, <1>3

(* A request for authentication is answered (packet_auth.c). *)
LEMMA RequestHandles ==
  ASSUME NEW m, Ready(m), packet_auth_request PROVE Halts \/ Handles(m)
<1> USE DEF sendvars, kexvars, authvars
<1> DEFINE v == Verdicts(m)
           granted == Granted(m)
<1>0. Got("auth") /\ "auth" \in DOMAIN Expected
  BY Waiting DEF packet_auth_request
<1>1. /\ m = Head(c2s) /\ pc = "auth" /\ status = "run" /\ c2s' = Tail(c2s) /\ client' = client
      /\ recvid' = (IF m.t = "NEWKEYS" /\ strict THEN 0 ELSE recvid + 1)
      /\ m.t = "USERAUTH" /\ (m.b.how = "signed" => m.b.session = sessionid)
  BY <1>0, WhatComes
<1>2. \/ ~Fits(<<v>>) /\ stop("overflow")
      \/ /\ Fits(<<v>>) /\ Put(<<v>>, <<0>>) /\ flagauthorized' = granted
         /\ pc' = (IF granted THEN "run" ELSE "auth") /\ status' \in {"run", "tries"}
         /\ UNCHANGED <<strict, kexrecv, kexsend, hash, sessionid, flagrekeying, key, flagkeys>>
  BY <1>1 DEF packet_auth_request, Verdicts, Granted
<1>3. v \in Auth /\ v # "NEWKEYS" /\ v # "KEXINIT" /\ v # "REPLY"
  BY DEF Verdicts, Auth
<1>4. Answer(Present, m) = {v} /\ ~Exchanged(Present, m)
      /\ Place(Present, m) = (IF granted THEN "run" ELSE "auth")
  BY <1>1, PresentIs DEF Answer, Exchanged, Place
<1> HIDE DEF v, granted
<1>5. CASE stop("overflow")
  BY <1>1, <1>5 DEF stop, Halts
<1>6. CASE Fits(<<v>>) /\ ~stop("overflow")
  <2>1. /\ Fits(<<v>>) /\ Put(<<v>>, <<0>>) /\ flagauthorized' = granted
        /\ pc' = (IF granted THEN "run" ELSE "auth") /\ status' \in {"run", "tries"}
        /\ UNCHANGED <<strict, kexrecv, kexsend, hash, sessionid, flagrekeying, key, flagkeys>>
    BY <1>2, <1>6
  <2>2. Adds(v, 0)
    BY <1>3, <2>1, PutSingle DEF NonceInv, Ready
  <2>3. Present' = After(Present, m)
    <3>1. SendKey' = SendKey
      BY <2>1 DEF SendKey
    <3> QED
      BY <1>1, <1>3, <1>4, <2>1, <3>1, Becomes DEF granted
  <2>4. Says(m)
    <3>1. v \in (Kex \cup Auth) \ {"REPLY", "NEWKEYS"}
      BY <1>3
    <3> QED
      BY <1>3, <1>4, <2>2, <3>1 DEF Says
  <2>5. Rekeyed'
    BY <2>1 DEF Rekeyed, Ready
  <2> QED
    BY <1>1, <2>1, <2>3, <2>4, <2>5 DEF Handles
<1> QED
  BY <1>2, <1>5, <1>6

(* The main loop answers unknown packets only (main_tinysshd.c). *)
LEMMA LoopHandles ==
  ASSUME NEW m, Ready(m), loop_packet PROVE Halts \/ Handles(m)
<1> USE DEF sendvars, kexvars, authvars
<1>0. Got("run") /\ "run" \in DOMAIN Expected /\ Head(c2s).t # "KEXINIT"
  BY Waiting DEF loop_packet
<1>1. /\ m = Head(c2s) /\ pc = "run" /\ status = "run" /\ c2s' = Tail(c2s) /\ client' = client
      /\ recvid + 1 <= IdMax /\ m.id = recvid
      /\ recvid' = (IF m.t = "NEWKEYS" /\ strict THEN 0 ELSE recvid + 1)
      /\ m.t \in {"DATA", "OTHER"} \/ (m.t = "KEXINIT" /\ Acceptable(m.b))
  BY <1>0, WhatComes
<1>2. m.t \in {"DATA", "OTHER"} /\ recvid' = recvid + 1
  BY <1>0, <1>1
<1>3. Answer(Present, m) = {} /\ ~Exchanged(Present, m) /\ Place(Present, m) = pc
  BY <1>2, PresentIs DEF Answer, Exchanged, Place
<1>4. ASSUME UNCHANGED <<pc, strict, kexrecv, kexsend, hash, sessionid, flagrekeying, key,
                         flagkeys, flagauthorized>>
      PROVE  Present' = After(Present, m) /\ Rekeyed'
  <2>1. SendKey' = SendKey
    BY <1>4 DEF SendKey
  <2>2. Present' = After(Present, m)
    BY <1>2, <1>3, <1>4, <2>1, Becomes
  <2> QED
    BY <1>4, <2>2 DEF Rekeyed, Ready
<1>5. CASE m.t = "DATA"
  <2>1. UNCHANGED <<pc, status, sendid, s2c, strict, kexrecv, kexsend, hash, sessionid,
                    flagrekeying, key, flagkeys, flagauthorized>>
    BY <1>1, <1>5 DEF loop_packet
  <2>2. Says(m)
    BY <1>3, <1>5, <2>1 DEF Says
  <2> QED
    BY <1>1, <1>4, <2>1, <2>2 DEF Handles
<1>6. CASE m.t = "OTHER"
  <2>1. CASE ~Fits(<<"UNIMPL">>)
    <3>1. stop("overflow")
      BY <1>1, <1>6, <2>1 DEF loop_packet
    <3> QED
      BY <1>1, <3>1 DEF stop, Halts
  <2>2. CASE Fits(<<"UNIMPL">>)
    <3>1. /\ Put(<<"UNIMPL">>, <<(recvid' - 1) % (IdMax + 1)>>)
          /\ UNCHANGED <<pc, status, strict, kexrecv, kexsend, hash, sessionid, flagrekeying, key,
                         flagkeys, flagauthorized>>
      BY <1>1, <1>6, <2>2 DEF loop_packet
    <3>2. (recvid' - 1) % (IdMax + 1) = m.id
      <4>1. recvid \in 0..IdMax /\ IdMax \in Nat
        BY Constants DEF Ready, LimitsInv, CountTypes
      <4>2. recvid' - 1 = recvid
        BY <1>2, <4>1
      <4>3. recvid % (IdMax + 1) = recvid
        BY <4>1
      <4> QED
        BY <1>1, <4>2, <4>3
    <3>3. Adds("UNIMPL", m.id)
      BY <2>2, <3>1, <3>2, PutSingle DEF NonceInv, Ready
    <3>4. Says(m)
      BY <1>6, <3>3 DEF Says
    <3> QED
      BY <1>1, <1>4, <3>1, <3>4 DEF Handles
  <2> QED
    BY <2>1, <2>2
<1> QED
  BY <1>2, <1>5, <1>6

(* Output of the server's own accord. *)
Outputs ==
  pc = "run" /\ UNCHANGED <<c2s, client, Present, flagrekeying, status>> /\ Adds("DATA", 0)

(* Output of the main loop is one packet (main_tinysshd.c). *)
LEMMA OutputStep ==
  ASSUME NonceInv, loop_output PROVE Halts \/ Outputs
<1> USE DEF sendvars, kexvars, authvars
<1>1. /\ UNCHANGED <<pc, strict, kexrecv, kexsend, hash, sessionid, flagrekeying, key,
                     flagkeys, flagauthorized, recvid, c2s, client>>
      /\ pc = "run"
  BY DEF loop_output
<1>2. CASE ~Fits(<<"DATA">>)
  BY <1>1, <1>2 DEF loop_output, Halts
<1>3. CASE Fits(<<"DATA">>)
  <2>1. Adds("DATA", 0) /\ UNCHANGED status
    BY <1>3, PutSingle DEF loop_output, NonceInv
  <2>2. Present' = Present
    <3>1. SendKey' = SendKey
      BY <1>1 DEF SendKey
    <3> QED
      BY <1>1, <3>1 DEF Present
  <2> QED
    BY <1>1, <2>1, <2>2 DEF Outputs
<1> QED
  BY <1>2, <1>3

(* Every step of the server, when the packet at the head is legal: it runs into
   a limit, puts a packet of its own or handles the head as foretold. *)
LEMMA ServerStep ==
  ASSUME Server, NonceInv, c2s # <<>> => Ready(Head(c2s))
  PROVE  Halts \/ Outputs \/ (c2s # <<>> /\ Handles(Head(c2s)))
<1>1. CASE loop_output
  BY <1>1, OutputStep
<1>2. CASE ~loop_output
  <2>1. c2s # <<>>
    BY <1>2 DEF Server, packet_hello, packet_get_stop, packet_get_ignore, packet_kex_receive, packet_kex_rekey,
       packet_kexdh_guess, packet_kexdh, packet_kexdh_newkeys, packet_auth_service,
       packet_auth_request, loop_packet, Got, Take
  <2>2. Ready(Head(c2s))
    BY <2>1
  <2> QED
    BY <1>2, <2>1, <2>2, HelloHandles, StopHalts, IgnoreHandles, KexinitHandles, RekeyHandles, GuessHandles,
       KexdhHandles, NewkeysHandles, ServiceHandles, RequestHandles, LoopHandles DEF Server
<1> QED
  BY <1>1, <1>2

-----------------------------------------------------------------------------
(* What the client knows of a server that has taken all that is on its way. *)

(* A client that guesses right by its own rules guesses right by the server's:
   with the first name of its list known to the server. *)
KeyOf(c) == <<c.hash, c.session>>
Right(o) == o.follows /\ RightGuess(o)
HashOf(c, si) == [ci |-> c.n, si |-> si, e |-> Right(c.offer)]

(* The exchange the client is in is not over for it: it has the keys of the
   one before. *)
OldKeys(c) ==
  /\ c.n > 0 /\ c.skey = c.rkey
  /\ c.hash = NoHash => c.skey = NoKey
  /\ c.hash # NoHash => c.skey = KeyOf(c) /\ c.hash.ci < c.n
  /\ c.hash = NoHash <=> c.session = NoHash

(* The exchange has the hash the client will compute. *)
Hashed(c, x, si) ==
  /\ x.hash = HashOf(c, si)
  /\ x.session = IF c.session = NoHash THEN x.hash ELSE c.session

(* Before the first exchange, and between two. *)
AtStart(c, x, w) ==
  /\ c.kex = "no" /\ c.n = 0 /\ x.pc = "kexinit" /\ x.id = 0 /\ ~x.strict
  /\ w \cap Kex = {"KEXINIT"}
  /\ c.skey = NoKey /\ c.rkey = NoKey
  /\ c.hash = NoHash /\ c.session = NoHash /\ x.hash = NoHash /\ x.session = NoHash
AtRest(c, x, w) ==
  /\ c.kex = "no" /\ c.n > 0 /\ x.pc \in {"service", "auth", "run"}
  /\ w \cap Kex = {}
  /\ c.skey = KeyOf(c) /\ c.rkey = KeyOf(c)
  /\ c.hash # NoHash /\ c.session # NoHash /\ c.hash.ci = c.n
  /\ x.hash = c.hash /\ x.session = c.session
(* It has sent its KEXINIT, and the guess if it made one. *)
Offering(c, x, w) ==
  /\ c.kex = "init" /\ OldKeys(c)
  /\ \/ /\ Right(c.offer) /\ x.pc = "newkeys"
        /\ w \cap Kex = Kex /\ Hashed(c, x, x.si)
     \/ /\ ~Right(c.offer) /\ x.pc = "kexdh"
        /\ w \cap Kex = {"KEXINIT"} /\ x.hash = c.hash /\ x.session = c.session
(* It has the server's, and has sent its key. *)
Agreeing(c, x, w) ==
  /\ c.kex = "dh" /\ OldKeys(c) /\ x.pc = "newkeys"
  /\ w \cap Kex = {"REPLY", "NEWKEYS"} /\ c.si = x.si /\ Hashed(c, x, c.si)
(* It has the reply; one NEWKEYS or both are missing. *)
Renewing(c, x, w) ==
  /\ c.kex = "reply" /\ c.n > 0
  /\ c.hash # NoHash /\ c.session # NoHash /\ c.hash.ci = c.n
  /\ x.hash = c.hash /\ x.session = c.session
  /\ IF c.skey = KeyOf(c) THEN x.pc \in {"service", "auth", "run"} ELSE x.pc = "newkeys"
  /\ w \cap Kex = IF c.rkey = KeyOf(c) THEN {} ELSE {"NEWKEYS"}
  /\ c.skey # KeyOf(c) \/ c.rkey # KeyOf(c)

Stage(c, x, w) ==
  \/ AtStart(c, x, w) \/ AtRest(c, x, w) \/ Offering(c, x, w)
  \/ Agreeing(c, x, w) \/ Renewing(c, x, w)

(* Where it is with authentication. *)
Asked(c, x, w) ==
  \/ c.app = "none" /\ ~x.auth /\ x.pc \notin {"auth", "run"} /\ w \cap Auth = {}
  \/ c.app = "asked" /\ ~x.auth /\ x.pc = "auth" /\ w \cap Auth = {"ACCEPT"}
  \/ c.app = "auth" /\ ~x.auth /\ x.pc = "auth" /\ w \cap Auth = {}
  \/ c.app = "waits" /\ x.auth /\ x.pc = "run" /\ w \cap Auth = {"SUCCESS"}
  \/ c.app = "waits" /\ ~x.auth /\ x.pc = "auth" /\ w \cap Auth \in {{"PK_OK"}, {"FAILURE"}}
  \/ c.app = "yes" /\ x.auth /\ x.pc \notin {"service", "auth"} /\ w \cap Auth = {}

(* The key, the number and the offer are common. *)
Common(c, x) ==
  /\ c.skey = x.key /\ c.sid = x.id
  /\ c.n > 0 => x.offer = Numbered(c.offer, c.n) /\ (x.strict <=> c.strict)

Knows(c, x, w) == Common(c, x) /\ Stage(c, x, w) /\ Asked(c, x, w)

(* A later offer may name strict mode again. *)
Repeats == \E o \in RekeyOffers : StrictToken \in Range(o.kex)

(* What a client always is. *)
Fields == {"kex", "n", "offer", "si", "strict", "skey", "rkey", "sid", "rid", "hash",
           "session", "app", "left", "owes", "bad"}
ClientOK(c) ==
  /\ DOMAIN c = Fields /\ c.n \in Nat /\ c.offer \in Offers \cup RekeyOffers
  /\ c.sid \in Nat /\ c.strict \in BOOLEAN
  /\ c.n = 0 => (c.strict <=> StrictToken \in Range(c.offer.kex))
  /\ Repeats => c.strict

(* What one of its steps leaves of it. *)
SameOffer(c, d) == d.n = c.n /\ d.offer = c.offer /\ d.strict = c.strict
SameKeys(c, d) ==
  d.skey = c.skey /\ d.rkey = c.rkey /\ d.hash = c.hash /\ d.session = c.session

-----------------------------------------------------------------------------
(* The offer as it goes over the wire. *)
LEMMA NumberedIs ==
  ASSUME NEW o, NEW n
  PROVE  LET p == Numbered(o, n) IN
         /\ p.n = n /\ p.kex = o.kex /\ p.follows = o.follows
         /\ KexMatches(p) = KexMatches(o) /\ KexChoice(p) = KexChoice(o)
         /\ (Acceptable(p) <=> Acceptable(o)) /\ (kex_guess(p) <=> kex_guess(o))
         /\ AfterParse(p) = AfterParse(o)
<1> DEFINE p == Numbered(o, n)
<1>1. p.n = n /\ p.kex = o.kex /\ p.follows = o.follows /\ p.keys = o.keys /\ p.common = o.common
  BY DEF Numbered
<1> HIDE DEF p
<1>2. KexMatches(p) = KexMatches(o) /\ KexChoice(p) = KexChoice(o)
  <2>1. KexMatches(p) = KexMatches(o)
    BY <1>1 DEF KexMatches
  <2> QED
    BY <1>1, <2>1 DEF KexChoice
<1>3. (Acceptable(p) <=> Acceptable(o)) /\ (kex_guess(p) <=> kex_guess(o))
  BY <1>1, <1>2 DEF Acceptable, kex_guess, sshcrypto_key_select, sshcrypto_cipher_select
<1> QED
  BY <1>1, <1>2, <1>3 DEF p, AfterParse

(* The method the client's guess is made for is the one the server chooses, if
   the server knows it. *)
LEMMA GuessChosen ==
  ASSUME NEW o, Sound(o), kex_guess(o) PROVE KexChoice(o) = o.kex[1]
<1> DEFINE M == KexMatches(o)
           i == CHOOSE i \in M : \A j \in M : i <= j
<1>1. Len(o.kex) \in Nat
  BY LenProperties DEF Sound, Sequence
<1>2. M # {} /\ M \subseteq 1..Len(o.kex)
  BY DEF Sound, Acceptable, KexMatches
<1>3. 1 \in M /\ \A j \in M : 1 <= j
  BY <1>1, <1>2 DEF kex_guess, KexMatches
<1> HIDE DEF M
<1>4. i \in M /\ i <= 1
  BY <1>3
<1>6. KexChoice(o) = o.kex[i]
  BY DEF KexChoice, M
<1> HIDE DEF i
<1>5. i = 1
  BY <1>1, <1>2, <1>4
<1> QED
  BY <1>5, <1>6

(* A hash is not nothing. *)
LEMMA HashIs ==
  ASSUME NEW a, NEW b, NEW e
  PROVE  [ci |-> a, si |-> b, e |-> e] # NoHash
<1>1. DOMAIN [ci |-> a, si |-> b, e |-> e] = {"ci", "si", "e"} /\ DOMAIN NoHash = {}
  BY DEF NoHash
<1> QED
  BY <1>1

(* The client's key is never the empty one. *)
LEMMA KeyIs == \A c : KeyOf(c) # NoKey
  BY DEF KeyOf, NoKey

-----------------------------------------------------------------------------
(* What a packet of each kind makes of it: the number goes on, or back to 0. *)
LEMMA Counts ==
  ASSUME NEW c, NEW x, Common(c, x), NEW m, m.t \notin {"HELLO", "KEXINIT"}, NEW d, SameOffer(c, d),
         d.skey = (IF m.t = "NEWKEYS" THEN <<x.hash, x.session>> ELSE c.skey),
         d.sid = IF m.t = "NEWKEYS" /\ c.strict THEN 0 ELSE c.sid + 1,
         m.t = "NEWKEYS" => c.n > 0
  PROVE  Common(d, After(x, m))
<1>1. /\ After(x, m).key = (IF m.t = "NEWKEYS" THEN <<x.hash, x.session>> ELSE x.key)
      /\ After(x, m).id = (IF m.t = "NEWKEYS" /\ x.strict THEN 0 ELSE x.id + 1)
      /\ After(x, m).offer = x.offer /\ After(x, m).strict = x.strict
  BY AfterIs
<1> QED
  BY <1>1 DEF Common, SameOffer

(* The first packet of a key exchange (ClientKexinit without a guess). *)
LEMMA OfferKnown ==
  ASSUME NEW c, NEW x, NEW w, Knows(c, x, w), ClientOK(c), Polite, NEW o, NEW m, NEW d,
         c.kex = "no",
         \/ c.n = 0 /\ o = c.offer
         \/ c.n > 0 /\ o \in RekeyOffers /\ c.app = "yes",
         m.t = "KEXINIT", m.b = Numbered(o, c.n + 1), m.key = c.skey, m.id = c.sid,
         d.kex = "init", d.n = c.n + 1, d.offer = o, d.strict = c.strict, SameKeys(c, d),
         d.sid = c.sid + 1, d.app = c.app
  PROVE  LET y == After(x, m)
             v == w \cup Answer(x, m) IN
         /\ Legal(x, w, m) /\ Common(d, y) /\ Asked(d, y, v) /\ OldKeys(d)
         /\ y.pc = AfterParse(o) /\ v \cap Kex = {"KEXINIT"}
         /\ y.hash = d.hash /\ y.session = d.session /\ Sound(o)
<1> DEFINE y == After(x, m)
           v == w \cup Answer(x, m)
<1>1. Sound(o)
  BY DEF Polite, ClientOK
<1>2. /\ m.b.n = c.n + 1 /\ m.b.kex = o.kex /\ Acceptable(m.b) /\ AfterParse(m.b) = AfterParse(o)
  BY <1>1, NumberedIs DEF Sound
<1>7. /\ y.pc = Place(x, m) /\ (y.strict <=> (x.strict \/ StrictToken \in Range(m.b.kex)))
      /\ y.key = x.key /\ y.id = x.id + 1 /\ y.offer = m.b
  <2>1. /\ y.pc = Place(x, m) /\ y.key = x.key /\ y.id = x.id + 1 /\ y.offer = m.b
    BY AfterIs
  <2>2. y.strict = IF m.t = "KEXINIT" THEN x.strict \/ StrictToken \in Range(m.b.kex) ELSE x.strict
    BY AfterIs
  <2>3. y.strict <=> (x.strict \/ StrictToken \in Range(m.b.kex))
    BY <2>2
  <2> QED
    BY <2>1, <2>3
<1>8. ~Exchanged(x, m) /\ Place(x, m) = AfterParse(m.b)
  BY DEF Place, Exchanged
<1>9. y.hash = x.hash /\ y.session = x.session /\ y.auth = x.auth
  BY <1>8, AfterIs
<1>3. /\ y.pc = AfterParse(o) /\ (y.strict <=> (x.strict \/ StrictToken \in Range(o.kex)))
      /\ y.key = c.skey /\ y.id = c.sid + 1 /\ y.offer = Numbered(o, c.n + 1)
      /\ y.hash = x.hash /\ y.session = x.session /\ y.auth = x.auth
  BY <1>2, <1>7, <1>8, <1>9 DEF Knows, Common
<1>4. AtStart(c, x, w) \/ AtRest(c, x, w)
  BY DEF Knows, Stage, Offering, Agreeing, Renewing
<1>5. c.n \in Nat
  BY DEF ClientOK
<1>10. SameKeys(c, d) /\ d.n = c.n + 1 /\ d.app = c.app /\ d.strict = c.strict /\ d.sid = c.sid + 1 /\ d.offer = o
  OBVIOUS
<1>11. y.pc \notin {"service", "auth", "run"}
  BY <1>3 DEF AfterParse
<1>12. Legal(x, w, m) <=> Expects(x, w, m)
  BY DEF Legal, Knows, Common
<1> HIDE DEF y
<1>6. CASE AtStart(c, x, w)
  <2>1. /\ c.n = 0 /\ o = c.offer /\ x.pc = "kexinit" /\ x.id = 0 /\ ~x.strict /\ w \cap Kex = {"KEXINIT"}
        /\ c.skey = NoKey /\ c.rkey = NoKey /\ c.hash = NoHash /\ c.session = NoHash
        /\ x.hash = NoHash /\ x.session = NoHash
    BY <1>5, <1>6 DEF AtStart
  <2>2. Answer(x, m) = {}
    BY <1>8, <2>1 DEF Answer
  <2>3. v = w
    BY <2>2
  <2>4. Expects(x, w, m)
    BY <1>2, <2>1 DEF Expects
  <2>5. Common(d, y)
    BY <1>3, <1>10, <2>1 DEF Common, ClientOK, SameKeys
  <2>6. Asked(d, y, v)
    BY <1>3, <1>10, <1>11, <2>1, <2>3 DEF Asked, Knows
  <2>7. OldKeys(d)
    BY <1>10, <2>1 DEF OldKeys, SameKeys
  <2> QED
    BY <1>1, <1>3, <1>10, <1>12, <2>1, <2>3, <2>4, <2>5, <2>6, <2>7 DEF y, SameKeys
<1>13. CASE AtRest(c, x, w)
  <2>1. /\ c.n > 0 /\ c.app = "yes" /\ w \cap Kex = {} /\ x.pc \in {"service", "auth", "run"}
        /\ c.skey = KeyOf(c) /\ c.rkey = KeyOf(c)
        /\ c.hash # NoHash /\ c.session # NoHash /\ c.hash.ci = c.n
        /\ x.hash = c.hash /\ x.session = c.session
        /\ o \in RekeyOffers
    BY <1>5, <1>13 DEF AtRest
  <2>0. StrictToken \in Range(o.kex) => c.strict
    BY <2>1 DEF ClientOK, Repeats
  <2>9. (x.strict <=> c.strict) /\ (StrictToken \in Range(m.b.kex) => x.strict)
    BY <1>2, <2>0, <2>1 DEF Knows, Common
  <2>2. x.pc = "run" /\ x.auth /\ w \cap Auth = {}
    BY <2>1 DEF Knows, Asked
  <2>3. Answer(x, m) = {"KEXINIT"}
    BY <2>2 DEF Answer
  <2>4. Expects(x, w, m)
    BY <1>2, <2>1, <2>2, <2>9 DEF Expects
  <2>5. v \cap Kex = {"KEXINIT"} /\ v \cap Auth = {}
    BY <2>1, <2>2, <2>3 DEF Kex, Auth
  <2>6. Common(d, y)
    BY <1>3, <1>10, <2>0, <2>1, <2>9 DEF Common, Knows, SameKeys
  <2>7. Asked(d, y, v)
    BY <1>3, <1>10, <1>11, <2>1, <2>2, <2>5 DEF Asked
  <2>8. OldKeys(d)
    <3>1. d.skey = KeyOf(d) /\ d.rkey = KeyOf(d) /\ d.hash = c.hash /\ d.session = c.session
      BY <1>10, <2>1 DEF SameKeys, KeyOf
    <3>2. d.hash.ci < d.n /\ d.n > 0
      BY <1>5, <1>10, <2>1, <3>1
    <3> QED
      BY <2>1, <3>1, <3>2 DEF OldKeys
  <2> QED
    BY <1>1, <1>3, <1>10, <1>12, <2>1, <2>4, <2>5, <2>6, <2>7, <2>8 DEF y, SameKeys
<1> QED
  BY <1>4, <1>6, <1>13

-----------------------------------------------------------------------------
(* What the client says besides. Its packet is the next one under its key. *)
LEMMA FreeIs ==
  ASSUME NEW c, NEW x, NEW w, Knows(c, x, w), c.skey # NoKey,
         c.kex = "no" \/ (c.kex = "reply" /\ c.skey = KeyOf(c))
  PROVE  /\ x.pc \in {"service", "auth", "run"} /\ x.session = c.session
         /\ AtRest(c, x, w) \/ (Renewing(c, x, w) /\ c.skey = KeyOf(c))
<1>1. AtRest(c, x, w) \/ (Renewing(c, x, w) /\ c.skey = KeyOf(c))
  BY DEF Knows, Stage, AtStart, AtRest, Offering, Agreeing, Renewing
<1> QED
  BY <1>1 DEF AtRest, Renewing

(* A packet that is no part of an exchange leaves it where it is. *)
LEMMA StageStays ==
  ASSUME NEW c, NEW x, NEW w, NEW d, NEW y, NEW v,
         AtRest(c, x, w) \/ (Renewing(c, x, w) /\ c.skey = KeyOf(c)),
         SameOffer(c, d), SameKeys(c, d), d.kex = c.kex,
         y.pc \in {"service", "auth", "run"}, y.hash = x.hash, y.session = x.session,
         v \cap Kex = w \cap Kex
  PROVE  Stage(d, y, v)
<1>1. KeyOf(d) = KeyOf(c)
  BY DEF KeyOf, SameKeys
<1>2. CASE AtRest(c, x, w)
  <2>1. AtRest(d, y, v)
    BY <1>1, <1>2 DEF AtRest, SameOffer, SameKeys
  <2> QED
    BY <2>1 DEF Stage
<1>3. CASE Renewing(c, x, w) /\ c.skey = KeyOf(c)
  <2>1. Renewing(d, y, v)
    BY <1>1, <1>3 DEF Renewing, SameOffer, SameKeys
  <2> QED
    BY <2>1 DEF Stage
<1> QED
  BY <1>2, <1>3

(* The request for the service is legal, and the client knows what comes of it. *)
LEMMA ServiceKnown ==
  ASSUME NEW c, NEW x, NEW w, Knows(c, x, w), c.skey # NoKey,
         c.kex = "no" \/ (c.kex = "reply" /\ c.skey = KeyOf(c)), c.app = "none",
         NEW m, m.t = "SERVICE", m.b = "ssh-userauth", m.key = c.skey, m.id = c.sid,
         NEW d, SameOffer(c, d), SameKeys(c, d), d.kex = c.kex, d.sid = c.sid + 1, d.app = "asked"
  PROVE  Legal(x, w, m) /\ Knows(d, After(x, m), w \cup Answer(x, m))
<1> DEFINE y == After(x, m)
           v == w \cup Answer(x, m)
<1>1. /\ x.pc = "service" /\ ~x.auth /\ w \cap Auth = {}
      /\ AtRest(c, x, w) \/ (Renewing(c, x, w) /\ c.skey = KeyOf(c))
  BY FreeIs DEF Knows, Asked
<1>2. Answer(x, m) = {"ACCEPT"} /\ ~Exchanged(x, m) /\ Place(x, m) = "auth"
  BY <1>1 DEF Answer, Exchanged, Place
<1>3. y.pc = "auth" /\ y.hash = x.hash /\ y.session = x.session /\ y.auth = x.auth
  BY <1>2, AfterIs
<1>4. v \cap Kex = w \cap Kex /\ v \cap Auth = {"ACCEPT"}
  BY <1>1, <1>2 DEF Kex, Auth
<1>5. Legal(x, w, m)
  BY <1>1 DEF Legal, Expects, Knows, Common
<1>6. Common(d, y)
  <2>1. d.skey = c.skey
    BY DEF SameKeys
  <2> QED
    BY <2>1, Counts DEF Knows
<1> HIDE DEF y, v
<1>7. Stage(d, y, v)
  BY <1>1, <1>3, <1>4, StageStays
<1>8. Asked(d, y, v)
  BY <1>1, <1>3, <1>4 DEF Asked
<1> QED
  BY <1>5, <1>6, <1>7, <1>8 DEF Knows, y, v

(* So are requests for authentication. *)
LEMMA AuthKnown ==
  ASSUME NEW c, NEW x, NEW w, Knows(c, x, w), c.skey # NoKey,
         c.kex = "no" \/ (c.kex = "reply" /\ c.skey = KeyOf(c)), c.app = "auth",
         NEW m, m.t = "USERAUTH", m.b.session = c.session, m.key = c.skey, m.id = c.sid,
         NEW d, SameOffer(c, d), SameKeys(c, d), d.kex = c.kex, d.sid = c.sid + 1, d.app = "waits"
  PROVE  Legal(x, w, m) /\ Knows(d, After(x, m), w \cup Answer(x, m))
<1> DEFINE y == After(x, m)
           v == w \cup Answer(x, m)
<1>1. /\ x.pc = "auth" /\ ~x.auth /\ w \cap Auth = {} /\ x.session = c.session
      /\ AtRest(c, x, w) \/ (Renewing(c, x, w) /\ c.skey = KeyOf(c))
  BY FreeIs DEF Knows, Asked
<1>2. /\ Answer(x, m) = {Verdicts(m)} /\ ~Exchanged(x, m)
      /\ Place(x, m) = IF Granted(m) THEN "run" ELSE "auth"
  BY <1>1 DEF Answer, Exchanged, Place
<1>3. /\ y.pc = (IF Granted(m) THEN "run" ELSE "auth") /\ y.hash = x.hash /\ y.session = x.session
      /\ y.auth = Granted(m)
  BY <1>2, AfterIs
<1>4. /\ v \cap Kex = w \cap Kex /\ v \cap Auth = {Verdicts(m)}
      /\ Verdicts(m) \in IF Granted(m) THEN {"SUCCESS"} ELSE {"PK_OK", "FAILURE"}
  BY <1>1, <1>2 DEF Kex, Auth, Verdicts
<1>5. Legal(x, w, m)
  BY <1>1 DEF Legal, Expects, Knows, Common
<1>6. Common(d, y)
  <2>1. d.skey = c.skey
    BY DEF SameKeys
  <2> QED
    BY <2>1, Counts DEF Knows
<1> HIDE DEF y, v
<1>7. Stage(d, y, v)
  BY <1>1, <1>3, <1>4, StageStays
<1>8. Asked(d, y, v)
  BY <1>1, <1>3, <1>4 DEF Asked
<1> QED
  BY <1>5, <1>6, <1>7, <1>8 DEF Knows, y, v

(* So is what a polite client says on top. *)
LEMMA ChatKnown ==
  ASSUME NEW c, NEW x, NEW w, Knows(c, x, w), ClientOK(c), c.n > 0,
         NEW m, m.t \in {"IGNORE", "DATA", "OTHER"}, m.key = c.skey, m.id = c.sid,
         m.t = "IGNORE" => c.skey # NoKey \/ ~c.strict,
         m.t # "IGNORE" => /\ c.skey # NoKey /\ c.app = "yes"
                           /\ c.kex = "no" \/ (c.kex = "reply" /\ c.skey = KeyOf(c)),
         NEW d, SameOffer(c, d), SameKeys(c, d), d.kex = c.kex, d.sid = c.sid + 1,
         d.app = c.app, d.si = c.si
  PROVE  Legal(x, w, m) /\ Knows(d, After(x, m), w \cup Answer(x, m))
<1> DEFINE y == After(x, m)
           v == w \cup Answer(x, m)
<1>1. x.pc \notin {"hello", "kexinit"}
  BY DEF Knows, Stage, AtStart, AtRest, Offering, Agreeing, Renewing, ClientOK
<1>2. Answer(x, m) = {} /\ ~Exchanged(x, m) /\ Place(x, m) = x.pc
  BY DEF Answer, Exchanged, Place
<1>9. m.t # "USERAUTH"
  OBVIOUS
<1>3. /\ y.pc = x.pc /\ y.hash = x.hash /\ y.session = x.session /\ y.auth = x.auth /\ y.si = x.si
  <2>1. y.pc = x.pc /\ y.hash = x.hash /\ y.session = x.session
    <3>1. y.pc = Place(x, m)
      BY AfterIs
    <3>2. y.hash = IF Exchanged(x, m) THEN NewHash(x, m) ELSE x.hash
      BY AfterIs
    <3>3. y.session = IF Exchanged(x, m) /\ x.session = NoHash THEN NewHash(x, m) ELSE x.session
      BY AfterIs
    <3> QED
      BY <1>2, <3>1, <3>2, <3>3
  <2>2. y.auth = x.auth
    BY <1>9, AfterIs
  <2>3. y.si = x.si
    <3>1. y.si = IF "KEXINIT" \in Answer(x, m) THEN x.si + 1 ELSE x.si
      BY AfterIs
    <3> QED
      BY <1>2, <3>1
  <2> QED
    BY <2>1, <2>2, <2>3
<1>4. v = w
  BY <1>2
<1>5. Legal(x, w, m)
  <2>1. m.t # "IGNORE" => x.pc = "run"
    BY FreeIs DEF Knows, Asked
  <2> QED
    BY <1>1, <2>1 DEF Legal, Expects, Knows, Common
<1>6. Common(d, y)
  <2>1. d.skey = c.skey
    BY DEF SameKeys
  <2> QED
    BY <2>1, Counts DEF Knows
<1> HIDE DEF y, v
<1>7. Stage(d, y, w)
  <2>1. KeyOf(d) = KeyOf(c) /\ \A s : HashOf(d, s) = HashOf(c, s)
    BY DEF KeyOf, HashOf, SameKeys, SameOffer
  <2>2. OldKeys(c) => OldKeys(d)
    BY <2>1 DEF OldKeys, SameKeys, SameOffer
  <2>3. \A s : Hashed(c, x, s) => Hashed(d, y, s)
    BY <1>3, <2>1 DEF Hashed, SameKeys
  <2>4. ~AtStart(c, x, w)
    BY <1>1 DEF AtStart
  <2>5. AtRest(c, x, w) => AtRest(d, y, w)
    BY <1>3, <2>1 DEF AtRest, SameKeys, SameOffer
  <2>6. Offering(c, x, w) => Offering(d, y, w)
    BY <1>3, <2>2, <2>3 DEF Offering, SameKeys, SameOffer
  <2>7. Agreeing(c, x, w) => Agreeing(d, y, w)
    BY <1>3, <2>2, <2>3 DEF Agreeing, SameKeys, SameOffer
  <2>8. Renewing(c, x, w) => Renewing(d, y, w)
    BY <1>3, <2>1 DEF Renewing, SameKeys, SameOffer
  <2> QED
    BY <2>4, <2>5, <2>6, <2>7, <2>8 DEF Knows, Stage
<1>8. Asked(d, y, w)
  BY <1>3 DEF Knows, Asked
<1> QED
  BY <1>4, <1>5, <1>6, <1>7, <1>8 DEF Knows, y, v

-----------------------------------------------------------------------------
(* The rest of an exchange. *)

(* The client's NEWKEYS. *)
LEMMA NewkeysKnown ==
  ASSUME NEW c, NEW x, NEW w, Knows(c, x, w), c.kex = "reply", c.skey # KeyOf(c),
         NEW m, m.t = "NEWKEYS", m.key = c.skey, m.id = c.sid,
         NEW d, SameOffer(c, d), d.skey = KeyOf(c), d.rkey = c.rkey, d.hash = c.hash,
         d.session = c.session, d.kex = (IF c.rkey = KeyOf(c) THEN "no" ELSE c.kex),
         d.sid = (IF c.strict THEN 0 ELSE c.sid + 1), d.app = c.app
  PROVE  Legal(x, w, m) /\ Knows(d, After(x, m), w \cup Answer(x, m))
<1> DEFINE y == After(x, m)
           v == w \cup Answer(x, m)
<1>1. Renewing(c, x, w)
  BY DEF Knows, Stage, AtStart, AtRest, Offering, Agreeing
<1>2. /\ x.pc = "newkeys" /\ x.hash = c.hash /\ x.session = c.session /\ c.n > 0
      /\ w \cap Kex = IF c.rkey = KeyOf(c) THEN {} ELSE {"NEWKEYS"}
      /\ c.hash # NoHash /\ c.session # NoHash /\ c.hash.ci = c.n
  BY <1>1 DEF Renewing
<1>3. Answer(x, m) = {} /\ ~Exchanged(x, m) /\ Place(x, m) = IF x.auth THEN "run" ELSE "service"
  BY DEF Answer, Exchanged, Place
<1>4. /\ y.pc = (IF x.auth THEN "run" ELSE "service") /\ y.hash = x.hash /\ y.session = x.session
      /\ y.auth = x.auth
  BY <1>3, AfterIs
<1>5. v = w
  BY <1>3
<1>6. Legal(x, w, m)
  BY <1>2 DEF Legal, Expects, Knows, Common
<1>7. Common(d, y)
  <2>1. d.skey = <<x.hash, x.session>>
    BY <1>2 DEF KeyOf
  <2> QED
    BY <1>2, <2>1, Counts DEF Knows
<1>8. KeyOf(d) = KeyOf(c)
  BY DEF KeyOf
<1> HIDE DEF y, v
<1>9. Stage(d, y, w)
  <2>1. CASE c.rkey = KeyOf(c)
    <3>1. AtRest(d, y, w)
      BY <1>2, <1>4, <1>8, <2>1 DEF AtRest, SameOffer
    <3> QED
      BY <3>1 DEF Stage
  <2>2. CASE c.rkey # KeyOf(c)
    <3>1. Renewing(d, y, w)
      BY <1>2, <1>4, <1>8, <2>2 DEF Renewing, SameOffer
    <3> QED
      BY <3>1 DEF Stage
  <2> QED
    BY <2>1, <2>2
<1>10. Asked(d, y, w)
  BY <1>2, <1>4 DEF Knows, Asked
<1> QED
  BY <1>5, <1>6, <1>7, <1>9, <1>10 DEF Knows, y, v

(* The key, sent with the offer as a guess or in answer to the server's. *)
LEMMA KexdhKnown ==
  ASSUME NEW c, NEW x, NEW w, Common(c, x), Asked(c, x, w), OldKeys(c), Sound(c.offer),
         NEW m, m.t = "KEXDH", m.key = c.skey, m.id = c.sid,
         x.hash = c.hash, x.session = c.session,
         NEW d, SameOffer(c, d), SameKeys(c, d), d.sid = c.sid + 1, d.app = c.app,
         \/ /\ x.pc = AfterParse(c.offer) /\ w \cap Kex = {"KEXINIT"} /\ c.offer.follows
            /\ m.b.alg = c.offer.kex[1] /\ m.b.guess = TRUE /\ d.kex = "init"
         \/ /\ x.pc = "kexdh" /\ w \cap Kex = {} /\ ~Right(c.offer)
            /\ m.b.alg = KexChoice(c.offer) /\ m.b.guess = FALSE
            /\ d.kex = "dh" /\ d.si = x.si
  PROVE  Legal(x, w, m) /\ Knows(d, After(x, m), w \cup Answer(x, m))
<1> DEFINE y == After(x, m)
           v == w \cup Answer(x, m)
<1>1. Common(d, y)
  <2>1. d.skey = c.skey
    BY DEF SameKeys
  <2> QED
    BY <2>1, Counts
<1>2. KeyOf(d) = KeyOf(c) /\ (\A s : HashOf(d, s) = HashOf(c, s)) /\ OldKeys(d)
  BY DEF KeyOf, HashOf, SameKeys, SameOffer, OldKeys
<1>3. x.offer = Numbered(c.offer, c.n) /\ x.offer.n = c.n /\ KexChoice(x.offer) = KexChoice(c.offer)
  <2>1. x.offer = Numbered(c.offer, c.n)
    BY DEF Common, OldKeys
  <2> QED
    BY <2>1, NumberedIs
<1>4. Legal(x, w, m) <=> Expects(x, w, m)
  BY DEF Legal, Common
<1>5. CASE x.pc = "guess"
  <2>1. ~Right(c.offer) /\ d.kex = "init" /\ w \cap Kex = {"KEXINIT"}
    BY <1>5 DEF AfterParse, Right, Sound
  <2>2. Answer(x, m) = {} /\ ~Exchanged(x, m) /\ Place(x, m) = "kexdh"
    BY <1>5 DEF Answer, Exchanged, Place
  <2>3. y.pc = "kexdh" /\ y.hash = x.hash /\ y.session = x.session /\ y.auth = x.auth
    BY <2>2, AfterIs
  <2>4. Expects(x, w, m)
    BY <1>5 DEF Expects
  <2>5. v = w
    BY <2>2
  <2> HIDE DEF y, v
  <2>6. Offering(d, y, w)
    BY <1>2, <2>1, <2>3 DEF Offering, SameOffer, SameKeys
  <2>7. Asked(d, y, w)
    BY <1>5, <2>3 DEF Asked
  <2> QED
    BY <1>1, <1>4, <2>4, <2>5, <2>6, <2>7 DEF Knows, Stage, y, v
<1>6. CASE x.pc = "kexdh"
  <2>1. /\ m.b.alg = KexChoice(x.offer) /\ "REPLY" \notin w /\ "NEWKEYS" \notin w
        /\ m.b.guess = Right(c.offer)
    <3>1. CASE w \cap Kex = {"KEXINIT"} /\ c.offer.follows /\ m.b.alg = c.offer.kex[1] /\ m.b.guess = TRUE
               /\ x.pc = AfterParse(c.offer)
      <4>1. kex_guess(c.offer) /\ Right(c.offer)
        BY <1>6, <3>1 DEF AfterParse, Right, Sound
      <4>2. m.b.alg = KexChoice(c.offer)
        BY <3>1, <4>1, GuessChosen
      <4>3. "REPLY" \notin w /\ "NEWKEYS" \notin w
        BY <3>1 DEF Kex
      <4>4. m.b.guess = Right(c.offer)
        BY <3>1, <4>1 DEF Right
      <4> QED
        BY <1>3, <4>2, <4>3, <4>4
    <3>2. CASE w \cap Kex = {} /\ ~Right(c.offer) /\ m.b.alg = KexChoice(c.offer) /\ m.b.guess = FALSE
      BY <1>3, <3>2 DEF Kex, Right
    <3> QED
      BY <3>1, <3>2
  <2>2. Answer(x, m) = {"REPLY", "NEWKEYS"} /\ Exchanged(x, m) /\ Place(x, m) = "newkeys"
    BY <1>6 DEF Answer, Exchanged, Place
  <2>3. /\ y.pc = "newkeys" /\ y.auth = x.auth /\ y.si = x.si /\ y.hash = NewHash(x, m)
        /\ y.session = IF x.session = NoHash THEN NewHash(x, m) ELSE x.session
    BY <2>2, AfterIs
  <2>4. NewHash(x, m) = HashOf(d, x.si)
    BY <1>2, <1>3, <2>1 DEF NewHash, HashOf
  <2>5. Expects(x, w, m)
    BY <1>6, <2>1 DEF Expects
  <2>6. v \cap Auth = w \cap Auth
    BY <2>2 DEF Auth
  <2>7. Hashed(d, y, x.si)
    BY <2>3, <2>4 DEF Hashed, SameKeys
  <2>12. v = w \cup {"REPLY", "NEWKEYS"}
    BY <2>2
  <2> HIDE DEF y, v
  <2>8. ASSUME w \cap Kex = {"KEXINIT"} /\ c.offer.follows /\ d.kex = "init" /\ x.pc = AfterParse(c.offer)
        PROVE  Stage(d, y, v)
    <3>1. Right(d.offer)
      BY <1>6, <2>8 DEF AfterParse, Right, Sound, SameOffer
    <3>2. v \cap Kex = Kex
      BY <2>8, <2>12 DEF Kex
    <3> QED
      BY <1>2, <2>3, <2>7, <2>8, <3>1, <3>2 DEF Stage, Offering
  <2>9. ASSUME w \cap Kex = {} /\ d.kex = "dh" /\ d.si = x.si
        PROVE  Stage(d, y, v)
    <3>2. v \cap Kex = {"REPLY", "NEWKEYS"}
      BY <2>9, <2>12 DEF Kex
    <3> QED
      BY <1>2, <2>3, <2>7, <2>9, <3>2 DEF Stage, Agreeing
  <2>10. Stage(d, y, v)
    BY <2>8, <2>9
  <2>11. Asked(d, y, v)
    BY <1>6, <2>3, <2>6 DEF Asked
  <2> QED
    BY <1>1, <1>4, <2>5, <2>10, <2>11 DEF Knows, y, v
<1>7. x.pc \in {"guess", "kexdh"}
  BY DEF AfterParse
<1> QED
  BY <1>5, <1>6, <1>7

-----------------------------------------------------------------------------
(* What the client hears. z is what the server knows now and u the answers on
   their way; x and w are what they will be. *)

(* The client hears the server's KEXINIT. *)
LEMMA HearKexinit ==
  ASSUME NEW c, NEW x, NEW w, NEW z, NEW u, Knows(c, x, w), Onward(z, u, x, w),
         "KEXINIT" \in u, c.kex = "init"
  PROVE  /\ Offering(c, x, w) /\ x.si = z.si
         /\ Common(c, x) /\ Asked(c, x, w \ {"KEXINIT"}) /\ OldKeys(c)
         /\ ~Right(c.offer) => /\ x.pc = "kexdh" /\ (w \ {"KEXINIT"}) \cap Kex = {}
                               /\ x.hash = c.hash /\ x.session = c.session
<1>1. Offering(c, x, w)
  BY DEF Knows, Stage, AtStart, AtRest, Agreeing, Renewing
<1>2. x.si = z.si
  BY DEF Onward
<1>3. Asked(c, x, w \ {"KEXINIT"})
  <2>1. (w \ {"KEXINIT"}) \cap Auth = w \cap Auth
    BY DEF Auth
  <2> QED
    BY <2>1 DEF Asked, Knows
<1>4. ~Right(c.offer) => /\ x.pc = "kexdh" /\ (w \ {"KEXINIT"}) \cap Kex = {}
                         /\ x.hash = c.hash /\ x.session = c.session
  BY <1>1 DEF Offering
<1> QED
  BY <1>1, <1>2, <1>3, <1>4 DEF Knows, Offering

(* The guess was right: its answer comes next. *)
LEMMA GuessTaken ==
  ASSUME NEW c, NEW x, NEW w, NEW z, NEW u, Knows(c, x, w), Onward(z, u, x, w),
         "KEXINIT" \in u, c.kex = "init", Right(c.offer),
         NEW d, SameOffer(c, d), SameKeys(c, d), d.kex = "dh", d.si = z.si, d.sid = c.sid, d.app = c.app
  PROVE  Knows(d, x, w \ {"KEXINIT"})
<1> DEFINE v == w \ {"KEXINIT"}
<1>1. /\ Offering(c, x, w) /\ x.si = z.si /\ Common(c, x) /\ Asked(c, x, v) /\ OldKeys(c)
  <2>1. Offering(c, x, w) /\ Common(c, x)
    BY HearKexinit
  <2>3. x.si = z.si
    BY DEF Onward
  <2>2. Asked(c, x, v) /\ OldKeys(c)
    BY HearKexinit
  <2> QED
    BY <2>1, <2>2, <2>3
<1>2. x.pc = "newkeys" /\ w \cap Kex = Kex /\ Hashed(c, x, x.si)
  BY <1>1 DEF Offering
<1>3. v \cap Kex = {"REPLY", "NEWKEYS"}
  BY <1>2 DEF Kex
<1> HIDE DEF v
<1>4. Hashed(d, x, d.si) /\ OldKeys(d)
  <2>1. KeyOf(d) = KeyOf(c) /\ HashOf(d, d.si) = HashOf(c, x.si)
    BY <1>1 DEF KeyOf, HashOf, SameKeys, SameOffer
  <2> QED
    BY <1>1, <1>2, <2>1 DEF Hashed, OldKeys, SameKeys, SameOffer
<1>5. Agreeing(d, x, v)
  BY <1>1, <1>2, <1>3, <1>4 DEF Agreeing
<1>6. Asked(d, x, v)
  BY <1>1 DEF Asked
<1>7. Common(d, x)
  BY <1>1 DEF Common, SameOffer, SameKeys
<1> QED
  BY <1>5, <1>6, <1>7 DEF Knows, Stage, v

(* The reply: both sides have computed the same. *)
LEMMA HearReply ==
  ASSUME NEW c, NEW x, NEW w, NEW z, NEW u, Knows(c, x, w), Onward(z, u, x, w), ClientOK(c),
         "REPLY" \in u, "NEWKEYS" \in u, "KEXINIT" \notin u,
         NEW d, SameOffer(c, d), d.skey = c.skey, d.rkey = c.rkey, d.kex = "reply",
         d.hash = HashOf(c, c.si), d.session = (IF c.session = NoHash THEN HashOf(c, c.si) ELSE c.session),
         d.sid = c.sid, d.app = c.app
  PROVE  /\ Knows(d, x, w \ {"REPLY"}) /\ z.hash = d.hash /\ z.session = d.session
<1> DEFINE v == w \ {"REPLY"}
           h == HashOf(c, c.si)
<1>1. w \cap Kex = u \cap Kex /\ x.hash = z.hash /\ x.session = z.session
  BY DEF Onward
<1>2. "REPLY" \in w \cap Kex /\ "KEXINIT" \notin w \cap Kex
  BY <1>1 DEF Kex
<1>3. Agreeing(c, x, w)
  BY <1>2 DEF Knows, Stage, AtStart, AtRest, Offering, Renewing, Kex
<1>4. /\ OldKeys(c) /\ x.pc = "newkeys" /\ x.hash = h /\ x.session = d.session
      /\ w \cap Kex = {"REPLY", "NEWKEYS"}
  BY <1>3 DEF Agreeing, Hashed
<1>5. h # NoHash /\ h.ci = c.n
  BY HashIs DEF HashOf
<1>6. v \cap Kex = {"NEWKEYS"} /\ v \cap Auth = w \cap Auth
  BY <1>4 DEF Kex, Auth
<1> HIDE DEF v, h
<1>7. d.hash = h
  BY DEF h
<1>8. d.session # NoHash
  BY <1>5 DEF h
<1>9. c.skey # KeyOf(d) /\ c.rkey = c.skey
  <2>1. c.rkey = c.skey
    BY <1>4 DEF OldKeys
  <2>2. CASE c.hash = NoHash
    BY <1>4, <2>1, <2>2, KeyIs DEF OldKeys
  <2>3. CASE c.hash # NoHash
    <3>1. c.skey = KeyOf(c) /\ c.hash.ci < c.n /\ c.n \in Nat
      BY <1>4, <2>3 DEF OldKeys, ClientOK
    <3>2. c.hash # h
      BY <1>5, <3>1
    <3> QED
      BY <1>7, <2>1, <3>1, <3>2 DEF KeyOf
  <2> QED
    BY <2>2, <2>3
<1>10. Renewing(d, x, v)
  <2>1. c.n > 0
    BY <1>4 DEF OldKeys
  <2> QED
    BY <1>4, <1>5, <1>6, <1>7, <1>8, <1>9, <2>1 DEF Renewing, SameOffer
<1>11. Asked(d, x, v)
  BY <1>6 DEF Asked, Knows
<1>12. Common(d, x)
  BY DEF Common, SameOffer, Knows
<1>13. Knows(d, x, v) /\ z.hash = d.hash /\ z.session = d.session
  BY <1>1, <1>4, <1>7, <1>10, <1>11, <1>12 DEF Knows, Stage
<1> QED
  BY <1>13 DEF v

(* The server's NEWKEYS. *)
LEMMA HearNewkeys ==
  ASSUME NEW c, NEW x, NEW w, NEW z, NEW u, Knows(c, x, w), Onward(z, u, x, w),
         "NEWKEYS" \in u, "KEXINIT" \notin u, "REPLY" \notin u,
         NEW d, SameOffer(c, d), d.skey = c.skey, d.rkey = KeyOf(c), d.hash = c.hash, d.session = c.session,
         d.kex = (IF c.skey = KeyOf(c) THEN "no" ELSE c.kex), d.sid = c.sid, d.app = c.app
  PROVE  /\ Knows(d, x, w \ {"NEWKEYS"})
<1> DEFINE v == w \ {"NEWKEYS"}
<1>1. w \cap Kex = u \cap Kex
  BY DEF Onward
<1>2. w \cap Kex = {"NEWKEYS"}
  BY <1>1 DEF Kex
<1>3. Renewing(c, x, w)
  BY <1>2 DEF Knows, Stage, AtStart, AtRest, Offering, Agreeing, Kex
<1>4. v \cap Kex = {} /\ v \cap Auth = w \cap Auth
  BY <1>2 DEF Kex, Auth
<1> HIDE DEF v
<1>5. KeyOf(d) = KeyOf(c)
  BY DEF KeyOf
<1>6. Stage(d, x, v)
  <2>1. CASE c.skey = KeyOf(c)
    <3>1. AtRest(d, x, v)
      BY <1>3, <1>4, <1>5, <2>1 DEF AtRest, Renewing, SameOffer
    <3> QED
      BY <3>1 DEF Stage
  <2>2. CASE c.skey # KeyOf(c)
    <3>1. Renewing(d, x, v)
      BY <1>3, <1>4, <1>5, <2>2 DEF Renewing, SameOffer
    <3> QED
      BY <3>1 DEF Stage
  <2> QED
    BY <2>1, <2>2
<1>7. Asked(d, x, v)
  BY <1>4 DEF Asked, Knows
<1>8. Common(d, x)
  BY DEF Common, SameOffer, Knows
<1>9. Knows(d, x, v)
  BY <1>6, <1>7, <1>8 DEF Knows
<1> QED
  BY <1>9 DEF v

(* Another exchange answer, or none, leaves the client where it is. *)
LEMMA StageSame ==
  ASSUME NEW c, NEW x, NEW w, NEW v, Stage(c, x, w), v \cap Kex = w \cap Kex,
         NEW d, SameOffer(c, d), SameKeys(c, d), d.kex = c.kex, d.si = c.si
  PROVE  Stage(d, x, v)
<1>1. KeyOf(d) = KeyOf(c) /\ \A s : HashOf(d, s) = HashOf(c, s)
  BY DEF KeyOf, HashOf, SameKeys, SameOffer
<1>2. OldKeys(c) => OldKeys(d)
  BY <1>1 DEF OldKeys, SameKeys, SameOffer
<1>3. \A s : Hashed(c, x, s) => Hashed(d, x, s)
  BY <1>1 DEF Hashed, SameKeys
<1>4. AtStart(c, x, w) => AtStart(d, x, v)
  BY <1>1 DEF AtStart, SameKeys, SameOffer
<1>5. AtRest(c, x, w) => AtRest(d, x, v)
  BY <1>1 DEF AtRest, SameKeys, SameOffer
<1>6. Offering(c, x, w) => Offering(d, x, v)
  BY <1>2, <1>3 DEF Offering, SameKeys, SameOffer
<1>7. Agreeing(c, x, w) => Agreeing(d, x, v)
  BY <1>2, <1>3 DEF Agreeing, SameKeys, SameOffer
<1>8. Renewing(c, x, w) => Renewing(d, x, v)
  BY <1>1 DEF Renewing, SameKeys, SameOffer
<1> QED
  BY <1>4, <1>5, <1>6, <1>7, <1>8 DEF Stage

(* The answer to what it asked for. *)
LEMMA HearAuth ==
  ASSUME NEW c, NEW x, NEW w, NEW z, NEW u, Knows(c, x, w), Onward(z, u, x, w),
         NEW t, t \in Auth, t \in u,
         NEW d, SameOffer(c, d), SameKeys(c, d), d.kex = c.kex, d.si = c.si, d.sid = c.sid,
         d.app = IF t = "SUCCESS" THEN "yes" ELSE "auth"
  PROVE  Knows(d, x, w \ {t})
<1> DEFINE v == w \ {t}
<1>1. t \in w \cap Auth
  BY DEF Onward
<1>2. v \cap Kex = w \cap Kex /\ v \cap Auth = (w \cap Auth) \ {t}
  BY DEF Kex, Auth
<1> HIDE DEF v
<1>3. Asked(d, x, v)
  BY <1>1, <1>2 DEF Asked, Knows
<1>4. Stage(d, x, v)
  BY <1>2, StageSame DEF Knows
<1>5. Common(d, x)
  BY DEF Common, SameOffer, SameKeys, Knows
<1>6. Knows(d, x, v)
  BY <1>3, <1>4, <1>5 DEF Knows
<1> QED
  BY <1>6 DEF v

(* It hears a packet that answers nothing. *)
LEMMA HearOther ==
  ASSUME NEW c, NEW x, NEW w, Knows(c, x, w),
         NEW d, SameOffer(c, d), SameKeys(c, d), d.kex = c.kex, d.si = c.si, d.sid = c.sid, d.app = c.app
  PROVE  Knows(d, x, w)
<1>1. Stage(d, x, w)
  BY StageSame DEF Knows
<1>2. Asked(d, x, w)
  BY DEF Asked, Knows
<1>3. Common(d, x)
  BY DEF Common, SameOffer, SameKeys, Knows
<1> QED
  BY <1>1, <1>2, <1>3 DEF Knows

-----------------------------------------------------------------------------
(* Both sides. *)

(* The packets of q are legal for a server that knows z when u is on its way,
   and client c knows what comes of it. *)
Foretold(q, z, u, c) ==
  \E f, o : /\ Script(q, f, o) /\ f[1] = z /\ o[1] = u
            /\ Knows(c, f[Len(q) + 1], o[Len(q) + 1])

(* The key of what the server sends next: while it waits for NEWKEYS, the new
   one, for it sends nothing until then. *)
NextKey == IF pc = "newkeys" THEN <<hash, sessionid>> ELSE SendKey

(* What is on its way to the client is what it expects. *)
Heard ==
  /\ Sequence(s2c)
  /\ Readable(s2c, client.rkey, NextKey, client.rid, sendid, client.strict)
  /\ Means(s2c, kexsend, hash)
Paired ==
  /\ "NEWKEYS" \in Types(s2c) => NextKey = <<hash, sessionid>>
  /\ "REPLY" \in Types(s2c) =>
        /\ "NEWKEYS" \in Types(s2c)
        /\ sessionid = IF client.session = NoHash THEN hash ELSE client.session
  /\ "REPLY" \notin Types(s2c) => hash = client.hash /\ sessionid = client.session

Agreed ==
  /\ Sequence(c2s) /\ ClientOK(client) /\ Rekeyed /\ Heard /\ Paired
  /\ Foretold(c2s, Present, Owed, client)

-----------------------------------------------------------------------------
(* The server's state, as the prophecy has it. *)
LEMMA PresentWas ==
  ASSUME NEW x, Present' = x
  PROVE  /\ pc' = x.pc /\ strict' = x.strict /\ SendKey' = x.key /\ recvid' = x.id /\ kexrecv' = x.offer
         /\ kexsend' = x.si /\ hash' = x.hash /\ sessionid' = x.session /\ flagauthorized' = x.auth
  BY DEF Present

(* The packet at the head is legal. *)
LEMMA HeadLegal ==
  ASSUME Agreed, c2s # <<>> PROVE Legal(Present, Owed, Head(c2s))
<1>1. PICK f, o : /\ Script(c2s, f, o) /\ f[1] = Present /\ o[1] = Owed
  BY DEF Agreed, Foretold
<1> QED
  BY <1>1, ScriptShorter DEF Agreed

(* Strict mode is the client's from its first KEXINIT on. *)
LEMMA SameStrict ==
  ASSUME Agreed, pc \notin {"hello", "kexinit"} PROVE strict <=> client.strict
<1> DEFINE n == Len(c2s) + 1
<1>1. Len(c2s) \in Nat
  BY LenProperties DEF Agreed, Sequence
<1>2. PICK f, o : Script(c2s, f, o) /\ f[1] = Present /\ o[1] = Owed /\ Knows(client, f[n], o[n])
  BY DEF Agreed, Foretold
<1>3. Onward(f[1], o[1], f[n], o[n])
  BY <1>1, <1>2 DEF Script
<1> HIDE DEF n
<1>4. f[n].pc \notin {"hello", "kexinit"} /\ (f[n].strict <=> strict)
  BY <1>2, <1>3, PresentIs DEF Onward
<1>5. client.n > 0
  BY <1>2, <1>4 DEF Knows, Stage, AtStart, AtRest, Offering, Agreeing, Renewing, OldKeys
<1> QED
  BY <1>2, <1>4, <1>5 DEF Knows, Common

(* The server has taken packet m, and put ts; the client knew. *)
LEMMA ForetoldOn ==
  ASSUME Agreed, c2s # <<>>, c2s' = Tail(c2s), client' = client,
         Present' = After(Present, Head(c2s)), Owed' = Owed \cup Answer(Present, Head(c2s))
  PROVE  Foretold(c2s, Present, Owed, client)'
<1> DEFINE n == Len(c2s) + 1
<1>1. PICK f, o : Script(c2s, f, o) /\ f[1] = Present /\ o[1] = Owed /\ Knows(client, f[n], o[n])
  BY DEF Agreed, Foretold
<1>2. PICK g, u : /\ Script(Tail(c2s), g, u) /\ g[1] = Present' /\ u[1] = Owed'
                  /\ g[Len(c2s)] = f[n] /\ u[Len(c2s)] = o[n]
  BY <1>1, ScriptShorter DEF Agreed
<1>3. Len(Tail(c2s)) + 1 = Len(c2s) /\ Sequence(Tail(c2s))
  BY Shorter DEF Agreed
<1>4. Knows(client, g[Len(Tail(c2s)) + 1], u[Len(Tail(c2s)) + 1])
  BY <1>1, <1>2, <1>3
<1> QED
  BY <1>2, <1>4 DEF Foretold

(* Outside the reply, neither the hashes nor the next key change. *)
LEMMA KeyGoesOn ==
  ASSUME NEW m, Legal(Present, Owed, m), Present' = After(Present, m), ~Exchanged(Present, m)
  PROVE  NextKey' = NextKey /\ hash' = hash /\ sessionid' = sessionid
<1>1. /\ pc' = Place(Present, m) /\ hash' = hash /\ sessionid' = sessionid
      /\ SendKey' = IF m.t = "NEWKEYS" THEN <<hash, sessionid>> ELSE SendKey
  <2> DEFINE y == After(Present, m)
  <2>1. /\ y.pc = Place(Present, m)
        /\ y.key = IF m.t = "NEWKEYS" THEN <<Present.hash, Present.session>> ELSE Present.key
    BY AfterIs
  <2>2. /\ y.hash = IF Exchanged(Present, m) THEN NewHash(Present, m) ELSE Present.hash
        /\ y.session = IF Exchanged(Present, m) /\ Present.session = NoHash THEN NewHash(Present, m)
                       ELSE Present.session
    BY AfterIs
  <2>3. Present' = y
    OBVIOUS
  <2> HIDE DEF y
  <2>4. pc' = y.pc /\ SendKey' = y.key /\ hash' = y.hash /\ sessionid' = y.session
    BY <2>3, PresentWas
  <2> QED
    BY <2>1, <2>2, <2>4, PresentIs
<1>2. Expects(Present, Owed, m)
  BY DEF Legal
<1>3. CASE m.t = "NEWKEYS"
  <2>1. pc = "newkeys" /\ pc' # "newkeys"
    BY <1>1, <1>2, <1>3, PresentIs DEF Expects, Place
  <2> QED
    BY <1>1, <1>3, <2>1 DEF NextKey
<1>4. CASE m.t # "NEWKEYS"
  <2>1. pc' = "newkeys" <=> pc = "newkeys"
    BY <1>1, <1>2, <1>4, PresentIs DEF Expects, Place, AfterParse, Exchanged
  <2> QED
    BY <1>1, <1>4, <2>1 DEF NextKey
<1> QED
  BY <1>1, <1>3, <1>4

(* What is on its way when a packet of another kind than the two of the reply
   is put. *)
LEMMA AddsHeard ==
  ASSUME Heard, Paired, NEW t, NEW b, Adds(t, b), t \notin {"REPLY", "NEWKEYS"},
         Behind(Types(s2c), t), pc # "newkeys", UNCHANGED <<client, NextKey, hash, sessionid>>,
         "KEXINIT" \in Types(s2c) => kexsend' = kexsend, t = "KEXINIT" => b = kexsend'
  PROVE  Heard' /\ Paired' /\ Types(s2c)' = Types(s2c) \cup {t}
<1> DEFINE m == Packet(t, b, SendKey, sendid)
<1>1. m.t = t /\ m.b = b /\ m.key = NextKey /\ m.id = sendid
  BY DEF Packet, NextKey
<1>2. s2c' = Append(s2c, m) /\ sendid' = sendid + 1
  BY DEF Adds
<1> HIDE DEF m
<1>3. Sequence(s2c')
  BY <1>2, Longer DEF Heard
<1>4. Types(s2c)' = Types(s2c) \cup {t}
  <2>1. Types(Append(s2c, m)) = Types(s2c) \cup {m.t}
    BY TypesLonger DEF Heard
  <2> QED
    BY <1>1, <1>2, <2>1
<1>5. Readable(s2c, client.rkey, NextKey, client.rid, sendid, client.strict)'
  <2>1. Readable(s2c, client.rkey, NextKey, client.rid, m.id, client.strict)
    BY <1>1 DEF Heard
  <2>2. Readable(Append(s2c, m), client.rkey, NextKey, client.rid, m.id + 1, client.strict)
    BY <1>1, <2>1, ReadableLonger DEF Heard
  <2> QED
    BY <1>1, <1>2, <2>2
<1>6. Means(s2c, kexsend, hash)'
  <2>1. Means(s2c, kexsend', hash)
    BY MeansAnew DEF Heard
  <2>2. Means(Append(s2c, m), kexsend', hash)
    BY <1>1, <2>1, MeansLonger DEF Heard
  <2> QED
    BY <1>2, <2>2
<1>7. Paired'
  BY <1>4 DEF Paired
<1> QED
  BY <1>3, <1>4, <1>5, <1>6, <1>7 DEF Heard

(* What is on its way after the reply. *)
LEMMA ReplyHeard ==
  ASSUME Heard, Paired, NEW h, AddsPair(h), sendid \in Nat, pc = "kexdh", client' = client,
         "REPLY" \notin Types(s2c), "NEWKEYS" \notin Types(s2c),
         strict <=> client.strict, kexsend' = kexsend, hash' = h,
         NextKey' = <<hash', sessionid'>>,
         sessionid' = (IF sessionid = NoHash THEN hash' ELSE sessionid)
  PROVE  Heard' /\ Paired' /\ Types(s2c)' = Types(s2c) \cup {"REPLY", "NEWKEYS"}
<1> DEFINE m == Packet("REPLY", h, SendKey, sendid)
           k == Packet("NEWKEYS", 0, SendKey, sendid + 1)
           q == Append(s2c, m)
<1>1. /\ m.t = "REPLY" /\ m.b = h /\ m.key = NextKey /\ m.id = sendid
      /\ k.t = "NEWKEYS" /\ k.key = NextKey /\ k.id = sendid + 1
  BY DEF Packet, NextKey
<1>2. s2c' = Append(q, k) /\ sendid' = IF strict THEN 0 ELSE sendid + 2
  BY DEF AddsPair
<1> HIDE DEF m, k
<1>3. Sequence(q) /\ Sequence(Append(q, k))
  BY Longer DEF Heard
<1>4. Types(q) = Types(s2c) \cup {"REPLY"} /\ Types(Append(q, k)) = Types(s2c) \cup {"REPLY", "NEWKEYS"}
  <2>1. Types(q) = Types(s2c) \cup {m.t}
    BY TypesLonger DEF Heard
  <2>2. Types(Append(q, k)) = Types(q) \cup {k.t}
    BY <1>3, TypesLonger
  <2> QED
    BY <1>1, <2>1, <2>2
<1>5. Means(Append(q, k), kexsend', h)
  <2>1. Means(s2c, kexsend', h)
    BY MeansAnew DEF Heard
  <2>2. Means(q, kexsend', h)
    BY <1>1, <2>1, MeansLonger DEF Heard
  <2> QED
    BY <1>1, <1>3, <2>2, MeansLonger
<1>6. Readable(q, client.rkey, NextKey, client.rid, sendid + 1, client.strict)
  <2>1. Readable(s2c, client.rkey, NextKey, client.rid, m.id, client.strict)
    BY <1>1 DEF Heard
  <2>2. Behind(Types(s2c), m.t)
    BY <1>1 DEF Behind
  <2> QED
    BY <1>1, <2>1, <2>2, ReadableLonger DEF Heard
<1>7. Behind(Types(q), k.t)
  BY <1>1, <1>4 DEF Behind
<1> HIDE DEF q
<1>8. Readable(Append(q, k), client.rkey, NextKey', client.rid, sendid', client.strict)
  <2>1. Readable(q, client.rkey, NextKey, client.rid, k.id, client.strict)
    BY <1>1, <1>6
  <2>2. \A x : Readable(Append(q, k), client.rkey, x, client.rid, NextId(k, client.strict), client.strict)
    BY <1>1, <1>3, <1>7, <2>1, ReadableLonger
  <2>3. sendid' = NextId(k, client.strict)
    BY <1>1, <1>2 DEF NextId
  <2> QED
    BY <2>2, <2>3
<1>9. Heard'
  BY <1>2, <1>3, <1>5, <1>8 DEF Heard
<1>10. Paired'
  BY <1>2, <1>4 DEF Paired
<1> QED
  BY <1>2, <1>4, <1>9, <1>10

-----------------------------------------------------------------------------
(* The steps of the server. *)
LEMMA OutputAgrees == Agreed /\ Outputs => Agreed'
<1> SUFFICES ASSUME Agreed, Outputs PROVE Agreed'
  OBVIOUS
<1>1. UNCHANGED <<c2s, client, Present, flagrekeying>> /\ Adds("DATA", 0) /\ pc # "newkeys"
  BY DEF Outputs
<1>2. UNCHANGED <<pc, SendKey, hash, sessionid, kexsend>>
  <2>1. Present' = Present
    BY <1>1
  <2> QED
    BY <2>1, PresentWas, PresentIs
<1>3. NextKey' = NextKey
  BY <1>2 DEF NextKey
<1>4. Behind(Types(s2c), "DATA")
  BY DEF Behind, Kex, Auth
<1>5. Heard' /\ Paired' /\ Types(s2c)' = Types(s2c) \cup {"DATA"}
  BY <1>1, <1>2, <1>3, <1>4, AddsHeard DEF Agreed
<1>6. Owed' = Owed
  BY <1>5 DEF Owed, Kex, Auth
<1>7. Foretold(c2s, Present, Owed, client)'
  BY <1>1, <1>6 DEF Agreed
<1> QED
  BY <1>1, <1>2, <1>5, <1>7 DEF Agreed, Rekeyed

(* The server handles the packet at the head. *)
LEMMA HandlesAgrees ==
  ASSUME Agreed, c2s # <<>>, Handles(Head(c2s)), sendid \in Nat PROVE Agreed'
<1> DEFINE m == Head(c2s)
<1>1. /\ client' = client /\ c2s' = Tail(c2s) /\ Present' = After(Present, m) /\ Says(m) /\ Rekeyed'
  BY DEF Handles
<1>2. Legal(Present, Owed, m)
  BY HeadLegal
<1> HIDE DEF m
<1>3. Expects(Present, Owed, m)
  BY <1>2 DEF Legal
<1>7. \A t \in Kex \cup Auth : t \in Types(s2c) <=> t \in Owed
  BY DEF Owed
<1>8. kexsend' = IF "KEXINIT" \in Answer(Present, m) THEN kexsend + 1 ELSE kexsend
  <2>1. After(Present, m).si = IF "KEXINIT" \in Answer(Present, m) THEN Present.si + 1 ELSE Present.si
    BY AfterIs
  <2>2. kexsend' = After(Present, m).si
    BY <1>1, PresentWas
  <2> QED
    BY <2>1, <2>2, PresentIs
<1>4. Heard' /\ Paired' /\ Owed' = Owed \cup Answer(Present, m)
  <2>1. CASE s2c' = s2c /\ sendid' = sendid /\ Answer(Present, m) = {}
    <3>1. ~Exchanged(Present, m)
      BY <2>1 DEF Answer, Exchanged
    <3>2. NextKey' = NextKey /\ hash' = hash /\ sessionid' = sessionid
      BY <1>1, <1>2, <3>1, KeyGoesOn
    <3>3. kexsend' = kexsend
      BY <1>8, <2>1
    <3>4. Types(s2c)' = Types(s2c)
      BY <2>1
    <3>5. Heard'
      BY <1>1, <2>1, <3>2, <3>3 DEF Agreed, Heard
    <3>6. Paired'
      BY <1>1, <3>2, <3>4 DEF Agreed, Paired
    <3> QED
      BY <2>1, <3>4, <3>5, <3>6 DEF Owed
  <2>2. CASE m.t = "OTHER" /\ Adds("UNIMPL", m.id)
    <3>1. ~Exchanged(Present, m) /\ Answer(Present, m) = {} /\ pc # "newkeys"
      BY <1>3, <2>2, PresentIs DEF Answer, Exchanged, Expects
    <3>2. NextKey' = NextKey /\ hash' = hash /\ sessionid' = sessionid
      BY <1>1, <1>2, <3>1, KeyGoesOn
    <3>3. kexsend' = kexsend
      BY <1>8, <3>1
    <3>4. Behind(Types(s2c), "UNIMPL")
      BY DEF Behind, Kex, Auth
    <3>5. Heard' /\ Paired' /\ Types(s2c)' = Types(s2c) \cup {"UNIMPL"}
      BY <1>1, <2>2, <3>1, <3>2, <3>3, <3>4, AddsHeard DEF Agreed
    <3> QED
      BY <3>1, <3>5 DEF Owed, Kex, Auth
  <2>3. CASE \E t \in (Kex \cup Auth) \ {"REPLY", "NEWKEYS"} : \E b :
                Answer(Present, m) = {t} /\ Adds(t, b) /\ (t = "KEXINIT" => b = kexsend')
    <3>1. PICK t \in (Kex \cup Auth) \ {"REPLY", "NEWKEYS"} : \E b :
             Answer(Present, m) = {t} /\ Adds(t, b) /\ (t = "KEXINIT" => b = kexsend')
      BY <2>3
    <3>2. PICK b : Answer(Present, m) = {t} /\ Adds(t, b) /\ (t = "KEXINIT" => b = kexsend')
      BY <3>1
    <3>3. ~Exchanged(Present, m)
      BY <3>1, <3>2 DEF Answer, Exchanged
    <3>4. pc # "newkeys"
      BY <1>3, <3>2, <3>3, PresentIs DEF Answer, Expects
    <3>5. NextKey' = NextKey /\ hash' = hash /\ sessionid' = sessionid
      BY <1>1, <1>2, <3>3, KeyGoesOn
    <3>6. t \notin Types(s2c)
      BY <1>3, <1>7, <3>1, <3>2, AnswersAreNew
    <3>7. Behind(Types(s2c), t)
      <4>1. t = "KEXINIT" => Owed \cap Kex = {}
        <5>1. t = "KEXINIT" => m.t = "HELLO" \/ (m.t = "KEXINIT" /\ pc = "run")
          BY <3>2, <3>3, PresentIs DEF Answer, Verdicts
        <5>2. m.t = "HELLO" \/ (m.t = "KEXINIT" /\ pc = "run") => Owed \cap Kex = {}
          BY <1>3, PresentIs DEF Expects
        <5> QED
          BY <5>1, <5>2
      <4>2. t = "KEXINIT" => "REPLY" \notin Types(s2c) /\ "NEWKEYS" \notin Types(s2c)
        BY <1>7, <4>1 DEF Kex
      <4> QED
        BY <3>1, <3>6, <4>2 DEF Behind
    <3>8. "KEXINIT" \in Types(s2c) => kexsend' = kexsend
      BY <1>8, <3>2, <3>6
    <3>9. Heard' /\ Paired' /\ Types(s2c)' = Types(s2c) \cup {t}
      BY <1>1, <3>1, <3>2, <3>4, <3>5, <3>7, <3>8, AddsHeard DEF Agreed
    <3> QED
      BY <3>1, <3>2, <3>9 DEF Owed
  <2>4. CASE Exchanged(Present, m) /\ AddsPair(hash')
    <3>1. m.t = "KEXDH" /\ pc = "kexdh" /\ "REPLY" \notin Types(s2c) /\ "NEWKEYS" \notin Types(s2c)
      <4>1. m.t = "KEXDH" /\ pc = "kexdh"
        BY <2>4, PresentIs DEF Exchanged
      <4>2. "REPLY" \notin Owed /\ "NEWKEYS" \notin Owed
        BY <1>3, <4>1, PresentIs DEF Expects
      <4> QED
        BY <1>7, <4>1, <4>2 DEF Kex
    <3>2. Answer(Present, m) = {"REPLY", "NEWKEYS"} /\ kexsend' = kexsend
      BY <1>8, <2>4, <3>1, PresentIs DEF Answer
    <3>3. /\ pc' = "newkeys" /\ hash' = NewHash(Present, m)
          /\ sessionid' = IF sessionid = NoHash THEN hash' ELSE sessionid
      <4> DEFINE y == After(Present, m)
      <4>1. y.pc = Place(Present, m)
        BY AfterIs
      <4>2. /\ y.hash = (IF Exchanged(Present, m) THEN NewHash(Present, m) ELSE Present.hash)
            /\ y.session = IF Exchanged(Present, m) /\ Present.session = NoHash THEN NewHash(Present, m)
                           ELSE Present.session
        BY AfterIs
      <4>3. Present' = y
        BY <1>1
      <4> HIDE DEF y
      <4>4. pc' = y.pc /\ hash' = y.hash /\ sessionid' = y.session
        BY <4>3, PresentWas
      <4>5. Place(Present, m) = "newkeys"
        BY <3>1, PresentIs DEF Place
      <4> QED
        BY <2>4, <4>1, <4>2, <4>4, <4>5, PresentIs
    <3>4. NextKey' = <<hash', sessionid'>>
      BY <3>3 DEF NextKey
    <3>5. strict <=> client.strict
      BY <3>1, SameStrict
    <3>6. Heard' /\ Paired' /\ Types(s2c)' = Types(s2c) \cup {"REPLY", "NEWKEYS"}
      BY <1>1, <2>4, <3>1, <3>2, <3>3, <3>4, <3>5, ReplyHeard DEF Agreed
    <3> QED
      BY <3>2, <3>6 DEF Owed, Kex
  <2> QED
    BY <1>1, <2>1, <2>2, <2>3, <2>4 DEF Says
<1>5. Foretold(c2s, Present, Owed, client)'
  BY <1>1, <1>4, ForetoldOn DEF m
<1>6. Sequence(c2s')
  BY <1>1, Shorter DEF Agreed
<1> QED
  BY <1>1, <1>4, <1>5, <1>6 DEF Agreed

-----------------------------------------------------------------------------
(* The steps of the client. *)

(* One packet, or two. *)
LEMMA SendsOne ==
  ASSUME NEW t, NEW b, NEW c, ClientSends(<<t>>, <<b>>, c), Sequence(c2s), client.sid \in Nat
  PROVE  /\ c2s' = Append(c2s, Packet(t, b, client.skey, client.sid))
         /\ client' = [c EXCEPT !.sid = IF t = "NEWKEYS" /\ client.strict THEN 0 ELSE client.sid + 1]
<1> DEFINE p(i) == Packet(<<t>>[i], <<b>>[i], client.skey, client.sid + i - 1)
           new == [i \in 1..1 |-> p(i)]
           one == Packet(t, b, client.skey, client.sid)
<1>1. client.sid + 1 - 1 = client.sid
  OBVIOUS
<1>2. p(1) = one
  BY <1>1
<1>3. /\ c2s' = c2s \o new
      /\ client' = [c EXCEPT !.sid = IF t = "NEWKEYS" /\ client.strict THEN 0 ELSE client.sid + 1]
  BY DEF ClientSends
<1> HIDE DEF p, one
<1>4. new = <<one>>
  BY <1>2
<1> HIDE DEF new
<1>5. c2s \o <<one>> = Append(c2s, one)
  <2> DEFINE S == Range(c2s) \cup {one}
  <2>1. Range(c2s) \subseteq S /\ one \in S
    OBVIOUS
  <2> HIDE DEF S
  <2>2. c2s \in Seq(S)
    BY <2>1, SeqMonotonic DEF Sequence
  <2> QED
    BY <2>1, <2>2, AppendIsConcat
<1> QED
  BY <1>3, <1>4, <1>5 DEF one

(* The KEXINIT and the guess. *)
LEMMA SendsTwo ==
  ASSUME NEW a, NEW b, NEW c, ClientSends(<<"KEXINIT", "KEXDH">>, <<a, b>>, c), Sequence(c2s),
         client.sid \in Nat
  PROVE  /\ c2s' = Append(Append(c2s, Packet("KEXINIT", a, client.skey, client.sid)),
                          Packet("KEXDH", b, client.skey, client.sid + 1))
         /\ client' = [c EXCEPT !.sid = client.sid + 2]
<1> DEFINE ts == <<"KEXINIT", "KEXDH">>
           bs == <<a, b>>
           p(i) == Packet(ts[i], bs[i], client.skey, client.sid + i - 1)
           new == [i \in 1..2 |-> p(i)]
           m == Packet("KEXINIT", a, client.skey, client.sid)
           k == Packet("KEXDH", b, client.skey, client.sid + 1)
<1>1. client.sid + 1 - 1 = client.sid /\ client.sid + 2 - 1 = client.sid + 1
  OBVIOUS
<1>2. p(1) = m /\ p(2) = k
  BY <1>1
<1>3. c2s' = c2s \o new /\ client' = [c EXCEPT !.sid = client.sid + 2]
  BY DEF ClientSends
<1> HIDE DEF p, m, k
<1>4. new = <<m, k>>
  <2>1. new = [i \in 1..2 |-> IF i = 1 THEN m ELSE k]
    BY <1>2
  <2> QED
    BY <2>1
<1> HIDE DEF new
<1>5. c2s \o <<m, k>> = Append(Append(c2s, m), k)
  <2> DEFINE S == Range(c2s) \cup {m, k}
  <2>1. Range(c2s) \subseteq S /\ m \in S /\ k \in S
    OBVIOUS
  <2> HIDE DEF S
  <2>2. c2s \in Seq(S)
    BY <2>1, SeqMonotonic DEF Sequence
  <2> QED
    BY <2>1, <2>2
<1> QED
  BY <1>3, <1>4, <1>5 DEF m, k

(* The server does not move meanwhile. *)
Unmoved == UNCHANGED <<Present, NextKey, sendid, kexsend, hash, sessionid, flagrekeying>>

(* A step of the client moves nothing of the server's. *)
LEMMA ClientAlone ==
  ASSUME UNCHANGED <<pc, sendid, kexvars, authvars, recvid>> PROVE Unmoved
<1>1. UNCHANGED <<pc, sendid, strict, kexrecv, kexsend, hash, sessionid, flagrekeying, key, flagkeys,
                  flagauthorized, recvid>>
  BY DEF kexvars, authvars
<1>2. SendKey' = SendKey
  BY <1>1 DEF SendKey
<1>3. NextKey' = NextKey
  BY <1>1, <1>2 DEF NextKey
<1>4. Present' = Present
  BY <1>1, <1>2 DEF Present
<1> QED
  BY <1>1, <1>3, <1>4 DEF Unmoved

(* A legal packet more is foretold. *)
LEMMA ForetoldLonger ==
  ASSUME NEW q, Sequence(q), NEW f, NEW o, Script(q, f, o), NEW m, NEW d,
         Legal(f[Len(q) + 1], o[Len(q) + 1], m),
         Knows(d, After(f[Len(q) + 1], m), o[Len(q) + 1] \cup Answer(f[Len(q) + 1], m))
  PROVE  Foretold(Append(q, m), f[1], o[1], d)
<1>1. PICK g, u : /\ Script(Append(q, m), g, u)
                  /\ g[1] = f[1] /\ u[1] = o[1]
                  /\ g[Len(q) + 2] = After(f[Len(q) + 1], m)
                  /\ u[Len(q) + 2] = o[Len(q) + 1] \cup Answer(f[Len(q) + 1], m)
  <2>1. Continued(q, f, o, m)
    BY ScriptLonger
  <2> QED
    BY <2>1 DEF Continued
<1>2. Len(Append(q, m)) + 1 = Len(q) + 2
  BY Longer
<1>3. Knows(d, g[Len(Append(q, m)) + 1], u[Len(Append(q, m)) + 1])
  BY <1>1, <1>2
<1> QED
  BY <1>1, <1>3 DEF Foretold

(* What it says does not touch what it hears. *)
Quiet(d) == /\ d.rkey = client.rkey /\ d.rid = client.rid /\ d.strict = client.strict
            /\ d.hash = client.hash /\ d.session = client.session

(* The client speaks: its packets are foretold. *)
LEMMA TellsAgrees ==
  ASSUME Agreed, Unmoved, s2c' = s2c, ClientOK(client'), Sequence(c2s'), Quiet(client'),
         Foretold(c2s', Present, Owed, client')
  PROVE  Agreed'
<1>1. UNCHANGED <<Present, NextKey, sendid, kexsend, hash, sessionid, flagrekeying>>
  BY DEF Unmoved
<1>2. Types(s2c)' = Types(s2c) /\ Owed' = Owed
  BY DEF Owed
<1>3. Heard'
  BY <1>1 DEF Agreed, Heard, Quiet
<1>4. Paired'
  BY <1>1, <1>2 DEF Agreed, Paired, Quiet
<1>5. Foretold(c2s, Present, Owed, client)'
  BY <1>1, <1>2
<1> QED
  BY <1>1, <1>3, <1>4, <1>5 DEF Agreed, Rekeyed

(* The client says one packet that is legal wherever it believes the server. *)
LEMMA SaysAgrees ==
  ASSUME Agreed, Unmoved, s2c' = s2c, ClientOK(client'), Quiet(client'),
         NEW m, c2s' = Append(c2s, m),
         \A x, w : Knows(client, x, w) =>
            Legal(x, w, m) /\ Knows(client', After(x, m), w \cup Answer(x, m))
  PROVE  Agreed'
<1>1. PICK f, o : /\ Script(c2s, f, o) /\ f[1] = Present /\ o[1] = Owed
                  /\ Knows(client, f[Len(c2s) + 1], o[Len(c2s) + 1])
  BY DEF Agreed, Foretold
<1>2. Foretold(Append(c2s, m), f[1], o[1], client')
  <2> DEFINE d == client'
             x == f[Len(c2s) + 1]
             w == o[Len(c2s) + 1]
  <2>1. Legal(x, w, m) /\ Knows(d, After(x, m), w \cup Answer(x, m))
    BY <1>1
  <2> HIDE DEF d
  <2>2. Foretold(Append(c2s, m), f[1], o[1], d)
    BY <1>1, <2>1, ForetoldLonger DEF Agreed
  <2> QED
    BY <2>2 DEF d
<1>3. Sequence(c2s')
  BY Longer DEF Agreed
<1> QED
  BY <1>1, <1>2, <1>3, TellsAgrees

-----------------------------------------------------------------------------
(* What a client is is what the fields say of it. *)
LEMMA StillOK ==
  ASSUME ClientOK(client), NEW d, DOMAIN d = Fields, SameOffer(client, d), d.sid \in Nat PROVE ClientOK(d)
  BY DEF ClientOK, SameOffer

(* The client's number. *)
LEMMA SidNat == ClientOK(client) => client.sid \in Nat /\ client.sid + 1 \in Nat
  BY DEF ClientOK

(* ClientService keeps the agreement. *)
LEMMA ServiceAgrees ==
  ASSUME Agreed, Unmoved, ClientService PROVE Agreed'
<1> DEFINE m == Packet("SERVICE", "ssh-userauth", client.skey, client.sid)
<1>0. Sequence(c2s) /\ ClientOK(client) /\ DOMAIN client = Fields /\ client.sid \in Nat /\ client.sid + 1 \in Nat
  BY SidNat DEF Agreed, ClientOK
<1>1. /\ s2c' = s2c /\ client.app = "none" /\ client.skey # NoKey
      /\ client.kex = "no" \/ (client.kex = "reply" /\ client.skey = KeyOf(client))
      /\ ClientSends(<<"SERVICE">>, <<"ssh-userauth">>, [client EXCEPT !.app = "asked"])
  BY DEF ClientService, Free, ClientKey, KeyOf
<1>2. /\ c2s' = Append(c2s, m)
      /\ client' = [[client EXCEPT !.app = "asked"] EXCEPT !.sid = client.sid + 1]
  BY <1>0, <1>1, SendsOne
<1>3. m.t = "SERVICE" /\ m.b = "ssh-userauth" /\ m.key = client.skey /\ m.id = client.sid
  BY DEF Packet
<1>4. /\ DOMAIN client' = Fields /\ client'.app = "asked" /\ client'.sid = client.sid + 1
      /\ client'.kex = client.kex /\ client'.rid = client.rid
      /\ SameOffer(client, client') /\ SameKeys(client, client')
  BY <1>0, <1>2 DEF Fields, SameOffer, SameKeys
<1> HIDE DEF m
<1>5. ClientOK(client')
  BY <1>0, <1>4, StillOK
<1>6. Quiet(client')
  BY <1>4 DEF Quiet, SameOffer, SameKeys
<1>7. ASSUME NEW x, NEW w, Knows(client, x, w)
      PROVE  Legal(x, w, m) /\ Knows(client', After(x, m), w \cup Answer(x, m))
  BY <1>1, <1>3, <1>4, <1>7, ServiceKnown
<1> QED
  BY <1>1, <1>2, <1>5, <1>6, <1>7, SaysAgrees

(* ClientAuth keeps it. *)
LEMMA AuthAgrees ==
  ASSUME Agreed, Unmoved, ClientAuth PROVE Agreed'
<1>0. Sequence(c2s) /\ ClientOK(client) /\ DOMAIN client = Fields /\ client.sid \in Nat /\ client.sid + 1 \in Nat
  BY SidNat DEF Agreed, ClientOK
<1>1. /\ s2c' = s2c /\ client.app = "auth" /\ client.skey # NoKey
      /\ client.kex = "no" \/ (client.kex = "reply" /\ client.skey = KeyOf(client))
  BY DEF ClientAuth, Free, ClientKey, KeyOf
<1>2. PICK how \in {"signed", "query", "none", "other"}, ok \in BOOLEAN :
         ClientSends(<<"USERAUTH">>,
                <<[how |-> how, authorized |-> ok, session |-> client.session]>>,
                [client EXCEPT !.app = "waits",
                               !.left = IF how = "signed" /\ ok THEN @ ELSE @ - 1])
  BY DEF ClientAuth
<1> DEFINE b == [how |-> how, authorized |-> ok, session |-> client.session]
           c == [client EXCEPT !.app = "waits", !.left = IF how = "signed" /\ ok THEN @ ELSE @ - 1]
           m == Packet("USERAUTH", b, client.skey, client.sid)
<1>3. b.session = client.session
  OBVIOUS
<1>4. /\ DOMAIN c = Fields /\ c.app = "waits" /\ c.kex = client.kex /\ c.rid = client.rid
      /\ SameOffer(client, c) /\ SameKeys(client, c)
  BY <1>0 DEF Fields, SameOffer, SameKeys
<1> HIDE DEF b, c
<1>5. ClientSends(<<"USERAUTH">>, <<b>>, c)
  BY <1>2 DEF b, c
<1>6. c2s' = Append(c2s, m) /\ client' = [c EXCEPT !.sid = client.sid + 1]
  BY <1>0, <1>5, SendsOne
<1>7. m.t = "USERAUTH" /\ m.b.session = client.session /\ m.key = client.skey /\ m.id = client.sid
  BY <1>3 DEF Packet
<1>8. /\ DOMAIN client' = Fields /\ client'.app = "waits" /\ client'.sid = client.sid + 1
      /\ client'.kex = client.kex /\ client'.rid = client.rid
      /\ SameOffer(client, client') /\ SameKeys(client, client')
  BY <1>4, <1>6 DEF Fields, SameOffer, SameKeys
<1> HIDE DEF m
<1>9. ClientOK(client')
  BY <1>0, <1>8, StillOK
<1>10. Quiet(client')
  BY <1>8 DEF Quiet, SameOffer, SameKeys
<1>11. ASSUME NEW x, NEW w, Knows(client, x, w)
       PROVE  Legal(x, w, m) /\ Knows(client', After(x, m), w \cup Answer(x, m))
  BY <1>1, <1>7, <1>8, <1>11, AuthKnown
<1> QED
  BY <1>1, <1>6, <1>9, <1>10, <1>11, SaysAgrees

(* ClientChats keeps it, if the client is polite. *)
LEMMA ChatsAgrees ==
  ASSUME Agreed, Unmoved, Polite, ClientChats PROVE Agreed'
<1>0. Sequence(c2s) /\ ClientOK(client) /\ DOMAIN client = Fields /\ client.sid \in Nat /\ client.sid + 1 \in Nat
  BY SidNat DEF Agreed, ClientOK
<1>1. s2c' = s2c /\ client.n > 0
  BY DEF ClientChats
<1>2. PICK t \in Chatter :
         /\ CASE t = "IGNORE" -> client.skey # NoKey \/ ~client.strict
              [] t \in {"DATA", "OTHER"} -> Free /\ client.app = "yes"
              [] OTHER -> TRUE
         /\ ClientSends(<<t>>, <<"other">>,
                [client EXCEPT !.left = @ - 1,
                               !.owes = IF t \in {"OTHER", "NEWKEYS", "SERVICE"}
                                         THEN Append(@, client.sid) ELSE @])
  BY DEF ClientChats
<1> DEFINE c == [client EXCEPT !.left = @ - 1,
                               !.owes = IF t \in {"OTHER", "NEWKEYS", "SERVICE"}
                                         THEN Append(@, client.sid) ELSE @]
           m == Packet(t, "other", client.skey, client.sid)
<1>3. t \in {"IGNORE", "DATA", "OTHER"}
  BY DEF Polite
<1>4. /\ t = "IGNORE" => client.skey # NoKey \/ ~client.strict
      /\ t # "IGNORE" => /\ client.skey # NoKey /\ client.app = "yes"
                         /\ client.kex = "no" \/ (client.kex = "reply" /\ client.skey = KeyOf(client))
  BY <1>2, <1>3 DEF Free, ClientKey, KeyOf
<1>5. /\ DOMAIN c = Fields /\ c.app = client.app /\ c.kex = client.kex /\ c.rid = client.rid /\ c.si = client.si
      /\ SameOffer(client, c) /\ SameKeys(client, c)
  BY <1>0 DEF Fields, SameOffer, SameKeys
<1>6. ClientSends(<<t>>, <<"other">>, c)
  BY <1>2
<1> HIDE DEF c
<1>7. c2s' = Append(c2s, m) /\ client' = [c EXCEPT !.sid = client.sid + 1]
  <2>1. t # "NEWKEYS"
    BY <1>3
  <2> QED
    BY <1>0, <1>6, <2>1, SendsOne
<1>8. m.t = t /\ m.key = client.skey /\ m.id = client.sid
  BY DEF Packet
<1>9. /\ DOMAIN client' = Fields /\ client'.app = client.app /\ client'.sid = client.sid + 1
      /\ client'.kex = client.kex /\ client'.rid = client.rid /\ client'.si = client.si
      /\ SameOffer(client, client') /\ SameKeys(client, client')
  BY <1>5, <1>7 DEF Fields, SameOffer, SameKeys
<1> HIDE DEF m
<1>10. ClientOK(client')
  BY <1>0, <1>9, StillOK
<1>11. Quiet(client')
  BY <1>9 DEF Quiet, SameOffer, SameKeys
<1>12. ASSUME NEW x, NEW w, Knows(client, x, w)
       PROVE  Legal(x, w, m) /\ Knows(client', After(x, m), w \cup Answer(x, m))
  BY <1>0, <1>1, <1>3, <1>4, <1>8, <1>9, <1>12, ChatKnown
<1> QED
  BY <1>1, <1>7, <1>10, <1>11, <1>12, SaysAgrees

(* ClientNewkeys keeps it. *)
LEMMA NewkeysAgrees ==
  ASSUME Agreed, Unmoved, ClientNewkeys PROVE Agreed'
<1> DEFINE m == Packet("NEWKEYS", 0, client.skey, client.sid)
           c == [client EXCEPT !.skey = ClientKey,
                               !.kex = IF client.rkey = ClientKey THEN "no" ELSE @]
           next == IF client.strict THEN 0 ELSE client.sid + 1
<1>0. /\ Sequence(c2s) /\ ClientOK(client) /\ DOMAIN client = Fields /\ client.sid \in Nat
      /\ next \in Nat
  BY SidNat DEF Agreed, ClientOK
<1>1. /\ s2c' = s2c /\ client.kex = "reply" /\ client.skey # KeyOf(client) /\ ClientKey = KeyOf(client)
      /\ ClientSends(<<"NEWKEYS">>, <<0>>, c)
  BY DEF ClientNewkeys, ClientKey, KeyOf
<1>2. /\ DOMAIN c = Fields /\ c.app = client.app /\ c.rid = client.rid /\ c.rkey = client.rkey
      /\ c.hash = client.hash /\ c.session = client.session /\ c.skey = KeyOf(client)
      /\ c.kex = (IF client.rkey = KeyOf(client) THEN "no" ELSE client.kex)
      /\ SameOffer(client, c)
  BY <1>0, <1>1 DEF Fields, SameOffer
<1> HIDE DEF c
<1>3. c2s' = Append(c2s, m) /\ client' = [c EXCEPT !.sid = next]
  BY <1>0, <1>1, SendsOne
<1>4. m.t = "NEWKEYS" /\ m.key = client.skey /\ m.id = client.sid
  BY DEF Packet
<1>5. /\ DOMAIN client' = Fields /\ client'.app = client.app /\ client'.rid = client.rid
      /\ client'.rkey = client.rkey /\ client'.hash = client.hash /\ client'.session = client.session
      /\ client'.skey = KeyOf(client) /\ client'.sid = next
      /\ client'.kex = (IF client.rkey = KeyOf(client) THEN "no" ELSE client.kex)
      /\ SameOffer(client, client')
  BY <1>2, <1>3 DEF Fields, SameOffer
<1> HIDE DEF m
<1>6. ClientOK(client')
  BY <1>0, <1>5, StillOK
<1>7. Quiet(client')
  BY <1>5 DEF Quiet, SameOffer
<1>8. ASSUME NEW x, NEW w, Knows(client, x, w)
      PROVE  Legal(x, w, m) /\ Knows(client', After(x, m), w \cup Answer(x, m))
  BY <1>1, <1>4, <1>5, <1>8, NewkeysKnown
<1> QED
  BY <1>1, <1>3, <1>6, <1>7, <1>8, SaysAgrees

-----------------------------------------------------------------------------
(* What the client has offered when it goes on with a key exchange of its own:
   the packet of the offer is known, and what follows. *)
LEMMA OfferAlone ==
  ASSUME NEW c, NEW x, NEW w, Knows(c, x, w), ClientOK(c), Polite, NEW o, NEW m, NEW d,
         c.kex = "no",
         \/ c.n = 0 /\ o = c.offer
         \/ c.n > 0 /\ o \in RekeyOffers /\ c.app = "yes",
         m.t = "KEXINIT", m.b = Numbered(o, c.n + 1), m.key = c.skey, m.id = c.sid,
         d.kex = "init", d.n = c.n + 1, d.offer = o, d.strict = c.strict, SameKeys(c, d),
         d.sid = c.sid + 1, d.app = c.app, ~o.follows
  PROVE  Legal(x, w, m) /\ Knows(d, After(x, m), w \cup Answer(x, m))
<1> DEFINE y == After(x, m)
           v == w \cup Answer(x, m)
<1>1. /\ Legal(x, w, m) /\ Common(d, y) /\ Asked(d, y, v) /\ OldKeys(d)
      /\ y.pc = AfterParse(o) /\ v \cap Kex = {"KEXINIT"}
      /\ y.hash = d.hash /\ y.session = d.session
  BY OfferKnown
<1> HIDE DEF y, v
<1>2. Offering(d, y, v)
  BY <1>1 DEF Offering, AfterParse, Right
<1>3. Legal(x, w, m) /\ Knows(d, y, v)
  BY <1>1, <1>2 DEF Knows, Stage
<1> QED
  BY <1>3 DEF y, v

(* ClientKexinit keeps it, with and without the guess. *)
LEMMA KexinitAgrees ==
  ASSUME Agreed, Unmoved, Polite, ClientKexinit PROVE Agreed'
<1> DEFINE n == client.n + 1
<1>0. /\ Sequence(c2s) /\ ClientOK(client) /\ DOMAIN client = Fields /\ client.sid \in Nat
      /\ client.sid + 1 \in Nat /\ client.n \in Nat /\ client.sid + 2 \in Nat
      /\ client.sid + 2 = (client.sid + 1) + 1
      /\ client.strict \in BOOLEAN
  BY SidNat DEF Agreed, ClientOK
<1>1. s2c' = s2c /\ client.kex = "no"
  BY DEF ClientKexinit
<1>2. PICK o \in IF client.n = 0 THEN {client.offer} ELSE RekeyOffers :
         /\ client.n = 0 \/ (client.app = "yes" /\ client.n <= Rekeys)
         /\ IF o.follows
            THEN ClientSends(<<"KEXINIT", "KEXDH">>,
                    <<Numbered(o, n), [alg |-> o.kex[1], guess |-> TRUE]>>,
                    [client EXCEPT !.kex = "init", !.n = n, !.offer = o])
            ELSE ClientSends(<<"KEXINIT">>, <<Numbered(o, n)>>,
                    [client EXCEPT !.kex = "init", !.n = n, !.offer = o])
  BY DEF ClientKexinit
<1> DEFINE c == [client EXCEPT !.kex = "init", !.n = n, !.offer = o]
           b == [alg |-> o.kex[1], guess |-> TRUE]
           m == Packet("KEXINIT", Numbered(o, n), client.skey, client.sid)
           k == Packet("KEXDH", b, client.skey, client.sid + 1)
           e == [c EXCEPT !.sid = client.sid + 1]
<1>3. \/ client.n = 0 /\ o = client.offer
      \/ client.n > 0 /\ o \in RekeyOffers /\ client.app = "yes"
  BY <1>0, <1>2
<1>4. /\ DOMAIN c = Fields /\ c.app = client.app /\ c.rid = client.rid /\ c.strict = client.strict
      /\ c.kex = "init" /\ c.n = n /\ c.offer = o /\ SameKeys(client, c)
  BY <1>0 DEF Fields, SameKeys
<1>5. b.alg = o.kex[1] /\ b.guess = TRUE
  OBVIOUS
<1>6. IF o.follows THEN ClientSends(<<"KEXINIT", "KEXDH">>, <<Numbered(o, n), b>>, c)
      ELSE ClientSends(<<"KEXINIT">>, <<Numbered(o, n)>>, c)
  BY <1>2
<1> HIDE DEF c, b
<1>7. m.t = "KEXINIT" /\ m.b = Numbered(o, n) /\ m.key = client.skey /\ m.id = client.sid
  BY DEF Packet
<1>8. k.t = "KEXDH" /\ k.b.alg = o.kex[1] /\ k.b.guess = TRUE /\ k.key = client.skey /\ k.id = client.sid + 1
  BY <1>5 DEF Packet
<1>9. /\ e.app = client.app /\ e.strict = client.strict /\ e.sid = client.sid + 1
      /\ e.kex = "init" /\ e.n = n /\ e.offer = o /\ SameKeys(client, e)
  BY <1>4 DEF Fields, SameKeys
<1>10. ASSUME NEW d, DOMAIN d = Fields, d.n = n, d.offer = o, d.strict = client.strict, d.sid \in Nat
       PROVE  ClientOK(d)
  <2>1. n \in Nat /\ n # 0
    BY <1>0
  <2>2. o \in Offers \cup RekeyOffers
    BY <1>0, <1>3 DEF ClientOK
  <2> HIDE DEF n
  <2> QED
    BY <1>0, <1>10, <2>1, <2>2 DEF ClientOK
<1>11. CASE ~o.follows
  <2>1. c2s' = Append(c2s, m) /\ client' = [c EXCEPT !.sid = client.sid + 1]
    <3>1. ClientSends(<<"KEXINIT">>, <<Numbered(o, n)>>, c)
      BY <1>6, <1>11
    <3> HIDE DEF n
    <3> QED
      BY <1>0, <3>1, SendsOne
  <2>2. client' = e /\ DOMAIN client' = Fields /\ client'.rid = client.rid
    BY <1>4, <2>1 DEF Fields
  <2> HIDE DEF m, e, n
  <2>3. ClientOK(client')
    BY <1>0, <1>9, <1>10, <2>2
  <2>4. Quiet(client')
    BY <1>9, <2>2 DEF Quiet, SameKeys
  <2>5. ASSUME NEW x, NEW w, Knows(client, x, w)
        PROVE  Legal(x, w, m) /\ Knows(client', After(x, m), w \cup Answer(x, m))
    <3>1. e.n = client.n + 1 /\ m.b = Numbered(o, client.n + 1)
      BY <1>7, <1>9 DEF n
    <3>2. Legal(x, w, m) /\ Knows(e, After(x, m), w \cup Answer(x, m))
      BY <1>0, <1>1, <1>3, <1>7, <1>9, <1>11, <2>5, <3>1, OfferAlone
    <3> QED
      BY <2>2, <3>2
  <2> QED
    BY <1>1, <2>1, <2>3, <2>4, <2>5, SaysAgrees
<1>12. CASE o.follows
  <2>1. c2s' = Append(Append(c2s, m), k) /\ client' = [c EXCEPT !.sid = client.sid + 2]
    <3>1. ClientSends(<<"KEXINIT", "KEXDH">>, <<Numbered(o, n), b>>, c)
      BY <1>6, <1>12
    <3> HIDE DEF n
    <3> QED
      BY <1>0, <3>1, SendsTwo
  <2>2. /\ client'.app = client.app /\ client'.strict = client.strict /\ client'.sid = client.sid + 2
        /\ client'.kex = "init" /\ client'.n = n /\ client'.offer = o /\ SameKeys(client, client')
        /\ DOMAIN client' = Fields /\ client'.rid = client.rid
    BY <1>4, <2>1 DEF Fields, SameKeys
  <2> HIDE DEF m, k, e, n
  <2>3. ClientOK(client')
    BY <1>0, <1>10, <2>2
  <2>4. Quiet(client')
    BY <2>2 DEF Quiet, SameKeys
  <2>5. PICK f, u : /\ Script(c2s, f, u) /\ f[1] = Present /\ u[1] = Owed
                    /\ Knows(client, f[Len(c2s) + 1], u[Len(c2s) + 1])
    BY DEF Agreed, Foretold
  <2> DEFINE x == f[Len(c2s) + 1]
             w == u[Len(c2s) + 1]
             y == After(x, m)
             v == w \cup Answer(x, m)
  <2>6. /\ Legal(x, w, m) /\ Common(e, y) /\ Asked(e, y, v) /\ OldKeys(e)
        /\ y.pc = AfterParse(o) /\ v \cap Kex = {"KEXINIT"}
        /\ y.hash = e.hash /\ y.session = e.session /\ Sound(o)
    <3>1. e.n = client.n + 1 /\ m.b = Numbered(o, client.n + 1)
      BY <1>7, <1>9 DEF n
    <3>2. Knows(client, x, w)
      BY <2>5
    <3> HIDE DEF x, w
    <3> QED
      BY <1>0, <1>1, <1>3, <1>7, <1>9, <3>1, <3>2, OfferKnown
  <2>7. PICK g, t : /\ Script(Append(c2s, m), g, t) /\ g[1] = f[1] /\ t[1] = u[1]
                    /\ g[Len(c2s) + 2] = y /\ t[Len(c2s) + 2] = v
    <3>1. Continued(c2s, f, u, m)
      BY <1>0, <2>5, <2>6, ScriptLonger
    <3> QED
      BY <3>1 DEF Continued
  <2>8. Len(Append(c2s, m)) + 1 = Len(c2s) + 2 /\ Sequence(Append(c2s, m))
    BY <1>0, Longer
  <2> HIDE DEF x, w, y, v
  <2>9. Legal(y, v, k) /\ Knows(client', After(y, k), v \cup Answer(y, k))
    <3>1. SameOffer(e, client') /\ SameKeys(e, client') /\ client'.app = e.app /\ client'.sid = e.sid + 1
          /\ k.key = e.skey /\ k.id = e.sid
      BY <1>0, <1>8, <1>9, <2>2 DEF SameOffer, SameKeys
    <3>2. y.pc = AfterParse(e.offer) /\ e.offer.follows /\ k.b.alg = e.offer.kex[1] /\ Sound(e.offer)
      BY <1>8, <1>9, <1>12, <2>6
    <3> QED
      BY <1>8, <2>2, <2>6, <3>1, <3>2, KexdhKnown
  <2>10. Foretold(Append(Append(c2s, m), k), g[1], t[1], client')
    <3> DEFINE q == Append(c2s, m)
               d == client'
    <3>1. Legal(g[Len(q) + 1], t[Len(q) + 1], k)
          /\ Knows(d, After(g[Len(q) + 1], k), t[Len(q) + 1] \cup Answer(g[Len(q) + 1], k))
      BY <2>7, <2>8, <2>9
    <3>2. Script(q, g, t) /\ Sequence(q)
      BY <2>7, <2>8
    <3> HIDE DEF q, d
    <3>3. Foretold(Append(q, k), g[1], t[1], d)
      BY <3>1, <3>2, ForetoldLonger
    <3> QED
      BY <3>3 DEF q, d
  <2>11. Sequence(c2s')
    BY <2>1, <2>8, Longer
  <2>12. Foretold(c2s', Present, Owed, client')
    BY <2>1, <2>5, <2>7, <2>10
  <2> QED
    BY <1>1, <2>3, <2>4, <2>11, <2>12, TellsAgrees
<1> QED
  BY <1>11, <1>12

-----------------------------------------------------------------------------
(* What the client hears. *)

(* The first packet on its way to it, and what is behind it. *)
LEMMA HearsHead ==
  ASSUME Agreed, s2c # <<>>
  PROVE  LET m == Head(s2c) IN
         /\ m.key = client.rkey /\ m.id = client.rid
         /\ m.t = "KEXINIT" => m.b = kexsend
         /\ m.t = "REPLY" => m.b = hash /\ "REPLY" \in Owed /\ "NEWKEYS" \in Owed /\ "KEXINIT" \notin Owed
         /\ m.t = "NEWKEYS" => /\ "NEWKEYS" \in Owed /\ "KEXINIT" \notin Owed /\ "REPLY" \notin Owed
                               /\ NextKey = KeyOf(client)
         /\ m.t \in Kex \cup Auth => m.t \in Owed
<1> DEFINE m == Head(s2c)
<1>0. Sequence(s2c) /\ Arranged(s2c) /\ Means(s2c, kexsend, hash)
      /\ Readable(s2c, client.rkey, NextKey, client.rid, sendid, client.strict)
  BY DEF Agreed, Heard, Readable
<1>1. m.key = client.rkey /\ m.id = client.rid
  BY <1>0, ReadableShorter
<1>2. (m.t = "KEXINIT" => m.b = kexsend) /\ (m.t = "REPLY" => m.b = hash)
  BY <1>0, MeansShorter
<1>3. /\ m.t \in Types(s2c)
      /\ m.t = "REPLY" => "KEXINIT" \notin Types(s2c)
      /\ m.t = "NEWKEYS" => "KEXINIT" \notin Types(s2c) /\ "REPLY" \notin Types(s2c)
  BY <1>0, TypesShorter
<1> HIDE DEF m
<1>4. \A t \in Kex \cup Auth : t \in Types(s2c) <=> t \in Owed
  BY DEF Owed
<1>5. "KEXINIT" \in Kex \cup Auth /\ "REPLY" \in Kex \cup Auth /\ "NEWKEYS" \in Kex \cup Auth
  BY DEF Kex
<1>6. m.t = "REPLY" => "NEWKEYS" \in Types(s2c)
  BY <1>3 DEF Agreed, Paired
<1>7. m.t = "NEWKEYS" => NextKey = KeyOf(client)
  BY <1>3 DEF Agreed, Paired, KeyOf
<1> QED
  BY <1>1, <1>2, <1>3, <1>4, <1>5, <1>6, <1>7 DEF m

(* The rest of the stream, when the head was heard. *)
LEMMA HearsOn ==
  ASSUME Agreed, Unmoved, s2c # <<>>, s2c' = Tail(s2c), NEW t, t = Head(s2c).t,
         client'.strict = client.strict,
         client'.rkey = (IF t = "NEWKEYS" THEN KeyOf(client) ELSE client.rkey),
         client'.rid = (IF t = "NEWKEYS" /\ client.strict THEN 0 ELSE client.rid + 1),
         client'.hash = (IF t = "REPLY" THEN hash ELSE client.hash),
         client'.session = IF t = "REPLY" /\ client.session = NoHash THEN hash ELSE client.session
  PROVE  Heard' /\ Paired' /\ Owed' = Owed \ {t}
<1>0. /\ Sequence(s2c) /\ Arranged(s2c) /\ Means(s2c, kexsend, hash)
      /\ Readable(s2c, client.rkey, NextKey, client.rid, sendid, client.strict)
  BY DEF Agreed, Heard, Readable
<1>1. UNCHANGED <<NextKey, sendid, kexsend, hash, sessionid>>
  BY DEF Unmoved
<1>2. Sequence(s2c')
  BY <1>0, Shorter
<1>3. Means(s2c', kexsend, hash)
  BY <1>0, MeansShorter
<1>4. Readable(s2c', client'.rkey, NextKey, client'.rid, sendid, client.strict)
  <2>1. t = "NEWKEYS" => NextKey = KeyOf(client)
    BY HearsHead
  <2>2. Readable(Tail(s2c), IF t = "NEWKEYS" THEN NextKey ELSE client.rkey, NextKey,
                 IF t = "NEWKEYS" /\ client.strict THEN 0 ELSE client.rid + 1, sendid, client.strict)
    BY <1>0, ReadableShorter
  <2>3. (IF t = "NEWKEYS" THEN NextKey ELSE client.rkey) = client'.rkey
    BY <2>1
  <2> QED
    BY <2>2, <2>3
<1>5. Heard'
  BY <1>1, <1>2, <1>3, <1>4 DEF Heard
<1>6. /\ t \in Types(s2c)
      /\ Types(s2c') \cap (Kex \cup Auth) = (Types(s2c) \cap (Kex \cup Auth)) \ {t}
      /\ t = "NEWKEYS" => "REPLY" \notin Types(s2c)
  BY <1>0, TypesShorter
<1>7. Owed' = Owed \ {t}
  BY <1>6 DEF Owed
<1>8. /\ "REPLY" \in Types(s2c') <=> "REPLY" \in Types(s2c) /\ t # "REPLY"
      /\ "NEWKEYS" \in Types(s2c') <=> "NEWKEYS" \in Types(s2c) /\ t # "NEWKEYS"
  BY <1>6 DEF Kex
<1>9. Paired
  BY DEF Agreed
<1>10. Paired'
  <2>1. "NEWKEYS" \in Types(s2c)' => NextKey' = <<hash, sessionid>>'
    BY <1>1, <1>8, <1>9 DEF Paired
  <2>2. ASSUME "REPLY" \in Types(s2c)'
        PROVE  "NEWKEYS" \in Types(s2c)' /\ sessionid' = IF client'.session = NoHash THEN hash' ELSE client'.session
    BY <1>1, <1>6, <1>8, <1>9, <2>2 DEF Paired
  <2>3. ASSUME "REPLY" \notin Types(s2c)'
        PROVE  hash' = client'.hash /\ sessionid' = client'.session
    BY <1>1, <1>6, <1>8, <1>9, <2>3 DEF Paired
  <2> QED
    BY <2>1, <2>2, <2>3 DEF Paired
<1> QED
  BY <1>5, <1>7, <1>10

(* What the client makes of it is what comes of it. *)
Heeds(d, t) ==
  \A x, w : Knows(client, x, w) /\ Onward(Present, Owed, x, w) => Knows(d, x, w \ {t})

(* What the client knows of the server is onward from where the server is. *)
LEMMA ForetoldEnd ==
  ASSUME Agreed
  PROVE  \E f, o : /\ Script(c2s, f, o) /\ f[1] = Present /\ o[1] = Owed
                   /\ Knows(client, f[Len(c2s) + 1], o[Len(c2s) + 1])
                   /\ Onward(Present, Owed, f[Len(c2s) + 1], o[Len(c2s) + 1])
<1>1. PICK f, o : /\ Script(c2s, f, o) /\ f[1] = Present /\ o[1] = Owed
                  /\ Knows(client, f[Len(c2s) + 1], o[Len(c2s) + 1])
  BY DEF Agreed, Foretold
<1>2. Len(c2s) \in Nat
  BY LenProperties DEF Agreed, Sequence
<1>3. Onward(f[1], o[1], f[Len(c2s) + 1], o[Len(c2s) + 1])
  BY <1>1, <1>2 DEF Script
<1> QED
  BY <1>1, <1>3

(* An answer that was heard is no longer awaited. *)
LEMMA ForetoldHeard ==
  ASSUME Agreed, NEW t, t \in Owed, NEW d, Heeds(d, t)
  PROVE  Foretold(c2s, Present, Owed \ {t}, d)
<1>1. PICK f, o : /\ Script(c2s, f, o) /\ f[1] = Present /\ o[1] = Owed
                  /\ Knows(client, f[Len(c2s) + 1], o[Len(c2s) + 1])
                  /\ Onward(Present, Owed, f[Len(c2s) + 1], o[Len(c2s) + 1])
  BY ForetoldEnd
<1>2. PICK u : /\ Script(c2s, f, u) /\ u[1] = o[1] \ {t} /\ u[Len(c2s) + 1] = o[Len(c2s) + 1] \ {t}
  BY <1>1, ScriptHeard DEF Agreed
<1>3. Knows(d, f[Len(c2s) + 1], u[Len(c2s) + 1])
  BY <1>1, <1>2 DEF Heeds
<1> QED
  BY <1>1, <1>2, <1>3 DEF Foretold

(* The client hears the head of the stream. *)
LEMMA HearsAgrees ==
  ASSUME Agreed, Unmoved, Sequence(c2s'), s2c # <<>>, s2c' = Tail(s2c), NEW t, t = Head(s2c).t,
         ClientOK(client'), client'.strict = client.strict,
         client'.rkey = (IF t = "NEWKEYS" THEN KeyOf(client) ELSE client.rkey),
         client'.rid = (IF t = "NEWKEYS" /\ client.strict THEN 0 ELSE client.rid + 1),
         client'.hash = (IF t = "REPLY" THEN hash ELSE client.hash),
         client'.session = (IF t = "REPLY" /\ client.session = NoHash THEN hash ELSE client.session),
         Foretold(c2s', Present, Owed \ {t}, client')
  PROVE  Agreed'
<1>1. Heard' /\ Paired' /\ Owed' = Owed \ {t}
  BY HearsOn
<1>2. UNCHANGED <<Present, sessionid, flagrekeying>>
  BY DEF Unmoved
<1>3. Foretold(c2s, Present, Owed, client)'
  BY <1>1, <1>2
<1> QED
  BY <1>1, <1>2, <1>3 DEF Agreed, Rekeyed

-----------------------------------------------------------------------------
(* What ClientRecv does, packet by packet. *)
Hash == HashOf(client, client.si)

(* What ClientRecv does with the server's KEXINIT. *)
LEMMA RecvKexinit ==
  ASSUME Agreed, ~client.bad, ClientRecv, Head(s2c).t = "KEXINIT"
  PROVE  LET b == Head(s2c).b
             d == client' IN
         /\ s2c # <<>> /\ s2c' = Tail(s2c) /\ client.kex = "init"
         /\ DOMAIN d = Fields /\ ~d.bad /\ d.kex = "dh" /\ d.si = b /\ d.rid = client.rid + 1
         /\ d.app = client.app /\ SameOffer(client, d) /\ SameKeys(client, d) /\ d.owes = client.owes
         /\ \/ Right(client.offer) /\ c2s' = c2s /\ d.sid = client.sid
            \/ /\ ~Right(client.offer) /\ d.sid = client.sid + 1
               /\ c2s' = Append(c2s, Packet("KEXDH", [alg |-> KexChoice(client.offer), guess |-> FALSE],
                                            client.skey, client.sid))
<1> DEFINE m == Head(s2c)
           seen == [client EXCEPT
                      !.bad = @ \/ m.key # client.rkey \/ m.id # client.rid,
                      !.rid = IF m.t = "NEWKEYS" /\ client.strict THEN 0 ELSE @ + 1]
           c == [seen EXCEPT !.kex = "dh", !.si = m.b]
           b == [alg |-> KexChoice(client.offer), guess |-> FALSE]
<1>0. DOMAIN client = Fields /\ client.sid \in Nat /\ Sequence(c2s) /\ s2c # <<>>
  BY DEF Agreed, ClientOK, ClientRecv
<1>1. m.key = client.rkey /\ m.id = client.rid
  BY <1>0, HearsHead
<1>2. /\ s2c' = Tail(s2c) /\ client.kex = "init"
      /\ IF Right(client.offer) THEN client' = c /\ c2s' = c2s
         ELSE ClientSends(<<"KEXDH">>, <<b>>, c)
  BY DEF ClientRecv, Right
<1>3. /\ DOMAIN seen = Fields /\ ~seen.bad /\ seen.rid = client.rid + 1 /\ seen.sid = client.sid
      /\ seen.app = client.app /\ SameOffer(client, seen) /\ SameKeys(client, seen)
      /\ seen.owes = client.owes
  BY <1>0, <1>1 DEF Fields, SameOffer, SameKeys
<1> HIDE DEF seen
<1>4. /\ DOMAIN c = Fields /\ ~c.bad /\ c.rid = client.rid + 1 /\ c.kex = "dh" /\ c.si = m.b
      /\ c.sid = client.sid /\ c.owes = client.owes
      /\ c.app = client.app /\ SameOffer(client, c) /\ SameKeys(client, c)
  BY <1>3 DEF Fields, SameOffer, SameKeys
<1> HIDE DEF c, b
<1>5. CASE Right(client.offer)
  BY <1>0, <1>2, <1>4, <1>5
<1>6. CASE ~Right(client.offer)
  <2>1. /\ c2s' = Append(c2s, Packet("KEXDH", b, client.skey, client.sid))
        /\ client' = [c EXCEPT !.sid = client.sid + 1]
    BY <1>0, <1>2, <1>6, SendsOne
  <2>2. LET d == client' IN
        /\ DOMAIN d = Fields /\ ~d.bad /\ d.rid = client.rid + 1 /\ d.kex = "dh" /\ d.si = m.b
        /\ d.sid = client.sid + 1 /\ d.owes = client.owes
        /\ d.app = client.app /\ SameOffer(client, d) /\ SameKeys(client, d)
    BY <1>4, <2>1 DEF Fields, SameOffer, SameKeys
  <2> QED
    BY <1>0, <1>2, <1>6, <2>1, <2>2 DEF b
<1> QED
  BY <1>5, <1>6

(* What it does with any other packet. *)
LEMMA RecvRest ==
  ASSUME Agreed, ~client.bad, ClientRecv, NEW t, t = Head(s2c).t, t # "KEXINIT"
  PROVE  LET d == client' IN
         /\ s2c # <<>> /\ s2c' = Tail(s2c) /\ c2s' = c2s
         /\ DOMAIN d = Fields /\ SameOffer(client, d) /\ d.skey = client.skey /\ d.sid = client.sid
         /\ d.rid = IF t = "NEWKEYS" /\ client.strict THEN 0 ELSE client.rid + 1
         /\ (t = "REPLY" => Head(s2c).b = Hash) => ~d.bad
         /\ d.si = client.si
         /\ d.rkey = IF t = "NEWKEYS" THEN KeyOf(client) ELSE client.rkey
         /\ d.hash = IF t = "REPLY" THEN Hash ELSE client.hash
         /\ d.session = IF t = "REPLY" /\ client.session = NoHash THEN Hash ELSE client.session
         /\ d.kex = IF t = "REPLY" THEN "reply"
                    ELSE IF t = "NEWKEYS" /\ client.skey = KeyOf(client) THEN "no" ELSE client.kex
         /\ d.app = IF t = "SUCCESS" THEN "yes" ELSE IF t \in Auth THEN "auth" ELSE client.app
         /\ d.owes = IF t = "UNIMPL" THEN Tail(client.owes) ELSE client.owes
<1> DEFINE m == Head(s2c)
           seen == [client EXCEPT
                      !.bad = @ \/ m.key # client.rkey \/ m.id # client.rid,
                      !.rid = IF m.t = "NEWKEYS" /\ client.strict THEN 0 ELSE @ + 1]
           a == Answered(m)
           rid == IF t = "NEWKEYS" /\ client.strict THEN 0 ELSE client.rid + 1
<1>0. DOMAIN client = Fields /\ s2c # <<>> /\ m.t = t
  BY DEF Agreed, ClientOK, ClientRecv
<1>1. m.key = client.rkey /\ m.id = client.rid
  BY <1>0, HearsHead
<1>2. s2c' = Tail(s2c) /\ c2s' = c2s /\ client' = [a EXCEPT !.bad = @ \/ seen.bad, !.rid = seen.rid]
  BY DEF ClientRecv
<1>3. ~seen.bad /\ seen.rid = rid
  BY <1>0, <1>1 DEF Fields
<1>4. /\ DOMAIN a = Fields /\ SameOffer(client, a) /\ a.skey = client.skey /\ a.sid = client.sid
      /\ (t = "REPLY" => m.b = Hash) => ~a.bad
      /\ a.si = client.si
      /\ a.rkey = IF t = "NEWKEYS" THEN KeyOf(client) ELSE client.rkey
      /\ a.hash = IF t = "REPLY" THEN Hash ELSE client.hash
      /\ a.session = IF t = "REPLY" /\ client.session = NoHash THEN Hash ELSE client.session
      /\ a.kex = IF t = "REPLY" THEN "reply"
                 ELSE IF t = "NEWKEYS" /\ client.skey = KeyOf(client) THEN "no" ELSE client.kex
      /\ a.app = IF t = "SUCCESS" THEN "yes" ELSE IF t \in Auth THEN "auth" ELSE client.app
      /\ a.owes = IF t = "UNIMPL" THEN Tail(client.owes) ELSE client.owes
  <2> USE DEF Fields, SameOffer
  <2>1. CASE t = "REPLY"
    <3> DEFINE h == [ci |-> client.n, si |-> client.si,
                     e |-> client.offer.follows /\ RightGuess(client.offer)]
    <3>1. h = Hash
      BY DEF Hash, HashOf, Right
    <3> HIDE DEF h
    <3>2. a = [client EXCEPT !.kex = "reply", !.hash = h, !.bad = @ \/ m.b # h,
                             !.session = IF @ = NoHash THEN h ELSE @]
      BY <1>0, <2>1 DEF Answered, h
    <3> HIDE DEF a
    <3> QED
      BY <1>0, <2>1, <3>1, <3>2 DEF Auth
  <2>2. CASE t = "NEWKEYS"
    <3>1. a = [client EXCEPT !.rkey = ClientKey, !.kex = IF client.skey = ClientKey THEN "no" ELSE @]
      BY <1>0, <2>2 DEF Answered
    <3>2. ClientKey = KeyOf(client)
      BY DEF ClientKey, KeyOf
    <3> HIDE DEF a
    <3> QED
      BY <1>0, <2>2, <3>1, <3>2 DEF Auth
  <2>3. CASE t = "UNIMPL"
    <3>1. a = [client EXCEPT !.owes = Tail(@)]
      BY <1>0, <2>3 DEF Answered
    <3> HIDE DEF a
    <3> QED
      BY <1>0, <2>3, <3>1 DEF Auth
  <2>4. CASE t \in Auth
    <3>1. a = [client EXCEPT !.app = IF t = "SUCCESS" THEN "yes" ELSE "auth"]
      BY <1>0, <2>4 DEF Answered, Auth
    <3>2. t # "REPLY" /\ t # "NEWKEYS" /\ t # "UNIMPL"
      BY <2>4 DEF Auth
    <3> HIDE DEF a
    <3> QED
      BY <1>0, <2>4, <3>1, <3>2
  <2>5. CASE t \notin Auth \cup {"REPLY", "NEWKEYS", "UNIMPL"}
    <3>1. a = client
      BY <1>0, <2>5 DEF Answered, Auth
    <3>2. t # "SUCCESS"
      BY <2>5 DEF Auth
    <3> HIDE DEF a
    <3> QED
      BY <1>0, <2>5, <3>1, <3>2
  <2> QED
    BY <2>1, <2>2, <2>3, <2>4, <2>5
<1> HIDE DEF a, seen, rid
<1>5. client' = [a EXCEPT !.bad = @ \/ seen.bad, !.rid = rid]
  BY <1>2, <1>3
<1>6. /\ DOMAIN client' = Fields /\ client'.rid = rid /\ client'.bad = (a.bad \/ seen.bad)
      /\ \A x \in Fields \ {"bad", "rid"} : client'[x] = a[x]
  BY <1>4, <1>5 DEF Fields
<1>7. /\ client'.n = a.n /\ client'.offer = a.offer /\ client'.strict = a.strict /\ client'.skey = a.skey
      /\ client'.sid = a.sid /\ client'.si = a.si /\ client'.rkey = a.rkey /\ client'.hash = a.hash
      /\ client'.session = a.session /\ client'.kex = a.kex /\ client'.app = a.app /\ client'.owes = a.owes
  BY <1>4, <1>5 DEF Fields
<1>8. (t = "REPLY" => m.b = Hash) => ~client'.bad
  BY <1>3, <1>4, <1>6
<1>9. SameOffer(client, client')
  BY <1>4, <1>7 DEF SameOffer
<1> QED
  BY <1>0, <1>2, <1>4, <1>6, <1>7, <1>8, <1>9 DEF rid

-----------------------------------------------------------------------------
(* The client finds nothing wrong with the server's KEXINIT. *)
LEMMA KexinitHeard ==
  ASSUME Agreed, ~client.bad, Unmoved, Polite, ClientRecv, Head(s2c).t = "KEXINIT"
  PROVE  Agreed' /\ ~client'.bad
<1> DEFINE b == [alg |-> KexChoice(client.offer), guess |-> FALSE]
           k == Packet("KEXDH", b, client.skey, client.sid)
           d == client'
<1>1. /\ s2c # <<>> /\ s2c' = Tail(s2c) /\ client.kex = "init"
      /\ DOMAIN d = Fields /\ ~d.bad /\ d.kex = "dh" /\ d.si = Head(s2c).b /\ d.rid = client.rid + 1
      /\ d.app = client.app /\ SameOffer(client, d) /\ SameKeys(client, d)
      /\ \/ Right(client.offer) /\ c2s' = c2s /\ d.sid = client.sid
         \/ /\ ~Right(client.offer) /\ d.sid = client.sid + 1
            /\ c2s' = Append(c2s, k)
  BY RecvKexinit
<1>2. ClientOK(client) /\ Sequence(c2s) /\ client.sid \in Nat /\ client.sid + 1 \in Nat
  BY SidNat DEF Agreed
<1>3. "KEXINIT" \in Owed /\ d.si = Present.si
  <2>1. "KEXINIT" \in Kex \cup Auth
    BY DEF Kex
  <2> QED
    BY <1>1, <2>1, HearsHead, PresentIs
<1> HIDE DEF d, k
<1>4. ClientOK(d)
  BY <1>1, <1>2, StillOK
<1>5. Sound(client.offer)
  BY <1>2 DEF ClientOK, Polite
<1>6. Sequence(c2s') /\ Foretold(c2s', Present, Owed \ {"KEXINIT"}, d)
  <2>1. CASE Right(client.offer)
    <3>1. c2s' = c2s /\ d.sid = client.sid
      BY <1>1, <2>1
    <3>2. ASSUME NEW x, NEW w, Knows(client, x, w), Onward(Present, Owed, x, w)
          PROVE  Knows(d, x, w \ {"KEXINIT"})
      BY <1>1, <1>3, <2>1, <3>1, <3>2, GuessTaken
    <3>3. Heeds(d, "KEXINIT")
      BY <3>2 DEF Heeds
    <3>4. Foretold(c2s, Present, Owed \ {"KEXINIT"}, d)
      BY <1>3, <3>3, ForetoldHeard
    <3> QED
      BY <1>2, <3>1, <3>4
  <2>2. CASE ~Right(client.offer)
    <3>1. c2s' = Append(c2s, k) /\ d.sid = client.sid + 1
      BY <1>1, <2>2
    <3>2. PICK f, o : /\ Script(c2s, f, o) /\ f[1] = Present /\ o[1] = Owed
                      /\ Knows(client, f[Len(c2s) + 1], o[Len(c2s) + 1])
                      /\ Onward(Present, Owed, f[Len(c2s) + 1], o[Len(c2s) + 1])
      BY ForetoldEnd
    <3>3. PICK u : /\ Script(c2s, f, u) /\ u[1] = o[1] \ {"KEXINIT"}
                   /\ u[Len(c2s) + 1] = o[Len(c2s) + 1] \ {"KEXINIT"}
      BY <1>2, <1>3, <3>2, ScriptHeard
    <3> DEFINE x == f[Len(c2s) + 1]
               w == o[Len(c2s) + 1]
               v == u[Len(c2s) + 1]
    <3>4. Knows(client, x, w) /\ Onward(Present, Owed, x, w) /\ v = w \ {"KEXINIT"}
      BY <3>2, <3>3
    <3> HIDE DEF x, w, v
    <3>5. /\ x.si = Present.si /\ Common(client, x) /\ Asked(client, x, v) /\ OldKeys(client)
          /\ x.pc = "kexdh" /\ v \cap Kex = {} /\ x.hash = client.hash /\ x.session = client.session
      <4>1. x.si = Present.si
        BY <1>3, <3>4 DEF Onward
      <4>2. Common(client, x) /\ OldKeys(client)
        BY <1>1, <1>3, <3>4, HearKexinit
      <4>3. Asked(client, x, v)
        BY <1>1, <1>3, <3>4, HearKexinit
      <4>4. x.pc = "kexdh" /\ v \cap Kex = {} /\ x.hash = client.hash /\ x.session = client.session
        BY <1>1, <1>3, <2>2, <3>4, HearKexinit
      <4> QED
        BY <4>1, <4>2, <4>3, <4>4
    <3>6. k.t = "KEXDH" /\ k.key = client.skey /\ k.id = client.sid
          /\ k.b.alg = KexChoice(client.offer) /\ k.b.guess = FALSE
      BY DEF Packet, k
    <3>7. Legal(x, v, k) /\ Knows(d, After(x, k), v \cup Answer(x, k))
      BY <1>1, <1>3, <1>5, <2>2, <3>1, <3>5, <3>6, KexdhKnown
    <3>8. Foretold(Append(c2s, k), f[1], u[1], d)
      BY <1>2, <3>3, <3>7, ForetoldLonger DEF x, v
    <3>9. Foretold(Append(c2s, k), Present, Owed \ {"KEXINIT"}, d)
      BY <3>2, <3>3, <3>8
    <3> QED
      BY <1>2, <3>1, <3>9, Longer
  <2> QED
    BY <2>1, <2>2
<1>7. PICK t : t = "KEXINIT"
  OBVIOUS
<1>8. /\ ClientOK(client') /\ client'.strict = client.strict /\ client'.rkey = client.rkey
      /\ client'.rid = client.rid + 1 /\ client'.hash = client.hash /\ client'.session = client.session
  BY <1>1, <1>4 DEF SameOffer, SameKeys, d
<1>9. Foretold(c2s', Present, Owed \ {t}, client')
  BY <1>6, <1>7 DEF d
<1>10. Agreed'
  BY <1>1, <1>6, <1>7, <1>8, <1>9, HearsAgrees
<1> QED
  BY <1>1, <1>10 DEF d

(* Nor with any other packet: keys, numbers and hash are those it expects. *)
LEMMA RestHeard ==
  ASSUME Agreed, ~client.bad, Unmoved, ClientRecv, Head(s2c).t # "KEXINIT"
  PROVE  Agreed' /\ ~client'.bad
<1> DEFINE d == client'
<1>0. PICK t : t = Head(s2c).t
  OBVIOUS
<1>1. /\ s2c # <<>> /\ s2c' = Tail(s2c) /\ c2s' = c2s
      /\ DOMAIN d = Fields /\ SameOffer(client, d) /\ d.skey = client.skey /\ d.sid = client.sid
      /\ d.rid = (IF t = "NEWKEYS" /\ client.strict THEN 0 ELSE client.rid + 1)
      /\ (t = "REPLY" => Head(s2c).b = Hash) => ~d.bad
      /\ d.si = client.si
      /\ d.rkey = (IF t = "NEWKEYS" THEN KeyOf(client) ELSE client.rkey)
      /\ d.hash = (IF t = "REPLY" THEN Hash ELSE client.hash)
      /\ d.session = (IF t = "REPLY" /\ client.session = NoHash THEN Hash ELSE client.session)
      /\ d.kex = (IF t = "REPLY" THEN "reply"
                  ELSE IF t = "NEWKEYS" /\ client.skey = KeyOf(client) THEN "no" ELSE client.kex)
      /\ d.app = (IF t = "SUCCESS" THEN "yes" ELSE IF t \in Auth THEN "auth" ELSE client.app)
  BY <1>0, RecvRest
<1>2. ClientOK(client) /\ Sequence(c2s) /\ client.sid \in Nat
  BY SidNat DEF Agreed
<1> HIDE DEF d
<1>3. ClientOK(d)
  BY <1>1, <1>2, StillOK
<1>4. /\ t = "REPLY" => Head(s2c).b = hash /\ "REPLY" \in Owed /\ "NEWKEYS" \in Owed /\ "KEXINIT" \notin Owed
      /\ t = "NEWKEYS" => "NEWKEYS" \in Owed /\ "KEXINIT" \notin Owed /\ "REPLY" \notin Owed
      /\ t \in Auth => t \in Owed
  BY <1>0, <1>1, HearsHead
<1>5. Foretold(c2s, Present, Owed \ {t}, d) /\ (t = "REPLY" => hash = Hash)
  <2>1. CASE t = "REPLY"
    <3>1. ASSUME NEW x, NEW w, Knows(client, x, w), Onward(Present, Owed, x, w)
          PROVE  Knows(d, x, w \ {"REPLY"}) /\ Present.hash = d.hash
      <4>1. /\ SameOffer(client, d) /\ d.skey = client.skey /\ d.rkey = client.rkey /\ d.kex = "reply"
            /\ d.hash = HashOf(client, client.si)
            /\ d.session = (IF client.session = NoHash THEN HashOf(client, client.si) ELSE client.session)
            /\ d.sid = client.sid /\ d.app = client.app
        BY <1>1, <2>1 DEF Hash, Auth
      <4> QED
        BY <1>2, <1>4, <2>1, <3>1, <4>1, HearReply
    <3>2. Heeds(d, t)
      BY <2>1, <3>1 DEF Heeds
    <3>3. Present.hash = d.hash
      BY <3>1, ForetoldEnd
    <3> QED
      BY <1>1, <1>4, <2>1, <3>2, <3>3, ForetoldHeard, PresentIs
  <2>2. CASE t = "NEWKEYS"
    <3>1. /\ SameOffer(client, d) /\ d.skey = client.skey /\ d.rkey = KeyOf(client)
          /\ d.hash = client.hash /\ d.session = client.session
          /\ d.kex = (IF client.skey = KeyOf(client) THEN "no" ELSE client.kex)
          /\ d.sid = client.sid /\ d.app = client.app
      BY <1>1, <2>2 DEF Auth
    <3>2. ASSUME NEW x, NEW w, Knows(client, x, w), Onward(Present, Owed, x, w)
          PROVE  Knows(d, x, w \ {"NEWKEYS"})
      BY <1>4, <2>2, <3>1, <3>2, HearNewkeys
    <3>3. Heeds(d, t)
      BY <2>2, <3>2 DEF Heeds
    <3> QED
      BY <1>4, <2>2, <3>3, ForetoldHeard
  <2>3. CASE t \in Auth
    <3>1. t # "REPLY" /\ t # "NEWKEYS"
      BY <2>3 DEF Auth
    <3>2. /\ SameOffer(client, d) /\ SameKeys(client, d) /\ d.kex = client.kex /\ d.si = client.si
          /\ d.sid = client.sid /\ d.app = IF t = "SUCCESS" THEN "yes" ELSE "auth"
      BY <1>1, <2>3, <3>1 DEF SameKeys
    <3>3. ASSUME NEW x, NEW w, Knows(client, x, w), Onward(Present, Owed, x, w)
          PROVE  Knows(d, x, w \ {t})
      BY <1>4, <2>3, <3>2, <3>3, HearAuth
    <3>4. Heeds(d, t)
      BY <3>3 DEF Heeds
    <3> QED
      BY <1>4, <2>3, <3>1, <3>4, ForetoldHeard
  <2>4. CASE t \notin Auth \cup {"REPLY", "NEWKEYS"}
    <3>1. t # "SUCCESS" /\ t \notin Owed
      BY <1>0, <2>4 DEF Auth, Kex, Owed
    <3>2. /\ SameOffer(client, d) /\ SameKeys(client, d) /\ d.kex = client.kex /\ d.si = client.si
          /\ d.sid = client.sid /\ d.app = client.app
      BY <1>1, <2>4, <3>1 DEF SameKeys
    <3>3. Owed \ {t} = Owed
      BY <3>1
    <3>4. PICK f, o : /\ Script(c2s, f, o) /\ f[1] = Present /\ o[1] = Owed
                      /\ Knows(client, f[Len(c2s) + 1], o[Len(c2s) + 1])
      BY ForetoldEnd
    <3>5. Knows(d, f[Len(c2s) + 1], o[Len(c2s) + 1])
      BY <3>2, <3>4, HearOther
    <3>6. Foretold(c2s, Present, Owed, d)
      BY <3>4, <3>5 DEF Foretold
    <3> QED
      BY <2>4, <3>3, <3>6
  <2> QED
    BY <2>1, <2>2, <2>3, <2>4
<1>6. ~d.bad
  BY <1>0, <1>1, <1>4, <1>5
<1>7. /\ ClientOK(client') /\ client'.strict = client.strict
      /\ client'.rkey = (IF t = "NEWKEYS" THEN KeyOf(client) ELSE client.rkey)
      /\ client'.rid = (IF t = "NEWKEYS" /\ client.strict THEN 0 ELSE client.rid + 1)
      /\ client'.hash = (IF t = "REPLY" THEN hash ELSE client.hash)
      /\ client'.session = (IF t = "REPLY" /\ client.session = NoHash THEN hash ELSE client.session)
  BY <1>1, <1>3, <1>5 DEF SameOffer, d
<1>8. Foretold(c2s', Present, Owed \ {t}, client') /\ Sequence(c2s')
  BY <1>1, <1>2, <1>5 DEF d
<1>9. Agreed'
  BY <1>0, <1>1, <1>7, <1>8, HearsAgrees
<1> QED
  BY <1>6, <1>9 DEF d

-----------------------------------------------------------------------------
(* How many of the first i packets of q have type t. *)
Marked(q, t, i) == {j \in 1..i : q[j].t = t}
Rank(q, t, i) == Cardinality(Marked(q, t, i))

(* Ranks are numbers that do not fall. *)
LEMMA RankIs ==
  ASSUME NEW q, NEW t, NEW i \in Nat
  PROVE  /\ IsFiniteSet(Marked(q, t, i)) /\ Rank(q, t, i) \in Nat
         /\ Rank(q, t, 0) = 0
         /\ \A j \in 0..i : Rank(q, t, j) <= Rank(q, t, i)
         /\ \A j \in 1..i : q[j].t = t => Rank(q, t, j) >= 1
<1>1. ASSUME NEW j \in Nat PROVE IsFiniteSet(Marked(q, t, j)) /\ Rank(q, t, j) \in Nat
  <2>1. IsFiniteSet(1..j)
    BY FS_Interval
  <2>2. Marked(q, t, j) \in SUBSET (1..j)
    BY DEF Marked
  <2> QED
    BY <2>1, <2>2, FS_Subset, FS_CardinalityType DEF Rank
<1>2. Rank(q, t, 0) = 0
  <2>1. Marked(q, t, 0) = {}
    BY DEF Marked
  <2> QED
    BY <2>1, FS_EmptySet DEF Rank
<1>3. ASSUME NEW j \in 0..i PROVE Rank(q, t, j) <= Rank(q, t, i)
  <2>1. Marked(q, t, j) \in SUBSET Marked(q, t, i)
    BY DEF Marked
  <2> QED
    BY <1>1, <2>1, FS_Subset DEF Rank
<1>4. ASSUME NEW j \in 1..i, q[j].t = t PROVE Rank(q, t, j) >= 1
  <2>1. Marked(q, t, j) # {}
    BY <1>4 DEF Marked
  <2>2. Rank(q, t, j) # 0 /\ Rank(q, t, j) \in Nat
    BY <1>1, <2>1, FS_EmptySet DEF Rank
  <2> QED
    BY <2>2
<1> QED
  BY <1>1, <1>2, <1>3, <1>4

(* The next packet has the next rank or the same. *)
LEMMA RankNext ==
  ASSUME NEW q, NEW t, NEW i \in Nat
  PROVE  Rank(q, t, i + 1) = Rank(q, t, i) + IF q[i + 1].t = t THEN 1 ELSE 0
<1>1. IsFiniteSet(Marked(q, t, i)) /\ Rank(q, t, i) \in Nat
  BY RankIs
<1>2. CASE q[i + 1].t = t
  <2>1. Marked(q, t, i + 1) = Marked(q, t, i) \cup {i + 1} /\ i + 1 \notin Marked(q, t, i)
    BY <1>2 DEF Marked
  <2> QED
    BY <1>1, <1>2, <2>1, FS_AddElement DEF Rank
<1>3. CASE q[i + 1].t # t
  <2>1. Marked(q, t, i + 1) = Marked(q, t, i)
    BY <1>3 DEF Marked
  <2> QED
    BY <1>1, <1>3, <2>1 DEF Rank
<1> QED
  BY <1>2, <1>3

(* Ranks in a longer stream. *)
LEMMA RankLonger ==
  ASSUME NEW q, Sequence(q), NEW m, NEW t
  PROVE  /\ \A i \in 0..Len(q) : Rank(Append(q, m), t, i) = Rank(q, t, i)
         /\ Rank(Append(q, m), t, Len(q) + 1) = Rank(q, t, Len(q)) + IF m.t = t THEN 1 ELSE 0
<1> DEFINE r == Append(q, m)
<1>1. Len(q) \in Nat /\ (\A i \in 1..Len(q) : r[i] = q[i]) /\ r[Len(q) + 1] = m
  BY Longer
<1> HIDE DEF r
<1>2. ASSUME NEW i \in 0..Len(q) PROVE Rank(r, t, i) = Rank(q, t, i)
  <2>1. Marked(r, t, i) = Marked(q, t, i)
    BY <1>1 DEF Marked
  <2> QED
    BY <2>1 DEF Rank
<1>3. Rank(r, t, Len(q) + 1) = Rank(r, t, Len(q)) + IF m.t = t THEN 1 ELSE 0
  BY <1>1, RankNext
<1> QED
  BY <1>1, <1>2, <1>3 DEF r

(* Ranks in a shorter stream. *)
LEMMA RankShorter ==
  ASSUME NEW q, Sequence(q), q # <<>>, NEW t
  PROVE  \A i \in 0..(Len(q) - 1) :
            Rank(q, t, i + 1) = Rank(Tail(q), t, i) + IF Head(q).t = t THEN 1 ELSE 0
<1> DEFINE r == Tail(q)
<1>1. Len(q) \in Nat /\ Len(q) > 0 /\ (\A i \in 1..(Len(q) - 1) : r[i] = q[i + 1]) /\ Head(q) = q[1]
  BY Shorter
<1> HIDE DEF r
<1>2. ASSUME NEW i \in 0..(Len(q) - 1)
      PROVE  Rank(q, t, i + 1) = Rank(r, t, i) + IF Head(q).t = t THEN 1 ELSE 0
  <2> DEFINE S == Marked(r, t, i)
             T == {j \in 2..(i + 1) : q[j].t = t}
             f == [j \in S |-> j + 1]
  <2>1. f \in Bijection(S, T)
    <3>1. S \subseteq 1..i /\ \A j \in S : q[j + 1].t = t
      BY <1>1 DEF Marked
    <3>2. \A k \in T : k - 1 \in S
      BY <1>1 DEF Marked
    <3>3. f \in [S -> T]
      BY <3>1
    <3>4. \A a, b \in S : f[a] = f[b] => a = b
      BY <3>1
    <3>5. \A k \in T : \E j \in S : f[j] = k
      <4> SUFFICES ASSUME NEW k \in T PROVE f[k - 1] = k /\ k - 1 \in S
        OBVIOUS
      <4> QED
        BY <3>2
    <3> QED
      BY <3>3, <3>4, <3>5 DEF Bijection, Injection, Surjection, IsInjective
  <2>2. IsFiniteSet(S) /\ Cardinality(S) \in Nat
    BY RankIs DEF Rank
  <2>3. IsFiniteSet(T) /\ Cardinality(T) = Cardinality(S)
    BY <2>1, <2>2, FS_Bijection DEF ExistsBijection
  <2>4. CASE Head(q).t = t
    <3>1. Marked(q, t, i + 1) = T \cup {1} /\ 1 \notin T
      BY <1>1, <2>4 DEF Marked
    <3> HIDE DEF T
    <3> QED
      BY <2>2, <2>3, <2>4, <3>1, FS_AddElement DEF Rank
  <2>5. CASE Head(q).t # t
    <3>1. Marked(q, t, i + 1) = T
      BY <1>1, <2>5 DEF Marked
    <3> HIDE DEF T
    <3> QED
      BY <2>2, <2>3, <2>5, <3>1 DEF Rank
  <2> QED
    BY <2>4, <2>5
<1> QED
  BY <1>2 DEF r

-----------------------------------------------------------------------------
(* The answers to unknown packets that the client waits for: u lists the
   numbers, first of those answered on their way, then of those to be. *)
Answers(q, u) ==
  \A i \in 1..Len(q) : q[i].t = "UNIMPL" => q[i].b = u[Rank(q, "UNIMPL", i)]
Asks(q, u, n) ==
  \A i \in 1..Len(q) : q[i].t = "OTHER" => q[i].id = u[n + Rank(q, "OTHER", i)]
Known(q) == Rank(q, "UNIMPL", Len(q))
Unknown(q) == Rank(q, "OTHER", Len(q))

Owing(s, c, u) ==
  /\ Sequence(s) /\ Sequence(c) /\ Sequence(u)
  /\ Len(u) = Known(s) + Unknown(c)
  /\ Answers(s, u) /\ Asks(c, u, Known(s))

(* The ranks of the packets of a stream. *)
LEMMA Lengths ==
  ASSUME NEW q, Sequence(q), NEW t
  PROVE  /\ Len(q) \in Nat /\ Rank(q, t, Len(q)) \in Nat
         /\ \A i \in 1..Len(q) : /\ Rank(q, t, i) \in Nat /\ Rank(q, t, i) <= Rank(q, t, Len(q))
                                 /\ q[i].t = t => Rank(q, t, i) >= 1
<1>1. Len(q) \in Nat
  BY LenProperties DEF Sequence
<1>2. \A i \in 0..Len(q) : Rank(q, t, i) \in Nat
  BY <1>1, RankIs
<1> QED
  BY <1>1, <1>2, RankIs

(* The client says something else. *)
LEMMA OwingSays ==
  ASSUME NEW s, NEW c, NEW u, Owing(s, c, u), NEW m, m.t # "OTHER"
  PROVE  Owing(s, Append(c, m), u)
<1> DEFINE r == Append(c, m)
<1>1. /\ Sequence(c) /\ Sequence(r) /\ Len(c) \in Nat /\ Len(r) = Len(c) + 1
      /\ (\A i \in 1..Len(c) : r[i] = c[i]) /\ r[Len(c) + 1] = m
  BY Longer DEF Owing
<1>2. Unknown(c) \in Nat
  BY <1>1, Lengths DEF Unknown
<1>3. /\ \A i \in 0..Len(c) : Rank(r, "OTHER", i) = Rank(c, "OTHER", i)
      /\ Rank(r, "OTHER", Len(c) + 1) = Rank(c, "OTHER", Len(c)) + 0
  BY <1>1, RankLonger
<1> HIDE DEF r
<1>4. Unknown(r) = Unknown(c)
  BY <1>1, <1>2, <1>3 DEF Unknown
<1>5. Asks(r, u, Known(s))
  <2> SUFFICES ASSUME NEW i \in 1..Len(r), r[i].t = "OTHER"
               PROVE  r[i].id = u[Known(s) + Rank(r, "OTHER", i)]
    BY DEF Asks
  <2>1. i \in 1..Len(c)
    BY <1>1
  <2> QED
    BY <1>1, <1>3, <2>1 DEF Owing, Asks
<1> QED
  BY <1>1, <1>4, <1>5 DEF Owing, r

(* It says something unknown. *)
LEMMA OwingAsks ==
  ASSUME NEW s, NEW c, NEW u, Owing(s, c, u), NEW m, m.t = "OTHER"
  PROVE  Owing(s, Append(c, m), Append(u, m.id))
<1> DEFINE r == Append(c, m)
           v == Append(u, m.id)
<1>1. /\ Sequence(s) /\ Sequence(c) /\ Sequence(r) /\ Len(c) \in Nat /\ Len(r) = Len(c) + 1
      /\ (\A i \in 1..Len(c) : r[i] = c[i]) /\ r[Len(c) + 1] = m
  BY Longer DEF Owing
<1>2. /\ Sequence(v) /\ Len(u) \in Nat /\ Len(v) = Len(u) + 1
      /\ (\A i \in 1..Len(u) : v[i] = u[i]) /\ v[Len(u) + 1] = m.id
  BY Longer DEF Owing
<1>3. Unknown(c) \in Nat /\ Known(s) \in Nat /\ Len(u) = Known(s) + Unknown(c)
  BY <1>1, Lengths DEF Unknown, Known, Owing
<1>4. /\ \A i \in 0..Len(c) : Rank(r, "OTHER", i) = Rank(c, "OTHER", i)
      /\ Rank(r, "OTHER", Len(c) + 1) = Unknown(c) + 1
  BY <1>1, RankLonger DEF Unknown
<1> HIDE DEF r, v
<1>5. Unknown(r) = Unknown(c) + 1
  BY <1>1, <1>4 DEF Unknown
<1>6. Asks(r, v, Known(s))
  <2> SUFFICES ASSUME NEW i \in 1..Len(r), r[i].t = "OTHER"
               PROVE  r[i].id = v[Known(s) + Rank(r, "OTHER", i)]
    BY DEF Asks
  <2>1. CASE i = Len(c) + 1
    BY <1>1, <1>2, <1>3, <1>4, <2>1
  <2>2. CASE i # Len(c) + 1
    <3>1. i \in 1..Len(c) /\ r[i] = c[i] /\ Rank(r, "OTHER", i) = Rank(c, "OTHER", i)
      BY <1>1, <1>4, <2>2
    <3>2. c[i].id = u[Known(s) + Rank(c, "OTHER", i)]
      BY <3>1 DEF Owing, Asks
    <3>3. Rank(c, "OTHER", i) \in Nat /\ Rank(c, "OTHER", i) <= Unknown(c) /\ Rank(c, "OTHER", i) >= 1
      BY <1>1, <3>1, Lengths DEF Unknown
    <3>4. Known(s) + Rank(c, "OTHER", i) \in 1..Len(u)
      BY <1>3, <3>3
    <3> QED
      BY <1>2, <3>1, <3>2, <3>4
  <2> QED
    BY <2>1, <2>2
<1>7. Answers(s, v)
  <2> SUFFICES ASSUME NEW i \in 1..Len(s), s[i].t = "UNIMPL" PROVE s[i].b = v[Rank(s, "UNIMPL", i)]
    BY DEF Answers
  <2>1. Rank(s, "UNIMPL", i) \in Nat /\ Rank(s, "UNIMPL", i) <= Known(s) /\ Rank(s, "UNIMPL", i) >= 1
    BY <1>1, Lengths DEF Known
  <2>2. Rank(s, "UNIMPL", i) \in 1..Len(u)
    BY <1>3, <2>1
  <2> QED
    BY <1>2, <2>2 DEF Owing, Answers
<1> QED
  BY <1>1, <1>2, <1>3, <1>5, <1>6, <1>7 DEF Owing, r, v

(* The server puts something else. *)
LEMMA OwingPuts ==
  ASSUME NEW s, NEW c, NEW u, Owing(s, c, u), NEW m, m.t # "UNIMPL"
  PROVE  Owing(Append(s, m), c, u)
<1> DEFINE r == Append(s, m)
<1>1. /\ Sequence(s) /\ Sequence(r) /\ Len(s) \in Nat /\ Len(r) = Len(s) + 1
      /\ (\A i \in 1..Len(s) : r[i] = s[i]) /\ r[Len(s) + 1] = m
  BY Longer DEF Owing
<1>2. Known(s) \in Nat
  BY <1>1, Lengths DEF Known
<1>3. /\ \A i \in 0..Len(s) : Rank(r, "UNIMPL", i) = Rank(s, "UNIMPL", i)
      /\ Rank(r, "UNIMPL", Len(s) + 1) = Rank(s, "UNIMPL", Len(s)) + 0
  BY <1>1, RankLonger
<1> HIDE DEF r
<1>4. Known(r) = Known(s)
  BY <1>1, <1>2, <1>3 DEF Known
<1>5. Answers(r, u)
  <2> SUFFICES ASSUME NEW i \in 1..Len(r), r[i].t = "UNIMPL" PROVE r[i].b = u[Rank(r, "UNIMPL", i)]
    BY DEF Answers
  <2>1. i \in 1..Len(s)
    BY <1>1
  <2> QED
    BY <1>1, <1>3, <2>1 DEF Owing, Answers
<1> QED
  BY <1>1, <1>4, <1>5 DEF Owing, r

(* The server takes something else. *)
LEMMA OwingTakes ==
  ASSUME NEW s, NEW c, NEW u, Owing(s, c, u), c # <<>>, Head(c).t # "OTHER"
  PROVE  Owing(s, Tail(c), u)
<1> DEFINE r == Tail(c)
<1>1. /\ Sequence(c) /\ Sequence(r) /\ Len(c) \in Nat /\ Len(c) > 0 /\ Len(r) = Len(c) - 1
      /\ (\A i \in 1..(Len(c) - 1) : r[i] = c[i + 1])
  BY Shorter DEF Owing
<1>2. \A i \in 0..(Len(c) - 1) : Rank(c, "OTHER", i + 1) = Rank(r, "OTHER", i) + 0
  BY <1>1, RankShorter
<1> HIDE DEF r
<1>3. \A i \in 0..(Len(c) - 1) : Rank(c, "OTHER", i + 1) = Rank(r, "OTHER", i)
  BY <1>2, RankIs
<1>4. Unknown(r) = Unknown(c)
  <2>1. Len(r) \in 0..(Len(c) - 1) /\ Len(r) + 1 = Len(c)
    BY <1>1
  <2> QED
    BY <1>3, <2>1 DEF Unknown
<1>5. Asks(r, u, Known(s))
  <2> SUFFICES ASSUME NEW i \in 1..Len(r), r[i].t = "OTHER"
               PROVE  r[i].id = u[Known(s) + Rank(r, "OTHER", i)]
    BY DEF Asks
  <2>1. i \in 1..(Len(c) - 1) /\ i \in 0..(Len(c) - 1) /\ i + 1 \in 1..Len(c)
    BY <1>1
  <2>2. r[i] = c[i + 1] /\ Rank(c, "OTHER", i + 1) = Rank(r, "OTHER", i)
    BY <1>1, <1>3, <2>1
  <2> QED
    BY <2>1, <2>2 DEF Owing, Asks
<1> QED
  BY <1>1, <1>4, <1>5 DEF Owing, r

(* It takes something unknown and answers. *)
LEMMA OwingAnswers ==
  ASSUME NEW s, NEW c, NEW u, Owing(s, c, u), c # <<>>, Head(c).t = "OTHER",
         NEW m, m.t = "UNIMPL", m.b = Head(c).id
  PROVE  Owing(Append(s, m), Tail(c), u)
<1> DEFINE r == Tail(c)
           p == Append(s, m)
<1>1. /\ Sequence(c) /\ Sequence(r) /\ Len(c) \in Nat /\ Len(c) > 0 /\ Len(r) = Len(c) - 1
      /\ (\A i \in 1..(Len(c) - 1) : r[i] = c[i + 1]) /\ Head(c) = c[1]
  BY Shorter DEF Owing
<1>2. /\ Sequence(s) /\ Sequence(p) /\ Len(s) \in Nat /\ Len(p) = Len(s) + 1
      /\ (\A i \in 1..Len(s) : p[i] = s[i]) /\ p[Len(s) + 1] = m
  BY Longer DEF Owing
<1>3. \A i \in 0..(Len(c) - 1) : Rank(c, "OTHER", i + 1) = Rank(r, "OTHER", i) + 1
  BY <1>1, RankShorter
<1>4. /\ \A i \in 0..Len(s) : Rank(p, "UNIMPL", i) = Rank(s, "UNIMPL", i)
      /\ Rank(p, "UNIMPL", Len(s) + 1) = Known(s) + 1
  BY <1>2, RankLonger DEF Known
<1> HIDE DEF r, p
<1>5. Known(p) = Known(s) + 1 /\ Known(s) \in Nat /\ Unknown(r) \in Nat
  BY <1>1, <1>2, <1>4, Lengths DEF Known, Unknown
<1>6. Unknown(c) = Unknown(r) + 1
  <2>1. Len(r) \in 0..(Len(c) - 1) /\ Len(r) + 1 = Len(c)
    BY <1>1
  <2> QED
    BY <1>3, <2>1 DEF Unknown
<1>7. Asks(r, u, Known(p))
  <2> SUFFICES ASSUME NEW i \in 1..Len(r), r[i].t = "OTHER"
               PROVE  r[i].id = u[Known(p) + Rank(r, "OTHER", i)]
    BY DEF Asks
  <2>1. i \in 1..(Len(c) - 1) /\ i \in 0..(Len(c) - 1) /\ i + 1 \in 1..Len(c)
    BY <1>1
  <2>2. r[i] = c[i + 1] /\ Rank(c, "OTHER", i + 1) = Rank(r, "OTHER", i) + 1 /\ Rank(r, "OTHER", i) \in Nat
    BY <1>1, <1>3, <2>1, Lengths
  <2>3. c[i + 1].id = u[Known(s) + Rank(c, "OTHER", i + 1)]
    BY <2>1, <2>2 DEF Owing, Asks
  <2>4. Known(s) + Rank(c, "OTHER", i + 1) = Known(p) + Rank(r, "OTHER", i)
    BY <1>5, <2>2
  <2> QED
    BY <2>2, <2>3, <2>4
<1>8. Answers(p, u)
  <2> SUFFICES ASSUME NEW i \in 1..Len(p), p[i].t = "UNIMPL" PROVE p[i].b = u[Rank(p, "UNIMPL", i)]
    BY DEF Answers
  <2>1. CASE i = Len(s) + 1
    <3>1. 1 \in 1..Len(c) /\ c[1].id = u[Known(s) + Rank(c, "OTHER", 1)]
      BY <1>1 DEF Owing, Asks
    <3>2. Rank(c, "OTHER", 1) = 1
      <4>1. 0 \in 0..(Len(c) - 1) /\ 0 + 1 = 1
        BY <1>1
      <4>2. Rank(c, "OTHER", 0 + 1) = Rank(r, "OTHER", 0) + 1
        BY <1>3, <4>1
      <4> QED
        BY <4>2, RankIs
    <3> QED
      BY <1>1, <1>2, <1>4, <2>1, <3>1, <3>2
  <2>2. CASE i # Len(s) + 1
    <3>1. i \in 1..Len(s)
      BY <1>2, <2>2
    <3> QED
      BY <1>2, <1>4, <3>1 DEF Owing, Answers
  <2> QED
    BY <2>1, <2>2
<1>9. Len(u) = Known(p) + Unknown(r)
  <2>1. Len(u) = Known(s) + Unknown(c)
    BY DEF Owing
  <2> QED
    BY <1>5, <1>6, <2>1
<1> QED
  BY <1>1, <1>2, <1>7, <1>8, <1>9 DEF Owing, r, p

(* The client hears something else, or an answer. *)
LEMMA OwingHears ==
  ASSUME NEW s, NEW c, NEW u, Owing(s, c, u), s # <<>>
  PROVE  Owing(Tail(s), c, IF Head(s).t = "UNIMPL" THEN Tail(u) ELSE u)
<1> DEFINE r == Tail(s)
<1>1. /\ Sequence(s) /\ Sequence(r) /\ Len(s) \in Nat /\ Len(s) > 0 /\ Len(r) = Len(s) - 1
      /\ (\A i \in 1..(Len(s) - 1) : r[i] = s[i + 1]) /\ Sequence(c) /\ Sequence(u)
  BY Shorter DEF Owing
<1>2. \A i \in 0..(Len(s) - 1) :
         Rank(s, "UNIMPL", i + 1) = Rank(r, "UNIMPL", i) + IF Head(s).t = "UNIMPL" THEN 1 ELSE 0
  BY <1>1, RankShorter
<1> HIDE DEF r
<1>3. /\ Known(r) \in Nat /\ Unknown(c) \in Nat
      /\ Known(s) = Known(r) + IF Head(s).t = "UNIMPL" THEN 1 ELSE 0
  <2>1. Len(r) \in 0..(Len(s) - 1) /\ Len(r) + 1 = Len(s)
    BY <1>1
  <2> QED
    BY <1>1, <1>2, <2>1, Lengths DEF Known, Unknown
<1>4. ASSUME NEW i \in 1..Len(r)
      PROVE  /\ i + 1 \in 1..Len(s) /\ r[i] = s[i + 1] /\ Rank(r, "UNIMPL", i) \in Nat
             /\ Rank(r, "UNIMPL", i) <= Known(r) /\ (r[i].t = "UNIMPL" => Rank(r, "UNIMPL", i) >= 1)
             /\ Rank(s, "UNIMPL", i + 1) = Rank(r, "UNIMPL", i) + IF Head(s).t = "UNIMPL" THEN 1 ELSE 0
  <2>1. i \in 1..(Len(s) - 1) /\ i \in 0..(Len(s) - 1) /\ i + 1 \in 1..Len(s)
    BY <1>1
  <2> QED
    BY <1>1, <1>2, <2>1, Lengths DEF Known
<1>5. CASE Head(s).t # "UNIMPL"
  <2>1. Known(s) = Known(r)
    BY <1>3, <1>5
  <2>2. Answers(r, u)
    <3> SUFFICES ASSUME NEW i \in 1..Len(r), r[i].t = "UNIMPL" PROVE r[i].b = u[Rank(r, "UNIMPL", i)]
      BY DEF Answers
    <3>1. Rank(s, "UNIMPL", i + 1) = Rank(r, "UNIMPL", i)
      BY <1>4, <1>5
    <3>2. r[i] = s[i + 1] /\ i + 1 \in 1..Len(s)
      BY <1>4
    <3>3. s[i + 1].b = u[Rank(s, "UNIMPL", i + 1)]
      BY <3>2 DEF Owing, Answers
    <3> QED
      BY <3>1, <3>2, <3>3
  <2>3. Owing(r, c, u)
    BY <1>1, <2>1, <2>2 DEF Owing
  <2> QED
    BY <1>5, <2>3 DEF r
<1>6. CASE Head(s).t = "UNIMPL"
  <2> DEFINE v == Tail(u)
  <2>1. Known(s) = Known(r) + 1 /\ Len(u) = Known(s) + Unknown(c)
    BY <1>3, <1>6 DEF Owing
  <2>0. Known(r) \in Nat /\ Unknown(c) \in Nat
    BY <1>3
  <2>2. u # <<>>
    <3>1. Len(u) > 0
      BY <1>3, <2>1
    <3> QED
      BY <3>1
  <2>3. /\ Sequence(v) /\ Len(u) \in Nat /\ Len(v) = Len(u) - 1
        /\ \A i \in 1..(Len(u) - 1) : v[i] = u[i + 1]
    BY <1>1, <2>2, Shorter
  <2> HIDE DEF v
  <2>4. Answers(r, v)
    <3> SUFFICES ASSUME NEW i \in 1..Len(r), r[i].t = "UNIMPL" PROVE r[i].b = v[Rank(r, "UNIMPL", i)]
      BY DEF Answers
    <3>1. /\ Rank(s, "UNIMPL", i + 1) = Rank(r, "UNIMPL", i) + 1
          /\ Rank(r, "UNIMPL", i) \in Nat /\ Rank(r, "UNIMPL", i) <= Known(r) /\ Rank(r, "UNIMPL", i) >= 1
      BY <1>4, <1>6
    <3>2. r[i] = s[i + 1] /\ i + 1 \in 1..Len(s)
      BY <1>4
    <3>3. s[i + 1].b = u[Rank(s, "UNIMPL", i + 1)]
      BY <3>2 DEF Owing, Answers
    <3>4. Rank(r, "UNIMPL", i) \in 1..(Len(u) - 1)
      BY <2>0, <2>1, <3>1
    <3> QED
      BY <2>3, <3>1, <3>2, <3>3, <3>4
  <2>5. Asks(c, v, Known(r))
    <3> SUFFICES ASSUME NEW i \in 1..Len(c), c[i].t = "OTHER"
                 PROVE  c[i].id = v[Known(r) + Rank(c, "OTHER", i)]
      BY DEF Asks
    <3>1. Rank(c, "OTHER", i) \in Nat /\ Rank(c, "OTHER", i) <= Unknown(c) /\ Rank(c, "OTHER", i) >= 1
      BY <1>1, Lengths DEF Unknown
    <3>2. c[i].id = u[Known(s) + Rank(c, "OTHER", i)]
      BY DEF Owing, Asks
    <3>3. PICK n \in Nat : n = Rank(c, "OTHER", i)
      BY <3>1
    <3>4. PICK k \in Nat : k = Known(r)
      BY <2>0
    <3>5. n <= Unknown(c) /\ n >= 1
      BY <3>1, <3>3
    <3>6. Known(s) = k + 1 /\ Len(u) = (k + 1) + Unknown(c)
      BY <2>1, <3>4
    <3>7. k + n \in 1..(Len(u) - 1) /\ Known(s) + n = (k + n) + 1
      BY <2>0, <3>5, <3>6
    <3> QED
      BY <2>3, <3>2, <3>3, <3>4, <3>7
  <2>6. Len(v) = Known(r) + Unknown(c)
    BY <2>0, <2>1, <2>3
  <2>7. Owing(r, c, v)
    BY <1>1, <2>3, <2>4, <2>5, <2>6 DEF Owing
  <2> QED
    BY <1>6, <2>7 DEF r, v
<1> QED
  BY <1>5, <1>6

-----------------------------------------------------------------------------
(* The client found nothing wrong and waits for the answers on their way. *)
Owes == Owing(s2c, c2s, client.owes) /\ ~client.bad

(* The client says one packet that is known. *)
LEMMA OwesOne ==
  ASSUME Agreed, Owes, s2c' = s2c, NEW t, NEW b, NEW c, ClientSends(<<t>>, <<b>>, c),
         t # "OTHER", DOMAIN c = Fields, c.owes = client.owes, c.bad = client.bad
  PROVE  Owes'
<1>1. Sequence(c2s) /\ client.sid \in Nat
  BY SidNat DEF Agreed
<1>2. /\ c2s' = Append(c2s, Packet(t, b, client.skey, client.sid))
      /\ client' = [c EXCEPT !.sid = IF t = "NEWKEYS" /\ client.strict THEN 0 ELSE client.sid + 1]
  BY <1>1, SendsOne
<1>3. client'.owes = client.owes /\ client'.bad = client.bad
  BY <1>2 DEF Fields
<1>4. Packet(t, b, client.skey, client.sid).t # "OTHER"
  BY DEF Packet
<1>5. Owing(s2c, Append(c2s, Packet(t, b, client.skey, client.sid)), client.owes)
  BY <1>4, OwingSays DEF Owes
<1> QED
  BY <1>2, <1>3, <1>5 DEF Owes

(* It offers a key exchange. *)
LEMMA OwesKexinit ==
  ASSUME Agreed, Owes, ClientKexinit PROVE Owes'
<1>0. Sequence(c2s) /\ client.sid \in Nat /\ DOMAIN client = Fields
  BY SidNat DEF Agreed, ClientOK
<1>1. s2c' = s2c
  BY DEF ClientKexinit
<1> DEFINE n == client.n + 1
<1>2. PICK o : IF o.follows
               THEN ClientSends(<<"KEXINIT", "KEXDH">>,
                                <<Numbered(o, n), [alg |-> o.kex[1], guess |-> TRUE]>>,
                                [client EXCEPT !.kex = "init", !.n = n, !.offer = o])
               ELSE ClientSends(<<"KEXINIT">>, <<Numbered(o, n)>>,
                                [client EXCEPT !.kex = "init", !.n = n, !.offer = o])
  BY DEF ClientKexinit
<1> DEFINE c == [client EXCEPT !.kex = "init", !.n = n, !.offer = o]
           a == Numbered(o, n)
           b == [alg |-> o.kex[1], guess |-> TRUE]
<1>3. DOMAIN c = Fields /\ c.owes = client.owes /\ c.bad = client.bad
  BY <1>0 DEF Fields
<1>4. IF o.follows THEN ClientSends(<<"KEXINIT", "KEXDH">>, <<a, b>>, c)
      ELSE ClientSends(<<"KEXINIT">>, <<a>>, c)
  BY <1>2
<1> HIDE DEF n, c, a, b
<1>5. CASE ~o.follows
  <2>1. PICK t : t = "KEXINIT"
    OBVIOUS
  <2>2. ClientSends(<<t>>, <<a>>, c) /\ t # "OTHER"
    BY <1>4, <1>5, <2>1
  <2> QED
    BY <1>1, <1>3, <2>2, OwesOne
<1>6. CASE o.follows
  <2> DEFINE k == Packet("KEXINIT", a, client.skey, client.sid)
             m == Packet("KEXDH", b, client.skey, client.sid + 1)
  <2>1. c2s' = Append(Append(c2s, k), m) /\ client' = [c EXCEPT !.sid = client.sid + 2]
    BY <1>0, <1>4, <1>6, SendsTwo
  <2>2. client'.owes = client.owes /\ client'.bad = client.bad
    BY <1>3, <2>1 DEF Fields
  <2>3. k.t # "OTHER" /\ m.t # "OTHER"
    BY DEF Packet
  <2> HIDE DEF k, m
  <2>4. Owing(s2c, Append(c2s, k), client.owes)
    BY <2>3, OwingSays DEF Owes
  <2>5. Owing(s2c, Append(Append(c2s, k), m), client.owes)
    BY <2>3, <2>4, OwingSays
  <2> QED
    BY <1>1, <2>1, <2>2, <2>5 DEF Owes
<1> QED
  BY <1>5, <1>6

(* It changes its key. *)
LEMMA OwesNewkeys ==
  ASSUME Agreed, Owes, ClientNewkeys PROVE Owes'
<1> DEFINE c == [client EXCEPT !.skey = ClientKey,
                               !.kex = IF client.rkey = ClientKey THEN "no" ELSE @]
<1>1. DOMAIN c = Fields /\ c.owes = client.owes /\ c.bad = client.bad
  BY DEF Fields, Agreed, ClientOK
<1>2. PICK t : t = "NEWKEYS"
  OBVIOUS
<1>3. ClientSends(<<t>>, <<0>>, c) /\ s2c' = s2c /\ t # "OTHER"
  BY <1>2 DEF ClientNewkeys
<1> HIDE DEF c
<1> QED
  BY <1>1, <1>3, OwesOne

(* It asks for the service. *)
LEMMA OwesService ==
  ASSUME Agreed, Owes, ClientService PROVE Owes'
<1> DEFINE c == [client EXCEPT !.app = "asked"]
<1>1. DOMAIN c = Fields /\ c.owes = client.owes /\ c.bad = client.bad
  BY DEF Fields, Agreed, ClientOK
<1>2. PICK t : t = "SERVICE"
  OBVIOUS
<1>3. PICK b : b = "ssh-userauth"
  OBVIOUS
<1>4. ClientSends(<<t>>, <<b>>, c) /\ s2c' = s2c /\ t # "OTHER"
  BY <1>2, <1>3 DEF ClientService
<1> HIDE DEF c
<1> QED
  BY <1>1, <1>4, OwesOne

(* It asks for authentication. *)
LEMMA OwesAuth ==
  ASSUME Agreed, Owes, ClientAuth PROVE Owes'
<1>1. PICK how, ok :
         ClientSends(<<"USERAUTH">>,
                <<[how |-> how, authorized |-> ok, session |-> client.session]>>,
                [client EXCEPT !.app = "waits",
                               !.left = IF how = "signed" /\ ok THEN @ ELSE @ - 1])
  BY DEF ClientAuth
<1> DEFINE c == [client EXCEPT !.app = "waits",
                               !.left = IF how = "signed" /\ ok THEN @ ELSE @ - 1]
           b == [how |-> how, authorized |-> ok, session |-> client.session]
<1>2. DOMAIN c = Fields /\ c.owes = client.owes /\ c.bad = client.bad
  BY DEF Fields, Agreed, ClientOK
<1>3. PICK t : t = "USERAUTH"
  OBVIOUS
<1>4. ClientSends(<<t>>, <<b>>, c) /\ s2c' = s2c /\ t # "OTHER"
  BY <1>1, <1>3 DEF ClientAuth
<1> HIDE DEF b, c
<1> QED
  BY <1>2, <1>4, OwesOne

(* What it says on top is answered if it is unknown. *)
LEMMA OwesChats ==
  ASSUME Agreed, Owes, Polite, ClientChats PROVE Owes'
<1>0. Sequence(c2s) /\ DOMAIN client = Fields /\ client.sid \in Nat
  BY SidNat DEF Agreed, ClientOK
<1>1. s2c' = s2c
  BY DEF ClientChats
<1>2. PICK t \in Chatter :
          ClientSends(<<t>>, <<"other">>,
                [client EXCEPT !.left = @ - 1,
                               !.owes = IF t \in {"OTHER", "NEWKEYS", "SERVICE"}
                                         THEN Append(@, client.sid) ELSE @])
  BY DEF ClientChats
<1> DEFINE c == [client EXCEPT !.left = @ - 1,
                               !.owes = IF t \in {"OTHER", "NEWKEYS", "SERVICE"}
                                         THEN Append(@, client.sid) ELSE @]
           m == Packet(t, "other", client.skey, client.sid)
<1>3. t \in {"IGNORE", "DATA", "OTHER"}
  BY DEF Polite
<1>4. /\ DOMAIN c = Fields /\ c.bad = client.bad
      /\ c.owes = IF t = "OTHER" THEN Append(client.owes, client.sid) ELSE client.owes
  BY <1>0, <1>3 DEF Fields
<1>5. ClientSends(<<t>>, <<"other">>, c)
  BY <1>2
<1> HIDE DEF c
<1>6. c2s' = Append(c2s, m) /\ client' = [c EXCEPT !.sid = client.sid + 1]
  <2>1. t # "NEWKEYS"
    BY <1>3
  <2> QED
    BY <1>0, <1>5, <2>1, SendsOne
<1>7. client'.owes = c.owes /\ client'.bad = client.bad
  BY <1>4, <1>6 DEF Fields
<1>8. m.t = t /\ m.id = client.sid
  BY DEF Packet
<1> HIDE DEF m
<1>9. CASE t = "OTHER"
  <2>1. Owing(s2c, Append(c2s, m), Append(client.owes, m.id))
    BY <1>8, <1>9, OwingAsks DEF Owes
  <2> QED
    BY <1>1, <1>4, <1>6, <1>7, <1>8, <1>9, <2>1 DEF Owes
<1>10. CASE t # "OTHER"
  <2>1. Owing(s2c, Append(c2s, m), client.owes)
    BY <1>8, <1>10, OwingSays DEF Owes
  <2> QED
    BY <1>1, <1>4, <1>6, <1>7, <1>10, <2>1 DEF Owes
<1> QED
  BY <1>9, <1>10

(* It hears one packet, the answer to an unknown one or another. *)
LEMMA OwesHears ==
  ASSUME Agreed, Owes, Polite, Unmoved, ClientRecv PROVE Agreed' /\ Owes'
<1>1. CASE Head(s2c).t = "KEXINIT"
  <2>1. Agreed' /\ ~client'.bad
    BY <1>1, KexinitHeard DEF Owes
  <2>2. s2c # <<>> /\ s2c' = Tail(s2c) /\ client'.owes = client.owes
    BY <1>1, RecvKexinit DEF Owes
  <2>3. PICK m : c2s' = c2s \/ (c2s' = Append(c2s, m) /\ m.t # "OTHER")
    <3> DEFINE k == Packet("KEXDH", [alg |-> KexChoice(client.offer), guess |-> FALSE],
                           client.skey, client.sid)
    <3>1. c2s' = c2s \/ c2s' = Append(c2s, k)
      BY <1>1, RecvKexinit DEF Owes
    <3>2. k.t # "OTHER"
      BY DEF Packet
    <3> HIDE DEF k
    <3> QED
      BY <3>1, <3>2
  <2>4. Owing(Tail(s2c), c2s, client.owes)
    <3>1. Owing(Tail(s2c), c2s, IF Head(s2c).t = "UNIMPL" THEN Tail(client.owes) ELSE client.owes)
      BY <2>2, OwingHears DEF Owes
    <3> QED
      BY <1>1, <3>1
  <2>5. Owing(Tail(s2c), c2s', client.owes)
    BY <2>3, <2>4, OwingSays
  <2> QED
    BY <2>1, <2>2, <2>5 DEF Owes
<1>2. CASE Head(s2c).t # "KEXINIT"
  <2>1. Agreed' /\ ~client'.bad
    BY <1>2, RestHeard DEF Owes
  <2>2. PICK t : t = Head(s2c).t
    OBVIOUS
  <2>3. /\ s2c # <<>> /\ s2c' = Tail(s2c) /\ c2s' = c2s
        /\ client'.owes = IF t = "UNIMPL" THEN Tail(client.owes) ELSE client.owes
    BY <1>2, <2>2, RecvRest DEF Owes
  <2>4. Owing(Tail(s2c), c2s, IF t = "UNIMPL" THEN Tail(client.owes) ELSE client.owes)
    BY <2>2, <2>3, OwingHears DEF Owes
  <2> QED
    BY <2>1, <2>3, <2>4 DEF Owes
<1> QED
  BY <1>1, <1>2

(* The server answers what it takes. *)
LEMMA OwesHandles ==
  ASSUME Owes, c2s # <<>>, Handles(Head(c2s)) PROVE Owes'
<1> DEFINE m == Head(c2s)
<1>1. client' = client /\ c2s' = Tail(c2s) /\ Says(m)
  BY DEF Handles
<1> SUFFICES Owing(s2c', Tail(c2s), client.owes)
  BY <1>1 DEF Owes
<1>2. Owing(s2c, c2s, client.owes)
  BY DEF Owes
<1> HIDE DEF m
<1>3. m.t # "OTHER" => Owing(s2c, Tail(c2s), client.owes)
  BY <1>2, OwingTakes DEF m
<1>4. CASE s2c' = s2c /\ m.t # "OTHER"
  BY <1>3, <1>4
<1>5. CASE m.t = "OTHER" /\ Adds("UNIMPL", m.id)
  <2> DEFINE k == Packet("UNIMPL", m.id, SendKey, sendid)
  <2>1. k.t = "UNIMPL" /\ k.b = m.id /\ s2c' = Append(s2c, k)
    BY <1>5 DEF Packet, Adds
  <2> HIDE DEF k
  <2> QED
    BY <1>2, <1>5, <2>1, OwingAnswers DEF m
<1>6. CASE \E t \in (Kex \cup Auth) \ {"REPLY", "NEWKEYS"} : \E b :
             Answer(Present, m) = {t} /\ Adds(t, b)
  <2>1. PICK t \in Kex \cup Auth : \E b : Answer(Present, m) = {t} /\ Adds(t, b)
    BY <1>6
  <2>2. PICK b : Answer(Present, m) = {t} /\ Adds(t, b)
    BY <2>1
  <2>3. m.t # "OTHER"
    BY <2>2 DEF Answer, Exchanged
  <2> DEFINE k == Packet(t, b, SendKey, sendid)
  <2>4. k.t # "UNIMPL" /\ s2c' = Append(s2c, k)
    BY <2>2 DEF Packet, Adds, Kex, Auth
  <2> HIDE DEF k
  <2> QED
    BY <1>3, <2>3, <2>4, OwingPuts
<1>7. CASE Exchanged(Present, m) /\ AddsPair(hash')
  <2> DEFINE k == Packet("REPLY", hash', SendKey, sendid)
             l == Packet("NEWKEYS", 0, SendKey, sendid + 1)
  <2>1. /\ k.t # "UNIMPL" /\ l.t # "UNIMPL" /\ m.t # "OTHER"
        /\ s2c' = Append(Append(s2c, k), l)
    BY <1>7 DEF Packet, AddsPair, Exchanged
  <2> HIDE DEF k, l
  <2>2. Owing(Append(s2c, k), Tail(c2s), client.owes)
    BY <1>3, <2>1, OwingPuts
  <2> QED
    BY <2>1, <2>2, OwingPuts
<1> QED
  BY <1>1, <1>4, <1>5, <1>6, <1>7 DEF Says

(* The server puts output. *)
LEMMA OwesOutputs == Owes /\ Outputs => Owes'
<1> SUFFICES ASSUME Owes, Outputs PROVE Owes'
  OBVIOUS
<1> DEFINE k == Packet("DATA", 0, SendKey, sendid)
<1>1. k.t # "UNIMPL" /\ s2c' = Append(s2c, k) /\ client' = client /\ c2s' = c2s
  BY DEF Outputs, Adds, Packet
<1> HIDE DEF k
<1>2. Owing(Append(s2c, k), c2s, client.owes)
  BY <1>1, OwingPuts DEF Owes
<1> QED
  BY <1>1, <1>2 DEF Owes

-----------------------------------------------------------------------------
(* The client waits for the numbers that are on their way. *)
LEMMA OwesNames == Owes => UnimplementedNamesPacket
<1> SUFFICES ASSUME Owes PROVE UnimplementedNamesPacket
  OBVIOUS
<1> DEFINE answers == {i \in 1..Len(s2c) : s2c[i].t = "UNIMPL"}
           rank(i) == Cardinality({j \in answers : j <= i})
<1>1. /\ Sequence(s2c) /\ Sequence(c2s) /\ Sequence(client.owes)
      /\ Len(client.owes) = Known(s2c) + Unknown(c2s) /\ Answers(s2c, client.owes)
  BY DEF Owes, Owing
<1>2. Len(s2c) \in Nat /\ Known(s2c) \in Nat /\ Unknown(c2s) \in Nat
  BY <1>1, Lengths DEF Known, Unknown
<1> SUFFICES ASSUME NEW i \in answers
             PROVE  rank(i) <= Len(client.owes) /\ s2c[i].b = client.owes[rank(i)]
  BY DEF UnimplementedNamesPacket
<1>3. rank(i) = Rank(s2c, "UNIMPL", i)
  <2>1. {j \in answers : j <= i} = Marked(s2c, "UNIMPL", i)
    BY <1>2 DEF Marked
  <2> QED
    BY <2>1 DEF Rank
<1>4. i \in 1..Len(s2c) /\ s2c[i].t = "UNIMPL"
  OBVIOUS
<1> HIDE DEF answers, rank
<1>5. Rank(s2c, "UNIMPL", i) \in Nat /\ Rank(s2c, "UNIMPL", i) <= Known(s2c)
  BY <1>1, <1>4, Lengths DEF Known
<1> QED
  BY <1>1, <1>2, <1>3, <1>4, <1>5 DEF Answers

(* What the server does while it runs and what it leaves behind when it stops. *)
AgreeInv ==
  /\ status \in {"run", "tries", "overflow", "toomany"}
  /\ ~client.bad /\ UnimplementedNamesPacket
  /\ status = "run" => Agreed /\ Owes

(* A step of the server. *)
LEMMA AgreeServer ==
  ASSUME NonceInv, LimitsInv, AgreeInv, Server PROVE AgreeInv'
<1>1. status = "run"
  BY DEF Server, packet_hello, packet_get_stop, packet_get_ignore, packet_kex_receive, packet_kex_rekey,
     packet_kexdh_guess, packet_kexdh, packet_kexdh_newkeys, packet_auth_service,
     packet_auth_request, loop_packet, loop_output, Got, Take
<1>2. Agreed /\ Owes
  BY <1>1 DEF AgreeInv
<1>3. c2s # <<>> => Ready(Head(c2s))
  BY <1>2, HeadLegal DEF Ready, Agreed
<1>4. sendid \in Nat
  BY Constants DEF NonceInv, SendTypes
<1>5. CASE Halts
  <2>1. UnimplementedNamesPacket'
    BY <1>5 DEF Halts, UnimplementedNamesPacket, AgreeInv
  <2> QED
    BY <1>5, <2>1 DEF Halts, AgreeInv
<1>6. ASSUME Agreed', Owes', status' \in {"run", "tries"} PROVE AgreeInv'
  <2>1. UnimplementedNamesPacket'
    BY <1>6, OwesNames, PTL
  <2> QED
    BY <1>6, <2>1 DEF AgreeInv, Owes
<1>7. CASE Outputs
  <2>1. Agreed' /\ Owes' /\ status' = status
    BY <1>2, <1>7, OutputAgrees, OwesOutputs DEF Outputs
  <2> QED
    BY <1>1, <1>6, <2>1
<1>8. CASE c2s # <<>> /\ Handles(Head(c2s))
  <2>1. Agreed' /\ Owes'
    BY <1>2, <1>4, <1>8, HandlesAgrees, OwesHandles
  <2> QED
    BY <1>6, <1>8, <2>1 DEF Handles
<1> QED
  BY <1>3, <1>5, <1>7, <1>8, ServerStep

(* A step of the client. *)
LEMMA AgreeClient ==
  ASSUME Polite, AgreeInv, Client PROVE AgreeInv'
<1>1. /\ status = "run" /\ status' = status
      /\ UNCHANGED <<pc, sendid, kexvars, authvars, recvid>>
  BY DEF Client
<1>2. Agreed /\ Owes
  BY <1>1 DEF AgreeInv
<1>3. Unmoved
  BY <1>1, ClientAlone
<1>4. Agreed' /\ Owes'
  BY <1>2, <1>3, KexinitAgrees, OwesKexinit, NewkeysAgrees, OwesNewkeys, ServiceAgrees, OwesService,
     AuthAgrees, OwesAuth, ChatsAgrees, OwesChats, OwesHears DEF Client
<1>5. UnimplementedNamesPacket'
  BY <1>4, OwesNames, PTL
<1> QED
  BY <1>1, <1>4, <1>5 DEF AgreeInv, Owes

(* Every step. *)
LEMMA AgreeStep == Polite /\ NonceInv /\ LimitsInv /\ AgreeInv /\ [Next]_vars => AgreeInv'
<1> SUFFICES ASSUME Polite, NonceInv, LimitsInv, AgreeInv, [Next]_vars PROVE AgreeInv'
  OBVIOUS
<1>1. CASE UNCHANGED vars
  <2>1. UNCHANGED <<status, client, s2c, c2s, Present, pc, hash, sessionid, flagrekeying, sendid, kexsend>>
    BY <1>1 DEF vars, sendvars, kexvars, authvars, Present, SendKey
  <2>2. UnimplementedNamesPacket'
    BY <2>1 DEF UnimplementedNamesPacket, AgreeInv
  <2>3. Agreed => Agreed'
    <3>1. NextKey' = NextKey
      BY <1>1 DEF NextKey, vars, kexvars, SendKey
    <3> QED
      BY <2>1, <3>1 DEF Agreed, Heard, Paired, Rekeyed, Owed
  <2> QED
    BY <2>1, <2>2, <2>3 DEF AgreeInv, Owes
<1>2. CASE Stopped \/ Idle
  BY <1>1, <1>2 DEF Stopped, Idle
<1> QED
  BY <1>1, <1>2, AgreeServer, AgreeClient DEF Next

(* The version strings are on their way, the client has said nothing else. *)
LEMMA AgreeInit == Polite /\ Init => AgreeInv
<1> SUFFICES ASSUME Polite, Init PROVE AgreeInv
  OBVIOUS
<1> DEFINE m == Packet("HELLO", 0, NoKey, 0)
<1>1. /\ pc = "hello" /\ status = "run" /\ strict = FALSE /\ SendKey = NoKey /\ flagauthorized = FALSE
      /\ flagrekeying = FALSE /\ sendid = 0 /\ recvid = 0 /\ sessionid = NoHash /\ hash = NoHash
      /\ kexsend = 0 /\ c2s = <<m>> /\ s2c = <<>>
  BY DEF Init, SendKey
<1>2. PICK o \in Offers :
        client = [kex |-> "no", n |-> 0, offer |-> o, si |-> 0,
                  strict |-> StrictToken \in Range(o.kex),
                  skey |-> NoKey, rkey |-> NoKey, sid |-> 0, rid |-> 0,
                  hash |-> NoHash, session |-> NoHash, app |-> "none",
                  left |-> ClientMax, owes |-> <<>>, bad |-> FALSE]
  BY DEF Init
<1>3. /\ DOMAIN client = Fields /\ client.kex = "no" /\ client.n = 0 /\ client.offer = o
      /\ client.strict \in BOOLEAN /\ (client.strict <=> StrictToken \in Range(o.kex))
      /\ client.skey = NoKey /\ client.rkey = NoKey /\ client.sid = 0 /\ client.rid = 0
      /\ client.hash = NoHash /\ client.session = NoHash /\ client.app = "none"
      /\ client.owes = <<>> /\ client.bad = FALSE
  <2> DEFINE b == StrictToken \in Range(o.kex)
  <2>1. b = TRUE \/ b = FALSE
    OBVIOUS
  <2>2. client = [kex |-> "no", n |-> 0, offer |-> o, si |-> 0, strict |-> b,
                  skey |-> NoKey, rkey |-> NoKey, sid |-> 0, rid |-> 0,
                  hash |-> NoHash, session |-> NoHash, app |-> "none",
                  left |-> ClientMax, owes |-> <<>>, bad |-> FALSE]
    BY <1>2
  <2>3. b \in BOOLEAN /\ (b <=> StrictToken \in Range(o.kex))
    BY <2>1
  <2> HIDE DEF b
  <2> QED
    BY <2>2, <2>3 DEF Fields
<1>4. m.t = "HELLO" /\ m.key = NoKey /\ m.id = 0
  BY DEF Packet
<1> HIDE DEF m
<1>5. ClientOK(client)
  <2>1. Repeats => StrictToken \in Range(o.kex)
    BY DEF Repeats, Polite
  <2> QED
    BY <1>3, <2>1 DEF ClientOK
<1>6. Sequence(<<>>) /\ Len(<<>>) = 0 /\ Types(<<>>) = {} /\ Append(<<>>, m) = <<m>>
  BY DEF Sequence, Types
<1>7. Sequence(c2s) /\ Sequence(s2c)
  <2>1. Sequence(Append(<<>>, m))
    BY <1>6, Longer
  <2> QED
    BY <1>1, <1>6, <2>1
<1>8. Owed = {}
  BY <1>1, <1>6 DEF Owed
<1>9. Foretold(c2s, Present, Owed, client)
  <2>1. PICK f, u : Script(<<>>, f, u) /\ f[1] = Present /\ u[1] = {}
    <3>1. PICK w : w = {}
      OBVIOUS
    <3>2. Starts(Present, w)
      BY ScriptEmpty
    <3> QED
      BY <3>1, <3>2 DEF Starts
  <2> DEFINE x == Present
             y == After(x, m)
             v == {} \cup Answer(x, m)
  <2>2. /\ x.pc = "hello" /\ x.strict = FALSE /\ x.key = NoKey /\ x.id = 0 /\ x.hash = NoHash
        /\ x.session = NoHash /\ x.auth = FALSE
    BY <1>1, PresentIs
  <2>3. Legal(x, {}, m)
    BY <1>4, <2>2 DEF Legal, Expects
  <2>4. Answer(x, m) = {"KEXINIT"} /\ ~Exchanged(x, m) /\ Place(x, m) = "kexinit"
    BY <1>4 DEF Answer, Exchanged, Place
  <2>5. y.pc = "kexinit" /\ y.key = NoKey /\ y.id = 0 /\ y.hash = NoHash /\ y.session = NoHash
    BY <1>4, <2>2, <2>4, AfterIs
  <2>6. ~y.strict /\ ~y.auth
    BY <1>4, <2>2, AfterIs
  <2> HIDE DEF x, y
  <2>7. v \cap Kex = {"KEXINIT"} /\ v \cap Auth = {}
    BY <2>4 DEF Kex, Auth
  <2> HIDE DEF v
  <2>8. Knows(client, y, v)
    BY <1>3, <2>5, <2>6, <2>7 DEF Knows, Common, Stage, AtStart, Asked
  <2>9. Foretold(Append(<<>>, m), f[1], u[1], client)
    <3>1. /\ f[Len(<<>>) + 1] = x /\ u[Len(<<>>) + 1] = {}
      BY <1>6, <2>1 DEF x
    <3>2. /\ Legal(f[Len(<<>>) + 1], u[Len(<<>>) + 1], m)
          /\ Knows(client, After(f[Len(<<>>) + 1], m),
                   u[Len(<<>>) + 1] \cup Answer(f[Len(<<>>) + 1], m))
      BY <2>3, <2>8, <3>1 DEF y, v
    <3> QED
      BY <1>6, <2>1, <3>2, ForetoldLonger
  <2> QED
    BY <1>1, <1>6, <1>8, <2>1, <2>9
<1>10. Heard /\ Paired
  <2>1. NextKey = NoKey
    BY <1>1 DEF NextKey
  <2>2. Readable(s2c, client.rkey, NextKey, client.rid, sendid, client.strict)
    BY <1>1, <1>3, <2>1, ReadableEmpty
  <2>3. Means(s2c, kexsend, hash)
    BY <1>1 DEF Means
  <2> QED
    BY <1>1, <1>3, <1>6, <1>7, <2>2, <2>3 DEF Heard, Paired
<1>11. Rekeyed
  BY <1>1 DEF Rekeyed
<1>12. Owes
  <2>1. Rank(<<>>, "UNIMPL", 0) = 0
    BY RankIs
  <2>2. /\ Len(c2s) = 1 /\ c2s[1] = m
    BY <1>1
  <2>3. Rank(c2s, "OTHER", 1) = 0
    <3>1. Rank(c2s, "OTHER", 0 + 1) = Rank(c2s, "OTHER", 0) + IF c2s[0 + 1].t = "OTHER" THEN 1 ELSE 0
      BY RankNext
    <3>2. Rank(c2s, "OTHER", 0) = 0 /\ 0 + 1 = 1
      BY RankIs
    <3> QED
      BY <1>4, <2>2, <3>1, <3>2
  <2>4. Known(s2c) = 0 /\ Unknown(c2s) = 0
    BY <1>1, <2>1, <2>2, <2>3 DEF Known, Unknown
  <2>5. Answers(s2c, client.owes)
    BY <1>1 DEF Answers
  <2>6. Asks(c2s, client.owes, Known(s2c))
    BY <1>4, <2>2 DEF Asks
  <2> QED
    BY <1>3, <1>6, <1>7, <2>4, <2>5, <2>6 DEF Owes, Owing
<1> QED
  BY <1>1, <1>3, <1>5, <1>7, <1>9, <1>10, <1>11, <1>12, OwesNames DEF AgreeInv, Agreed

-----------------------------------------------------------------------------
(* The types of what each side keeps and of what is on its way, whatever the
   client offers and says. A key is made of a hash and the session id, and
   both are there when NEWKEYS is taken; the client has them when it has the
   reply. *)
ServerKeeps ==
  /\ hash \in Hashes \cup {NoHash} /\ kexrecv.n \in Nat
  /\ IF flagrekeying THEN sessionid \in Hashes ELSE sessionid = NoHash
  /\ IF flagkeys THEN key \in Hashes \X {sessionid} ELSE key = NoKey
  /\ flagkeys => flagrekeying
  /\ pc = "newkeys" => hash \in Hashes /\ flagrekeying

ClientKeeps(c) ==
  /\ DOMAIN c = Fields
  /\ c.n \in Nat /\ c.sid \in Nat /\ c.si \in Nat /\ c.offer \in Offers \cup RekeyOffers
  /\ {c.hash, c.session} \subseteq Hashes \cup {NoHash} /\ c.skey \in Keys
  /\ c.kex = "reply" \/ c.skey # NoKey => {c.hash, c.session} \subseteq Hashes

Travelling ==
  /\ Sequence(s2c) /\ Sequence(c2s)
  /\ \A m \in Range(s2c) : FromServer(m)
  /\ \A m \in Range(c2s) : FromClient(m)

TypeInv == ServerKeeps /\ ClientKeeps(client) /\ Travelling

(* What is in a stream with a packet more, and with one less. *)
LEMMA RangeLonger ==
  ASSUME NEW q, Sequence(q), NEW m
  PROVE  Sequence(Append(q, m)) /\ \A x \in Range(Append(q, m)) : x \in Range(q) \/ x = m
<1>1. DOMAIN q = 1..Len(q) /\ DOMAIN Append(q, m) = 1..Len(Append(q, m))
  BY Longer, LenProperties DEF Sequence
<1> QED
  BY <1>1, Longer DEF Range

(* A packet less: the rest and the head are what was there. *)
LEMMA RangeShorter ==
  ASSUME NEW q, Sequence(q), q # <<>>
  PROVE  Sequence(Tail(q)) /\ Range(Tail(q)) \subseteq Range(q) /\ Head(q) \in Range(q)
<1>1. DOMAIN q = 1..Len(q) /\ DOMAIN Tail(q) = 1..Len(Tail(q))
  BY Shorter, LenProperties DEF Sequence
<1> QED
  BY <1>1, Shorter DEF Range

(* A hash is not the empty one, and a key of two hashes is one. *)
LEMMA HashAndKey ==
  /\ NoHash \notin Hashes
  /\ \A k \in Hashes, l \in Hashes : <<k, l>> \in Keys /\ <<k, l>> # NoKey
  /\ NoKey \in Keys
<1>1. \A h \in Hashes : h # NoHash
  BY DEF Hashes, NoHash
<1> QED
  BY <1>1 DEF Keys, NoKey

(* What the server puts on its way: nothing, one packet or the pair. *)
Body(t, b) ==
  /\ t = "KEXINIT" => b \in Nat
  /\ t = "REPLY" => b \in Hashes
  /\ t = "UNIMPL" => b \in 0..IdMax
PutsTyped ==
  \/ s2c' = s2c
  \/ sendid + 1 <= IdMax /\ \E t, b : Adds(t, b) /\ Body(t, b)
  \/ sendid + 2 <= IdMax /\ \E h \in Hashes : AddsPair(h)
TakesOne == client' = client /\ (c2s' = c2s \/ (c2s # <<>> /\ c2s' = Tail(c2s)))

(* packet_put of one packet of the right body (packet_put.c). *)
LEMMA PutsOne ==
  ASSUME NEW t, NEW b, Put(<<t>>, <<b>>), Fits(<<t>>), t # "NEWKEYS", SendTypes, Streams, Body(t, b)
  PROVE  PutsTyped
<1>1. sendid + 1 <= IdMax
  BY DEF Fits
<1>2. Adds(t, b)
  BY PutSingle
<1> QED
  BY <1>1, <1>2 DEF PutsTyped

(* The server's own variables, if it starts or ends no exchange. *)
LEMMA KeepsOn ==
  ASSUME ServerKeeps, UNCHANGED <<hash, sessionid, flagrekeying, key, flagkeys>>, kexrecv'.n \in Nat,
         pc' = pc \/ pc' # "newkeys"
  PROVE  ServerKeeps'
  BY DEF ServerKeeps

(* A packet sent under the server's key has types, and so has the next state of
   both streams. *)
LEMMA TravelsOn ==
  ASSUME NonceInv, ServerKeeps, Travelling, PutsTyped, TakesOne PROVE Travelling'
<1>1. Sequence(c2s') /\ \A m \in Range(c2s') : FromClient(m)
  BY RangeShorter DEF TakesOne, Travelling
<1>2. SendKey \in Keys
  BY HashAndKey DEF ServerKeeps, SendKey, Keys
<1>3. sendid \in Nat
  BY Constants DEF NonceInv, SendTypes
<1>4. ASSUME NEW t, NEW b, NEW i \in 0..IdMax, Body(t, b) PROVE FromServer(Packet(t, b, SendKey, i))
  BY <1>2, <1>4 DEF FromServer, Body, Packet
<1>5. Sequence(s2c) /\ \A m \in Range(s2c) : FromServer(m)
  BY DEF Travelling
<1>6. CASE s2c' = s2c
  BY <1>1, <1>5, <1>6 DEF Travelling
<1>7. ASSUME sendid + 1 <= IdMax, NEW t, NEW b, Adds(t, b), Body(t, b) PROVE Travelling'
  <2> DEFINE m == Packet(t, b, SendKey, sendid)
  <2>1. FromServer(m)
    BY <1>3, <1>4, <1>7, Constants
  <2>2. s2c' = Append(s2c, m)
    BY <1>7 DEF Adds
  <2> HIDE DEF m
  <2> QED
    BY <1>1, <1>5, <2>1, <2>2, RangeLonger DEF Travelling
<1>8. ASSUME sendid + 2 <= IdMax, NEW h \in Hashes, AddsPair(h) PROVE Travelling'
  <2> DEFINE m == Packet("REPLY", h, SendKey, sendid)
             k == Packet("NEWKEYS", 0, SendKey, sendid + 1)
  <2>1. Body("REPLY", h) /\ Body("NEWKEYS", 0) /\ sendid \in 0..IdMax /\ sendid + 1 \in 0..IdMax
    BY <1>3, <1>8, Constants DEF Body
  <2>2. FromServer(m) /\ FromServer(k)
    BY <1>4, <2>1
  <2>3. s2c' = Append(Append(s2c, m), k)
    BY <1>8 DEF AddsPair
  <2> HIDE DEF m, k
  <2>4. Sequence(Append(s2c, m)) /\ \A x \in Range(Append(s2c, m)) : FromServer(x)
    BY <1>5, <2>2, RangeLonger
  <2> DEFINE q == Append(s2c, m)
  <2> HIDE DEF q
  <2>5. Sequence(q) /\ (\A x \in Range(q) : FromServer(x)) /\ s2c' = Append(q, k)
    BY <2>3, <2>4 DEF q
  <2> QED
    BY <1>1, <2>2, <2>5, RangeLonger DEF Travelling
<1> QED
  BY <1>6, <1>7, <1>8 DEF PutsTyped

(* The server, action by action (packet_get.c, packet_kex.c, packet_kexdh.c,
   packet_auth.c, main_tinysshd.c). *)
LEMMA ServerTyped ==
  ASSUME TypeInv, NonceInv, LimitsInv, Server
  PROVE  ServerKeeps' /\ PutsTyped /\ TakesOne
<1> USE Constants DEF sendvars, kexvars, authvars
<1> DEFINE m == Head(c2s)
           Rest == UNCHANGED <<hash, sessionid, flagrekeying, key, flagkeys>>
<1>1. ServerKeeps /\ SendTypes /\ Streams /\ kexrecv.n \in Nat
  BY DEF TypeInv, NonceInv, ServerKeeps
<1>2. c2s # <<>> => FromClient(m)
  BY RangeShorter DEF TypeInv, Travelling
<1>3. ASSUME NEW why, stop(why) PROVE ServerKeeps' /\ PutsTyped
  BY <1>1, <1>3, KeepsOn DEF stop, PutsTyped
<1>4. ASSUME Take PROVE TakesOne /\ FromClient(m)
  BY <1>2, <1>4 DEF Take, TakesOne
<1>5. ASSUME UNCHANGED <<pc, sendvars, kexvars>> PROVE ServerKeeps' /\ PutsTyped
  BY <1>1, <1>5, KeepsOn DEF PutsTyped
<1>6. ASSUME packet_kex_send, Fits(<<"KEXINIT">>) PROVE PutsTyped
  <2>1. Body("KEXINIT", kexsend + 1)
    BY <1>1 DEF Body, SendTypes
  <2> QED
    BY <1>1, <1>6, <2>1, PutsOne DEF packet_kex_send
<1>7. CASE packet_hello
  <2>1. TakesOne /\ packet_kex_send /\ Rest /\ kexrecv' = kexrecv /\ pc' # "newkeys" /\ sendid = 0
    BY <1>7 DEF packet_hello, TakesOne, NonceInv, KeysAreOld
  <2>2. Fits(<<"KEXINIT">>)
    BY <2>1 DEF Fits
  <2> QED
    BY <1>1, <1>6, <2>1, <2>2, KeepsOn
<1>8. CASE packet_get_stop
  BY <1>3, <1>4, <1>8 DEF packet_get_stop
<1>9. CASE packet_get_ignore
  BY <1>4, <1>5, <1>9 DEF packet_get_ignore
<1>10. CASE packet_kex_receive
  <2>1. TakesOne /\ FromClient(m)
    BY <1>4, <1>10 DEF packet_kex_receive, Got
  <2>2. CASE \E why : stop(why)
    BY <1>3, <2>1, <2>2
  <2>3. CASE /\ m.t = "KEXINIT" /\ kexrecv' = m.b /\ pc' = AfterParse(m.b)
             /\ Rest /\ UNCHANGED s2c
    BY <1>1, <2>1, <2>3, KeepsOn DEF PutsTyped, AfterParse, FromClient
  <2> QED
    BY <1>10, <2>2, <2>3 DEF packet_kex_receive
<1>11. CASE packet_kex_rekey
  <2>1. TakesOne /\ FromClient(m) /\ m.t = "KEXINIT"
    BY <1>4, <1>11 DEF packet_kex_rekey, Got
  <2>2. CASE \E why : stop(why)
    BY <1>3, <2>1, <2>2
  <2>3. CASE /\ kexrecv' = m.b /\ pc' = AfterParse(m.b) /\ Rest
             /\ packet_kex_send /\ Fits(<<"KEXINIT">>)
    BY <1>1, <1>6, <2>1, <2>3, KeepsOn DEF AfterParse, FromClient
  <2> QED
    BY <1>11, <2>2, <2>3 DEF packet_kex_rekey
<1>12. CASE packet_kexdh_guess
  BY <1>1, <1>4, <1>12, KeepsOn DEF packet_kexdh_guess, Got, PutsTyped
<1>13. CASE packet_kexdh
  <2>1. TakesOne /\ FromClient(m) /\ pc = "kexdh"
    BY <1>4, <1>13 DEF packet_kexdh, Got
  <2>2. CASE \E why : stop(why)
    BY <1>3, <2>1, <2>2
  <2> DEFINE h == [ci |-> kexrecv.n, si |-> kexsend, e |-> m.b.guess]
             ts == <<"REPLY", "NEWKEYS">>
  <2>3. CASE /\ m.t = "KEXDH" /\ Fits(ts) /\ hash' = h /\ sessionid' = (IF flagrekeying THEN sessionid ELSE h)
             /\ flagrekeying' = TRUE /\ Put(ts, <<h, 0>>) /\ UNCHANGED <<kexrecv, key, flagkeys>>
    <3>1. h \in Hashes
      BY <1>1, <2>1, <2>3 DEF Hashes, FromClient, SendTypes
    <3> HIDE DEF h
    <3>2. ServerKeeps'
      <4>1. sessionid' \in Hashes /\ (flagkeys => sessionid' = sessionid)
        BY <1>1, <2>3, <3>1 DEF ServerKeeps
      <4> QED
        BY <1>1, <2>3, <3>1, <4>1 DEF ServerKeeps
    <3>3. sendid + 2 <= IdMax
      BY <2>3 DEF Fits
    <3>4. AddsPair(h)
      BY <1>1, <2>3, PutPair
    <3> QED
      BY <2>1, <3>1, <3>2, <3>3, <3>4 DEF PutsTyped
  <2> QED
    BY <1>13, <2>2, <2>3 DEF packet_kexdh
<1>14. CASE packet_kexdh_newkeys
  <2>1. TakesOne /\ pc = "newkeys"
    BY <1>4, <1>14 DEF packet_kexdh_newkeys, Got
  <2>2. CASE \E why : stop(why)
    BY <1>3, <2>1, <2>2
  <2>3. CASE UNCHANGED <<pc, sendvars, kexvars>>
    BY <1>5, <2>1, <2>3
  <2>4. CASE /\ key' = <<hash, sessionid>> /\ flagkeys' = TRUE /\ pc' \in {"run", "service"}
             /\ UNCHANGED <<sendvars, kexrecv, hash, sessionid, flagrekeying>>
    <3>1. hash \in Hashes /\ flagrekeying /\ sessionid \in Hashes
      BY <1>1, <2>1 DEF ServerKeeps
    <3> QED
      BY <1>1, <2>1, <2>4, <3>1 DEF ServerKeeps, PutsTyped
  <2> QED
    BY <1>14, <2>2, <2>3, <2>4 DEF packet_kexdh_newkeys
<1>15. ASSUME NEW t, Refuse(t) PROVE ServerKeeps' /\ PutsTyped
  <2>1. UNCHANGED <<pc, kexvars>>
    BY <1>15 DEF Refuse
  <2>2. CASE UNCHANGED sendvars
    BY <1>5, <2>1, <2>2
  <2>3. CASE Fits(<<t>>) /\ Put(<<"DISCONNECT">>, <<0>>)
    <3>1. Fits(<<"DISCONNECT">>) /\ Body("DISCONNECT", 0)
      BY <2>3 DEF Fits, Body
    <3> QED
      BY <1>1, <2>1, <2>3, <3>1, PutsOne, KeepsOn
  <2> QED
    BY <1>15, <2>2, <2>3 DEF Refuse
<1> DEFINE Plain(t) == Fits(<<t>>) /\ Put(<<t>>, <<0>>)
<1>16. ASSUME NEW t \in {"ACCEPT", "SUCCESS", "PK_OK", "FAILURE", "DATA"}, Plain(t),
              UNCHANGED kexvars, pc' # "newkeys"
       PROVE  ServerKeeps' /\ PutsTyped
  <2>1. Body(t, 0)
    BY DEF Body
  <2> QED
    BY <1>1, <1>16, <2>1, PutsOne, KeepsOn
<1>17. CASE packet_auth_service
  <2>1. TakesOne
    BY <1>4, <1>17 DEF packet_auth_service, Got
  <2>2. CASE \E why : stop(why)
    BY <1>3, <2>1, <2>2
  <2>3. CASE \E t : Refuse(t)
    BY <1>15, <2>1, <2>3
  <2>4. CASE Fits(<<"ACCEPT">>) /\ Put(<<"ACCEPT">>, <<0>>) /\ pc' = "auth" /\ UNCHANGED kexvars
    BY <1>16, <2>1, <2>4
  <2> QED
    BY <1>17, <2>2, <2>3, <2>4 DEF packet_auth_service
<1>18. CASE packet_auth_request
  <2>1. TakesOne
    BY <1>4, <1>18 DEF packet_auth_request, Got
  <2>2. CASE \E why : stop(why)
    BY <1>3, <2>1, <2>2
  <2>3. CASE \E t : Refuse(t)
    BY <1>15, <2>1, <2>3
  <2>4. CASE \E t \in {"SUCCESS", "PK_OK", "FAILURE"} :
               Fits(<<t>>) /\ Put(<<t>>, <<0>>) /\ pc' \in {"run", "auth"} /\ UNCHANGED kexvars
    BY <1>16, <2>1, <2>4
  <2> QED
    BY <1>18, <2>2, <2>3, <2>4 DEF packet_auth_request
<1>19. CASE loop_packet
  <2>1. TakesOne /\ pc = "run"
    BY <1>4, <1>19 DEF loop_packet, Got
  <2>2. CASE \E why : stop(why)
    BY <1>3, <2>1, <2>2
  <2>3. CASE UNCHANGED <<pc, sendvars, kexvars>>
    BY <1>5, <2>1, <2>3
  <2> DEFINE b == (recvid' - 1) % (IdMax + 1)
  <2>4. CASE Fits(<<"UNIMPL">>) /\ Put(<<"UNIMPL">>, <<b>>) /\ UNCHANGED <<pc, kexvars>>
    <3>1. recvid' \in Int
      BY <1>19 DEF loop_packet, Got, ReceivedId, Wrap, LimitsInv, CountTypes
    <3>2. b \in 0..IdMax
      <4>1. \A x \in Int, y \in Nat : y > 0 => x % y \in 0..(y - 1)
        OBVIOUS
      <4>2. recvid' - 1 \in Int /\ IdMax + 1 \in Nat /\ IdMax + 1 > 0 /\ (IdMax + 1) - 1 = IdMax
        BY <3>1
      <4> QED
        BY <4>1, <4>2, Zenon
    <3> HIDE DEF b
    <3>3. Body("UNIMPL", b)
      BY <3>2 DEF Body
    <3> QED
      BY <1>1, <2>1, <2>4, <3>3, PutsOne, KeepsOn
  <2> QED
    BY <1>19, <2>2, <2>3, <2>4 DEF loop_packet
<1>20. CASE loop_output
  <2>1. TakesOne /\ pc = "run" /\ UNCHANGED <<pc, kexvars>>
    BY <1>20 DEF loop_output, TakesOne
  <2>2. CASE UNCHANGED sendvars
    BY <1>5, <2>1, <2>2
  <2>3. CASE Fits(<<"DATA">>) /\ Put(<<"DATA">>, <<0>>)
    BY <1>16, <2>1, <2>3
  <2> QED
    BY <1>20, <2>1, <2>2, <2>3 DEF loop_output
<1> QED
  BY <1>7, <1>8, <1>9, <1>10, <1>11, <1>12, <1>13, <1>14, <1>17, <1>18, <1>19, <1>20 DEF Server

(* The client keeps its types in a step that gives it no hash and no key. *)
LEMMA StillKeeps ==
  ASSUME NEW c, ClientKeeps(c), NEW d, DOMAIN d = Fields, d.n = c.n, d.offer = c.offer,
         d.sid \in Nat, d.si \in Nat, d.skey = c.skey, d.hash = c.hash, d.session = c.session,
         d.kex = "reply" => c.kex = "reply"
  PROVE  ClientKeeps(d)
  BY DEF ClientKeeps

(* What it says has types, if the body has. *)
Told(t, b) ==
  /\ t = "KEXINIT" => \E o \in Offers \cup RekeyOffers : b = Numbered(o, b.n) /\ b.n \in Nat
  /\ t = "KEXDH" => b.guess \in BOOLEAN
  /\ t = "USERAUTH" => b.session \in Hashes
Listens == s2c' = s2c \/ (s2c # <<>> /\ s2c' = Tail(s2c))

(* The number of its next packet is one, too. *)
LEMMA SidKeeps ==
  ASSUME NEW c, ClientKeeps(c), NEW i \in Nat PROVE ClientKeeps([c EXCEPT !.sid = i])
<1> DEFINE d == [c EXCEPT !.sid = i]
<1>1. /\ DOMAIN d = Fields /\ d.n = c.n /\ d.offer = c.offer /\ d.sid = i /\ d.si = c.si
      /\ d.skey = c.skey /\ d.hash = c.hash /\ d.session = c.session /\ d.kex = c.kex
      /\ c.si \in Nat
  BY DEF ClientKeeps, Fields
<1> HIDE DEF d
<1>2. ClientKeeps(d)
  BY <1>1, StillKeeps
<1> QED
  BY <1>2 DEF d

(* One packet of the client. *)
LEMMA TellsOne ==
  ASSUME TypeInv, NEW t, NEW b, NEW c, ClientKeeps(c), ClientSends(<<t>>, <<b>>, c), Told(t, b), Listens
  PROVE  ClientKeeps(client') /\ Travelling'
<1> DEFINE m == Packet(t, b, client.skey, client.sid)
           i == IF t = "NEWKEYS" /\ client.strict THEN 0 ELSE client.sid + 1
<1>1. /\ Sequence(s2c) /\ Sequence(c2s) /\ client.sid \in Nat /\ client.skey \in Keys /\ i \in Nat
      /\ (\A x \in Range(s2c) : FromServer(x)) /\ (\A x \in Range(c2s) : FromClient(x))
  BY DEF TypeInv, ClientKeeps, Travelling
<1>2. c2s' = Append(c2s, m) /\ client' = [c EXCEPT !.sid = i]
  BY <1>1, SendsOne
<1>3. FromClient(m)
  BY <1>1 DEF FromClient, Told, Packet
<1> HIDE DEF m, i
<1>4. ClientKeeps(client')
  BY <1>1, <1>2, SidKeeps
<1>5. Sequence(c2s') /\ \A x \in Range(c2s') : FromClient(x)
  BY <1>1, <1>2, <1>3, RangeLonger
<1>6. Sequence(s2c') /\ \A x \in Range(s2c') : FromServer(x)
  BY <1>1, RangeShorter DEF Listens
<1> QED
  BY <1>4, <1>5, <1>6 DEF Travelling

(* The KEXINIT and the guess. *)
LEMMA TellsTwo ==
  ASSUME TypeInv, NEW a, NEW b, NEW c, ClientKeeps(c), ClientSends(<<"KEXINIT", "KEXDH">>, <<a, b>>, c),
         Told("KEXINIT", a), Told("KEXDH", b), s2c' = s2c
  PROVE  ClientKeeps(client') /\ Travelling'
<1> DEFINE m == Packet("KEXINIT", a, client.skey, client.sid)
           k == Packet("KEXDH", b, client.skey, client.sid + 1)
           q == Append(c2s, m)
<1>1. /\ Sequence(s2c) /\ Sequence(c2s) /\ client.sid \in Nat /\ client.skey \in Keys
      /\ client.sid + 1 \in Nat /\ client.sid + 2 \in Nat
      /\ (\A x \in Range(s2c) : FromServer(x)) /\ (\A x \in Range(c2s) : FromClient(x))
  BY DEF TypeInv, ClientKeeps, Travelling
<1>2. c2s' = Append(q, k) /\ client' = [c EXCEPT !.sid = client.sid + 2]
  BY <1>1, SendsTwo
<1>3. FromClient(m) /\ FromClient(k)
  BY <1>1 DEF FromClient, Told, Packet
<1> HIDE DEF m, k
<1>4. ClientKeeps(client')
  BY <1>1, <1>2, SidKeeps
<1>5. Sequence(q) /\ \A x \in Range(q) : FromClient(x)
  BY <1>1, <1>3, RangeLonger
<1> HIDE DEF q
<1>6. Sequence(c2s') /\ \A x \in Range(c2s') : FromClient(x)
  BY <1>2, <1>3, <1>5, RangeLonger
<1> QED
  BY <1>1, <1>4, <1>6 DEF Travelling

(* ClientKexinit, with and without the guess. *)
LEMMA KexinitTyped ==
  ASSUME TypeInv, ClientKexinit PROVE ClientKeeps(client') /\ Travelling'
<1> DEFINE n == client.n + 1
<1>1. ClientKeeps(client) /\ client.offer \in Offers \cup RekeyOffers /\ n \in Nat /\ s2c' = s2c
  BY DEF TypeInv, ClientKeeps, ClientKexinit
<1>2. PICK o \in Offers \cup RekeyOffers :
         IF o.follows
         THEN ClientSends(<<"KEXINIT", "KEXDH">>,
                          <<Numbered(o, n), [alg |-> o.kex[1], guess |-> TRUE]>>,
                          [client EXCEPT !.kex = "init", !.n = n, !.offer = o])
         ELSE ClientSends(<<"KEXINIT">>, <<Numbered(o, n)>>,
                          [client EXCEPT !.kex = "init", !.n = n, !.offer = o])
  BY <1>1 DEF ClientKexinit
<1> DEFINE c == [client EXCEPT !.kex = "init", !.n = n, !.offer = o]
           k == [alg |-> o.kex[1], guess |-> TRUE]
<1>3. ClientKeeps(c)
  BY <1>1 DEF ClientKeeps, Fields
<1>4. Told("KEXINIT", Numbered(o, n)) /\ Told("KEXDH", k)
  <2>1. Numbered(o, n).n = n
    BY DEF Numbered
  <2> QED
    BY <1>1, <2>1 DEF Told
<1> HIDE DEF c, n, k
<1>5. CASE o.follows
  BY <1>1, <1>2, <1>3, <1>4, <1>5, TellsTwo DEF c, k
<1>6. CASE ~o.follows
  BY <1>1, <1>2, <1>3, <1>4, <1>6, TellsOne DEF c, Listens
<1> QED
  BY <1>5, <1>6

(* ClientRecv: the KEXINIT that it answers with its key, and the rest. *)
LEMMA RecvTyped ==
  ASSUME TypeInv, ClientRecv PROVE ClientKeeps(client') /\ Travelling'
<1> DEFINE m == Head(s2c)
           seen == [client EXCEPT
                      !.bad = @ \/ m.key # client.rkey \/ m.id # client.rid,
                      !.rid = IF m.t = "NEWKEYS" /\ client.strict THEN 0 ELSE @ + 1]
           a == Answered(m)
           c == [seen EXCEPT !.kex = "dh", !.si = m.b]
           b == [alg |-> KexChoice(client.offer), guess |-> FALSE]
           h == [ci |-> client.n, si |-> client.si,
                 e |-> client.offer.follows /\ RightGuess(client.offer)]
<1>1. /\ ClientKeeps(client) /\ Listens /\ s2c # <<>> /\ FromServer(m) /\ Sequence(c2s)
      /\ (\A x \in Range(c2s) : FromClient(x)) /\ s2c' = Tail(s2c)
      /\ Sequence(s2c') /\ \A x \in Range(s2c') : FromServer(x)
  BY RangeShorter DEF TypeInv, Travelling, ClientRecv, Listens
<1>2. IF m.t = "KEXINIT"
      THEN \/ client' = c /\ UNCHANGED c2s
           \/ ClientSends(<<"KEXDH">>, <<b>>, c)
      ELSE client' = [a EXCEPT !.bad = @ \/ seen.bad, !.rid = seen.rid] /\ UNCHANGED c2s
  BY DEF ClientRecv
<1>3. /\ DOMAIN seen = Fields /\ seen.n = client.n /\ seen.offer = client.offer /\ seen.sid = client.sid
      /\ seen.si = client.si /\ seen.skey = client.skey /\ seen.hash = client.hash
      /\ seen.session = client.session
  BY <1>1 DEF ClientKeeps, Fields
<1> HIDE DEF seen
<1>4. CASE m.t = "KEXINIT"
  <2>1. m.b \in Nat /\ client.sid \in Nat
    BY <1>1, <1>4 DEF FromServer, ClientKeeps
  <2>2. /\ DOMAIN c = Fields /\ c.n = client.n /\ c.offer = client.offer /\ c.sid = client.sid
        /\ c.si = m.b /\ c.skey = client.skey /\ c.hash = client.hash
        /\ c.session = client.session /\ c.kex = "dh"
    BY <1>3 DEF Fields
  <2> HIDE DEF c
  <2>3. ClientKeeps(c)
    BY <1>1, <2>1, <2>2, StillKeeps
  <2>4. Told("KEXDH", b)
    BY DEF Told
  <2> HIDE DEF b
  <2>5. CASE client' = c /\ UNCHANGED c2s
    BY <1>1, <2>3, <2>5 DEF Travelling
  <2>6. CASE ClientSends(<<"KEXDH">>, <<b>>, c)
    BY <1>1, <2>3, <2>4, <2>6, TellsOne
  <2> QED
    BY <1>2, <1>4, <2>5, <2>6
<1>5. CASE m.t # "KEXINIT"
  <2>1. h \in Hashes
    BY <1>1 DEF ClientKeeps, Hashes
  <2>2. /\ DOMAIN a = Fields /\ a.n = client.n /\ a.offer = client.offer /\ a.sid = client.sid
        /\ a.si = client.si /\ a.skey = client.skey
        /\ \/ a.hash = client.hash /\ a.session = client.session /\ (a.kex = "reply" => client.kex = "reply")
           \/ a.hash = h /\ a.session = (IF client.session = NoHash THEN h ELSE client.session)
    <3>0. DOMAIN client = Fields
      BY <1>1 DEF ClientKeeps
    <3> USE DEF Fields
    <3>1. CASE m.t = "REPLY"
      <4>1. a = [client EXCEPT !.kex = "reply", !.hash = h, !.bad = @ \/ m.b # h,
                               !.session = IF @ = NoHash THEN h ELSE @]
        BY <3>0, <3>1 DEF Answered
      <4> HIDE DEF a, h
      <4> QED
        BY <3>0, <4>1
    <3>2. CASE m.t = "NEWKEYS"
      <4>1. a = [client EXCEPT !.rkey = ClientKey, !.kex = IF client.skey = ClientKey THEN "no" ELSE @]
        BY <3>0, <3>2 DEF Answered
      <4> HIDE DEF a, h
      <4> QED
        BY <3>0, <4>1
    <3>3. CASE m.t \notin {"REPLY", "NEWKEYS"}
      <4>1. \/ a = [client EXCEPT !.owes = Tail(@)]
            \/ a = [client EXCEPT !.app = "auth"]
            \/ a = [client EXCEPT !.app = "yes"]
            \/ a = client
        BY <3>3 DEF Answered
      <4> HIDE DEF a, h
      <4> QED
        BY <3>0, <4>1
    <3> QED
      BY <3>1, <3>2, <3>3
  <2> HIDE DEF a, h
  <2>3. ClientKeeps(a)
    <3>1. CASE a.hash = client.hash /\ a.session = client.session /\ (a.kex = "reply" => client.kex = "reply")
      <4>1. a.sid \in Nat /\ a.si \in Nat
        BY <1>1, <2>2 DEF ClientKeeps
      <4> QED
        BY <1>1, <2>2, <3>1, <4>1, StillKeeps
    <3>2. CASE a.hash = h /\ a.session = (IF client.session = NoHash THEN h ELSE client.session)
      <4>1. a.session \in Hashes
        BY <1>1, <2>1, <3>2 DEF ClientKeeps
      <4> QED
        BY <1>1, <2>1, <2>2, <3>2, <4>1 DEF ClientKeeps
    <3> QED
      BY <2>2, <3>1, <3>2
  <2>4. client' = [a EXCEPT !.bad = @ \/ seen.bad, !.rid = seen.rid] /\ c2s' = c2s
    BY <1>2, <1>5
  <2>5. /\ DOMAIN client' = Fields /\ client'.n = a.n /\ client'.offer = a.offer /\ client'.sid = a.sid
        /\ client'.si = a.si /\ client'.skey = a.skey /\ client'.hash = a.hash
        /\ client'.session = a.session /\ client'.kex = a.kex
        /\ a.sid \in Nat /\ a.si \in Nat
    BY <2>3, <2>4 DEF ClientKeeps, Fields
  <2>6. ClientKeeps(client')
    BY <2>3, <2>5, StillKeeps
  <2> QED
    BY <1>1, <2>4, <2>6 DEF Travelling
<1> QED
  BY <1>4, <1>5

(* The client, action by action. *)
LEMMA ClientTyped ==
  ASSUME TypeInv, Client PROVE ClientKeeps(client') /\ Travelling'
<1>1. ClientKeeps(client) /\ DOMAIN client = Fields
  BY DEF TypeInv, ClientKeeps
<1>2. CASE ClientKexinit
  BY <1>2, KexinitTyped
<1>3. CASE ClientNewkeys
  <2> DEFINE c == [client EXCEPT !.skey = ClientKey,
                                 !.kex = IF client.rkey = ClientKey THEN "no" ELSE @]
  <2>1. ClientSends(<<"NEWKEYS">>, <<0>>, c) /\ Listens
    BY <1>3 DEF ClientNewkeys, Listens
  <2>2. client.hash \in Hashes /\ client.session \in Hashes
    BY <1>1, <1>3 DEF ClientNewkeys, ClientKeeps
  <2>3. ClientKey \in Keys
    BY <2>2, HashAndKey DEF ClientKey
  <2>4. /\ DOMAIN c = Fields /\ c.n = client.n /\ c.offer = client.offer /\ c.sid = client.sid
        /\ c.si = client.si /\ c.skey = ClientKey /\ c.hash = client.hash /\ c.session = client.session
    BY <1>1 DEF Fields
  <2> HIDE DEF c
  <2>5. ClientKeeps(c)
    BY <1>1, <2>2, <2>3, <2>4 DEF ClientKeeps
  <2>6. Told("NEWKEYS", 0)
    BY DEF Told
  <2> QED
    BY <2>1, <2>5, <2>6, TellsOne
<1>4. CASE ClientService
  <2> DEFINE c == [client EXCEPT !.app = "asked"]
  <2>1. ClientSends(<<"SERVICE">>, <<"ssh-userauth">>, c) /\ Listens
    BY <1>4 DEF ClientService, Listens
  <2>2. ClientKeeps(c)
    BY <1>1 DEF ClientKeeps, Fields
  <2> HIDE DEF c
  <2>3. Told("SERVICE", "ssh-userauth")
    BY DEF Told
  <2> QED
    BY <2>1, <2>2, <2>3, TellsOne
<1>5. CASE ClientAuth
  <2>1. PICK how, ok :
          ClientSends(<<"USERAUTH">>,
                <<[how |-> how, authorized |-> ok, session |-> client.session]>>,
                [client EXCEPT !.app = "waits",
                               !.left = IF how = "signed" /\ ok THEN @ ELSE @ - 1])
    BY <1>5 DEF ClientAuth
  <2> DEFINE b == [how |-> how, authorized |-> ok, session |-> client.session]
             c == [client EXCEPT !.app = "waits", !.left = IF how = "signed" /\ ok THEN @ ELSE @ - 1]
  <2>2. client.session \in Hashes /\ Listens
    BY <1>1, <1>5 DEF ClientAuth, Free, ClientKeeps, Listens
  <2>3. Told("USERAUTH", b)
    BY <2>2 DEF Told
  <2>4. ClientKeeps(c)
    BY <1>1 DEF ClientKeeps, Fields
  <2> HIDE DEF b, c
  <2>5. ClientSends(<<"USERAUTH">>, <<b>>, c)
    BY <2>1 DEF b, c
  <2> QED
    BY <2>2, <2>3, <2>4, <2>5, TellsOne
<1>6. CASE ClientChats
  <2>1. PICK t \in Chatter :
         ClientSends(<<t>>, <<"other">>,
                [client EXCEPT !.left = @ - 1,
                               !.owes = IF t \in {"OTHER", "NEWKEYS", "SERVICE"}
                                         THEN Append(@, client.sid) ELSE @])
    BY <1>6 DEF ClientChats
  <2> DEFINE c == [client EXCEPT !.left = @ - 1,
                               !.owes = IF t \in {"OTHER", "NEWKEYS", "SERVICE"}
                                         THEN Append(@, client.sid) ELSE @]
  <2>2. Told(t, "other") /\ Listens
    BY <1>6, TransportAssumption DEF Told, ClientChats, Listens
  <2>3. ClientKeeps(c)
    BY <1>1 DEF ClientKeeps, Fields
  <2>4. ClientSends(<<t>>, <<"other">>, c)
    BY <2>1
  <2> HIDE DEF c
  <2> QED
    BY <2>2, <2>3, <2>4, TellsOne
<1>7. CASE ClientRecv
  BY <1>7, RecvTyped
<1> QED
  BY <1>2, <1>3, <1>4, <1>5, <1>6, <1>7 DEF Client

(* At first there are no keys and no hashes, and the version string is on its
   way. *)
LEMMA TypeInit == Init => TypeInv
<1> SUFFICES ASSUME Init PROVE TypeInv
  OBVIOUS
<1> DEFINE m == Packet("HELLO", 0, NoKey, 0)
<1>1. ServerKeeps
  BY DEF Init, ServerKeeps, NoOffer
<1>2. PICK o \in Offers :
        client = [kex |-> "no", n |-> 0, offer |-> o, si |-> 0,
                  strict |-> StrictToken \in Range(o.kex),
                  skey |-> NoKey, rkey |-> NoKey, sid |-> 0, rid |-> 0,
                  hash |-> NoHash, session |-> NoHash, app |-> "none",
                  left |-> ClientMax, owes |-> <<>>, bad |-> FALSE]
  BY DEF Init
<1>3. ClientKeeps(client)
  <2>1. /\ DOMAIN client = Fields /\ client.kex = "no" /\ client.n = 0 /\ client.offer = o
        /\ client.si = 0 /\ client.skey = NoKey /\ client.sid = 0
        /\ client.hash = NoHash /\ client.session = NoHash
    BY <1>2 DEF Fields
  <2> QED
    BY <2>1, HashAndKey DEF ClientKeeps
<1>4. Travelling
  <2>1. FromClient(m)
    BY HashAndKey DEF FromClient, Packet
  <2>2. c2s = <<m>> /\ s2c = <<>>
    BY DEF Init
  <2> HIDE DEF m
  <2>3. Range(s2c) = {} /\ Range(c2s) = {m} /\ Sequence(s2c) /\ Sequence(c2s)
    BY <2>2 DEF Range, Sequence
  <2> QED
    BY <2>1, <2>3 DEF Travelling
<1> QED
  BY <1>1, <1>3, <1>4 DEF TypeInv

(* A step of either side keeps them all. *)
LEMMA TypeStep == TypeInv /\ NonceInv /\ LimitsInv /\ [Next]_vars => TypeInv'
<1> SUFFICES ASSUME TypeInv, NonceInv, LimitsInv, [Next]_vars PROVE TypeInv'
  OBVIOUS
<1>1. CASE Server
  <2>1. ServerKeeps' /\ PutsTyped /\ TakesOne
    BY <1>1, ServerTyped
  <2>2. ServerKeeps /\ Travelling /\ ClientKeeps(client)
    BY DEF TypeInv
  <2>3. ClientKeeps(client')
    BY <2>1, <2>2 DEF TakesOne
  <2> QED
    BY <2>1, <2>2, <2>3, TravelsOn DEF TypeInv
<1>2. CASE Client
  <2>1. ServerKeeps'
    BY <1>2 DEF TypeInv, Client, kexvars, ServerKeeps
  <2> QED
    BY <1>2, <2>1, ClientTyped DEF TypeInv
<1>3. CASE Stopped \/ Idle \/ UNCHANGED vars
  <2>1. UNCHANGED <<hash, kexrecv, sessionid, flagrekeying, flagkeys, key, pc, client, s2c, c2s>>
    BY <1>3 DEF Stopped, Idle, vars, sendvars, kexvars
  <2> QED
    BY <2>1 DEF TypeInv, ServerKeeps, Travelling, Sequence
<1> QED
  BY <1>1, <1>2, <1>3 DEF Next

(* Whatever the client offers and says: the fields of struct packet keep their
   types and the numbers their 32 bits; there is a session id exactly when a
   first exchange has been made (packet_kexdh.c:71), and a key in use is made of
   a hash and that session id; every packet on its way has a key, a number and
   the body that its type wants (packet.h, packet_kexdh.c). *)
THEOREM TransportTypes == Spec => []TransportTypeOK
<1>1. Init => Flags
  BY Zenon DEF Init, Flags
<1>2. TypeInv /\ NonceInv /\ LimitsInv /\ Flags => TransportTypeOK
  BY DEF NonceInv, SendTypes, LimitsInv, CountTypes, Places, Flags, TypeInv, ServerKeeps, Travelling,
         TransportTypeOK
<1> QED
  BY <1>1, <1>2, FlagsStep, NonceInit, NonceStep, LimitsInit, LimitsStep, TypeInit, TypeStep, PTL DEF Spec

-----------------------------------------------------------------------------
(* Whatever a polite client offers, asks for and says, for any number of key
   exchanges, with and without strict mode, with right and wrong guesses, and
   whatever was on its way when the keys changed: no packet of the client fails
   its MAC, is unexpected or is refused, the client can read all the server
   sends, and an UNIMPLEMENTED names the packet it answers (packet_get.c,
   packet_put.c, packet_kex.c, packet_kexdh.c, packet_auth.c,
   main_tinysshd.c). *)
THEOREM PacketsAlwaysAgree == ASSUME Polite PROVE Spec => []PacketsAgree
<1>1. AgreeInv => ExchangeAgrees /\ UnimplementedNamesPacket
  BY DEF AgreeInv, ExchangeAgrees
<1>2. Init => AgreeInv
  BY AgreeInit
<1>3. NonceInv /\ LimitsInv /\ AgreeInv /\ [Next]_vars => AgreeInv'
  BY AgreeStep
<1> QED
  BY <1>1, <1>2, <1>3, TransportTypes, NonceInit, NonceStep, LimitsInit, LimitsStep, PTL
     DEF Spec, PacketsAgree
=============================================================================

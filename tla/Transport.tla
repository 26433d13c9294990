------------------------------ MODULE Transport ------------------------------
(***************************************************************************)
(* The transport of one connection: the version exchange, the first key    *)
(* exchange, authentication, and every later key exchange, as main_tinysshd *)
(* and packet_*.c run them, against a client at the other end of two FIFO  *)
(* streams.  What the connection protocol does in between is Session's;    *)
(* here its packets are all called "DATA".                                 *)
(*                                                                         *)
(* A packet is its type t, the key it was encrypted and authenticated      *)
(* under, the sequence number id that went into the nonce, and a body.  The *)
(* number does not travel: a receiver whose own number or key is different *)
(* sees a bad MAC.  A key stands for the six keys derived in packet_kexdh  *)
(* and is what they are derived from: exchange hash and session id.        *)
(***************************************************************************)
EXTENDS Integers, Sequences, FiniteSets, Functions

CONSTANTS MsgLimit,     \* PACKET_UNAUTHENTICATED_MESSAGES
          MaxTries,     \* authentication requests packet_auth answers
          FlagNoneAuth, \* tinysshnoneauthd: the method none may do
          IdMax,        \* 0xffffffff, the largest sequence number
          Offers,       \* what a client's first KEXINIT may offer
          RekeyOffers,  \* what its later ones may offer
          Rekeys,       \* key exchanges after the first, at most
          Chatter,      \* packet types the client sends beyond what it must
          ClientMax,    \* how many of them
          NetCap,       \* packets on their way that keep it from chatting
          OutputMax     \* packets the server sends of its own accord

Supported == <<"curve", "pq">>    \* sshcrypto_kexs, all enabled
HostKey == "ed25519"              \* sshcrypto_keys
StrictToken == "strict-c"         \* sshcrypto_pseudokexs, the client's name

ASSUME TransportAssumption ==
    /\ MsgLimit \in Nat \ {0} /\ MaxTries \in Nat \ {0}
    /\ FlagNoneAuth \in BOOLEAN
    /\ IdMax \in Nat /\ IdMax > 1
    /\ Rekeys \in Nat /\ OutputMax \in Nat
    /\ ClientMax \in Nat /\ NetCap \in Nat \ {0}
    \* Chatter has no body that the server reads.
    /\ Chatter \cap {"KEXINIT", "KEXDH", "USERAUTH"} = {}
    /\ \A o \in Offers \cup RekeyOffers :
          /\ DOMAIN o = {"kex", "keys", "common", "follows"}
          /\ o.common \in BOOLEAN /\ o.follows \in BOOLEAN
          /\ o.kex # <<>> /\ o.keys # <<>>

VARIABLES pc,              \* where main_tinysshd waits for the next packet
          status,          \* "run", or why the process stopped
          strict,          \* sshcrypto_kex_flags
          flagkeys, flagauthorized, flagrekeying,
          sendid, recvid,  \* sendpacketid, receivepacketid
          key,             \* serverkey, clientkey and the others
          sessionid,
          kexrecv,         \* the client's last KEXINIT
          kexsend,         \* the server's last KEXINIT, by its number
          hash,            \* exchange hash of the running exchange
          tries,           \* the counter of packet_auth
          outleft,         \* packets the connection protocol may still send
          c2s, s2c,        \* the two streams
          client,          \* the client
          used,            \* history: <<key, id>> of every packet sent
          taken            \* history: packets taken before authentication

sendvars == <<sendid, s2c, used>>
kexvars == <<strict, kexrecv, kexsend, hash, sessionid, flagrekeying, key,
             flagkeys>>
authvars == <<flagauthorized, tries>>
vars == <<pc, status, sendvars, kexvars, authvars, recvid, outleft, c2s, client,
          taken>>

NoKey == <<>>
NoHash == <<>>
NoOffer == [n |-> 0]

\* A packet of type t with body b under key k and number i.
Packet(t, b, k, i) == [t |-> t, b |-> b, key |-> k, id |-> i]

-----------------------------------------------------------------------------
(* sshcrypto_kex_select and the rest of packet_kex_parse.                   *)

\* The first name of the client's list that the server supports.
KexMatches(o) == {i \in 1..Len(o.kex) : o.kex[i] \in Range(Supported)}
KexChoice(o) ==
    o.kex[CHOOSE i \in KexMatches(o) : \A j \in KexMatches(o) : i <= j]
\* kex_guess: nothing in front of it.
kex_guess(o) == o.kex[1] \in Range(Supported)

sshcrypto_key_select(o) == HostKey \in Range(o.keys)
\* Ciphers, MACs and compressions of both directions, all in one.
sshcrypto_cipher_select(o) == o.common

\* packet_kex_parse accepts an offer with something in common in each list.
Acceptable(o) ==
    KexMatches(o) # {} /\ sshcrypto_key_select(o) /\ sshcrypto_cipher_select(o)

-----------------------------------------------------------------------------
(* packet_put, packet_sendall.                                              *)

stop(why) ==
    /\ status' = why
    /\ UNCHANGED <<pc, sendvars, kexvars, authvars, outleft>>

SendKey == IF flagkeys THEN key ELSE NoKey

\* Numbers have 32 bits: after IdMax comes 0.
Wrap(n) == IF n > IdMax THEN n - (IdMax + 1) ELSE n

\* Slip: the overflow of the number goes unnoticed.
Fits_never(ts) == TRUE
\* A number that has become 0 by counting stops the process before the packets
\* are sent.
Fits(ts) == sendid + Len(ts) <= IdMax

\* The packets of types ts, with bodies bs, go out one after the other; a
\* NEWKEYS, always the last, resets the number in strict mode.
Put(ts, bs) ==
    LET numbered(i) == Wrap(sendid + i - 1)
    IN  /\ s2c' = s2c \o [i \in 1..Len(ts) |->
                            Packet(ts[i], bs[i], SendKey, numbered(i))]
        /\ used' = used \cup {<<SendKey, numbered(i)>> : i \in 1..Len(ts)}
        /\ sendid' = IF ts[Len(ts)] = "NEWKEYS" /\ strict THEN 0
                     ELSE Wrap(sendid + Len(ts))

-----------------------------------------------------------------------------
(* packet_get, packet_getall.                                               *)

\* The type that the caller of packet_get asks for in each place it waits.
Expected == [kexinit |-> "KEXINIT", guess |-> "KEXDH", kexdh |-> "KEXDH",
             newkeys |-> "any", service |-> "any", auth |-> "any",
             run |-> "any"]

\* The next packet decrypts: same key, same number.
Authentic(m) ==
    /\ m.key = SendKey
    /\ flagkeys => m.id = recvid

\* What packet_get makes of packet m: "run" if it is ignored or handed to the
\* caller, else the reason for the end.  NEWKEYS passes whatever is expected.
Verdict(m) ==
    IF ~Authentic(m) THEN "mac"
    ELSE IF Wrap(recvid + 1) < recvid THEN "overflow"
    ELSE IF ~flagauthorized /\ recvid + 1 > MsgLimit THEN "toomany"
    ELSE IF m.t = "DISCONNECT" THEN "finished"
    ELSE IF m.t = "IGNORE" /\ ~flagkeys /\ strict THEN "strict"
    ELSE IF m.t \notin {"IGNORE", "NEWKEYS", Expected[pc]} /\ Expected[pc] # "any"
         THEN "unexpected"
    ELSE "run"

\* The packet is taken from the stream; strict mode counts from 0 again after
\* a NEWKEYS, wherever it comes from.
ReceivedId(t) == IF t = "NEWKEYS" /\ strict THEN 0 ELSE Wrap(recvid + 1)

Take ==
    /\ status = "run" /\ pc \in DOMAIN Expected /\ c2s # <<>>
    /\ c2s' = Tail(c2s)
    /\ taken' = IF flagauthorized THEN taken ELSE taken + 1
    /\ UNCHANGED client

\* The server waits at p and is handed a packet.
Got(p) ==
    /\ Take /\ pc = p
    /\ Verdict(Head(c2s)) = "run" /\ Head(c2s).t # "IGNORE"
    /\ recvid' = ReceivedId(Head(c2s).t)

\* packet_get stops the process.
packet_get_stop ==
    /\ Take /\ Verdict(Head(c2s)) # "run"
    /\ stop(Verdict(Head(c2s)))
    /\ UNCHANGED recvid

\* IGNORE and DEBUG are counted and skipped.
packet_get_ignore ==
    /\ Take /\ Verdict(Head(c2s)) = "run" /\ Head(c2s).t = "IGNORE"
    /\ recvid' = ReceivedId("IGNORE")
    /\ UNCHANGED <<pc, status, sendvars, kexvars, authvars, outleft>>

-----------------------------------------------------------------------------
(* Version exchange and key exchange.                                       *)

packet_kex_send ==
    /\ Put(<<"KEXINIT">>, <<kexsend + 1>>)
    /\ kexsend' = kexsend + 1

\* packet_hello_receive, then packet_kex_send.
packet_hello ==
    /\ status = "run" /\ pc = "hello" /\ c2s # <<>> /\ Head(c2s).t = "HELLO"
    /\ c2s' = Tail(c2s)
    /\ packet_kex_send
    /\ pc' = "kexinit"
    /\ UNCHANGED <<status, strict, kexrecv, hash, sessionid, flagrekeying, key,
                   flagkeys, authvars, recvid, outleft, client, taken>>

\* Slip: what a wrong guess sent is taken for the real thing.
AfterParse_never(o) == "kexdh"
\* After packet_kex_parse: packet_kexdh starts with the wrong guess, if any.
AfterParse(o) == IF o.follows /\ ~kex_guess(o) THEN "guess" ELSE "kexdh"

\* packet_kex_receive: the first KEXINIT, which strict mode wants to be the
\* first packet altogether.
packet_kex_receive ==
    /\ Got("kexinit")
    /\ LET m == Head(c2s)
           strictnow == strict \/ StrictToken \in Range(m.b.kex)
       IN  IF m.t # "KEXINIT" \/ ~Acceptable(m.b) THEN stop("proto")
           ELSE IF strictnow /\ recvid' # 1 THEN stop("strict")
           ELSE /\ strict' = strictnow
                /\ kexrecv' = m.b
                /\ pc' = AfterParse(m.b)
                /\ UNCHANGED <<status, sendvars, kexsend, hash, sessionid,
                               flagrekeying, key, flagkeys, authvars, outleft>>

\* packet_kex_receive_rekey and packet_kex_send, from the main loop.
packet_kex_rekey ==
    /\ Got("run") /\ Head(c2s).t = "KEXINIT"
    /\ LET o == Head(c2s).b
       IN  IF ~Acceptable(o) THEN stop("proto")
           ELSE IF ~Fits(<<"KEXINIT">>) THEN stop("overflow")
           ELSE /\ strict' = (strict \/ StrictToken \in Range(o.kex))
                /\ kexrecv' = o
                /\ packet_kex_send
                /\ pc' = AfterParse(o)
                /\ UNCHANGED <<status, hash, sessionid, flagrekeying, key,
                               flagkeys, authvars, outleft>>

\* packet_kexdh, a wrong guess: one packet is thrown away.
packet_kexdh_guess ==
    /\ Got("guess")
    /\ pc' = "kexdh"
    /\ UNCHANGED <<status, sendvars, kexvars, authvars, outleft>>

\* Slip: every exchange makes a new session id.
packet_kexdh_session ==
    /\ Got("kexdh")
    /\ LET m == Head(c2s)
           h == [ci |-> kexrecv.n, si |-> kexsend, e |-> m.b.guess]
           ts == <<"REPLY", "NEWKEYS">>
       IN  IF m.t # "KEXDH" THEN stop("proto")
           ELSE IF m.b.alg # KexChoice(kexrecv) THEN stop("proto")
           ELSE IF ~Fits(ts) THEN stop("overflow")
           ELSE /\ hash' = h
                /\ sessionid' = h
                /\ flagrekeying' = TRUE
                /\ Put(ts, <<h, 0>>)
                /\ pc' = "newkeys"
                /\ UNCHANGED <<status, strict, kexrecv, kexsend, key, flagkeys,
                               authvars, outleft>>

\* packet_kexdh: the client's public key, which must have the size the chosen
\* method wants; hash, session id, reply and NEWKEYS.
packet_kexdh ==
    /\ Got("kexdh")
    /\ LET m == Head(c2s)
           h == [ci |-> kexrecv.n, si |-> kexsend, e |-> m.b.guess]
           ts == <<"REPLY", "NEWKEYS">>
       IN  IF m.t # "KEXDH" THEN stop("proto")
           ELSE IF m.b.alg # KexChoice(kexrecv) THEN stop("proto")
           ELSE IF ~Fits(ts) THEN stop("overflow")
           ELSE /\ hash' = h
                /\ sessionid' = IF flagrekeying THEN sessionid ELSE h
                /\ flagrekeying' = TRUE
                /\ Put(ts, <<h, 0>>)
                /\ pc' = "newkeys"
                /\ UNCHANGED <<status, strict, kexrecv, kexsend, key, flagkeys,
                               authvars, outleft>>

\* packet_kexdh, the wait for NEWKEYS: other packets are dropped, in strict
\* mode they are the end.  Then the keys are derived and used both ways.
packet_kexdh_newkeys ==
    /\ Got("newkeys")
    /\ IF Head(c2s).t # "NEWKEYS"
       THEN IF strict THEN stop("strict")
            ELSE UNCHANGED <<pc, status, sendvars, kexvars, authvars, outleft>>
       ELSE /\ key' = <<hash, sessionid>>
            /\ flagkeys' = TRUE
            /\ pc' = IF flagauthorized THEN "run" ELSE "service"
            /\ UNCHANGED <<status, sendvars, strict, kexrecv, kexsend, hash,
                           sessionid, flagrekeying, authvars, outleft>>

-----------------------------------------------------------------------------
(* packet_auth.                                                             *)

\* Slip: other packets of the transport are skipped.
Refuse_lenient(t) == UNCHANGED <<pc, status, sendvars, kexvars, authvars, outleft>>

\* Any other packet, or service, is the end, with a DISCONNECT if it is a
\* service or its type is 80 or above.
Refuse(t) ==
    /\ status' = "proto"
    /\ IF (t = "DATA" \/ (t = "SERVICE" /\ pc = "service")) /\ Fits(<<t>>) THEN Put(<<"DISCONNECT">>, <<0>>)
       ELSE UNCHANGED sendvars
    /\ UNCHANGED <<pc, kexvars, authvars, outleft>>

packet_auth_service ==
    /\ Got("service")
    /\ IF Head(c2s).t # "SERVICE" \/ Head(c2s).b # "ssh-userauth"
       THEN Refuse(Head(c2s).t)
       ELSE IF ~Fits(<<"ACCEPT">>) THEN stop("overflow")
       ELSE /\ Put(<<"ACCEPT">>, <<0>>)
            /\ pc' = "auth" /\ tries' = 0
            /\ UNCHANGED <<status, kexvars, flagauthorized, outleft>>

\* A request is a signed one, a question whether a key would do, none, or
\* another method.  The signature covers the session id; a wrong one is the
\* end, a key that is not authorized is not.
packet_auth_request ==
    /\ Got("auth")
    /\ LET m == Head(c2s)
           granted == /\ m.b.authorized
                      /\ m.b.how = "signed" \/ (m.b.how = "none" /\ FlagNoneAuth)
           answer == IF granted THEN "SUCCESS"
                     ELSE IF m.b.how = "query" THEN "PK_OK" ELSE "FAILURE"
       IN  IF m.t # "USERAUTH" THEN Refuse(m.t)
           ELSE IF m.b.how = "signed" /\ m.b.session # sessionid THEN stop("auth")
           ELSE IF ~Fits(<<answer>>) THEN stop("overflow")
           ELSE /\ Put(<<answer>>, <<0>>)
                /\ flagauthorized' = granted
                /\ tries' = IF granted THEN tries ELSE tries + 1
                /\ pc' = IF granted THEN "run" ELSE "auth"
                /\ status' = IF tries' = MaxTries THEN "tries" ELSE "run"
                /\ UNCHANGED <<kexvars, outleft>>

-----------------------------------------------------------------------------
(* The main loop.                                                           *)

\* Packets of the connection protocol are Session's; one that nobody knows,
\* or that has no place here, is answered with its number.
loop_packet ==
    /\ Got("run") /\ Head(c2s).t # "KEXINIT"
    /\ IF Head(c2s).t = "DATA"
       THEN UNCHANGED <<pc, status, sendvars, kexvars, authvars, outleft>>
       ELSE IF ~Fits(<<"UNIMPL">>) THEN stop("overflow")
       ELSE /\ Put(<<"UNIMPL">>, <<(recvid' - 1) % (IdMax + 1)>>)
            /\ UNCHANGED <<pc, status, kexvars, authvars, outleft>>

\* Output of the child, window adjustments, replies: at any time.
loop_output ==
    /\ status = "run" /\ pc = "run" /\ outleft > 0
    /\ outleft' = outleft - 1
    /\ IF Fits(<<"DATA">>)
       THEN Put(<<"DATA">>, <<0>>) /\ UNCHANGED status
       ELSE status' = "overflow" /\ UNCHANGED sendvars
    /\ UNCHANGED <<pc, kexvars, authvars, recvid, c2s, client, taken>>

Server ==
    \/ packet_hello \/ packet_get_stop \/ packet_get_ignore
    \/ packet_kex_receive \/ packet_kex_rekey
    \/ packet_kexdh_guess \/ packet_kexdh \/ packet_kexdh_newkeys
    \/ packet_auth_service \/ packet_auth_request
    \/ loop_packet \/ loop_output

-----------------------------------------------------------------------------
(* The client, as RFC 4253 and the strict extension have it: it counts both *)
(* directions, uses a new key from its own NEWKEYS on and expects one from  *)
(* the server's NEWKEYS on, and sends no more than the exchange between its *)
(* KEXINIT and its NEWKEYS.  Chatter is what it may say on top; a NEWKEYS   *)
(* among it is the one thing it says out of order.                          *)

\* The key of the exchange the client is in.
ClientKey == <<client.hash, client.session>>

\* The client sends packets ts with bodies bs under its key, and becomes c.
ClientSends(ts, bs, c) ==
    LET sid == client.sid + Len(ts)
        reset == ts[Len(ts)] = "NEWKEYS" /\ client.strict
    IN  /\ c2s' = c2s \o [i \in 1..Len(ts) |->
                      Packet(ts[i], bs[i], client.skey, client.sid + i - 1)]
        /\ client' = [c EXCEPT !.sid = IF reset THEN 0 ELSE sid]

\* The guess is right if both sides prefer the same method and host key.
RightGuess(o) ==
    /\ SelectSeq(o.kex, LAMBDA x : x # StrictToken)[1] = Supported[1]
    /\ o.keys[1] = HostKey

Numbered(o, n) ==
    [n |-> n, kex |-> o.kex, keys |-> o.keys, common |-> o.common,
     follows |-> o.follows]

\* A KEXINIT, and behind it the guessed packet, made for the first method.
ClientKexinit ==
    /\ client.kex = "no"
    /\ \E o \in IF client.n = 0 THEN {client.offer} ELSE RekeyOffers :
          LET n == client.n + 1
              c == [client EXCEPT !.kex = "init", !.n = n, !.offer = o]
          IN  /\ client.n = 0 \/ (client.app = "yes" /\ client.n <= Rekeys)
              /\ IF o.follows
                 THEN ClientSends(<<"KEXINIT", "KEXDH">>,
                                  <<Numbered(o, n), [alg |-> o.kex[1], guess |-> TRUE]>>, c)
                 ELSE ClientSends(<<"KEXINIT">>, <<Numbered(o, n)>>, c)
    /\ UNCHANGED s2c

\* NEWKEYS is the last packet under the old key.
ClientNewkeys ==
    /\ client.kex = "reply" /\ client.skey # ClientKey
    /\ ClientSends(<<"NEWKEYS">>, <<0>>,
          [client EXCEPT !.skey = ClientKey,
                         !.kex = IF client.rkey = ClientKey THEN "no" ELSE @])
    /\ UNCHANGED s2c

\* Free to speak: not between KEXINIT and NEWKEYS.
Free ==
    /\ client.skey # NoKey
    /\ client.kex = "no" \/ (client.kex = "reply" /\ client.skey = ClientKey)

ClientService ==
    /\ Free /\ client.app = "none"
    /\ ClientSends(<<"SERVICE">>, <<"ssh-userauth">>, [client EXCEPT !.app = "asked"])
    /\ UNCHANGED s2c

\* An authentication request; how many fail is up to the client.
ClientAuth ==
    /\ Free /\ client.app = "auth"
    /\ \E how \in {"signed", "query", "none", "other"}, ok \in BOOLEAN :
          /\ ok => how \in {"signed", "none"}
          /\ (how = "signed" /\ ok) \/ client.left > 0
          /\ ClientSends(<<"USERAUTH">>,
                <<[how |-> how, authorized |-> ok, session |-> client.session]>>,
                [client EXCEPT !.app = "waits",
                               !.left = IF how = "signed" /\ ok THEN @ ELSE @ - 1])
    /\ UNCHANGED s2c

ClientChats ==
    /\ client.left > 0 /\ client.n > 0 /\ Len(c2s) < NetCap
    /\ \E t \in Chatter :
          /\ CASE t = "IGNORE" -> client.skey # NoKey \/ ~client.strict
               [] t \in {"DATA", "OTHER"} -> Free /\ client.app = "yes"
               [] OTHER -> TRUE
          /\ ClientSends(<<t>>, <<"other">>,
                [client EXCEPT !.left = @ - 1,
                               !.owes = IF t \in {"OTHER", "NEWKEYS", "SERVICE"}
                                         THEN Append(@, client.sid) ELSE @])
    /\ UNCHANGED s2c

\* What packet m of the server makes of the client.
Answered(m) ==
    CASE m.t = "REPLY" ->
           LET h == [ci |-> client.n, si |-> client.si,
                     e |-> client.offer.follows /\ RightGuess(client.offer)]
           IN  [client EXCEPT !.kex = "reply", !.hash = h, !.bad = @ \/ m.b # h,
                              !.session = IF @ = NoHash THEN h ELSE @]
      [] m.t = "NEWKEYS" ->
           [client EXCEPT !.rkey = ClientKey,
                          !.kex = IF client.skey = ClientKey THEN "no" ELSE @]
      [] m.t = "UNIMPL" -> [client EXCEPT !.owes = Tail(@)]
      [] m.t \in {"ACCEPT", "FAILURE", "PK_OK"} -> [client EXCEPT !.app = "auth"]
      [] m.t = "SUCCESS" -> [client EXCEPT !.app = "yes"]
      [] OTHER -> client

ClientRecv ==
    /\ s2c # <<>>
    /\ LET m == Head(s2c)
           seen == [client EXCEPT
                      !.bad = @ \/ m.key # client.rkey \/ m.id # client.rid,
                      !.rid = IF m.t = "NEWKEYS" /\ client.strict THEN 0 ELSE @ + 1]
           answered == [Answered(m) EXCEPT !.bad = @ \/ seen.bad, !.rid = seen.rid]
       IN  IF m.t = "KEXINIT"
           THEN /\ client.kex = "init" /\ Acceptable(client.offer)
                /\ LET c == [seen EXCEPT !.kex = "dh", !.si = m.b]
                   IN  IF client.offer.follows /\ RightGuess(client.offer)
                       THEN client' = c /\ UNCHANGED c2s
                       ELSE ClientSends(<<"KEXDH">>,
                                <<[alg |-> KexChoice(client.offer), guess |-> FALSE]>>, c)
           ELSE client' = answered /\ UNCHANGED c2s
    /\ s2c' = Tail(s2c)

Client ==
    /\ status = "run"
    /\ \/ ClientKexinit \/ ClientNewkeys \/ ClientService \/ ClientAuth
       \/ ClientChats \/ ClientRecv
    /\ UNCHANGED <<pc, status, sendid, used, kexvars, authvars, recvid, outleft,
                   taken>>

-----------------------------------------------------------------------------
\* packet_init; the version strings are on their way.
Init ==
    /\ pc = "hello" /\ status = "run" /\ strict = FALSE
    /\ flagkeys = FALSE /\ flagauthorized = FALSE /\ flagrekeying = FALSE
    /\ sendid = 0 /\ recvid = 0
    /\ key = NoKey /\ sessionid = NoHash /\ hash = NoHash
    /\ kexrecv = NoOffer /\ kexsend = 0
    /\ tries = 0 /\ outleft = OutputMax
    /\ c2s = <<Packet("HELLO", 0, NoKey, 0)>> /\ s2c = <<>>
    /\ used = {} /\ taken = 0
    /\ \E o \in Offers :
          client = [kex |-> "no", n |-> 0, offer |-> o, si |-> 0,
                    strict |-> StrictToken \in Range(o.kex),
                    skey |-> NoKey, rkey |-> NoKey, sid |-> 0, rid |-> 0,
                    hash |-> NoHash, session |-> NoHash, app |-> "none",
                    left |-> ClientMax, owes |-> <<>>, bad |-> FALSE]

Stopped == status # "run" /\ UNCHANGED vars
\* Nothing left to say and nothing on its way: the connection is idle.
Idle ==
    /\ status = "run" /\ pc = "run" /\ outleft = 0 /\ c2s = <<>> /\ s2c = <<>>
    /\ client.left = 0 /\ client.kex = "no" /\ client.n > Rekeys
    /\ UNCHANGED vars

Next == Server \/ Client \/ Stopped \/ Idle

Spec == Init /\ [][Next]_vars

\* The process runs, and the client goes on with what it has begun.
Fairness ==
    /\ WF_vars(Server)
    /\ WF_vars(Client /\ ClientRecv)
    /\ WF_vars(Client /\ ClientNewkeys)
    /\ WF_vars(Client /\ ClientKexinit /\ client.n = 0)
    /\ WF_vars(Client /\ ClientService)
    /\ WF_vars(Client /\ ClientAuth)

FairSpec == Spec /\ Fairness

-----------------------------------------------------------------------------
(* Clients that keep the rules.                                             *)

\* An offer with something in common, and a guess that the server takes for
\* right exactly if it is: packet_kex_parse looks at the first method alone,
\* and not at the host key or the server's own order.
Sound(o) ==
    /\ o.kex \in Seq(Range(o.kex)) /\ Acceptable(o)
    /\ o.follows => (RightGuess(o) <=> kex_guess(o))

\* What the client says on top of what it must is allowed, all it offers is
\* sound, and it names strict mode later only if it did so at first.
Polite ==
    /\ Chatter \subseteq {"IGNORE", "DATA", "OTHER"}
    /\ \A o \in Offers \cup RekeyOffers : Sound(o)
    /\ \A o \in RekeyOffers, p \in Offers :
          StrictToken \in Range(o.kex) => StrictToken \in Range(p.kex)

-----------------------------------------------------------------------------
(* Properties.                                                              *)

\* An exchange hash is made of both KEXINITs and the client's public key, a key
\* of the hash of its exchange and the session id.
Hashes == [ci : Nat, si : Nat, e : BOOLEAN]
Keys == (Hashes \X Hashes) \cup {NoKey}

FromServer(m) ==
    /\ m.key \in Keys /\ m.id \in 0..IdMax
    /\ m.t = "KEXINIT" => m.b \in Nat
    /\ m.t = "REPLY" => m.b \in Hashes
    /\ m.t = "UNIMPL" => m.b \in 0..IdMax

FromClient(m) ==
    /\ m.key \in Keys /\ m.id \in Nat
    /\ m.t = "KEXINIT" =>
          \E o \in Offers \cup RekeyOffers : m.b = Numbered(o, m.b.n) /\ m.b.n \in Nat
    /\ m.t = "KEXDH" => m.b.guess \in BOOLEAN
    /\ m.t = "USERAUTH" => m.b.session \in Hashes

\* The types of struct packet and of what is on its way. There is a session id
\* exactly after a first key exchange (packet_kexdh.c:71), and the keys in use
\* are derived with it.
TransportTypeOK ==
    /\ pc \in DOMAIN Expected \cup {"hello"}
    /\ {strict, flagkeys, flagauthorized, flagrekeying} \subseteq BOOLEAN
    /\ sendid \in 0..IdMax /\ recvid \in 0..IdMax
    /\ kexsend \in Nat /\ taken \in Nat
    /\ tries \in 0..MaxTries /\ outleft \in 0..OutputMax
    /\ hash \in Hashes \cup {NoHash}
    /\ IF flagrekeying THEN sessionid \in Hashes ELSE sessionid = NoHash
    /\ IF flagkeys THEN key \in Hashes \X {sessionid} ELSE key = NoKey
    /\ \A m \in Range(s2c) : FromServer(m)
    /\ \A m \in Range(c2s) : FromClient(m)

\* Client and server agree on keys and numbers at every packet of every
\* exchange, with and without strict mode, whatever was on its way when the
\* keys changed: no packet of a client that keeps the rules fails its MAC, is
\* unexpected or is refused, and the client can read all the server sends.
ExchangeAgrees ==
    /\ status \notin {"mac", "proto", "strict", "unexpected", "auth"}
    /\ ~client.bad

\* No nonce is used twice under one key: every encrypted packet the server
\* sends has a number it has not used under that key, across the resets of
\* strict mode, the change of keys and the end of the 32 bit numbers.
NonceOnce ==
    [][\A i \in (Len(s2c) + 1)..Len(s2c') :
          s2c'[i].key # NoKey =>
              <<s2c'[i].key, s2c'[i].id>> \notin used]_vars

\* The server takes only so many packets from a client that is not
\* authenticated, though strict mode counts anew after each NEWKEYS: at most
\* four before the first NEWKEYS and MsgLimit after it, and the one too many.
UnauthenticatedBounded == ~flagauthorized => taken <= MsgLimit + 5

\* The loop in packet_auth never runs out: the limit on packets ends every
\* series of failed requests first, since the request for the service counts.
LimitBeforeTries == MaxTries >= MsgLimit => status # "tries"

\* An answer to an unknown packet names that packet: the answers on their way
\* have the numbers that the client waits for, in order.
UnimplementedNamesPacket ==
    LET answers == {i \in 1..Len(s2c) : s2c[i].t = "UNIMPL"}
        rank(i) == Cardinality({j \in answers : j <= i})
    IN  ~client.bad =>
          \A i \in answers :
             rank(i) <= Len(client.owes) /\ s2c[i].b = client.owes[rank(i)]

\* Both sides agree on every packet, in what opens it and in what it is called,
\* and the numbers stay in their range.
PacketsAgree == TransportTypeOK /\ ExchangeAgrees /\ UnimplementedNamesPacket

\* The two limits on a client that is not authenticated, the number of packets
\* in packet_get and the number of attempts in packet_auth, hold together.
LimitsHold == UnauthenticatedBounded /\ LimitBeforeTries

\* Every key exchange that is begun is finished on both sides.
ExchangeCompletes ==
    (client.kex # "no") ~>
        (client.kex = "no" /\ pc \notin {"guess", "kexdh", "newkeys"})

=============================================================================

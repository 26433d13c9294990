------------------------------- MODULE Framing -------------------------------
(***************************************************************************)
(* The receiving side of the transport, in bytes: packet_recv reads what   *)
(* the network has into recvbuf, packet_get takes a packet out of it when  *)
(* all its bytes are there.  Before the first key exchange a packet is     *)
(* plain, later its length is encrypted on its own, is decrypted once and  *)
(* remembered in packet.packet_length while the rest of it is on its way.  *)
(*                                                                         *)
(* Bytes are positions in the stream of all bytes the client ever sent;    *)
(* every packet knows the positions from which and to which it lies there. *)
(* A parser that has lost its place, or that uses the wrong key, reads any *)
(* length at all.                                                          *)
(***************************************************************************)
EXTENDS Integers, Sequences

CONSTANTS Limit,      \* TRANSPORT_PACKET_LIMIT
          ZeroBytes,  \* PACKET_ZEROBYTES, kept free at the head of recvbuf
          AB,         \* sshcrypto_auth_bytes
          BSpace,     \* the size of b, GLOBAL_BSIZE
          Shapes,     \* the lengths and paddings a client puts in a header
          SentMax,    \* packets a client sends
          KeyMax      \* key exchanges

ASSUME FramingAssumption ==
    /\ Limit \in Nat /\ Limit > AB + 4 /\ AB \in Nat /\ ZeroBytes \in Nat
    /\ BSpace \in Nat /\ BSpace >= Limit
    /\ Shapes \subseteq [len : Nat, pad : Nat]
    /\ SentMax \in Nat /\ KeyMax \in Nat

VARIABLES recvlen,        \* recvbuf.len
          packet_length,  \* packet.packet_length
          got,            \* b->len when packet_get returns
          key,            \* the key in use; 0 as long as flagkeys is 0
          status,         \* run, newkeys (in packet_kexdh), die, closed
          taken,          \* bytes of the stream that have left recvbuf
          wire,           \* packets that have not left recvbuf yet
          end,            \* bytes of the stream that arrive
          gone,           \* the client has closed the stream
          ckey, sent      \* the client's key, and the packets it has sent

server == <<recvlen, packet_length, got, key, status, taken>>
client == <<end, gone, ckey, sent>>
framevars == <<server, wire, client>>

Packet == [len : Nat, pad : Nat, t : {"data", "newkeys"}, key : Nat,
           from : Nat, to : Nat]

\* Bytes on the wire around packet_length: the length itself and the tag.
Around(k) == IF k = 0 THEN 4 ELSE 4 + AB

\* recvbuf, and the bytes of the stream that are in it.
\* A slip: room for one packet only.
Alloc_one == Limit + 1 + ZeroBytes

Alloc == 4 * Limit + 1 + ZeroBytes
\* A slip: the room is asked for before the read, and not for the read.
buf_ready_one(len, more) == len + 1 < Alloc

buf_ready(len, more) == len + more < Alloc
Avail == recvlen - ZeroBytes
InBuffer == IF recvlen < ZeroBytes THEN 0 ELSE Avail

packet_recvisready == buf_ready(recvlen, Limit)

-----------------------------------------------------------------------------
(* packet_recv.                                                             *)

\* The zero bytes are made on the first call.
Started == IF recvlen < ZeroBytes THEN ZeroBytes ELSE recvlen

packet_recv ==
    /\ status = "run"
    /\ \/ /\ ~buf_ready(Started, Limit)
          /\ recvlen' = Started /\ UNCHANGED status
       \/ /\ buf_ready(Started, Limit)
          /\ \E r \in 1..Limit :
                /\ taken + InBuffer + r <= end
                /\ recvlen' = Started + r
          /\ UNCHANGED status
       \/ /\ buf_ready(Started, Limit)
          /\ gone /\ taken + InBuffer = end
          /\ recvlen' = Started /\ status' = "closed"
    /\ UNCHANGED <<packet_length, got, key, taken, wire, client>>

-----------------------------------------------------------------------------
(* packet_get.                                                              *)

\* The head of recvbuf is the head of a packet sealed with the key in use.
OnFrame == wire # <<>> /\ Head(wire).from = taken /\ Head(wire).key = key

\* What the code finds in the first four bytes, and in the fifth.
LengthRead == IF OnFrame THEN {Head(wire).len} ELSE 0..Limit
PaddingRead == IF OnFrame THEN {Head(wire).pad} ELSE 0..Limit

\* bug_proto() and global_die().
Die == status' = "die" /\ UNCHANGED <<recvlen, got, taken, wire>>

Nothing == got' = 0 /\ UNCHANGED <<recvlen, status, taken, wire>>

\* The payload goes to b, the packet of n + around bytes leaves recvbuf.  On
\* NEWKEYS the caller, packet_kexdh, goes on to change the keys.
Unpack(n, around) ==
    \E pad \in PaddingRead :
       IF pad < 4 \/ n - pad - 1 <= 0 \/ n - pad - 1 >= BSpace
       THEN Die
       ELSE /\ got' = n - pad - 1
            /\ recvlen' = recvlen - (n + around)
            /\ taken' = taken + n + around
            /\ wire' = IF OnFrame THEN Tail(wire) ELSE wire
            /\ status' = IF OnFrame /\ Head(wire).t = "newkeys"
                         THEN "newkeys" ELSE "run"

packet_get_plain_ ==
    /\ \/ Avail < 4 /\ Nothing
       \/ /\ Avail >= 4
          /\ \E n \in LengthRead :
                \/ n > Limit - 4 /\ Die
                \/ n <= Limit - 4 /\ n + 4 > Avail /\ Nothing
                \/ n <= Limit - 4 /\ n + 4 <= Avail /\ Unpack(n, 4)
    /\ UNCHANGED packet_length

\* The tag fits only the bytes from the head of a packet to its end.  The
\* packet leaves recvbuf with the bytes around it; its length is forgotten.
TakeSealed(around, forget) ==
    \/ Avail < 4 /\ packet_length' = 0 /\ Nothing
    \/ /\ Avail >= 4
       /\ \E n \in IF packet_length = 0 THEN LengthRead ELSE {packet_length} :
             \/ n > Limit - 4 - AB /\ Die /\ packet_length' = n
             \/ n <= Limit - 4 - AB /\ n + AB + 4 > Avail /\ Nothing /\ packet_length' = n
             \/ /\ n <= Limit - 4 - AB /\ n + AB + 4 <= Avail
                /\ IF OnFrame /\ n = Head(wire).len THEN Unpack(n, around) ELSE Die
                /\ packet_length' = IF forget THEN 0 ELSE n

\* Slip: the remembered length is not forgotten with its packet.
chachapoly_packet_get_stale == TakeSealed(AB + 4, FALSE)
chachapoly_packet_get == TakeSealed(AB + 4, TRUE)

packet_get_ ==
    /\ status = "run"
    /\ IF key # 0 THEN chachapoly_packet_get ELSE packet_get_plain_
    /\ UNCHANGED <<key, client>>

\* A slip: the keys are derived and flagkeys is not set.
packet_kexdh_keys_unused ==
    /\ status = "newkeys" /\ status' = "run"
    /\ UNCHANGED <<recvlen, packet_length, got, key, taken, wire, client>>

\* The end of packet_kexdh: new keys, and flagkeys is set.
packet_kexdh_keys ==
    /\ status = "newkeys"
    /\ key' = key + 1 /\ status' = "run"
    /\ UNCHANGED <<recvlen, packet_length, got, taken, wire, client>>

Server == packet_recv \/ packet_get_ \/ packet_kexdh_keys

-----------------------------------------------------------------------------
(* The client (external): it seals a packet of any shape with its current   *)
(* key, changes its key behind every NEWKEYS, and may close the stream in   *)
(* the middle of a packet.                                                  *)

\* The packets that have to be accepted.
WellFormed(p) ==
    p.len + Around(p.key) <= Limit /\ p.pad >= 4 /\ p.len > p.pad + 1

\* Behind a packet that is not well formed it sends nothing: the server never
\* comes to see it.
ClientSend ==
    /\ status \in {"run", "newkeys"} /\ ~gone /\ sent < SentMax
    /\ \A i \in DOMAIN wire : WellFormed(wire[i])
    /\ \E s \in Shapes, t \in {"data", "newkeys"} :
          /\ t = "newkeys" => ckey < KeyMax
          /\ wire' = Append(wire,
                [len |-> s.len, pad |-> s.pad, t |-> t, key |-> ckey,
                 from |-> end, to |-> end + s.len + Around(ckey)])
          /\ end' = end + s.len + Around(ckey)
          /\ ckey' = IF t = "newkeys" THEN ckey + 1 ELSE ckey
    /\ sent' = sent + 1
    /\ UNCHANGED <<server, gone>>

ClientHangup ==
    /\ status \in {"run", "newkeys"} /\ ~gone
    /\ gone' = TRUE
    /\ \E e \in taken + InBuffer .. end : end' = e
    /\ UNCHANGED <<server, wire, ckey, sent>>

Over == status \in {"die", "closed"} /\ UNCHANGED framevars

FramingInit ==
    /\ recvlen = 0 /\ packet_length = 0 /\ got = 0 /\ key = 0 /\ status = "run"
    /\ taken = 0 /\ wire = <<>> /\ end = 0 /\ gone = FALSE /\ ckey = 0 /\ sent = 0

FramingNext == Server \/ ClientSend \/ ClientHangup \/ Over

FramingSpec == FramingInit /\ [][FramingNext]_framevars

-----------------------------------------------------------------------------
(* Properties.                                                              *)

\* The types.  recvbuf holds what has come between its zero bytes and its end:
\* packet_recv never reads beyond the end though it never asks read() for less
\* than a whole packet, and packet_get never takes bytes that have not come.
FramingTypeOK ==
    /\ recvlen \in {0} \cup ZeroBytes..(Alloc - 1)
    /\ packet_length \in Nat /\ got \in 0..BSpace /\ key \in Nat /\ ckey \in Nat
    /\ status \in {"run", "newkeys", "die", "closed"}
    /\ taken \in Nat /\ end \in Nat /\ sent \in Nat /\ gone \in BOOLEAN
    /\ wire \in Seq(Packet)

\* The remembered length is that of the packet at the head of recvbuf, read
\* with the key that packet was sealed with: it survives neither its packet
\* nor a change of keys, however the packet was cut.
CachedLength ==
    packet_length # 0 /\ status = "run" => OnFrame /\ packet_length = Head(wire).len

\* packet_recv reads nothing more when recvbuf is too full to take a whole
\* read; there is a whole packet in it then, or one that stops the process, so
\* neither packet_getall nor the loop waits for bytes it does not ask for.
NeverStuck ==
    ~packet_recvisready /\ status = "run" =>
        wire # <<>> /\ (taken + Avail >= Head(wire).to \/ ~WellFormed(Head(wire)))

\* The handlers see whole packets, in order, each once, and the process stops
\* only at a packet that is not well formed or at the end of the stream.
Fifo == INSTANCE PacketFifo
        WITH queue <- wire, up <- status \in {"run", "newkeys"}
FifoSpec == Fifo!FifoSpec

=============================================================================

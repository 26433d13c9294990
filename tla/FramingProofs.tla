---------------------------- MODULE FramingProofs ----------------------------
(***************************************************************************)
(* For every packet limit, tag length and buffer size, and for every way   *)
(* in which the network cuts the stream: recvbuf is never overrun, the     *)
(* remembered length belongs to the packet at its head, a full buffer      *)
(* holds a whole packet, and the handlers see the client's packets whole   *)
(* and in order (Framing implements PacketFifo).                           *)
(*                                                                         *)
(* The inductive invariant says where in the stream the head of recvbuf is *)
(* and which keys the packets behind it are sealed with.                   *)
(***************************************************************************)
EXTENDS Framing, TLAPS

Live == status \in {"run", "newkeys"}
Next1(p) == IF p.t = "newkeys" THEN p.key + 1 ELSE p.key

\* The packets lie in the stream one behind the other, the first of them at
\* the head of recvbuf; what has been read has been sent.
InFrame ==
    /\ \A i \in 1..Len(wire) : wire[i].to = wire[i].from + wire[i].len + Around(wire[i].key)
    /\ \A i \in 1..(Len(wire) - 1) : wire[i + 1].from = wire[i].to
    /\ Len(wire) > 0 => wire[1].from = taken
    /\ Len(wire) > 0 => end <= wire[Len(wire)].to /\ (~gone => end = wire[Len(wire)].to)
    /\ Len(wire) = 0 => end = taken
    /\ taken + InBuffer <= end

\* Every packet is sealed with the key its predecessor leaves, the first one
\* with the server's key of that moment, and the client has the key its last
\* packet leaves.
InKey ==
    Live =>
    LET current == IF status = "newkeys" THEN key + 1 ELSE key
    IN  /\ \A i \in 1..(Len(wire) - 1) : wire[i + 1].key = Next1(wire[i])
        /\ Len(wire) > 0 => wire[1].key = current /\ ckey = Next1(wire[Len(wire)])
        /\ Len(wire) = 0 => ckey = current

\* Nothing is remembered as long as packets are plain, or between two packets.
LengthForgotten == key = 0 \/ status = "newkeys" => packet_length = 0 \/ ~Live

FramingInv ==
    /\ FramingTypeOK
    /\ InFrame
    /\ InKey
    /\ LengthForgotten
    /\ CachedLength

USE FramingAssumption

\* What Append and Tail do to the packets.
LEMMA AppendFacts ==
  ASSUME NEW s \in Seq(Packet), NEW p \in Packet
  PROVE  /\ Append(s, p) \in Seq(Packet) /\ Len(Append(s, p)) = Len(s) + 1
         /\ \A i \in 1..Len(s) : Append(s, p)[i] = s[i]
         /\ Append(s, p)[Len(s) + 1] = p
         /\ Append(s, p) # <<>>
  OBVIOUS

(* What is left of a sequence without its first member. *)
LEMMA TailFacts ==
  ASSUME NEW s \in Seq(Packet), Len(s) > 0
  PROVE  /\ Tail(s) \in Seq(Packet) /\ Len(Tail(s)) = Len(s) - 1
         /\ \A i \in 1..(Len(s) - 1) : Tail(s)[i] = s[i + 1]
  OBVIOUS

(* The first member of a sequence, and when there is one. *)
LEMMA HeadFacts ==
  ASSUME NEW s \in Seq(Packet)
  PROVE  /\ Len(s) \in Nat
         /\ Len(s) > 0 <=> s # <<>>
         /\ Len(s) > 0 => Head(s) = s[1]
         /\ \A i \in 1..Len(s) : s[i] \in Packet
  OBVIOUS

\* While the process runs and there are bytes in recvbuf, the head of recvbuf
\* is the head of a packet sealed with the key in use.
LEMMA BytesAreFramed ==
  ASSUME FramingInv, status = "run", Avail > 0
  PROVE  OnFrame /\ Len(wire) > 0 /\ Head(wire) = wire[1] /\ wire[1] \in Packet
<1>1. wire \in Seq(Packet) /\ taken \in Nat /\ recvlen \in Int
  BY DEF FramingInv, FramingTypeOK, Alloc
<1>2. InBuffer = Avail
  BY <1>1 DEF Avail, InBuffer
<1>3. Len(wire) > 0
  BY <1>1, <1>2, HeadFacts DEF FramingInv, InFrame, Avail
<1>4. wire # <<>> /\ Head(wire) = wire[1] /\ wire[1] \in Packet
  BY <1>1, <1>3, HeadFacts
<1>5. wire[1].from = taken /\ wire[1].key = key
  BY <1>3 DEF FramingInv, InFrame, InKey, Live
<1> QED
  BY <1>3, <1>4, <1>5 DEF OnFrame


-----------------------------------------------------------------------------
(* The three ways in which packet_get can end.                              *)

Bytes(p) == p.len + Around(p.key)

Refuses ==
    /\ wire # <<>> /\ ~WellFormed(Head(wire))
    /\ status' = "die" /\ packet_length' \in Nat
    /\ UNCHANGED <<recvlen, got, taken, wire>>

Waits ==
    /\ got' = 0
    /\ \/ packet_length' = 0
       \/ key # 0 /\ OnFrame /\ packet_length' = Head(wire).len
    /\ UNCHANGED <<recvlen, status, taken, wire>>

TakesHead ==
    /\ wire # <<>> /\ WellFormed(Head(wire)) /\ OnFrame
    /\ Avail >= Bytes(Head(wire))
    /\ got' = Head(wire).len - Head(wire).pad - 1
    /\ recvlen' = recvlen - Bytes(Head(wire))
    /\ taken' = taken + Bytes(Head(wire))
    /\ wire' = Tail(wire)
    /\ status' = IF Head(wire).t = "newkeys" THEN "newkeys" ELSE "run"
    /\ packet_length' = 0

\* Unpacking a packet whose length is within the limit either takes it or
\* refuses a packet that is not well formed.
LEMMA UnpackEnds ==
  ASSUME FramingInv, OnFrame, Head(wire) \in Packet,
         Bytes(Head(wire)) <= Limit, Avail >= Bytes(Head(wire)),
         Unpack(Head(wire).len, Around(key)),
         packet_length' = 0
  PROVE  Refuses \/ TakesHead
<1> DEFINE h == Head(wire)
<1>1. /\ h.len \in Nat /\ h.pad \in Nat /\ h.key = key /\ wire # <<>>
      /\ Around(key) \in Nat /\ Around(key) >= 4
  BY DEF Packet, OnFrame, Around
<1>2. PaddingRead = {h.pad}
  BY DEF PaddingRead
<1>3. h.len <= Limit /\ Limit \in Nat /\ taken \in Nat /\ recvlen \in Int
  BY <1>1 DEF Bytes, FramingInv, FramingTypeOK, Alloc
<1>4. CASE h.pad < 4 \/ h.len - h.pad - 1 <= 0
  <2>1. ~WellFormed(h)
    BY <1>1, <1>4 DEF WellFormed
  <2>2. Die
    BY <1>2, <1>4 DEF Unpack
  <2> QED
    BY <1>1, <2>1, <2>2 DEF Refuses, Die
<1>5. CASE ~(h.pad < 4 \/ h.len - h.pad - 1 <= 0)
  <2>1. ~(h.len - h.pad - 1 >= BSpace)
    BY <1>1, <1>3, <1>5
  <2>2. WellFormed(h)
    BY <1>1, <1>5 DEF WellFormed, Bytes
  <2>3. /\ got' = h.len - h.pad - 1
        /\ recvlen' = recvlen - (h.len + Around(key))
        /\ taken' = taken + h.len + Around(key)
        /\ wire' = Tail(wire)
        /\ status' = IF h.t = "newkeys" THEN "newkeys" ELSE "run"
    BY <1>2, <1>5, <2>1 DEF Unpack
  <2> QED
    BY <1>1, <1>3, <2>2, <2>3 DEF TakesHead, Bytes
<1> QED
  BY <1>4, <1>5

\* packet_get takes the whole head, waits, or refuses what is not well formed.
LEMMA GetEnds ==
  ASSUME FramingInv, packet_get_
  PROVE  (Refuses \/ Waits \/ TakesHead) /\ UNCHANGED <<key, client>>
<1> DEFINE h == Head(wire)
<1>1. status = "run" /\ UNCHANGED <<key, client>>
  BY DEF packet_get_
<1>2. recvlen \in Int /\ Avail \in Int /\ packet_length \in Nat
  BY DEF FramingInv, FramingTypeOK, Alloc, Avail
<1>3. CASE Avail < 4
  <2>1. Nothing /\ (packet_length' = 0 \/ packet_length' = packet_length)
    BY <1>2, <1>3 DEF packet_get_, packet_get_plain_, chachapoly_packet_get, TakeSealed
  <2>2. packet_length' # 0 => key = 0
    BY <1>2, <1>3 DEF packet_get_, packet_get_plain_, chachapoly_packet_get, TakeSealed
  <2>3. key = 0 => packet_length = 0
    BY <1>1 DEF FramingInv, LengthForgotten, Live
  <2> QED
    BY <1>1, <2>1, <2>2, <2>3 DEF Waits, Nothing
<1>4. CASE Avail >= 4
  <2>1. OnFrame /\ h \in Packet /\ wire # <<>>
    BY <1>1, <1>2, <1>4, BytesAreFramed DEF OnFrame
  <2>2. LengthRead = {h.len} /\ h.key = key /\ h.len \in Nat /\ h.pad \in Nat
    BY <2>1 DEF LengthRead, OnFrame, Packet
  <2>3. CASE key = 0
    <3>1. Around(key) = 4 /\ Bytes(h) = h.len + 4 /\ packet_length' = 0
      BY <1>1, <2>2, <2>3 DEF Around, Bytes, packet_get_, packet_get_plain_,
                              FramingInv, LengthForgotten, Live
    <3>2. \/ h.len > Limit - 4 /\ Die
          \/ h.len <= Limit - 4 /\ h.len + 4 > Avail /\ Nothing
          \/ h.len <= Limit - 4 /\ h.len + 4 <= Avail /\ Unpack(h.len, 4)
      BY <1>2, <1>4, <2>2, <2>3 DEF packet_get_, packet_get_plain_
    <3>3. CASE h.len > Limit - 4 /\ Die
      BY <1>1, <2>1, <2>2, <3>1, <3>3 DEF Refuses, Die, WellFormed, Bytes
    <3>4. CASE Nothing
      BY <1>1, <3>1, <3>4 DEF Waits, Nothing
    <3>5. CASE h.len <= Limit - 4 /\ h.len + 4 <= Avail /\ Unpack(h.len, 4)
      BY <1>1, <1>2, <2>1, <2>2, <3>1, <3>5, UnpackEnds
    <3> QED
      BY <1>1, <3>2, <3>3, <3>4, <3>5
  <2>4. CASE key # 0
    <3>1. Around(key) = AB + 4 /\ Bytes(h) = h.len + AB + 4
      BY <2>2, <2>4 DEF Around, Bytes
    <3>2. packet_length = 0 \/ packet_length = h.len
      BY <1>1 DEF FramingInv, CachedLength
    <3>3. \/ h.len > Limit - 4 - AB /\ Die /\ packet_length' = h.len
          \/ h.len <= Limit - 4 - AB /\ h.len + AB + 4 > Avail /\ Nothing /\ packet_length' = h.len
          \/ /\ h.len <= Limit - 4 - AB /\ h.len + AB + 4 <= Avail
             /\ Unpack(h.len, AB + 4)
             /\ packet_length' = 0
      <4>1. (IF packet_length = 0 THEN LengthRead ELSE {packet_length}) = {h.len}
        BY <2>2, <3>2
      <4>2. chachapoly_packet_get
        BY <2>4 DEF packet_get_
      <4> QED
        BY <1>2, <1>4, <2>1, <4>1, <4>2 DEF chachapoly_packet_get, TakeSealed
    <3>4. CASE h.len > Limit - 4 - AB /\ Die /\ packet_length' = h.len
      BY <1>1, <2>1, <2>2, <3>1, <3>4 DEF Refuses, Die, WellFormed, Bytes
    <3>5. CASE Nothing /\ packet_length' = h.len
      BY <1>1, <2>1, <2>4, <3>5 DEF Waits, Nothing
    <3>6. CASE /\ h.len <= Limit - 4 - AB /\ h.len + AB + 4 <= Avail
               /\ Unpack(h.len, AB + 4)
               /\ packet_length' = 0
      BY <1>1, <1>2, <2>1, <2>2, <3>1, <3>6, UnpackEnds
    <3> QED
      BY <1>1, <3>3, <3>4, <3>5, <3>6
  <2> QED
    BY <2>3, <2>4
<1> QED
  BY <1>2, <1>3, <1>4

-----------------------------------------------------------------------------
(* The invariant.                                                           *)

LEMMA FramingInitInv == FramingInit => FramingInv
<1> SUFFICES ASSUME FramingInit PROVE FramingInv
  OBVIOUS
<1>1. Len(wire) = 0 /\ wire \in Seq(Packet)
  BY DEF FramingInit
<1>2. FramingTypeOK
  <2>1. gone \in BOOLEAN /\ status \in {"run", "newkeys", "die", "closed"}
    BY Zenon DEF FramingInit
  <2>2. recvlen \in {0} \cup ZeroBytes..(Alloc - 1)
    BY DEF FramingInit
  <2> QED
    BY <1>1, <2>1, <2>2 DEF FramingInit, FramingTypeOK
<1>3. InFrame /\ InKey /\ LengthForgotten /\ CachedLength
  BY <1>1 DEF FramingInit, InFrame, InKey, LengthForgotten, CachedLength, InBuffer, Avail
<1> QED
  BY <1>2, <1>3 DEF FramingInv

\* What has been read stays within what was sent, and within recvbuf.
LEMMA RecvInv == FramingInv /\ packet_recv => FramingInv'
<1> SUFFICES ASSUME FramingInv, packet_recv PROVE FramingInv'
  OBVIOUS
<1>1. UNCHANGED <<packet_length, got, key, taken, wire, end, gone, ckey, sent>>
  BY DEF packet_recv, client
<1>2. status = "run" /\ status' \in {"run", "closed"}
  BY DEF packet_recv
<1>3. /\ recvlen \in Int /\ taken \in Nat /\ end \in Nat
      /\ recvlen = 0 \/ recvlen >= ZeroBytes
  BY DEF FramingInv, FramingTypeOK, Alloc
<1>4. /\ Started \in Nat /\ Started >= ZeroBytes /\ Started < Alloc
      /\ Started - ZeroBytes = InBuffer
  BY <1>3 DEF Started, InBuffer, Avail, FramingInv, FramingTypeOK, Alloc
<1>5. recvlen' \in ZeroBytes..(Alloc - 1) /\ taken + (recvlen' - ZeroBytes) <= end
  <2>1. CASE recvlen' = Started
    BY <1>3, <1>4, <2>1 DEF FramingInv, InFrame, Alloc
  <2>2. CASE \E r \in 1..Limit : /\ buf_ready(Started, Limit)
                                 /\ taken + InBuffer + r <= end
                                 /\ recvlen' = Started + r
    BY <1>3, <1>4, <2>2 DEF buf_ready, Alloc
  <2> QED
    BY <2>1, <2>2 DEF packet_recv
<1>6. FramingTypeOK'
  BY <1>1, <1>2, <1>5 DEF FramingInv, FramingTypeOK, Alloc
<1>7. InFrame'
  <2>0. ~(recvlen' < ZeroBytes)
    BY <1>5 DEF Alloc
  <2>1. InBuffer' = recvlen' - ZeroBytes
    BY <2>0, Zenon DEF InBuffer, Avail
  <2> QED
    BY <1>1, <1>5, <2>1 DEF FramingInv, InFrame, Around
<1>8. InKey'
  BY <1>1, <1>2 DEF FramingInv, InKey, Live, Next1
<1>9. LengthForgotten' /\ CachedLength'
  BY <1>1, <1>2 DEF FramingInv, LengthForgotten, CachedLength, Live, OnFrame
<1> QED
  BY <1>6, <1>7, <1>8, <1>9 DEF FramingInv

\* A packet leaves recvbuf: its successor is at the head now, sealed with the
\* key it leaves.
LEMMA TakeInv ==
  ASSUME FramingInv, status = "run", TakesHead, UNCHANGED <<key, client>>
  PROVE  FramingInv'
<1> DEFINE h == wire[1]
<1>1. /\ wire \in Seq(Packet) /\ Len(wire) > 0 /\ Len(wire) \in Nat
      /\ h = Head(wire) /\ h \in Packet /\ \A i \in 1..Len(wire) : wire[i] \in Packet
  BY HeadFacts DEF TakesHead, FramingInv, FramingTypeOK
<1>2. /\ wire' \in Seq(Packet) /\ Len(wire') = Len(wire) - 1
      /\ \A i \in 1..(Len(wire) - 1) : wire'[i] = wire[i + 1]
  BY <1>1, TailFacts DEF TakesHead
<1>3. UNCHANGED <<key, end, gone, ckey, sent>>
  BY DEF client
<1>4. /\ h.len \in Nat /\ h.pad \in Nat /\ h.key \in Nat /\ h.from = taken /\ h.key = key
      /\ h.to = taken + Bytes(h) /\ Bytes(h) \in Nat
      /\ h.pad >= 4 /\ h.len > h.pad + 1 /\ Bytes(h) <= Limit
  <2>1. h.len \in Nat /\ h.pad \in Nat /\ h.key \in Nat
    BY <1>1 DEF Packet
  <2>2. h.from = taken /\ h.key = key
    BY <1>1 DEF TakesHead, OnFrame
  <2>3. Around(h.key) \in Nat
    BY DEF Around
  <2>4. h.to = h.from + h.len + Around(h.key)
    BY <1>1 DEF FramingInv, InFrame
  <2>5. WellFormed(h) /\ taken \in Nat
    BY <1>1 DEF TakesHead, FramingInv, FramingTypeOK
  <2> QED
    BY <2>1, <2>2, <2>3, <2>4, <2>5 DEF Bytes, WellFormed
<1>5. /\ recvlen \in Int /\ taken \in Nat /\ end \in Nat
      /\ recvlen <= Alloc - 1 /\ Alloc \in Nat
      /\ recvlen - ZeroBytes >= Bytes(h)
      /\ recvlen' = recvlen - Bytes(h) /\ taken' = taken + Bytes(h)
  BY <1>1 DEF FramingInv, FramingTypeOK, Alloc, TakesHead, Avail
<1>6. FramingTypeOK'
  <2>1. recvlen' \in ZeroBytes..(Alloc - 1) /\ taken' \in Nat
    BY <1>4, <1>5
  <2>2. got' \in 0..BSpace
    <3>1. h.len <= Bytes(h)
      BY <1>4 DEF Bytes, Around
    <3>2. got' = h.len - h.pad - 1
      BY <1>1 DEF TakesHead
    <3> QED
      BY <1>4, <3>1, <3>2
  <2>3. status' \in {"run", "newkeys"} /\ packet_length' = 0
    BY DEF TakesHead
  <2> QED
    BY <1>2, <1>3, <2>1, <2>2, <2>3 DEF FramingInv, FramingTypeOK, Alloc
<1>7. InFrame'
  <2>1. InBuffer = recvlen - ZeroBytes /\ InBuffer' = recvlen' - ZeroBytes
    BY <1>4, <1>5 DEF InBuffer, Avail
  <2>2. taken' + InBuffer' <= end'
    BY <1>3, <1>4, <1>5, <2>1 DEF FramingInv, InFrame
  <2>3a. ASSUME NEW i \in 1..Len(wire')
         PROVE  wire'[i].to = wire'[i].from + wire'[i].len + Around(wire'[i].key)
    <3>1. wire'[i] = wire[i + 1] /\ i + 1 \in 1..Len(wire)
      BY <1>1, <1>2
    <3> QED
      BY <3>1 DEF FramingInv, InFrame
  <2>3b. ASSUME NEW i \in 1..(Len(wire') - 1)
         PROVE  wire'[i + 1].from = wire'[i].to
    <3>1. /\ wire'[i] = wire[i + 1] /\ wire'[i + 1] = wire[(i + 1) + 1]
          /\ i + 1 \in 1..(Len(wire) - 1)
      BY <1>1, <1>2
    <3> QED
      BY <3>1 DEF FramingInv, InFrame
  <2>4. Len(wire') > 0 => wire'[1].from = taken'
    <3> SUFFICES ASSUME Len(wire') > 0 PROVE wire'[1].from = taken'
      OBVIOUS
    <3>1. wire'[1] = wire[1 + 1] /\ 1 \in 1..(Len(wire) - 1)
      BY <1>1, <1>2
    <3>2. wire[1 + 1].from = h.to
      BY <3>1 DEF FramingInv, InFrame
    <3> QED
      BY <1>4, <1>5, <3>1, <3>2
  <2>5. Len(wire') > 0 => wire'[Len(wire')] = wire[Len(wire)]
    BY <1>1, <1>2
  <2>6. Len(wire') = 0 => end' = taken'
    <3> SUFFICES ASSUME Len(wire') = 0 PROVE end' = taken'
      OBVIOUS
    <3>1. Len(wire) = 1
      BY <1>1, <1>2
    <3>2. end <= h.to
      BY <3>1 DEF FramingInv, InFrame
    <3>3. taken + InBuffer <= end
      BY DEF FramingInv, InFrame
    <3>4. end = taken + Bytes(h)
      <4>1. InBuffer \in Int /\ InBuffer >= Bytes(h) /\ Bytes(h) \in Nat
        BY <1>4, <1>5, <2>1
      <4>2. end <= taken + Bytes(h)
        BY <1>4, <3>2
      <4> QED
        BY <1>5, <3>3, <4>1, <4>2
    <3> QED
      BY <1>3, <1>5, <3>4
  <2> QED
    BY <1>1, <1>2, <1>3, <2>2, <2>3a, <2>3b, <2>4, <2>5, <2>6 DEF FramingInv, InFrame
<1>8. InKey'
  <2>1. /\ status' = IF h.t = "newkeys" THEN "newkeys" ELSE "run"
        /\ Live
    BY <1>1 DEF TakesHead, Live
  <2> DEFINE now == IF status' = "newkeys" THEN key' + 1 ELSE key'
  <2>2. now = Next1(h)
    BY <1>3, <1>4, <2>1 DEF Next1
  <2>3. \A i \in 1..(Len(wire') - 1) : wire'[i + 1].key = Next1(wire'[i])
    BY <1>1, <1>2, <2>1 DEF FramingInv, InKey, Next1
  <2>4. Len(wire') > 0 => wire'[1].key = now /\ ckey' = Next1(wire'[Len(wire')])
    <3> SUFFICES ASSUME Len(wire') > 0
                 PROVE  wire'[1].key = now /\ ckey' = Next1(wire'[Len(wire')])
      OBVIOUS
    <3>1. wire'[1] = wire[2] /\ wire'[Len(wire')] = wire[Len(wire)] /\ 1 \in 1..(Len(wire) - 1)
      BY <1>1, <1>2
    <3>2. wire[2].key = Next1(wire[1])
      BY <2>1, <3>1 DEF FramingInv, InKey
    <3>3. ckey = Next1(wire[Len(wire)])
      BY <1>1, <2>1 DEF FramingInv, InKey
    <3> QED
      BY <1>3, <2>2, <3>1, <3>2, <3>3
  <2>5. Len(wire') = 0 => ckey' = now
    <3> SUFFICES ASSUME Len(wire') = 0 PROVE ckey' = now
      OBVIOUS
    <3>1. Len(wire) = 1
      BY <1>1, <1>2
    <3> QED
      BY <1>1, <1>3, <2>1, <2>2, <3>1 DEF FramingInv, InKey
  <2> QED
    BY <2>3, <2>4, <2>5 DEF InKey, Next1
<1>9. LengthForgotten' /\ CachedLength'
  BY DEF TakesHead, LengthForgotten, CachedLength
<1> QED
  BY <1>6, <1>7, <1>8, <1>9 DEF FramingInv

\* packet_get keeps the invariant whichever way it ends.
LEMMA GetInv == FramingInv /\ packet_get_ => FramingInv'
<1> SUFFICES ASSUME FramingInv, packet_get_ PROVE FramingInv'
  OBVIOUS
<1>1. status = "run" /\ UNCHANGED <<key, client>> /\ (Refuses \/ Waits \/ TakesHead)
  BY GetEnds DEF packet_get_
<1>2. CASE TakesHead
  BY <1>1, <1>2, TakeInv
<1>3. CASE Refuses
  <2>1. /\ UNCHANGED <<recvlen, got, taken, wire, key, end, gone, ckey, sent>>
        /\ status' = "die" /\ packet_length' \in Nat
    BY <1>1, <1>3 DEF Refuses, client
  <2>2. FramingTypeOK'
    BY <2>1 DEF FramingInv, FramingTypeOK, Alloc
  <2>3. InFrame'
    BY <2>1 DEF FramingInv, InFrame, Around, InBuffer, Avail
  <2>4. InKey' /\ LengthForgotten' /\ CachedLength'
    BY <2>1 DEF InKey, LengthForgotten, CachedLength, Live
  <2> QED
    BY <2>2, <2>3, <2>4 DEF FramingInv
<1>4. CASE Waits
  <2>1. /\ UNCHANGED <<recvlen, status, taken, wire, key, end, gone, ckey, sent>>
        /\ got' = 0
        /\ packet_length' = 0 \/ (key # 0 /\ OnFrame /\ packet_length' = Head(wire).len)
    BY <1>1, <1>4 DEF Waits, client
  <2>2. OnFrame => Head(wire).len \in Nat
    <3>1. OnFrame => Head(wire) \in Packet
      BY HeadFacts DEF OnFrame, FramingInv, FramingTypeOK
    <3> QED
      BY <3>1 DEF Packet
  <2>3. FramingTypeOK'
    BY <2>1, <2>2 DEF FramingInv, FramingTypeOK, Alloc
  <2>4. InFrame'
    BY <2>1 DEF FramingInv, InFrame, Around, InBuffer, Avail
  <2>5. InKey'
    BY <2>1 DEF FramingInv, InKey, Live, Next1
  <2>6. LengthForgotten' /\ CachedLength'
    BY <1>1, <2>1 DEF LengthForgotten, CachedLength, OnFrame
  <2> QED
    BY <2>3, <2>4, <2>5, <2>6 DEF FramingInv
<1> QED
  BY <1>1, <1>2, <1>3, <1>4

\* With the new key the server reads what the client sealed behind NEWKEYS.
LEMMA KeysInv == FramingInv /\ packet_kexdh_keys => FramingInv'
<1> SUFFICES ASSUME FramingInv, packet_kexdh_keys PROVE FramingInv'
  OBVIOUS
<1>1. /\ UNCHANGED <<recvlen, packet_length, got, taken, wire, end, gone, ckey, sent>>
      /\ status = "newkeys" /\ status' = "run" /\ key' = key + 1 /\ key \in Nat
  BY DEF packet_kexdh_keys, client, FramingInv, FramingTypeOK
<1>2. FramingTypeOK'
  BY <1>1 DEF FramingInv, FramingTypeOK, Alloc
<1>3. InFrame'
  BY <1>1 DEF FramingInv, InFrame, Around, InBuffer, Avail
<1>4. InKey'
  BY <1>1 DEF FramingInv, InKey, Live, Next1
<1>5. packet_length' = 0
  BY <1>1 DEF FramingInv, LengthForgotten, Live
<1>6. LengthForgotten' /\ CachedLength'
  BY <1>5 DEF LengthForgotten, CachedLength
<1> QED
  BY <1>2, <1>3, <1>4, <1>6 DEF FramingInv

\* A packet that is sent goes to the end of the stream.
LEMMA SendInv == FramingInv /\ ClientSend => FramingInv'
<1> SUFFICES ASSUME FramingInv, ClientSend PROVE FramingInv'
  OBVIOUS
<1>1. PICK s \in Shapes, t \in {"data", "newkeys"} :
        /\ wire' = Append(wire,
              [len |-> s.len, pad |-> s.pad, t |-> t, key |-> ckey,
               from |-> end, to |-> end + s.len + Around(ckey)])
        /\ end' = end + s.len + Around(ckey)
        /\ ckey' = IF t = "newkeys" THEN ckey + 1 ELSE ckey
  BY DEF ClientSend
<1> DEFINE p == [len |-> s.len, pad |-> s.pad, t |-> t, key |-> ckey,
                 from |-> end, to |-> end + s.len + Around(ckey)]
           n == Len(wire)
<1>2. /\ UNCHANGED <<recvlen, packet_length, got, key, status, taken, gone>>
      /\ ~gone /\ Live /\ sent' = sent + 1
  BY DEF ClientSend, server, Live
<1>3. /\ wire \in Seq(Packet) /\ end \in Nat /\ ckey \in Nat /\ sent \in Nat
      /\ taken \in Nat /\ recvlen \in Int /\ s.len \in Nat /\ s.pad \in Nat
      /\ Around(ckey) \in Nat /\ n \in Nat
  <2>1. s.len \in Nat /\ s.pad \in Nat
    BY <1>1
  <2>2. Around(ckey) \in Nat
    BY DEF Around
  <2> QED
    BY <2>1, <2>2, HeadFacts DEF FramingInv, FramingTypeOK, Alloc
<1>4. p \in Packet
  BY <1>3 DEF Packet
<1>5. /\ wire' \in Seq(Packet) /\ Len(wire') = n + 1 /\ wire'[n + 1] = p
      /\ \A i \in 1..n : wire'[i] = wire[i]
      /\ wire' # <<>> /\ Head(wire') = wire'[1]
  BY <1>1, <1>3, <1>4, AppendFacts, HeadFacts
<1> HIDE DEF p
<1>6. /\ p.len = s.len /\ p.t = t /\ p.key = ckey /\ p.from = end
      /\ p.to = end + s.len + Around(ckey) /\ p.to = end'
  BY <1>1 DEF p
<1>7. FramingTypeOK'
  BY <1>1, <1>2, <1>3, <1>5 DEF FramingInv, FramingTypeOK, Alloc
<1>8. InFrame'
  <2>1. ASSUME NEW i \in 1..Len(wire')
        PROVE  wire'[i].to = wire'[i].from + wire'[i].len + Around(wire'[i].key)
    <3>1. CASE i \in 1..n
      BY <1>5, <3>1 DEF FramingInv, InFrame
    <3>2. CASE i = n + 1
      BY <1>5, <1>6, <3>2
    <3> QED
      BY <1>3, <1>5, <3>1, <3>2
  <2>2. ASSUME NEW i \in 1..(Len(wire') - 1)
        PROVE  wire'[i + 1].from = wire'[i].to
    <3>1. CASE i \in 1..(n - 1)
      <4>1. i \in 1..n /\ i + 1 \in 1..n
        BY <1>3, <3>1
      <4> QED
        BY <1>5, <3>1, <4>1 DEF FramingInv, InFrame
    <3>2. CASE i = n /\ n > 0
      <4>1. wire'[i] = wire[n]
        BY <1>3, <1>5, <3>2
      <4>2. end = wire[n].to
        BY <1>2, <3>2 DEF FramingInv, InFrame
      <4> QED
        BY <1>5, <1>6, <3>2, <4>1, <4>2
    <3> QED
      BY <1>3, <1>5, <3>1, <3>2
  <2>3. wire'[1].from = taken'
    <3>1. CASE n > 0
      <4>1. wire'[1] = wire[1]
        BY <1>3, <1>5, <3>1
      <4> QED
        BY <1>2, <3>1, <4>1 DEF FramingInv, InFrame
    <3>2. CASE n = 0
      BY <1>2, <1>5, <1>6, <3>2 DEF FramingInv, InFrame
    <3> QED
      BY <1>3, <3>1, <3>2
  <2>4. end' = wire'[Len(wire')].to /\ end' \in Nat /\ end <= end'
    BY <1>1, <1>3, <1>5, <1>6
  <2>5. taken' + InBuffer' <= end'
    <3>1. taken + InBuffer <= end /\ InBuffer \in Int
      BY <1>3 DEF FramingInv, InFrame, InBuffer, Avail
    <3>2. InBuffer' = InBuffer
      BY <1>2 DEF InBuffer, Avail
    <3> QED
      BY <1>2, <1>3, <2>4, <3>1, <3>2
  <2> QED
    BY <1>3, <1>5, <2>1, <2>2, <2>3, <2>4, <2>5 DEF InFrame
<1>9. InKey'
  <2> DEFINE current == IF status = "newkeys" THEN key + 1 ELSE key
  <2>1. ASSUME NEW i \in 1..(Len(wire') - 1)
        PROVE  wire'[i + 1].key = Next1(wire'[i])
    <3>1. CASE i \in 1..(n - 1)
      <4>1. i \in 1..n /\ i + 1 \in 1..n
        BY <1>3, <3>1
      <4> QED
        BY <1>2, <1>5, <3>1, <4>1 DEF FramingInv, InKey
    <3>2. CASE i = n /\ n > 0
      <4>1. wire'[i] = wire[n]
        BY <1>3, <1>5, <3>2
      <4>2. ckey = Next1(wire[n])
        BY <1>2, <3>2 DEF FramingInv, InKey
      <4> QED
        BY <1>5, <1>6, <3>2, <4>1, <4>2
    <3> QED
      BY <1>3, <1>5, <3>1, <3>2
  <2>2. wire'[1].key = current
    <3>1. CASE n > 0
      <4>1. wire'[1] = wire[1]
        BY <1>3, <1>5, <3>1
      <4> QED
        BY <1>2, <3>1, <4>1 DEF FramingInv, InKey
    <3>2. CASE n = 0
      BY <1>2, <1>5, <1>6, <3>2 DEF FramingInv, InKey
    <3> QED
      BY <1>3, <3>1, <3>2
  <2>3. ckey' = Next1(wire'[Len(wire')])
    BY <1>1, <1>5, <1>6 DEF Next1
  <2> QED
    BY <1>2, <1>3, <1>5, <2>1, <2>2, <2>3 DEF InKey, Next1
<1>10. LengthForgotten'
  BY <1>2 DEF FramingInv, LengthForgotten, Live
<1>11. CachedLength'
  <2>1. wire # <<>> => Head(wire') = Head(wire)
    BY <1>3, <1>5, HeadFacts
  <2> QED
    BY <1>2, <1>5, <2>1 DEF FramingInv, CachedLength, OnFrame
<1> QED
  BY <1>7, <1>8, <1>9, <1>10, <1>11 DEF FramingInv

\* The end of the stream never moves in front of what has been read.
LEMMA HangupInv == FramingInv /\ ClientHangup => FramingInv'
<1> SUFFICES ASSUME FramingInv, ClientHangup PROVE FramingInv'
  OBVIOUS
<1>1. /\ UNCHANGED <<recvlen, packet_length, got, key, status, taken, wire, ckey, sent>>
      /\ gone' = TRUE
      /\ end' \in (taken + InBuffer)..end
  BY DEF ClientHangup, server
<1>2. /\ wire \in Seq(Packet) /\ end \in Nat /\ taken \in Nat /\ recvlen \in Int
      /\ InBuffer \in Nat /\ Len(wire) \in Nat
  BY HeadFacts DEF FramingInv, FramingTypeOK, Alloc, InBuffer, Avail
<1>3. end' \in Nat /\ end' <= end /\ taken + InBuffer <= end'
  BY <1>1, <1>2
<1>4. FramingTypeOK'
  <2>1. gone' \in BOOLEAN
    BY <1>1, Zenon
  <2> QED
    BY <1>1, <1>3, <2>1 DEF FramingInv, FramingTypeOK, Alloc
<1>5. InFrame'
  <2>1. InBuffer' = InBuffer
    BY <1>1 DEF InBuffer, Avail
  <2>2. Len(wire) > 0 => wire[Len(wire)].to \in Nat /\ end <= wire[Len(wire)].to
    <3>1. Len(wire) > 0 => wire[Len(wire)] \in Packet
      BY <1>2, HeadFacts
    <3>2. Len(wire) > 0 => wire[Len(wire)].to \in Nat
      BY <3>1 DEF Packet
    <3> QED
      BY <3>2 DEF FramingInv, InFrame
  <2>3. Len(wire) = 0 => end' = taken
    BY <1>2, <1>3 DEF FramingInv, InFrame
  <2> QED
    BY <1>1, <1>2, <1>3, <2>1, <2>2, <2>3 DEF FramingInv, InFrame
<1>6. InKey' /\ LengthForgotten' /\ CachedLength'
  BY <1>1 DEF FramingInv, InKey, LengthForgotten, CachedLength, Live, Next1, OnFrame
<1> QED
  BY <1>4, <1>5, <1>6 DEF FramingInv

\* One step per action.
LEMMA FramingNextInv == FramingInv /\ [FramingNext]_framevars => FramingInv'
<1> SUFFICES ASSUME FramingInv, [FramingNext]_framevars PROVE FramingInv'
  OBVIOUS
<1>1. CASE packet_recv
  BY <1>1, RecvInv
<1>2. CASE packet_get_
  BY <1>2, GetInv
<1>3. CASE packet_kexdh_keys
  BY <1>3, KeysInv
<1>4. CASE ClientSend
  BY <1>4, SendInv
<1>5. CASE ClientHangup
  BY <1>5, HangupInv
<1>6. CASE UNCHANGED framevars
  BY <1>6 DEF framevars, server, client, FramingInv, FramingTypeOK, InFrame, InKey,
              LengthForgotten, CachedLength, Live, Next1, OnFrame, Around,
              InBuffer, Avail, Alloc
<1> QED
  BY <1>1, <1>2, <1>3, <1>4, <1>5, <1>6 DEF FramingNext, Server, Over

\* The parser never loses its place in the stream, nor the keys their packets.
THEOREM FramingInvariant == FramingSpec => []FramingInv
<1>1. FramingInit => FramingInv
  BY FramingInitInv
<1>2. FramingInv /\ [FramingNext]_framevars => FramingInv'
  BY FramingNextInv
<1> QED
  BY <1>1, <1>2, PTL DEF FramingSpec

\* packet_recv never reads beyond recvbuf and packet_get never takes bytes that
\* have not come.
THEOREM FramingTypeCorrect == FramingSpec => []FramingTypeOK
<1>1. FramingInv => FramingTypeOK
  BY DEF FramingInv
<1> QED
  BY <1>1, FramingInvariant, PTL

\* The length packet_get remembers is that of the packet at the head.
THEOREM FramingCachedLength == FramingSpec => []CachedLength
<1>1. FramingInv => CachedLength
  BY DEF FramingInv
<1> QED
  BY <1>1, FramingInvariant, PTL

\* When recvbuf is too full to read there is a packet to take or to refuse.
THEOREM FramingNeverStuck == FramingSpec => []NeverStuck
<1>1. FramingInv => NeverStuck
  <2> SUFFICES ASSUME FramingInv, ~packet_recvisready, status = "run",
                      wire # <<>> => WellFormed(Head(wire))
               PROVE  wire # <<>> /\ taken + Avail >= Head(wire).to
    BY DEF NeverStuck
  <2>1. recvlen \in Int /\ taken \in Nat
    BY DEF FramingInv, FramingTypeOK, Alloc
  <2>2. Avail > 3 * Limit /\ Avail \in Int
    BY <2>1 DEF packet_recvisready, buf_ready, Alloc, Avail
  <2>3. OnFrame /\ Len(wire) > 0 /\ Head(wire) = wire[1] /\ wire[1] \in Packet
    BY <2>2, BytesAreFramed
  <2>4. wire # <<>> /\ WellFormed(wire[1])
    BY <2>3 DEF OnFrame
  <2>5. wire[1].to = taken + wire[1].len + Around(wire[1].key)
    BY <2>3 DEF FramingInv, InFrame
  <2>6. wire[1].len \in Nat /\ Around(wire[1].key) \in Nat
    BY <2>3 DEF Packet, Around
  <2> QED
    BY <2>1, <2>2, <2>3, <2>4, <2>5, <2>6 DEF WellFormed
<1> QED
  BY <1>1, FramingInvariant, PTL

-----------------------------------------------------------------------------
(* Framing implements PacketFifo.                                           *)

\* Every step of the bytes is a step of the queue of packets, or none.
LEMMA StepImplementsFifo ==
  FramingInv /\ [FramingNext]_framevars => [Fifo!FifoNext]_(Fifo!fifovars)
<1> SUFFICES ASSUME FramingInv, [FramingNext]_framevars
             PROVE  [Fifo!FifoNext]_(Fifo!fifovars)
  OBVIOUS
<1> USE DEF Fifo!FifoNext, Fifo!fifovars
<1>1. CASE packet_recv
  <2>1. CASE status' = status
    BY <1>1, <2>1 DEF packet_recv, client
  <2>2. CASE status' = "closed" /\ gone
    BY <1>1, <2>2 DEF packet_recv, client, Fifo!Stop
  <2> QED
    BY <1>1, <2>1, <2>2 DEF packet_recv
<1>2. CASE packet_get_
  <2>1. (Refuses \/ Waits \/ TakesHead) /\ gone' = gone /\ status = "run"
    BY <1>2, GetEnds DEF client, packet_get_
  <2>2. CASE Refuses
    BY <2>1, <2>2 DEF Refuses, Fifo!Stop
  <2>3. CASE Waits
    BY <2>1, <2>3 DEF Waits, Fifo!NothingYet
  <2>4. CASE TakesHead
    BY <2>1, <2>4 DEF TakesHead, Fifo!HandOver, Fifo!Payload
  <2> QED
    BY <2>1, <2>2, <2>3, <2>4
<1>3. CASE packet_kexdh_keys
  BY <1>3 DEF packet_kexdh_keys, client
<1>4. CASE ClientSend
  <2>1. PICK s \in Shapes, t \in {"data", "newkeys"} :
          wire' = Append(wire,
              [len |-> s.len, pad |-> s.pad, t |-> t, key |-> ckey,
               from |-> end, to |-> end + s.len + Around(ckey)])
    BY <1>4 DEF ClientSend
  <2> DEFINE p == [len |-> s.len, pad |-> s.pad, t |-> t, key |-> ckey,
                   from |-> end, to |-> end + s.len + Around(ckey)]
  <2>2. wire \in Seq(Packet) /\ p \in Packet
    BY <2>1 DEF FramingInv, FramingTypeOK, Packet, Around
  <2>3. wire' = Append(wire, p)
    BY <2>1
  <2> HIDE DEF p
  <2>4. wire' # <<>> /\ wire'[Len(wire')] = p
    BY <2>2, <2>3, AppendFacts
  <2>5. UNCHANGED <<got, status, gone>> /\ ~gone /\ status \in {"run", "newkeys"}
    BY <1>4 DEF ClientSend, server
  <2> QED
    BY <2>3, <2>4, <2>5 DEF Fifo!Send
<1>5. CASE ClientHangup
  BY <1>5 DEF ClientHangup, server, Fifo!HangUp
<1>6. CASE UNCHANGED framevars
  BY <1>6 DEF framevars, server, client
<1> QED
  BY <1>1, <1>2, <1>3, <1>4, <1>5, <1>6 DEF FramingNext, Server, Over

\* The handlers see the client's packets whole, in order and each once, and the
\* process stops only at a packet that is not well formed or at the end of the
\* stream.
THEOREM FramingImplementsFifo == FramingSpec => FifoSpec
<1>1. FramingInit => Fifo!FifoInit
  BY DEF FramingInit, Fifo!FifoInit
<1>2. FramingInv /\ [FramingNext]_framevars => [Fifo!FifoNext]_(Fifo!fifovars)
  BY StepImplementsFifo
<1> QED
  BY <1>1, <1>2, FramingInvariant, PTL DEF FramingSpec, FifoSpec, Fifo!FifoSpec

=============================================================================

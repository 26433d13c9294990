---------------------------- MODULE SessionProofs ----------------------------
(***************************************************************************)
(* What holds of a connection for every size of buffers, windows, packets  *)
(* and pipes, and for every client.                                        *)
(*                                                                         *)
(* First the channel alone, under every caller: what channel.c keeps true  *)
(* of the type of struct channel, of the window that never promises more   *)
(* than buf0 can take, of the descriptors that are open exactly as long as *)
(* they are named, and of the one life of a channel. All of it follows     *)
(* from one inductive invariant, ChannelInv.                               *)
(*                                                                         *)
(* Then the connection: whatever the main loop does with the channel is a  *)
(* call of a function of channel.c, with arguments that function accepts,  *)
(* so the connection implements the channel under an arbitrary caller and  *)
(* keeps all that was proved of it. Last, what its two ends know of each   *)
(* other.                                                                  *)
(***************************************************************************)
EXTENDS Session, SequenceTheorems, WellFoundedInduction, TLAPS

-----------------------------------------------------------------------------
(* The channel. *)

cvars == <<chanvars, status>>

\* Before a child there are no descriptors but the pty's, and no input; a
\* channel that is not open has no child.
BeforeChild ==
    /\ pid = 0 => len0 = 0 /\ fd0 = NoFd /\ fd1 = NoFd /\ fd2 = NoFd
    /\ maxpacket = 0 => pid = 0

\* The three names are those of the mode the channel is in.
NamesFitMode ==
    /\ flagterminal => fd0 # "in" /\ fd1 # "out" /\ fd2 = NoFd
    /\ ~flagterminal => fd0 # "master" /\ fd1 # "master"

\* The inductive invariant.
ChannelInv ==
    /\ ChannelTypeOK
    /\ InputFits
    /\ BeforeChild
    /\ NamesFitMode
    /\ DescriptorsMatch

\* The initial channel satisfies the invariant.
LEMMA InitInv == ChannelInit => ChannelInv
<1> USE BufSizeAssumption, PacketAssumption, WindowAssumption
<1> SUFFICES ASSUME ChannelInit PROVE ChannelInv
  OBVIOUS
<1> USE DEF ChannelInit, channel_init, NoFd
<1>1. CountersOK /\ InputFits /\ BeforeChild
  BY DEF CountersOK, InputFits, BeforeChild
<1>2. FlagsOK /\ DescriptorsOK
  BY Zenon DEF FlagsOK, DescriptorsOK, Outcomes
<1>3. NamesFitMode /\ DescriptorsMatch
  BY DEF NamesFitMode, DescriptorsMatch
<1> QED
  BY <1>1, <1>2, <1>3 DEF ChannelInv, ChannelTypeOK

\* The adjustment gives back at most what keeps buffer and window together
\* within the size of the buffer.
LEMMA PlusFits ==
  ASSUME NEW len \in 0..BufSize, NEW window \in 0..BufSize,
         len + window <= BufSize
  PROVE  /\ plus(len, window) \in 0..BufSize
         /\ len + window + plus(len, window) <= BufSize
  BY BufSizeAssumption DEF plus

\* Every call of a function of channel.c keeps the invariant.
LEMMA NextInv == ChannelInv /\ [ChannelNext]_cvars => ChannelInv'
<1> USE BufSizeAssumption, PacketAssumption, WindowAssumption
<1> SUFFICES ASSUME ChannelInv, [ChannelNext]_cvars PROVE ChannelInv'
  OBVIOUS
<1> USE DEF ChannelInv, ChannelTypeOK, CountersOK, DescriptorsOK, FlagsOK,
            InputFits, BeforeChild, NamesFitMode, DescriptorsMatch,
            fds, chanvars, NoFd, Descriptors, Outcomes, CallerOutcomes
<1>1. CASE UNCHANGED cvars
  BY <1>1 DEF cvars
<1>2. ASSUME NEW w \in 0..WindowMax, NEW l \in PacketMin..PacketLimit,
             channel_open(w, l)
      PROVE  ChannelInv'
  <2>1. (CountersOK /\ InputFits /\ BeforeChild)'
    BY <1>2 DEF channel_open
  <2>2. FlagsOK'
    BY <1>2 DEF channel_open
  <2>3. (DescriptorsOK /\ NamesFitMode)'
    BY <1>2 DEF channel_open
  <2>4. DescriptorsMatch'
    BY <1>2 DEF channel_open
  <2> QED
    BY <2>1, <2>2, <2>3, <2>4
<1>3. ASSUME NEW ok \in BOOLEAN, channel_openterminal(ok)
      PROVE  ChannelInv'
  <2>1. (CountersOK /\ InputFits /\ BeforeChild)'
    BY <1>3 DEF channel_openterminal, die
  <2>2. FlagsOK'
    BY <1>3 DEF channel_openterminal, die
  <2>3. (DescriptorsOK /\ NamesFitMode)'
    BY <1>3 DEF channel_openterminal, die
  <2>4. DescriptorsMatch'
    BY <1>3 DEF channel_openterminal, die
  <2> QED
    BY <2>1, <2>2, <2>3, <2>4
<1>4. ASSUME NEW ok \in BOOLEAN, channel_exec(ok)
      PROVE  ChannelInv'
  <2>1. (CountersOK /\ InputFits /\ BeforeChild)'
    BY <1>4 DEF channel_exec, channel_fork, channel_forkpty, die
  <2>2. FlagsOK'
    BY <1>4 DEF channel_exec, channel_fork, channel_forkpty, die
  <2>3. (DescriptorsOK /\ NamesFitMode)'
    BY <1>4 DEF channel_exec, channel_fork, channel_forkpty, die
  <2>4. DescriptorsMatch'
    BY <1>4 DEF channel_exec, channel_fork, channel_forkpty, die
  <2> QED
    BY <2>1, <2>2, <2>3, <2>4
<1>5. ASSUME NEW n \in 0..PacketLimit, channel_put(n)
      PROVE  ChannelInv'
  <2>1. (CountersOK /\ InputFits /\ BeforeChild)'
    BY <1>5 DEF channel_put, Discards, die
  <2>2. FlagsOK'
    BY <1>5 DEF channel_put, Discards, die
  <2>3. (DescriptorsOK /\ NamesFitMode)'
    BY <1>5 DEF channel_put, Discards, die
  <2>4. DescriptorsMatch'
    BY <1>5 DEF channel_put, Discards, die
  <2> QED
    BY <2>1, <2>2, <2>3, <2>4
<1>6. ASSUME NEW n \in 0..PacketLimit, channel_putextended(n)
      PROVE  ChannelInv'
  <2>1. (CountersOK /\ InputFits /\ BeforeChild)'
    BY <1>6 DEF channel_putextended, die
  <2>2. FlagsOK'
    BY <1>6 DEF channel_putextended, die
  <2>3. (DescriptorsOK /\ NamesFitMode)'
    BY <1>6 DEF channel_putextended, die
  <2>4. DescriptorsMatch'
    BY <1>6 DEF channel_putextended, die
  <2> QED
    BY <2>1, <2>2, <2>3, <2>4
<1>7. ASSUME channel_puteof
      PROVE  ChannelInv'
  <2>1. (CountersOK /\ InputFits /\ BeforeChild)'
    BY <1>7 DEF channel_puteof, CloseInput, die
  <2>2. FlagsOK'
    BY <1>7 DEF channel_puteof, CloseInput, die
  <2>3. (DescriptorsOK /\ NamesFitMode)'
    BY <1>7 DEF channel_puteof, CloseInput, die
  <2>4. DescriptorsMatch'
    BY <1>7 DEF channel_puteof, CloseInput, die
  <2> QED
    BY <2>1, <2>2, <2>3, <2>4
<1>8. ASSUME channel_close
      PROVE  ChannelInv'
  <2>1. CASE maxpacket = 0 \/ pid > 0
    BY <1>7, <1>8, <2>1 DEF channel_close
  <2>2. CASE maxpacket # 0 /\ pid < 0
    <3>1. UNCHANGED cvars
      BY <1>8, <2>2 DEF channel_close, cvars
    <3> QED
      BY <1>1, <3>1
  <2>3. CASE maxpacket # 0 /\ pid = 0
    <3>1. openfds \subseteq {"master", "slave"}
      BY <2>3
    <3>2. /\ openfds' = openfds \ {"master", "slave"}
          /\ fd0' = NoFd /\ fd1' = NoFd /\ fd2' = NoFd
      BY <1>8, <2>3 DEF channel_close
    <3>3. openfds' = {}
      BY <3>1, <3>2, Zenon
    <3>4. (CountersOK /\ InputFits /\ BeforeChild)'
      BY <1>8, <2>3 DEF channel_close
    <3>5. flagterminal' = FALSE /\ UNCHANGED <<remoteeof, status>>
      BY <1>8, <2>3 DEF channel_close
    <3>6. FlagsOK'
      BY <3>5, Zenon
    <3>7. (DescriptorsOK /\ NamesFitMode /\ DescriptorsMatch)'
      BY <3>2, <3>5, <3>3
    <3> QED
      BY <3>4, <3>6, <3>7
  <2> QED
    BY <2>1, <2>2, <2>3
<1>9. ASSUME channel_waitnohang
      PROVE  ChannelInv'
  <2>1. CASE maxpacket = 0
    BY <1>9, <2>1 DEF channel_waitnohang, die
  <2>2. CASE maxpacket # 0 /\ pid > 0
    <3>1. (CountersOK /\ InputFits /\ BeforeChild)'
      BY <1>9, <2>2 DEF channel_waitnohang
    <3>2. FlagsOK'
      BY <1>9, <2>2 DEF channel_waitnohang
    <3>3. (DescriptorsOK /\ NamesFitMode)'
      BY <1>9, <2>2 DEF channel_waitnohang
    <3>4. "slave" \notin openfds /\ UNCHANGED <<fds, flagterminal>>
      BY <1>9, <2>2 DEF channel_waitnohang
    <3>5. DescriptorsMatch'
      BY <3>4
    <3> QED
      BY <3>1, <3>2, <3>3, <3>5
  <2>3. CASE maxpacket # 0 /\ ~(pid > 0)
    BY <1>9, <2>3 DEF channel_waitnohang
  <2> QED
    BY <2>1, <2>2, <2>3
<1>10. ASSUME NEW r \in 0..ReadLimit, channel_read(r)
       PROVE  ChannelInv'
  <2>1. (CountersOK /\ InputFits /\ BeforeChild)'
    BY <1>10 DEF channel_read, ReadLimit, Least, die
  <2>2. FlagsOK'
    BY <1>10 DEF channel_read, ReadLimit, Least, die
  <2>3. (DescriptorsOK /\ NamesFitMode)'
    BY <1>10 DEF channel_read, ReadLimit, Least, die
  <2>4. DescriptorsMatch'
    BY <1>10 DEF channel_read, ReadLimit, Least, die
  <2> QED
    BY <2>1, <2>2, <2>3, <2>4
<1>11. ASSUME NEW r \in 0..ReadLimit, channel_extendedread(r)
       PROVE  ChannelInv'
  <2>1. (CountersOK /\ InputFits /\ BeforeChild)'
    BY <1>11 DEF channel_extendedread, ReadLimit, Least, die
  <2>2. FlagsOK'
    BY <1>11 DEF channel_extendedread, ReadLimit, Least, die
  <2>3. (DescriptorsOK /\ NamesFitMode)'
    BY <1>11 DEF channel_extendedread, ReadLimit, Least, die
  <2>4. DescriptorsMatch'
    BY <1>11 DEF channel_extendedread, ReadLimit, Least, die
  <2> QED
    BY <2>1, <2>2, <2>3, <2>4
<1>12. ASSUME NEW w \in 0..len0, WriteToChild(w)
       PROVE  ChannelInv'
  <2>1. CASE maxpacket = 0 \/ pid <= 0 \/ fd0 = NoFd
    BY <1>12, <2>1 DEF WriteToChild, die
  <2>2. CASE ~(maxpacket = 0 \/ pid <= 0 \/ fd0 = NoFd)
    <3> USE <1>12, <2>2 DEF WriteToChild, channel_write
    <3>1. /\ len0' \in 0..BufSize
          /\ len0' + localwindow <= BufSize
          /\ localwindow' = localwindow + plus(len0', localwindow)
      BY DEF WriteInput
    <3>2. /\ plus(len0', localwindow) \in 0..BufSize
          /\ len0' + localwindow + plus(len0', localwindow) <= BufSize
      BY <3>1, PlusFits
    <3>3. (CountersOK /\ InputFits /\ BeforeChild)'
      BY <3>1, <3>2
    <3>4. FlagsOK'
      OBVIOUS
    <3>5. (DescriptorsOK /\ NamesFitMode)'
      BY DEF WriteInput, CloseInput
    <3>6. DescriptorsMatch'
      BY DEF WriteInput, CloseInput
    <3> QED
      BY <3>3, <3>4, <3>5, <3>6
  <2> QED
    BY <2>1, <2>2
<1>13. ASSUME NEW n \in 0..WindowMax, channel_incrementremotewindow(n)
       PROVE  ChannelInv'
  <2>1. (CountersOK /\ InputFits /\ BeforeChild)'
    BY <1>13 DEF channel_incrementremotewindow, die
  <2>2. FlagsOK'
    BY <1>13 DEF channel_incrementremotewindow, die
  <2>3. (DescriptorsOK /\ NamesFitMode)'
    BY <1>13 DEF channel_incrementremotewindow, die
  <2>4. DescriptorsMatch'
    BY <1>13 DEF channel_incrementremotewindow, die
  <2> QED
    BY <2>1, <2>2, <2>3, <2>4
<1>14. ASSUME NEW why \in CallerOutcomes, die(why)
       PROVE  ChannelInv'
  BY <1>14 DEF die
<1> QED
  BY <1>1, <1>2, <1>3, <1>4, <1>5, <1>6, <1>7, <1>8, <1>9, <1>10, <1>11,
     <1>12, <1>13, <1>14 DEF ChannelNext, Calls

\* The invariant holds throughout.
THEOREM ChannelInvariant == ChannelSpec => []ChannelInv
<1>1. ChannelInit => ChannelInv
  BY InitInv
<1>2. ChannelInv /\ [ChannelNext]_cvars => ChannelInv'
  BY NextInv
<1> QED
  BY <1>1, <1>2, PTL DEF ChannelSpec, cvars

\* struct channel keeps its type under every caller: in particular the
\* windows stay within their bounds, so the 32 bit counters never wrap.
THEOREM ChannelTypeCorrect == ChannelSpec => []ChannelTypeOK
<1>1. ChannelInv => ChannelTypeOK
  BY DEF ChannelInv
<1> QED
  BY <1>1, ChannelInvariant, PTL

\* channel_put never runs out of buf0: buffer and window together never
\* exceed its size, whatever the sizes of both are.
THEOREM ChannelInputFits == ChannelSpec => []InputFits
<1>1. ChannelInv => InputFits
  BY DEF ChannelInv
<1> QED
  BY <1>1, ChannelInvariant, PTL

\* No descriptor is used after close, closed twice or leaked without a
\* terminal, and no slave outlives the start of the child with one.
THEOREM ChannelDescriptors == ChannelSpec => []DescriptorsMatch
<1>1. ChannelInv => DescriptorsMatch
  BY DEF ChannelInv
<1> QED
  BY <1>1, ChannelInvariant, PTL

-----------------------------------------------------------------------------
\* What one call may do to the life of the channel, in a state of the
\* invariant.
LEMMA OneLifeStep ==
  ASSUME ChannelInv, [ChannelNext]_cvars
  PROVE  /\ maxpacket # 0 => maxpacket' = maxpacket
         /\ <<pid, pid'>> \in {<<0, 0>>, <<0, 1>>, <<0, -1>>, <<1, 1>>,
                               <<1, -1>>, <<-1, -1>>}
         /\ pid' # 0 => maxpacket # 0
<1> USE BufSizeAssumption, PacketAssumption, WindowAssumption
<1>1. pid \in {-1, 0, 1} /\ (maxpacket = 0 => pid = 0)
  BY DEF ChannelInv, ChannelTypeOK, CountersOK, BeforeChild
<1>2. CASE UNCHANGED cvars
  BY <1>1, <1>2 DEF cvars, chanvars
<1>3. CASE ChannelNext
  <2>1. /\ maxpacket # 0 => maxpacket' = maxpacket
        /\ \/ pid' = pid
           \/ maxpacket # 0 /\ pid = 0 /\ pid' \in {1, -1}
           \/ maxpacket # 0 /\ pid > 0 /\ pid' = -1
    BY <1>1, <1>3 DEF ChannelNext, Calls, die, channel_open, channel_openterminal,
                channel_exec, channel_put, channel_putextended, channel_puteof,
                channel_close, channel_read, channel_extendedread,
                WriteToChild, channel_write, channel_waitnohang,
                channel_incrementremotewindow, chanvars
  <2> QED
    BY <1>1, <2>1
<1> QED
  BY <1>2, <1>3

\* What one call may do to the input of the child.
LEMMA InputStaysClosedStep ==
  ASSUME ChannelInv, [ChannelNext]_cvars
  PROVE  pid # 0 /\ fd0 = NoFd => fd0' = NoFd
<1> USE BufSizeAssumption, PacketAssumption, WindowAssumption
<1>1. CASE UNCHANGED cvars
  BY <1>1 DEF cvars, chanvars, fds
<1>2. CASE ChannelNext
  BY <1>2 DEF ChannelNext, Calls, die, channel_open, channel_openterminal,
              channel_exec, channel_put, channel_putextended, channel_puteof,
              CloseInput, channel_close, channel_read, channel_extendedread,
              WriteToChild, channel_write, channel_waitnohang,
              channel_incrementremotewindow, chanvars, fds
<1> QED
  BY <1>1, <1>2

\* A channel starts at most one child and does not come back, whatever it is
\* asked and in whatever order.
THEOREM ChannelOneLife == ChannelSpec => OneLife
<1>1. ChannelInv /\ [ChannelNext]_cvars =>
        [/\ maxpacket # 0 => maxpacket' = maxpacket
         /\ <<pid, pid'>> \in {<<0, 0>>, <<0, 1>>, <<0, -1>>, <<1, 1>>,
                               <<1, -1>>, <<-1, -1>>}
         /\ pid' # 0 => maxpacket # 0]_cvars
  BY OneLifeStep
<1> QED
  BY <1>1, ChannelInvariant, PTL DEF ChannelSpec, OneLife, cvars

\* The input of the child, once closed, is never opened again.
THEOREM ChannelInputStaysClosed == ChannelSpec => InputStaysClosed
<1>1. ChannelInv /\ [ChannelNext]_cvars =>
        [pid # 0 /\ fd0 = NoFd => fd0' = NoFd]_cvars
  BY InputStaysClosedStep
<1> QED
  BY <1>1, ChannelInvariant, PTL DEF ChannelSpec, InputStaysClosed, cvars

-----------------------------------------------------------------------------
(* The packets of the two directions. *)
InPackets ==
    [t : Requests \cup {"GLOBAL", "OPENX", "DATA", "EXT", "ADJ", "EOF", "CLOSE", "KEXINIT",
                        "NEWKEYS", "OTHER", "DISCONNECT", "HANGUP", "AUTH"},
     n : 0..PacketLimit]
    \cup [t : {"OPEN"}, n : 0..WindowMax, l : Nat]

OutPackets ==
    [t : Replies \cup Farewells \cup {"CONFIRM", "OPENFAIL", "OPENXFAIL", "DATA", "EXT", "ADJ",
                                      "KEX", "UNIMPL"},
     n : Nat]

Wires == recvbuf \in Seq(InPackets) /\ c2s \in Seq(InPackets)
Pipes == cin \in 0..PipeCap /\ cout \in 0..PipeCap /\ cerr \in 0..PipeCap /\ outleft \in Nat

(* The constants, as numbers. *)
LEMMA Numbers ==
  /\ SendReady \in Nat \ {0} /\ SendCap \in Nat /\ SendReady < SendCap
  /\ NetCap \in Nat \ {0} /\ PipeCap \in Nat \ {0}
  /\ OutputMax \in Nat /\ ClientMax \in Nat
  /\ Windows \subseteq 0..WindowMax /\ Limits \subseteq Nat
  /\ Sizes \subseteq 0..PacketLimit /\ Wants \subseteq {0, 1} /\ Wants \subseteq 0..PacketLimit
  BY SessionAssumption, PacketAssumption

(* The lesser of two numbers is one of them and exceeds neither. *)
LEMMA LeastOfTwo == \A a, b \in Int : Least(a, b) \in {a, b} /\ Least(a, b) <= a /\ Least(a, b) <= b
  BY DEF Least

(* What the channel can be asked to return in one read. *)
LEMMA ReadLimits ==
  ASSUME CountersOK
  PROVE  ReadLimit \in Nat /\ ReadLimit <= PacketLimit /\ ReadLimit <= remotewindow
         /\ remotewindow \in Nat
<1>1. maxpacket \in Nat /\ PacketLimit \in Nat /\ remotewindow \in Nat
  BY PacketAssumption, WindowAssumption DEF CountersOK
<1> QED
  BY <1>1 DEF ReadLimit, Least

(* CHANNEL_OPEN carries a window and a packet size. *)
LEMMA OpenPacket ==
  ASSUME NEW m \in InPackets, m.t = "OPEN"
  PROVE  m.n \in 0..WindowMax /\ m.l \in Nat
  BY DEF InPackets, Requests, Starts

(* Any other packet of the client carries at most PacketLimit bytes. *)
LEMMA OtherPacket ==
  ASSUME NEW m \in InPackets, m.t # "OPEN"
  PROVE  m.n \in 0..PacketLimit
  BY DEF InPackets

(* A handler that found its packet consumes that packet from recvbuf and
   reads nothing new. *)
LEMMA Headed ==
  ASSUME Wires, NEW t, Received(t)
  PROVE  /\ Head(recvbuf) \in InPackets /\ Head(recvbuf).t = t
         /\ recvbuf' \in Seq(InPackets) /\ c2s' = c2s
  BY HeadTailProperties DEF Wires, Received

(* A handler dies of a full buffer, or does its work. *)
LEMMA HandlerCalls ==
  ASSUME NEW ACTION A, NEW msgs, Handler(A, msgs)
  PROVE  die("full") \/ A
  BY DEF Handler
-----------------------------------------------------------------------------
(* Every block of the loop and every handler calls the channel as it may be
   called, or leaves it alone. *)
LEMMA HandlerCall ==
  ASSUME NEW ACTION A, NEW msgs, Handler(A, msgs), A => Calls \/ UNCHANGED cvars
  PROVE  Calls \/ UNCHANGED cvars
<1>1. die("full") => Calls
  BY DEF Calls, CallerOutcomes
<1> QED
  BY <1>1, HandlerCalls

(* The blocks of the loop reach the channel only through its operations. *)
LEMMA LoopCalls ==
  ASSUME Pipes, ChannelInv,
         \/ loop_break \/ loop_poll \/ loop_polltimeout \/ loop_selfpipe \/ loop_tochild
         \/ loop_from1 \/ loop_from2 \/ loop_check \/ loop_wait \/ loop_send
         \/ loop_recv \/ packet_sendall \/ packet_getall
  PROVE  Calls \/ UNCHANGED cvars
<1> USE DEF cvars
<1>0. CountersOK
  BY DEF ChannelInv, ChannelTypeOK
<1>1. CASE loop_break \/ loop_send \/ loop_recv \/ packet_sendall \/ packet_getall
  BY <1>1 DEF loop_break, loop_send, loop_recv, packet_sendall, packet_getall, Calls, CallerOutcomes
<1>2. CASE loop_poll \/ loop_polltimeout \/ loop_selfpipe \/ loop_check
  BY <1>2 DEF loop_poll, loop_polltimeout, loop_selfpipe, loop_check
<1>3. CASE loop_tochild
  <2>1. PICK w \in IF child.reads /\ fd0 \in openfds
                   THEN 1..Least(len0, PipeCap - cin) ELSE {0} :
          Handler(WriteToChild(w) /\ cin' = cin + w /\ UNCHANGED packetvars
                    /\ UNCHANGED <<child, cout, cerr, outleft>>, AdjustMsgs(w))
    BY <1>3 DEF loop_tochild
  <2>2. len0 \in Nat /\ PipeCap - cin \in Int
    BY <1>0, Numbers DEF CountersOK, Pipes
  <2>3. w \in 0..len0
    BY <2>1, <2>2, LeastOfTwo
  <2> QED
    BY <2>1, <2>3, HandlerCall DEF Calls
<1>4. CASE loop_from1
  <2>1. CASE ~packet_putisready
    BY <1>4, <2>1 DEF loop_from1
  <2>2. CASE packet_putisready
    <3>1. PICK r \in IF fd1 \in openfds /\ cout > 0 /\ ReadLimit > 0
                     THEN 1..Least(cout, ReadLimit) ELSE {0} :
            Handler(channel_read(r) /\ cout' = cout - r
                      /\ UNCHANGED <<packetvars, child, cin, cerr, outleft>>,
                    IF r = 0 THEN <<>> ELSE <<Msg("DATA", r)>>)
      BY <1>4, <2>2 DEF loop_from1
    <3>2. ReadLimit \in Nat /\ cout \in Nat
      BY <1>0, ReadLimits DEF Pipes
    <3>3. r \in 0..ReadLimit
      BY <3>1, <3>2, LeastOfTwo
    <3> QED
      BY <3>1, <3>3, HandlerCall DEF Calls
  <2> QED
    BY <2>1, <2>2
<1>5. CASE loop_from2
  <2>1. CASE ~packet_putisready
    BY <1>5, <2>1 DEF loop_from2
  <2>2. CASE packet_putisready
    <3>1. PICK r \in IF cerr > 0 /\ ReadLimit > 0
                     THEN 1..Least(cerr, ReadLimit) ELSE {0} :
            Handler(channel_extendedread(r) /\ cerr' = cerr - r
                      /\ UNCHANGED <<packetvars, child, cin, cout, outleft>>,
                    IF r = 0 THEN <<>> ELSE <<Msg("EXT", r)>>)
      BY <1>5, <2>2 DEF loop_from2
    <3>2. ReadLimit \in Nat /\ cerr \in Nat
      BY <1>0, ReadLimits DEF Pipes
    <3>3. r \in 0..ReadLimit
      BY <3>1, <3>2, LeastOfTwo
    <3> QED
      BY <3>1, <3>3, HandlerCall DEF Calls
  <2> QED
    BY <2>1, <2>2
<1>6. CASE loop_wait
  <2>1. CASE pid > 0 /\ child.st = "zombie"
    <3>1. Handler(/\ channel_waitnohang
                  /\ child' = [child EXCEPT !.st = "reaped"]
                  /\ flageofsent' = TRUE
                  /\ UNCHANGED <<flagclosesent, flagchanneleofreceived, cin,
                                 cout, cerr, outleft>>,
                  EofMsgs \o StatusMsgs)
      BY <1>6, <2>1 DEF loop_wait
    <3> QED
      BY <3>1, HandlerCall DEF Calls
  <2>2. CASE ~(pid > 0 /\ child.st = "zombie")
    BY <1>6, <2>2 DEF loop_wait
  <2> QED
    BY <2>1, <2>2
<1> QED
  BY <1>1, <1>2, <1>3, <1>4, <1>5, <1>6
(* So do the handlers of the connection protocol. *)
LEMMA ProcessCalls ==
  ASSUME Wires, ChannelInv, process
  PROVE  Calls \/ UNCHANGED cvars
<1> USE DEF cvars
<1> DEFINE m == Head(recvbuf)
<1>1. CASE packet_channel_open
  <2>1. CASE Received("OPENX")
    BY <1>1, <2>1, HandlerCall DEF packet_channel_open, Received
  <2>2. CASE Received("OPEN")
    <3> DEFINE limit == IF m.l > PacketLimit THEN PacketLimit
                        ELSE IF m.l < PacketMin THEN PacketMin ELSE m.l
    <3>1. m.n \in 0..WindowMax /\ m.l \in Nat
      BY <2>2, Headed, OpenPacket
    <3>2. limit \in PacketMin..PacketLimit
      BY <3>1, PacketAssumption
    <3>3. PICK envok \in {TRUE} \cup {"env" \notin Failures} :
            Handler(channel_open(m.n, limit) /\ UNCHANGED <<packetvars, childvars>>,
                    IF channel_open_done(envok) THEN <<Msg("CONFIRM", BufSize)>>
                    ELSE <<Done("OPENFAIL")>>)
      BY <1>1, <2>2 DEF packet_channel_open, Received
    <3> HIDE DEF limit, m
    <3> QED
      BY <3>1, <3>2, <3>3, HandlerCall DEF Calls
  <2> QED
    BY <1>1, <2>1, <2>2 DEF packet_channel_open
<1>2. CASE packet_channel_request
  <2>0. reject => Calls \/ UNCHANGED cvars
    BY HandlerCall DEF reject
  <2>1. ASSUME NEW t, request_start(t)
        PROVE  Calls \/ UNCHANGED cvars
    <3>1. CASE reject
      BY <2>0, <3>1
    <3>2. CASE ~reject
      <4>1. PICK ok \in {TRUE} \cup {"fork" \notin Failures} :
              IF maxpacket = 0 \/ ~ok
              THEN channel_exec(ok) /\ UNCHANGED <<packetvars, sendbuf, childvars>>
              ELSE accept(/\ channel_exec(ok) /\ ChildStart
                          /\ UNCHANGED <<cin, cout, cerr, outleft>>)
        BY <2>1, <3>2 DEF request_start
      <4>2. ok \in BOOLEAN
        BY <4>1
      <4>3. channel_exec(ok) => Calls
        BY <4>2 DEF Calls
      <4> QED
        BY <4>1, <4>3, HandlerCall DEF accept
    <3> QED
      BY <3>1, <3>2
  <2>2. CASE request_pty
    <3>1. \/ reject
          \/ die("proto") /\ maxpacket = 0
          \/ accept(channel_openterminal(TRUE) /\ UNCHANGED childvars)
      BY <2>2 DEF request_pty
    <3>2. channel_openterminal(TRUE) => Calls
      BY DEF Calls
    <3>3. CASE die("proto") /\ maxpacket = 0
      BY <3>2, <3>3 DEF channel_openterminal
    <3>4. CASE accept(channel_openterminal(TRUE) /\ UNCHANGED childvars)
      BY <3>2, <3>4, HandlerCall DEF accept
    <3> QED
      BY <2>0, <3>1, <3>3, <3>4
  <2>3. ASSUME NEW t, request_other(t)
        PROVE  Calls \/ UNCHANGED cvars
    <3>1. accept(UNCHANGED <<chanvars, status, childvars>>) => Calls \/ UNCHANGED cvars
      BY HandlerCall DEF accept
    <3> QED
      BY <2>0, <2>3, <3>1 DEF request_other
  <2> QED
    BY <1>2, <2>1, <2>2, <2>3 DEF packet_channel_request
<1>3. CASE packet_channel_recv_data \/ packet_channel_recv_extendeddata
           \/ packet_channel_recv_windowadjust
  <2>1. m.n \in 0..PacketLimit
    BY <1>3, Headed, OtherPacket DEF packet_channel_recv_data, packet_channel_recv_extendeddata,
       packet_channel_recv_windowadjust
  <2>2. m.n \in 0..WindowMax
    BY <2>1, PacketAssumption, WindowAssumption
  <2>3. channel_put(m.n) \/ channel_putextended(m.n) \/ channel_incrementremotewindow(m.n)
    BY <1>3 DEF packet_channel_recv_data, packet_channel_recv_extendeddata,
       packet_channel_recv_windowadjust, Silent
  <2> HIDE DEF m
  <2> QED
    BY <2>1, <2>2, <2>3 DEF Calls
<1>4. CASE packet_channel_recv_eof
  BY <1>4 DEF packet_channel_recv_eof, Silent, Calls
<1>5. CASE packet_channel_recv_close
  <2>1. CASE maxpacket = 0
    BY <1>5, <2>1 DEF packet_channel_recv_close, Silent, Calls
  <2>2. CASE maxpacket # 0
    <3>1. Handler(/\ channel_close
                  /\ flageofsent' = TRUE /\ flagclosesent' = TRUE
                  /\ flagchanneleofreceived' = TRUE
                  /\ UNCHANGED childvars,
                  EofMsgs \o CloseMsgs)
      BY <1>5, <2>2 DEF packet_channel_recv_close
    <3> QED
      BY <3>1, HandlerCall DEF Calls
  <2> QED
    BY <2>1, <2>2
<1>6. CASE packet_global_request \/ packet_unimplemented \/ packet_kexinit
  BY <1>6, HandlerCall DEF packet_global_request, packet_unimplemented, packet_kexinit
<1>7. CASE packet_disconnect \/ process_done
  BY <1>7 DEF packet_disconnect, process_done, Calls, CallerOutcomes
<1> QED
  BY <1>1, <1>2, <1>3, <1>4, <1>5, <1>6, <1>7 DEF process
-----------------------------------------------------------------------------
(* The pipes of the child hold what they can hold. *)
LEMMA PipesStep ==
  ASSUME Pipes, ChannelInv, Next
  PROVE  Pipes'
<1> USE DEF Pipes
<1>0. CountersOK
  BY DEF ChannelInv, ChannelTypeOK
<1>1. CASE UNCHANGED <<cin, cout, cerr, outleft>>
  BY <1>1
<1>2. CASE Child
  BY <1>2, Numbers DEF Child, ChildWrite, ChildRead, ChildCloseOutput, ChildCloseInput, ChildExit
<1>3. CASE Client \/ Timeout \/ Stopped
  BY <1>1, <1>3 DEF Client, Timeout, loop_polltimeout, Stopped, vars, childvars
<1>4. CASE loop_tochild
  <2>1. PICK w \in IF child.reads /\ fd0 \in openfds
                   THEN 1..Least(len0, PipeCap - cin) ELSE {0} :
          Handler(WriteToChild(w) /\ cin' = cin + w /\ UNCHANGED packetvars
                    /\ UNCHANGED <<child, cout, cerr, outleft>>, AdjustMsgs(w))
    BY <1>4 DEF loop_tochild
  <2>2. len0 \in Nat /\ PipeCap - cin \in Nat /\ PipeCap \in Nat
    BY <1>0, Numbers, BufSizeAssumption DEF CountersOK
  <2>3. w \in 0..(PipeCap - cin)
    BY <2>1, <2>2, LeastOfTwo
  <2>4. UNCHANGED childvars \/ (cin' = cin + w /\ UNCHANGED <<cout, cerr, outleft>>)
    BY <2>1 DEF Handler
  <2> QED
    BY <2>2, <2>3, <2>4 DEF childvars
<1>5. CASE loop_from1
  <2>1. CASE ~packet_putisready
    BY <1>1, <1>5, <2>1 DEF loop_from1, childvars
  <2>2. CASE packet_putisready
    <3>1. PICK r \in IF fd1 \in openfds /\ cout > 0 /\ ReadLimit > 0
                     THEN 1..Least(cout, ReadLimit) ELSE {0} :
            Handler(channel_read(r) /\ cout' = cout - r
                      /\ UNCHANGED <<packetvars, child, cin, cerr, outleft>>,
                    IF r = 0 THEN <<>> ELSE <<Msg("DATA", r)>>)
      BY <1>5, <2>2 DEF loop_from1
    <3>2. ReadLimit \in Nat /\ cout \in Nat /\ PipeCap \in Nat
      BY <1>0, ReadLimits, Numbers
    <3>3. r \in 0..cout
      BY <3>1, <3>2, LeastOfTwo
    <3>4. UNCHANGED childvars \/ (cout' = cout - r /\ UNCHANGED <<cin, cerr, outleft>>)
      BY <3>1 DEF Handler
    <3> QED
      BY <3>2, <3>3, <3>4 DEF childvars
  <2> QED
    BY <2>1, <2>2
<1>6. CASE loop_from2
  <2>1. CASE ~packet_putisready
    BY <1>1, <1>6, <2>1 DEF loop_from2, childvars
  <2>2. CASE packet_putisready
    <3>1. PICK r \in IF cerr > 0 /\ ReadLimit > 0
                     THEN 1..Least(cerr, ReadLimit) ELSE {0} :
            Handler(channel_extendedread(r) /\ cerr' = cerr - r
                      /\ UNCHANGED <<packetvars, child, cin, cout, outleft>>,
                    IF r = 0 THEN <<>> ELSE <<Msg("EXT", r)>>)
      BY <1>6, <2>2 DEF loop_from2
    <3>2. ReadLimit \in Nat /\ cerr \in Nat /\ PipeCap \in Nat
      BY <1>0, ReadLimits, Numbers
    <3>3. r \in 0..cerr
      BY <3>1, <3>2, LeastOfTwo
    <3>4. UNCHANGED childvars \/ (cerr' = cerr - r /\ UNCHANGED <<cin, cout, outleft>>)
      BY <3>1 DEF Handler
    <3> QED
      BY <3>2, <3>3, <3>4 DEF childvars
  <2> QED
    BY <2>1, <2>2
<1>7. CASE \/ loop_break \/ loop_poll \/ loop_selfpipe \/ loop_check \/ loop_wait \/ loop_send
           \/ loop_recv \/ packet_sendall \/ packet_getall
  BY <1>1, <1>7 DEF loop_break, loop_poll, loop_selfpipe, loop_check, loop_wait, loop_send,
     loop_recv, packet_sendall, packet_getall, childvars, Handler
<1>8. CASE process
  <2> USE DEF childvars, Handler
  <2>1. CASE packet_channel_open
    BY <1>1, <2>1 DEF packet_channel_open
  <2>2. CASE packet_channel_request
    <3>1. CASE \E t \in Starts : request_start(t)
      BY <1>1, <3>1 DEF request_start, reject, accept
    <3>2. CASE request_pty
      BY <1>1, <3>2 DEF request_pty, reject, accept
    <3>3. CASE \E t \in {"window-change", "env"} : request_other(t)
      BY <1>1, <3>3 DEF request_other, reject, accept
    <3> QED
      BY <2>2, <3>1, <3>2, <3>3 DEF packet_channel_request
  <2>3. CASE packet_channel_recv_close
    BY <1>1, <2>3 DEF packet_channel_recv_close, Silent
  <2>4. CASE \/ packet_channel_recv_data \/ packet_channel_recv_extendeddata
             \/ packet_channel_recv_windowadjust \/ packet_channel_recv_eof
             \/ packet_disconnect \/ process_done
    BY <1>1, <2>4 DEF packet_channel_recv_data, packet_channel_recv_extendeddata,
       packet_channel_recv_windowadjust, packet_channel_recv_eof, packet_disconnect,
       process_done, Silent
  <2>5. CASE packet_global_request \/ packet_unimplemented \/ packet_kexinit
    BY <1>1, <2>5 DEF packet_global_request, packet_unimplemented, packet_kexinit
  <2> QED
    BY <1>8, <2>1, <2>2, <2>3, <2>4, <2>5 DEF process
<1> QED
  BY <1>2, <1>3, <1>4, <1>5, <1>6, <1>7, <1>8 DEF Next, Server
-----------------------------------------------------------------------------
(* What the client sends is a packet. *)
LEMMA ClientPackets ==
  ASSUME Client, ~ClientRecv
  PROVE  \E m \in InPackets : c2s' = Append(c2s, m) /\ UNCHANGED s2c
<1> USE Numbers, PacketAssumption DEF ClientSends
<1>0. \A t \in Requests \cup {"GLOBAL", "OPENX", "DATA", "EXT", "ADJ", "EOF", "CLOSE", "KEXINIT",
                             "NEWKEYS", "OTHER", "DISCONNECT", "HANGUP", "AUTH"},
         n \in 0..PacketLimit : Msg(t, n) \in InPackets
  BY DEF InPackets, Msg
<1>1. 0 \in 0..PacketLimit
  OBVIOUS
<1>2. CASE ClientOpen
  <2>1. \A w \in Windows, l \in Limits : [t |-> "OPEN", n |-> w, l |-> l] \in InPackets
    BY DEF InPackets
  <2>2. Done("OPENX") \in InPackets
    BY <1>0, <1>1 DEF Done
  <2> QED
    BY <1>2, <2>1, <2>2 DEF ClientOpen
<1>3. CASE ClientRequest
  <2>1. \A t \in Requests \cup {"GLOBAL"}, n \in Wants : Msg(t, n) \in InPackets
    BY <1>0
  <2> QED
    BY <1>3, <2>1 DEF ClientRequest
<1>4. CASE ClientData
  <2>1. \A t \in {"DATA", "EXT"}, n \in Sizes : Msg(t, n) \in InPackets
    BY <1>0
  <2> QED
    BY <1>4, <2>1 DEF ClientData
<1>5. CASE ClientAdjust
  <2>1. \A n \in Sizes : Msg("ADJ", n) \in InPackets
    BY <1>0
  <2> QED
    BY <1>5, <2>1 DEF ClientAdjust
<1>6. CASE ClientEof \/ ClientClose \/ ClientKexinit \/ ClientNewkeys \/ ClientOther \/ ClientHangup
  <2>1. \A t \in {"EOF", "CLOSE", "KEXINIT", "NEWKEYS", "OTHER", "DISCONNECT", "HANGUP"} :
          Done(t) \in InPackets
    BY <1>0, <1>1 DEF Done
  <2> QED
    BY <1>6, <2>1 DEF ClientEof, ClientClose, ClientKexinit, ClientNewkeys, ClientOther, ClientHangup
<1> QED
  BY <1>2, <1>3, <1>4, <1>5, <1>6 DEF Client

(* What one read brings is a part of what was sent. *)
LEMMA ReceivedPackets ==
  ASSUME Wires, packet_recv
  PROVE  Wires'
<1>1. PICK k \in 1..Len(c2s) : /\ recvbuf' = recvbuf \o SubSeq(c2s, 1, k)
                               /\ c2s' = SubSeq(c2s, k + 1, Len(c2s))
  BY DEF packet_recv, Arrived
<1>2. Len(c2s) \in Nat /\ \A i \in 1..Len(c2s) : c2s[i] \in InPackets
  BY LenProperties, ElementOfSeq DEF Wires
<1>3. SubSeq(c2s, 1, k) \in Seq(InPackets) /\ SubSeq(c2s, k + 1, Len(c2s)) \in Seq(InPackets)
  BY <1>2, SubSeqProperties
<1> QED
  BY <1>1, <1>3, ConcatProperties DEF Wires

(* Every step of the connection keeps the buffers of packets well formed. *)
LEMMA WiresStep ==
  ASSUME Wires, Next
  PROVE  Wires'
<1> USE DEF Wires
<1>1. CASE UNCHANGED <<recvbuf, c2s>>
  BY <1>1
<1>2. CASE Child \/ Timeout \/ Stopped
  BY <1>1, <1>2 DEF Child, Timeout, loop_polltimeout, Stopped, vars
<1>3. CASE Client
  <2>1. CASE ClientRecv
    BY <1>1, <1>3, <2>1 DEF Client, ClientRecv
  <2>2. CASE ~ClientRecv
    <3>1. PICK m \in InPackets : c2s' = Append(c2s, m)
      BY <1>3, <2>2, ClientPackets
    <3>2. UNCHANGED recvbuf
      BY <1>3 DEF Client
    <3> QED
      BY <3>1, <3>2, AppendProperties
  <2> QED
    BY <2>1, <2>2
<1>4. CASE \/ loop_break \/ loop_poll \/ loop_selfpipe \/ loop_tochild \/ loop_from1 \/ loop_from2
           \/ loop_check \/ loop_wait \/ loop_send \/ packet_sendall
  BY <1>1, <1>4 DEF loop_break, loop_poll, loop_selfpipe, loop_tochild, loop_from1, loop_from2,
     loop_check, loop_wait, loop_send, packet_sendall
<1>5. CASE loop_recv \/ packet_getall
  <2>1. recvbuf # <<>> => Tail(recvbuf) \in Seq(InPackets)
    BY HeadTailProperties
  <2>2. packet_recv \/ (recvbuf # <<>> /\ recvbuf' = Tail(recvbuf) /\ UNCHANGED c2s)
        \/ UNCHANGED <<recvbuf, c2s>>
    BY <1>5 DEF loop_recv, packet_getall
  <2> QED
    BY <1>1, <2>1, <2>2, ReceivedPackets
<1>6. CASE process
  <2>1. (\E t : Received(t)) \/ UNCHANGED <<recvbuf, c2s>>
    BY <1>6 DEF process, packet_channel_open, packet_channel_request, request_start, request_pty,
       request_other, packet_channel_recv_data, packet_channel_recv_extendeddata,
       packet_channel_recv_windowadjust, packet_channel_recv_eof, packet_channel_recv_close,
       packet_global_request, packet_unimplemented, packet_disconnect, packet_kexinit, process_done
  <2> QED
    BY <1>1, <2>1, Headed
<1> QED
  BY <1>2, <1>3, <1>4, <1>5, <1>6 DEF Next, Server
-----------------------------------------------------------------------------
(* The layer everything else rests on. *)
Base == Wires /\ Pipes /\ ChannelInv

(* The connection starts as the channel does, with empty buffers. *)
LEMMA BaseStart == Init => ChannelInit /\ Base
<1> SUFFICES ASSUME Init PROVE ChannelInit /\ Base
  OBVIOUS
<1>1. ChannelInit /\ ChannelInv
  BY InitInv DEF Init
<1>2. Done("AUTH") \in InPackets
  BY PacketAssumption DEF Done, Msg, InPackets
<1>3. <<Done("AUTH")>> \in Seq(InPackets) /\ <<>> \in Seq(InPackets)
  BY <1>2
<1>4. Wires
  BY <1>3 DEF Init, Wires
<1>5. Pipes
  BY Numbers DEF Init, Pipes
<1> QED
  BY <1>1, <1>4, <1>5 DEF Base

(* A step of the connection is a step of the channel or leaves it alone. *)
LEMMA ChannelStep ==
  ASSUME Base, Next
  PROVE  ChannelNext \/ UNCHANGED cvars
<1> USE DEF Base, ChannelNext
<1>1. CASE Server
  <2>1. CASE process
    BY <1>1, <2>1, ProcessCalls DEF Server
  <2>2. CASE ~process
    BY <1>1, <2>2, LoopCalls DEF Server
  <2> QED
    BY <2>1, <2>2
<1>2. CASE Timeout
  BY <1>2, LoopCalls DEF Timeout
<1>3. CASE Child \/ Client \/ Stopped
  BY <1>3 DEF Child, Client, Stopped, vars, cvars
<1> QED
  BY <1>1, <1>2, <1>3 DEF Next

(* The base invariant is kept, and with it every step is one of ChannelNext
   or a stutter. *)
LEMMA BaseStep == Base /\ [Next]_vars => Base' /\ [ChannelNext]_cvars
<1> SUFFICES ASSUME Base, [Next]_vars PROVE Base' /\ [ChannelNext]_cvars
  OBVIOUS
<1>1. CASE Next
  BY <1>1, ChannelStep, NextInv, PipesStep, WiresStep DEF Base
<1>2. CASE UNCHANGED vars
  <2>1. UNCHANGED <<cvars, recvbuf, c2s, cin, cout, cerr, outleft>>
    BY <1>2 DEF vars, cvars, childvars
  <2> QED
    BY <2>1, NextInv DEF Base, Wires, Pipes
<1> QED
  BY <1>1, <1>2

(* The base invariant holds throughout. *)
LEMMA BaseAlways == Spec => []Base
<1>1. Init => Base
  BY BaseStart
<1>2. Base /\ [Next]_vars => Base'
  BY BaseStep
<1> QED
  BY <1>1, <1>2, PTL DEF Spec

(* The connection implements the channel: the main loop and the handlers call
   the functions of channel.c in an order, and with arguments, that the channel
   alone is proved for, whatever the client sends (channel.c). *)
THEOREM SessionImplementsChannel == Spec => ChannelSpec
<1>1. Init => ChannelInit
  BY BaseStart
<1>2. Base /\ [Next]_vars => [ChannelNext]_cvars
  BY BaseStep
<1> QED
  BY <1>1, <1>2, BaseAlways, PTL DEF Spec, ChannelSpec, cvars

(* So in a connection too the window never promises what buf0 cannot take, and
   no descriptor is used after it was closed or left open. *)
THEOREM SessionKeepsChannel == Spec => [](InputFits /\ DescriptorsMatch)
  BY SessionImplementsChannel, ChannelInputFits, ChannelDescriptors, PTL
-----------------------------------------------------------------------------
(* The main loop: what was watched still holds, and no wakeup is lost. *)
Blocks == {"recv", "send", "tochild", "from1", "from2", "selfpipe"}
Places == {"top", "check", "wait", "process", "flush_status", "flush_close", "flush_process",
           "flush_rekey", "auth", "rekey"} \cup Blocks

Positions ==
    /\ watch \subseteq Blocks /\ pc \in Places
    /\ pc \in Blocks => pc \in watch

(* What poll reported of the descriptors that are still to come this round. *)
Watches ==
    /\ pc \in {"selfpipe", "tochild"} /\ "tochild" \in watch => pid > 0 /\ fd0 # NoFd
    /\ pc \in {"selfpipe", "tochild", "from1"} /\ "from1" \in watch => pid > 0 /\ fd1 # NoFd
    /\ pc \in {"selfpipe", "tochild", "from1", "from2"} /\ "from2" \in watch
          => pid > 0 /\ fd2 # NoFd

(* The child and the channel's idea of it; a child is gone only when its output is. *)
Lives ==
    /\ child \in [st : {"none", "run", "zombie", "reaped"}, reads : BOOLEAN,
                  writes : SUBSET {"out", "err"}]
    /\ pid = 0 => child.st = "none"
    /\ pid > 0 => child.st \in {"run", "zombie"}
    /\ pid < 0 => fd1 = NoFd /\ fd2 = NoFd /\ child.st \in {"none", "reaped"}

(* The handler is installed at the end of the output, before waitpid asks. *)
Installed ==
    /\ selfpipe \in {-1, 0, 1}
    /\ selfpipe # -1 => channel_iseof
    /\ selfpipe = 1 => child.st \in {"zombie", "reaped"}
    /\ pc = "wait" => selfpipe # -1
    /\ pc = "selfpipe" => selfpipe = 1
    /\ channel_iseof /\ pid > 0 /\ pc \notin {"from2", "check"} => selfpipe # -1

(* Between the draining of the self-pipe and waitpid alone may an exit be known to nobody. *)
Woken ==
    Running /\ pid > 0 /\ child.st = "zombie" /\ selfpipe = 0
        => pc \in {"tochild", "from1", "from2", "check", "wait"}

LoopInv == Positions /\ Watches /\ Lives /\ Installed /\ Woken
(* The order of the blocks. *)
LEMMA Ranks ==
  /\ Order["top"] = 0 /\ Order["selfpipe"] = 1 /\ Order["tochild"] = 2 /\ Order["from1"] = 3
  /\ Order["from2"] = 4 /\ Order["check"] = 5 /\ Order["wait"] = 5 /\ Order["send"] = 6
  /\ Order["recv"] = 7 /\ Order["process"] = 8
  BY DEF Order

(* The block that follows is the first of the later ones that poll reported;
   the check of the child and the packets come in any case. *)
IsNext(f, b, w) ==
    /\ f \in w \cup {"check", "process"}
    /\ Order[f] > Order[b]
    /\ \A x \in w \cup {"check", "process"} : Order[x] > Order[b] => Order[f] <= Order[x]

(* The block that comes next is a watched one that lies behind, or the end
   of its stage. *)
LEMMA Follows ==
  ASSUME NEW w, w \subseteq Blocks,
         NEW b \in {"top", "selfpipe", "tochild", "from1", "from2", "check", "wait", "send", "recv"}
  PROVE  IsNext(Following(b, w), b, w)
<1> DEFINE all == w \cup {"check", "process"}
           later == {x \in all : Order[x] > Order[b]}
           first(x) == x \in later /\ \A y \in later : Order[x] <= Order[y]
<1>1. \A x \in all : Order[x] \in Nat
  BY Ranks DEF Blocks
<1>2. "process" \in later
  BY Ranks
<1>3. \E x : first(x)
  <2>1. \A x \in later : x \in {"selfpipe", "tochild", "from1", "from2", "check", "send", "recv", "process"}
    BY DEF Blocks
  <2>2. CASE "selfpipe" \in later
    BY <2>1, <2>2, Ranks
  <2>3. CASE "selfpipe" \notin later /\ "tochild" \in later
    BY <2>1, <2>3, Ranks
  <2>4. CASE {"selfpipe", "tochild"} \cap later = {} /\ "from1" \in later
    BY <2>1, <2>4, Ranks
  <2>5. CASE {"selfpipe", "tochild", "from1"} \cap later = {} /\ "from2" \in later
    BY <2>1, <2>5, Ranks
  <2>6. CASE {"selfpipe", "tochild", "from1", "from2"} \cap later = {} /\ "check" \in later
    BY <2>1, <2>6, Ranks
  <2>7. CASE {"selfpipe", "tochild", "from1", "from2", "check"} \cap later = {} /\ "send" \in later
    BY <2>1, <2>7, Ranks
  <2>8. CASE /\ {"selfpipe", "tochild", "from1", "from2", "check", "send"} \cap later = {}
             /\ "recv" \in later
    BY <2>1, <2>8, Ranks
  <2>9. CASE {"selfpipe", "tochild", "from1", "from2", "check", "send", "recv"} \cap later = {}
    BY <1>2, <2>1, <2>9, Ranks
  <2> HIDE DEF later
  <2> QED
    BY <2>2, <2>3, <2>4, <2>5, <2>6, <2>7, <2>8, <2>9
<1>4. Following(b, w) = CHOOSE x \in later : \A y \in later : Order[x] <= Order[y]
  BY DEF Following
<1>5. first(Following(b, w))
  <2> HIDE DEF later
  <2> QED
    BY <1>3, <1>4
<1> QED
  BY <1>5 DEF IsNext

(* The same, block by block, for the order of main_tinysshd's loop. *)
LEMMA NextBlock ==
  ASSUME NEW w, w \subseteq Blocks
  PROVE  /\ Following("top", w) \in ({"selfpipe", "tochild", "from1", "from2"} \cap w) \cup {"check"}
         /\ Following("selfpipe", w) \in ({"tochild", "from1", "from2"} \cap w) \cup {"check"}
         /\ Following("tochild", w) \in ({"from1", "from2"} \cap w) \cup {"check"}
         /\ Following("from1", w) \in ({"from2"} \cap w) \cup {"check"}
         /\ Following("from2", w) = "check"
         /\ Following("check", w) \in ({"send", "recv"} \cap w) \cup {"process"}
         /\ Following("wait", w) \in ({"send", "recv"} \cap w) \cup {"process"}
         /\ Following("send", w) \in ({"recv"} \cap w) \cup {"process"}
         /\ Following("recv", w) = "process"
<1>0. ASSUME NEW f, NEW b, IsNext(f, b, w)
      PROVE  /\ f \in {"recv", "send", "tochild", "from1", "from2", "selfpipe", "check", "process"}
             /\ f \in w \/ f = "check" \/ f = "process"
             /\ Order[f] > Order[b]
             /\ 8 > Order[b] => Order[f] <= 8
             /\ 5 > Order[b] => Order[f] <= 5
  BY <1>0, Ranks DEF IsNext, Blocks
<1>1. Following("top", w) \in ({"selfpipe", "tochild", "from1", "from2"} \cap w) \cup {"check"}
  <2>1. IsNext(Following("top", w), "top", w)
    BY Follows
  <2> QED
    BY <1>0, <2>1, Ranks
<1>2. Following("selfpipe", w) \in ({"tochild", "from1", "from2"} \cap w) \cup {"check"}
  <2>1. IsNext(Following("selfpipe", w), "selfpipe", w)
    BY Follows
  <2> QED
    BY <1>0, <2>1, Ranks
<1>3. Following("tochild", w) \in ({"from1", "from2"} \cap w) \cup {"check"}
  <2>1. IsNext(Following("tochild", w), "tochild", w)
    BY Follows
  <2> QED
    BY <1>0, <2>1, Ranks
<1>4. Following("from1", w) \in ({"from2"} \cap w) \cup {"check"}
  <2>1. IsNext(Following("from1", w), "from1", w)
    BY Follows
  <2> QED
    BY <1>0, <2>1, Ranks
<1>5. Following("from2", w) = "check"
  <2>1. IsNext(Following("from2", w), "from2", w)
    BY Follows
  <2> QED
    BY <1>0, <2>1, Ranks
<1>6. Following("check", w) \in ({"send", "recv"} \cap w) \cup {"process"}
  <2>1. IsNext(Following("check", w), "check", w)
    BY Follows
  <2> QED
    BY <1>0, <2>1, Ranks
<1>7. Following("wait", w) \in ({"send", "recv"} \cap w) \cup {"process"}
  <2>1. IsNext(Following("wait", w), "wait", w)
    BY Follows
  <2> QED
    BY <1>0, <2>1, Ranks
<1>8. Following("send", w) \in ({"recv"} \cap w) \cup {"process"}
  <2>1. IsNext(Following("send", w), "send", w)
    BY Follows
  <2> QED
    BY <1>0, <2>1, Ranks
<1>9. Following("recv", w) = "process"
  <2>1. IsNext(Following("recv", w), "recv", w)
    BY Follows
  <2> QED
    BY <1>0, <2>1, Ranks
<1> QED
  BY <1>1, <1>2, <1>3, <1>4, <1>5, <1>6, <1>7, <1>8, <1>9
(* The end of the output, once reached, is final. *)
LEMMA EofStays ==
  ASSUME ChannelInv, [ChannelNext]_cvars, channel_iseof
  PROVE  channel_iseof'
<1>1. /\ maxpacket # 0 => maxpacket' = maxpacket
      /\ <<pid, pid'>> \in {<<0, 0>>, <<0, 1>>, <<0, -1>>, <<1, 1>>, <<1, -1>>, <<-1, -1>>}
  BY OneLifeStep
<1>2. pid' # 0 /\ (pid = -1 => pid' = -1) /\ maxpacket' # 0
  BY <1>1 DEF channel_iseof
<1>3. ASSUME pid' # -1 PROVE fd1' = NoFd /\ fd2' = NoFd
  <2>1. pid = 1 /\ fd1 = NoFd /\ fd2 = NoFd
    BY <1>1, <1>2, <1>3 DEF channel_iseof
  <2>2. CASE UNCHANGED cvars
    BY <2>1, <2>2 DEF cvars, chanvars, fds
  <2>3. CASE ChannelNext
    BY <2>1, <2>3 DEF ChannelNext, Calls, die, channel_open, channel_openterminal, channel_exec,
       channel_put, channel_putextended, channel_puteof, CloseInput, channel_close, channel_read,
       channel_extendedread, WriteToChild, channel_write, channel_waitnohang,
       channel_incrementremotewindow, chanvars, fds, NoFd
  <2> QED
    BY <2>2, <2>3
<1> QED
  BY <1>2, <1>3 DEF channel_iseof

(* What a packet does to the child: nothing, its start, or the end of a channel
   that never had one. *)
SameChild == UNCHANGED <<pid, fd1, fd2, child>>
Started ==
    /\ pid = 0 /\ pid' = 1 /\ fd1' # NoFd
    /\ child' = [st |-> "run", reads |-> TRUE,
                 writes |-> IF flagterminal THEN {"out"} ELSE {"out", "err"}]
Abandoned == pid = 0 /\ pid' = -1 /\ fd1' = NoFd /\ fd2' = NoFd /\ UNCHANGED child

(* What a handler can do to the loop's own state and to the child. *)
LEMMA ProcessEffect ==
  ASSUME pid \in {-1, 0, 1}, process
  PROVE  /\ pc = "process" /\ UNCHANGED selfpipe
         /\ \/ pc' = "top" /\ watch' = {}
            \/ pc' \in {"process", "flush_process", "flush_rekey"} /\ UNCHANGED watch
         /\ SameChild \/ Started \/ Abandoned
<1> USE DEF Received, Stay, loopvars, childvars, chanvars, fds, die
<1>1. CASE packet_channel_open
  BY <1>1 DEF packet_channel_open, Handler, channel_open, SameChild
<1>2. ASSUME NEW t, request_start(t)
      PROVE  /\ pc = "process" /\ UNCHANGED <<selfpipe, pc, watch>>
             /\ SameChild \/ Started \/ Abandoned
  <2>0. reject => SameChild
    BY DEF reject, Handler, SameChild
  <2>1. PICK ok \in {TRUE, "fork" \notin Failures} :
          \/ reject
          \/ channel_exec(ok) /\ (maxpacket = 0 \/ ~ok) /\ UNCHANGED childvars
          \/ accept(channel_exec(ok) /\ ChildStart /\ UNCHANGED <<cin, cout, cerr, outleft>>) /\ maxpacket # 0 /\ ok
    BY <1>2 DEF request_start
  <2>2. pc = "process" /\ UNCHANGED <<selfpipe, pc, watch>>
    BY <1>2 DEF request_start
  <2>3. CASE channel_exec(ok) /\ (maxpacket = 0 \/ ~ok) /\ UNCHANGED childvars
    BY <2>2, <2>3 DEF channel_exec, SameChild
  <2>4. CASE accept(channel_exec(ok) /\ ChildStart /\ UNCHANGED <<cin, cout, cerr, outleft>>) /\ maxpacket # 0 /\ ok
    <3>1. (die("full") /\ UNCHANGED childvars) \/ (channel_exec(ok) /\ ChildStart)
      BY <2>4 DEF accept, Handler
    <3>2. channel_exec(ok) /\ ChildStart => (pid # 0 /\ die("proto")) \/ Started
      BY <2>4 DEF channel_exec, ChildStart, channel_fork, channel_forkpty, Started, NoFd
    <3>3. CASE die("full") /\ UNCHANGED childvars
      BY <2>2, <3>3 DEF SameChild
    <3>4. pid = 0 \/ reject
      BY <1>2 DEF request_start
    <3> QED
      BY <2>0, <2>2, <3>1, <3>2, <3>3, <3>4
  <2> QED
    BY <2>0, <2>1, <2>2, <2>3, <2>4
<1>3. CASE request_pty
  BY <1>3 DEF request_pty, reject, accept, Handler, channel_openterminal, SameChild
<1>4. ASSUME NEW t, request_other(t)
      PROVE  pc = "process" /\ UNCHANGED <<selfpipe, pc, watch>> /\ SameChild
  BY <1>4 DEF request_other, reject, accept, Handler, SameChild
<1>5. CASE packet_channel_request
  BY <1>2, <1>3, <1>4, <1>5 DEF packet_channel_request, request_pty
<1>6. CASE packet_channel_recv_data
  BY <1>6 DEF packet_channel_recv_data, Silent, channel_put, SameChild
<1>7. CASE packet_channel_recv_extendeddata
  BY <1>7 DEF packet_channel_recv_extendeddata, Silent, channel_putextended, SameChild
<1>8. CASE packet_channel_recv_windowadjust
  BY <1>8 DEF packet_channel_recv_windowadjust, Silent, channel_incrementremotewindow, SameChild
<1>9. CASE packet_channel_recv_eof
  BY <1>9 DEF packet_channel_recv_eof, Silent, channel_puteof, CloseInput, SameChild
<1>10. CASE packet_channel_recv_close
  <2>1. /\ pc = "process" /\ UNCHANGED <<selfpipe, pc, watch, child>>
        /\ die("full") \/ channel_close
    BY <1>10 DEF packet_channel_recv_close, Silent, Handler
  <2>2. channel_close => UNCHANGED <<pid, fd1, fd2>> \/ (pid = 0 /\ pid' = -1 /\ fd1' = NoFd /\ fd2' = NoFd)
    BY DEF channel_close, channel_puteof
  <2> QED
    BY <2>1, <2>2 DEF SameChild, Abandoned
<1>11. CASE packet_global_request \/ packet_unimplemented \/ packet_kexinit
  BY <1>11 DEF packet_global_request, packet_unimplemented, packet_kexinit, Handler, SameChild
<1>12. CASE packet_disconnect \/ process_done
  BY <1>12 DEF packet_disconnect, process_done, SameChild
<1> QED
  BY <1>1, <1>5, <1>6, <1>7, <1>8, <1>9, <1>10, <1>11, <1>12 DEF process
(* The loop's invariant holds before the first round. *)
LEMMA LoopStart == Init => LoopInv
<1> SUFFICES ASSUME Init PROVE LoopInv
  OBVIOUS
<1> USE DEF Init, ChannelInit, channel_init
<1>1. child \in [st : {"none", "run", "zombie", "reaped"}, reads : BOOLEAN,
                 writes : SUBSET {"out", "err"}]
  OBVIOUS
<1>2. Positions /\ Watches
  BY DEF Positions, Watches, Places, Blocks
<1>3. Lives
  BY <1>1 DEF Lives
<1>4. Installed /\ Woken
  BY DEF Installed, Woken, channel_iseof
<1> QED
  BY <1>2, <1>3, <1>4 DEF LoopInv

(* A handler keeps the loop's invariant. *)
LEMMA LoopProcess ==
  ASSUME Base, LoopInv, Next, process
  PROVE  LoopInv'
<1> USE DEF LoopInv
<1>1. pid \in {-1, 0, 1} /\ (maxpacket = 0 => pid = 0)
  BY DEF Base, ChannelInv, ChannelTypeOK, CountersOK, BeforeChild
<1>2. channel_iseof => channel_iseof'
  BY ChannelStep, EofStays DEF Base
<1>3. /\ pc = "process" /\ UNCHANGED selfpipe
      /\ \/ pc' = "top" /\ watch' = {}
         \/ pc' \in {"process", "flush_process", "flush_rekey"} /\ UNCHANGED watch
      /\ SameChild \/ Started \/ Abandoned
  BY <1>1, ProcessEffect
<1>4. Positions' /\ Watches'
  BY <1>3 DEF Positions, Watches, Places, Blocks
<1>5. Lives'
  <2>1. CASE SameChild
    BY <2>1 DEF SameChild, Lives
  <2>2. CASE Started
    <3>1. child' \in [st : {"none", "run", "zombie", "reaped"}, reads : BOOLEAN,
                      writes : SUBSET {"out", "err"}]
          /\ child'.st = "run" /\ pid' = 1
      BY <2>2 DEF Started
    <3> QED
      BY <3>1 DEF Lives
  <2>3. CASE Abandoned
    BY <2>3 DEF Abandoned, Lives
  <2> QED
    BY <1>3, <2>1, <2>2, <2>3
<1>6. \/ child'.st = child.st
      \/ child'.st = "run" /\ selfpipe = -1
  <2>1. CASE Started
    BY <2>1 DEF Started, Installed, channel_iseof
  <2>2. CASE SameChild \/ Abandoned
    BY <2>2 DEF SameChild, Abandoned
  <2> QED
    BY <1>3, <2>1, <2>2
<1>7. channel_iseof' /\ pid' > 0 => channel_iseof /\ pid > 0
  <2>1. CASE SameChild
    BY <1>1, <2>1 DEF SameChild, channel_iseof
  <2>2. CASE Started
    BY <2>2 DEF Started, channel_iseof
  <2>3. CASE Abandoned
    BY <2>3 DEF Abandoned
  <2> QED
    BY <1>3, <2>1, <2>2, <2>3
<1>8. Installed'
  BY <1>2, <1>3, <1>6, <1>7 DEF Installed
<1>9. Woken'
  <2> SUFFICES ASSUME status' = "run", pid' > 0, child'.st = "zombie", selfpipe' = 0 PROVE FALSE
    BY DEF Woken, Running
  <2>1. child.st = "zombie" /\ selfpipe = 0
    BY <1>3, <1>6
  <2>2. pid > 0
    BY <1>1, <2>1 DEF Lives
  <2>3. status = "run"
    BY <1>3 DEF Next, Server, Timeout, loop_polltimeout, Child, Client, Stopped, vars
  <2> QED
    BY <1>3, <2>1, <2>2, <2>3 DEF Woken, Running
<1> QED
  BY <1>4, <1>5, <1>8, <1>9
(* The blocks before the check of the child. *)
LEMMA LoopEarly ==
  ASSUME Base, LoopInv, Next, status = "run",
         loop_break \/ loop_poll \/ loop_polltimeout \/ loop_selfpipe \/ loop_tochild
         \/ loop_from1 \/ loop_from2
  PROVE  LoopInv'
<1> USE DEF LoopInv
<1>1. pid \in {-1, 0, 1} /\ (maxpacket = 0 => pid = 0)
  BY DEF Base, ChannelInv, ChannelTypeOK, CountersOK, BeforeChild
<1>2. channel_iseof => channel_iseof'
  BY ChannelStep, EofStays DEF Base
<1>3. watch \subseteq Blocks /\ pc \in Places
  BY DEF Positions
<1>4. CASE loop_break
  <2>1. /\ UNCHANGED <<maxpacket, pid, fd0, fd1, fd2, child, selfpipe, pc, watch>> /\ status' # "run"
    BY <1>4 DEF loop_break, die, chanvars, fds, childvars, loopvars
  <2> QED
    BY <2>1 DEF Positions, Watches, Lives, Installed, Woken, channel_iseof, Running
<1>5. CASE loop_poll
  <2>1. UNCHANGED <<maxpacket, pid, fd0, fd1, fd2, child, selfpipe, status>> /\ pc = "top"
        /\ watch' = Ready /\ pc' = Following("top", Ready)
    BY <1>5 DEF loop_poll, chanvars, fds, childvars
  <2>2. /\ Ready \subseteq Blocks
        /\ "tochild" \in Ready => channel_writeisready
        /\ "from1" \in Ready => channel_readisready
        /\ "from2" \in Ready => channel_extendedreadisready
        /\ "selfpipe" \in Ready => selfpipe > 0
    BY DEF Ready, Watched, Blocks, Pollable
  <2>3. pc' \in ({"selfpipe", "tochild", "from1", "from2"} \cap Ready) \cup {"check"}
    BY <2>1, <2>2, NextBlock
  <2>4. Positions'
    BY <2>1, <2>2, <2>3 DEF Positions, Places, Blocks
  <2>5. Watches'
    <3>1. "tochild" \in Ready => pid > 0 /\ fd0 # NoFd
      BY <2>2 DEF channel_writeisready
    <3>2. "from1" \in Ready => pid > 0 /\ fd1 # NoFd
      BY <1>1, <2>2 DEF channel_readisready, Lives
    <3>3. "from2" \in Ready => pid > 0 /\ fd2 # NoFd
      BY <1>1, <2>2 DEF channel_extendedreadisready, Lives
    <3> QED
      BY <2>1, <3>1, <3>2, <3>3 DEF Watches
  <2>6. Installed'
    BY <2>1, <2>2, <2>3 DEF Installed, channel_iseof
  <2>7. Lives' /\ Woken'
    BY <2>1 DEF Lives, Woken, Running
  <2> QED
    BY <2>4, <2>5, <2>6, <2>7
<1>6. CASE loop_polltimeout
  <2>1. UNCHANGED <<maxpacket, pid, fd0, fd1, fd2, child, selfpipe, status>> /\ pc' = "check" /\ watch' = {}
    BY <1>6 DEF loop_polltimeout, chanvars, fds, childvars
  <2> QED
    BY <2>1 DEF Positions, Watches, Lives, Installed, Woken, channel_iseof, Places, Blocks
<1>7. CASE loop_selfpipe
  <2>1. /\ UNCHANGED <<maxpacket, pid, fd0, fd1, fd2, child, watch, status>> /\ pc = "selfpipe"
        /\ selfpipe = 1 /\ selfpipe' = 0
        /\ pc' \in ({"tochild", "from1", "from2"} \cap watch) \cup {"check"}
    BY <1>3, <1>7, NextBlock DEF loop_selfpipe, Continue, chanvars, fds, childvars, Installed
  <2>2. Positions' /\ Watches'
    BY <2>1 DEF Positions, Watches, Places, Blocks
  <2> QED
    BY <2>1, <2>2 DEF Lives, Installed, Woken, channel_iseof
<1>8. CASE loop_tochild
  <2>1. /\ pc = "tochild" /\ UNCHANGED <<selfpipe, watch>>
        /\ pc' \in ({"from1", "from2"} \cap watch) \cup {"check"}
        /\ UNCHANGED <<maxpacket, pid, fd1, fd2, child>>
    <3>1. \E w : die("full") \/ WriteToChild(w)
      BY <1>8, HandlerCalls DEF loop_tochild
    <3>2. UNCHANGED <<maxpacket, pid, fd1, fd2>>
      BY <3>1 DEF die, WriteToChild, channel_write, chanvars, fds
    <3> QED
      BY <1>3, <1>8, <3>2, NextBlock DEF loop_tochild, Continue, Handler, childvars
  <2>2. Positions' /\ Watches'
    BY <2>1 DEF Positions, Watches, Places, Blocks
  <2> QED
    BY <2>1, <2>2 DEF Lives, Installed, Woken, channel_iseof
<1>9. CASE loop_from1
  <2>1. /\ pc = "from1" /\ UNCHANGED <<selfpipe, watch>>
        /\ pc' \in ({"from2"} \cap watch) \cup {"check"}
        /\ UNCHANGED <<maxpacket, pid, fd0, fd2, child>>
        /\ fd1' \in {fd1, NoFd}
    <3>1. \E r : die("full") \/ channel_read(r) \/ UNCHANGED chanvars
      BY <1>9, HandlerCalls DEF loop_from1
    <3>2. UNCHANGED <<maxpacket, pid, fd0, fd2>> /\ fd1' \in {fd1, NoFd}
      BY <3>1 DEF die, channel_read, chanvars, fds
    <3> QED
      BY <1>3, <1>9, <3>2, NextBlock DEF loop_from1, Continue, Handler, childvars
  <2>2. Positions' /\ Watches'
    BY <2>1 DEF Positions, Watches, Places, Blocks
  <2>3. Lives'
    BY <1>1, <2>1 DEF Lives
  <2>4. Installed' /\ Woken'
    BY <1>2, <2>1 DEF Installed, Woken
  <2> QED
    BY <2>2, <2>3, <2>4
<1>10. CASE loop_from2
  <2>1. /\ pc = "from2" /\ UNCHANGED <<selfpipe, watch>> /\ pc' = "check"
        /\ UNCHANGED <<maxpacket, pid, fd0, fd1, child>>
        /\ fd2' \in {fd2, NoFd}
    <3>1. \E r : die("full") \/ channel_extendedread(r) \/ UNCHANGED chanvars
      BY <1>10, HandlerCalls DEF loop_from2
    <3>2. UNCHANGED <<maxpacket, pid, fd0, fd1>> /\ fd2' \in {fd2, NoFd}
      BY <3>1 DEF die, channel_extendedread, chanvars, fds
    <3> QED
      BY <1>3, <1>10, <3>2, NextBlock DEF loop_from2, Continue, Handler, childvars
  <2>2. Positions' /\ Watches'
    BY <2>1 DEF Positions, Watches, Places, Blocks
  <2>3. Lives'
    BY <1>1, <2>1 DEF Lives
  <2>4. Installed' /\ Woken'
    BY <1>2, <2>1 DEF Installed, Woken
  <2> QED
    BY <2>2, <2>3, <2>4
<1> QED
  BY <1>4, <1>5, <1>6, <1>7, <1>8, <1>9, <1>10
(* The child is reaped only at the end of its output. *)
LEMMA Reaps ==
  ASSUME Base, LoopInv, status = "run", loop_wait
  PROVE  /\ pc = "wait" /\ channel_iseof /\ UNCHANGED <<maxpacket, fd0, fd1, fd2, selfpipe, watch>>
         /\ pc' \in ({"send", "recv"} \cap watch) \cup {"process", "flush_status"}
         /\ \/ status' = "full" /\ UNCHANGED <<pid, child>>
            \/ status' = "run" /\ UNCHANGED <<pid, child>> /\ ~(pid > 0 /\ child.st = "zombie")
            \/ /\ status' = "run" /\ pid = 1 /\ child.st = "zombie"
               /\ pid' = -1 /\ child' = [child EXCEPT !.st = "reaped"]
<1> USE DEF LoopInv
<1>1. pid \in {-1, 0, 1} /\ (maxpacket = 0 => pid = 0) /\ watch \subseteq Blocks
  BY DEF Base, ChannelInv, ChannelTypeOK, CountersOK, BeforeChild, Positions
<1>2. pc = "wait" /\ UNCHANGED <<selfpipe, watch>> /\ channel_iseof
  BY DEF loop_wait, Continue, Installed
<1>3. pc' \in ({"send", "recv"} \cap watch) \cup {"process", "flush_status"}
  BY <1>1, NextBlock DEF loop_wait, Continue
<1>4. CASE pid > 0 /\ child.st = "zombie"
  <2>1. \/ die("full") /\ UNCHANGED childvars
        \/ channel_waitnohang /\ child' = [child EXCEPT !.st = "reaped"]
    BY <1>4 DEF loop_wait, Handler
  <2> QED
    BY <1>1, <1>2, <1>3, <1>4, <2>1 DEF die, channel_waitnohang, chanvars, fds, childvars
<1>5. CASE ~(pid > 0 /\ child.st = "zombie")
  BY <1>2, <1>3, <1>5 DEF loop_wait, chanvars, fds, childvars
<1> QED
  BY <1>4, <1>5

(* The blocks from there on. *)
LEMMA LoopLate ==
  ASSUME Base, LoopInv, Next, status = "run",
         loop_check \/ loop_wait \/ loop_send \/ loop_recv \/ packet_sendall \/ packet_getall
  PROVE  LoopInv'
<1> USE DEF LoopInv
<1>1. pid \in {-1, 0, 1} /\ (maxpacket = 0 => pid = 0)
  BY DEF Base, ChannelInv, ChannelTypeOK, CountersOK, BeforeChild
<1>2. watch \subseteq Blocks /\ pc \in Places
  BY DEF Positions
<1>3. CASE loop_check
  <2>1. UNCHANGED <<maxpacket, pid, fd0, fd1, fd2, child, status, watch>> /\ pc = "check"
    BY <1>3 DEF loop_check, Continue, chanvars, fds, childvars
  <2>2. CASE channel_iseof
    <3>1. pc' = "wait" /\ selfpipe' = IF selfpipe = -1 THEN 0 ELSE selfpipe
      BY <1>3, <2>2 DEF loop_check
    <3>2. Positions' /\ Watches' /\ Lives'
      BY <2>1, <3>1 DEF Positions, Watches, Places, Blocks, Lives
    <3>3. Installed' /\ Woken'
      BY <2>1, <2>2, <3>1 DEF Installed, Woken, channel_iseof
    <3> QED
      BY <3>2, <3>3
  <2>3. CASE ~channel_iseof
    <3>1. pc' \in ({"send", "recv"} \cap watch) \cup {"process"} /\ UNCHANGED selfpipe
      BY <1>2, <1>3, <2>3, NextBlock DEF loop_check, Continue
    <3>2. selfpipe = -1
      BY <2>3 DEF Installed
    <3>3. Positions' /\ Watches' /\ Lives'
      BY <2>1, <3>1 DEF Positions, Watches, Places, Blocks, Lives
    <3>4. Installed' /\ Woken'
      BY <2>1, <2>3, <3>1, <3>2 DEF Installed, Woken, channel_iseof
    <3> QED
      BY <3>3, <3>4
  <2> QED
    BY <2>2, <2>3
<1>4. CASE loop_wait
  <2>1. /\ pc = "wait" /\ channel_iseof /\ UNCHANGED <<maxpacket, fd0, fd1, fd2, selfpipe, watch>>
        /\ pc' \in ({"send", "recv"} \cap watch) \cup {"process", "flush_status"}
    BY <1>4, Reaps
  <2>2. \/ status' = "full" /\ UNCHANGED <<pid, child>>
        \/ status' = "run" /\ UNCHANGED <<pid, child>> /\ ~(pid > 0 /\ child.st = "zombie")
        \/ /\ status' = "run" /\ pid = 1 /\ child.st = "zombie"
           /\ pid' = -1 /\ child' = [child EXCEPT !.st = "reaped"]
    BY <1>4, Reaps
  <2>3. Positions' /\ Watches'
    BY <2>1 DEF Positions, Watches, Places, Blocks
  <2>4. CASE status' = "full" /\ UNCHANGED <<pid, child>>
    BY <2>1, <2>3, <2>4 DEF Lives, Installed, Woken, Running, channel_iseof
  <2>5. CASE status' = "run" /\ UNCHANGED <<pid, child>> /\ ~(pid > 0 /\ child.st = "zombie")
    BY <2>1, <2>3, <2>5 DEF Lives, Installed, Woken, Running, channel_iseof
  <2>6. CASE /\ status' = "run" /\ pid = 1 /\ child.st = "zombie"
             /\ pid' = -1 /\ child' = [child EXCEPT !.st = "reaped"]
    <3>1. child' \in [st : {"none", "run", "zombie", "reaped"}, reads : BOOLEAN,
                      writes : SUBSET {"out", "err"}]
          /\ child'.st = "reaped"
      BY <2>6 DEF Lives
    <3>2. fd1 = NoFd /\ fd2 = NoFd
      BY <2>1, <2>6 DEF channel_iseof
    <3>3. Lives' /\ Woken'
      BY <2>1, <2>6, <3>1, <3>2 DEF Lives, Woken
    <3>4. Installed'
      BY <2>1, <2>6, <3>1 DEF Installed, channel_iseof
    <3> QED
      BY <2>3, <3>3, <3>4
  <2> QED
    BY <2>2, <2>4, <2>5, <2>6
<1>5. CASE loop_send \/ loop_recv \/ packet_sendall \/ packet_getall
  <2>1. UNCHANGED <<maxpacket, pid, fd0, fd1, fd2, child, selfpipe>>
    BY <1>5 DEF loop_send, loop_recv, packet_sendall, packet_getall, die, chanvars, fds, childvars
  <2>2. /\ pc \in {"send", "recv", "flush_status", "flush_close", "flush_process", "flush_rekey",
                   "auth", "rekey"}
        /\ watch' = watch \/ watch' = {}
        /\ \/ pc' = pc /\ UNCHANGED watch
           \/ pc' \in ({"send", "recv"} \cap watch) \cup {"process", "flush_close", "rekey"} /\ UNCHANGED watch
           \/ pc' = "top"
    <3>1. CASE loop_send
      BY <1>2, <3>1, NextBlock DEF loop_send, Continue
    <3>2. CASE loop_recv
      BY <1>2, <3>2, NextBlock DEF loop_recv, Continue
    <3>3. CASE packet_sendall
      BY <1>2, <3>3, NextBlock DEF packet_sendall, AfterFlush, loopvars
    <3>4. CASE packet_getall
      BY <3>4 DEF packet_getall, Awaited, loopvars
    <3> QED
      BY <1>5, <3>1, <3>2, <3>3, <3>4
  <2>3. Positions'
    BY <2>2 DEF Positions, Places, Blocks
  <2>4. Watches' /\ Lives'
    BY <2>1, <2>2 DEF Watches, Lives
  <2>5. Installed'
    BY <2>1, <2>2 DEF Installed, channel_iseof
  <2>6. Woken'
    BY <2>1, <2>2 DEF Woken, Running
  <2> QED
    BY <2>3, <2>4, <2>5, <2>6
<1> QED
  BY <1>3, <1>4, <1>5

(* The child moves by itself. *)
LEMMA LoopChild ==
  ASSUME LoopInv, Child
  PROVE  LoopInv'
<1> USE DEF LoopInv
<1>1. UNCHANGED <<maxpacket, pid, fd0, fd1, fd2, watch, pc, status>>
  BY DEF Child, chanvars, fds, loopvars
<1>2. Positions' /\ Watches'
  BY <1>1 DEF Positions, Watches
<1> DEFINE T == [st : {"none", "run", "zombie", "reaped"}, reads : BOOLEAN,
                 writes : SUBSET {"out", "err"}]
<1>3. child \in T
  BY DEF Lives
<1>4. CASE ChildExit
  <2>1. /\ child.st = "run" /\ child' = [child EXCEPT !.st = "zombie"]
        /\ selfpipe' = IF selfpipe = -1 THEN -1 ELSE selfpipe + 1
    BY <1>4 DEF ChildExit
  <2>2. child' \in T /\ child'.st = "zombie"
    BY <1>3, <2>1
  <2>3. Lives'
    BY <1>1, <2>1, <2>2 DEF Lives
  <2>4. Installed' /\ Woken'
    BY <1>1, <2>1, <2>2 DEF Installed, Woken, channel_iseof
  <2> QED
    BY <1>2, <2>3, <2>4
<1>5. CASE ~ChildExit
  <2>1. UNCHANGED selfpipe
    BY <1>5 DEF Child
  <2>2. child' \in T /\ child'.st = child.st
    <3>1. CASE UNCHANGED child
      BY <1>3, <3>1
    <3>2. CASE ChildCloseInput
      BY <1>3, <3>2 DEF ChildCloseInput
    <3>3. CASE \E s \in {"out", "err"} : ChildCloseOutput(s)
      <4>1. PICK s \in {"out", "err"}, r \in BOOLEAN :
              child' = [child EXCEPT !.writes = @ \ {s}, !.reads = r]
        BY <1>3, <3>3 DEF ChildCloseOutput
      <4> QED
        BY <1>3, <4>1
    <3> QED
      BY <1>5, <3>1, <3>2, <3>3 DEF Child, ChildWrite, ChildRead
  <2>3. Lives'
    BY <1>1, <2>2 DEF Lives
  <2>4. Installed' /\ Woken'
    BY <1>1, <2>1, <2>2 DEF Installed, Woken, channel_iseof, Running
  <2> QED
    BY <1>2, <2>3, <2>4
<1> QED
  BY <1>4, <1>5
(* So does every step that leaves the channel, the loop and the child
   alone. *)
LEMMA LoopSame ==
  ASSUME LoopInv, UNCHANGED <<chanvars, status, loopvars, selfpipe, child>>
  PROVE  LoopInv'
<1>1. UNCHANGED <<maxpacket, pid, fd0, fd1, fd2, status, pc, watch, selfpipe, child>>
  BY DEF chanvars, fds, loopvars
<1>2. Positions' /\ Watches' /\ Lives'
  BY <1>1 DEF LoopInv, Positions, Watches, Lives
<1>3. Installed' /\ Woken'
  BY <1>1 DEF LoopInv, Installed, Woken, Running, channel_iseof
<1> QED
  BY <1>2, <1>3 DEF LoopInv

(* Every step of the connection keeps the loop's invariant. *)
LEMMA LoopStep == Base /\ LoopInv /\ [Next]_vars => LoopInv'
<1> SUFFICES ASSUME Base, LoopInv, [Next]_vars PROVE LoopInv'
  OBVIOUS
<1>1. CASE UNCHANGED vars \/ Client \/ Stopped
  BY <1>1, LoopSame DEF vars, Client, Stopped, childvars
<1>2. CASE Next /\ (Server \/ Timeout)
  BY <1>2, LoopProcess, LoopEarly, LoopLate DEF Server, Timeout
<1>3. CASE Child
  BY <1>3, LoopChild
<1> QED
  BY <1>1, <1>2, <1>3 DEF Next

(* The loop's invariant holds throughout. *)
LEMMA LoopAlways == Spec => [](Base /\ LoopInv)
<1>1. Init => LoopInv
  BY LoopStart
<1>2. Base /\ LoopInv /\ [Next]_vars => LoopInv'
  BY LoopStep
<1> QED
  BY <1>1, <1>2, BaseAlways, PTL DEF Spec

(* A descriptor that poll reported is still there, and so is the child, when
   the loop comes to use it, whatever the blocks in between have closed
   (main_tinysshd.c, the blocks after poll). *)
THEOREM WatchesStillHold == Spec => []WatchesHold
<1>1. LoopInv => WatchesHold
  BY DEF LoopInv, Positions, Blocks, Watches, WatchesHold
<1> QED
  BY <1>1, LoopAlways, PTL

(* The loop never sleeps in poll when the output is at its end and the child
   has exited, wherever the exit fell (main_tinysshd.c, trigger and "check
   child"). *)
THEOREM NoWakeupIsLost == Spec => []NoLostWakeup
<1>1. LoopInv => NoLostWakeup
  <2> SUFFICES ASSUME LoopInv, Running, pc = "top", Ready = {}, channel_iseof, pid > 0
               PROVE  child.st = "run"
    BY DEF NoLostWakeup
  <2>1. selfpipe \in {0, 1}
    BY DEF LoopInv, Installed
  <2>2. selfpipe = 0
    <3>1. "selfpipe" \in Watched
      BY <2>1 DEF Watched
    <3>2. ~Pollable("selfpipe")
      BY <3>1 DEF Ready
    <3> QED
      BY <2>1, <3>2 DEF Pollable
  <2> QED
    BY <2>2 DEF LoopInv, Woken, Lives
<1> QED
  BY <1>1, LoopAlways, PTL
-----------------------------------------------------------------------------
(* The end of the channel: the terminal, the input of the child, the CLOSE. *)

\* A terminal's master is open before the start, and for as long as somebody
\* holds the slave; the CLOSE ends a channel that has no child.
Terminals ==
    /\ flagterminal /\ pid = 0 => "master" \in openfds
    /\ flagterminal /\ pid > 0 /\ child.reads => "master" \in openfds
    /\ flagchanneleofreceived => pid # 0

\* What InputNotCutShort and CloseIsFinal say of one step.
InputWhole == fd0 # NoFd /\ fd0' = NoFd /\ status' = "run" /\ child.reads => cin' - cin = len0
NoneAfterClose ==
    flagchanneleofreceived => /\ ~(pid = 0 /\ pid' = 1)
                              /\ ~(~flagterminal /\ flagterminal')
EndsWell == Terminals' /\ InputWhole /\ NoneAfterClose

\* A step that leaves the descriptors of the input, the mode and the child alone.
LEMMA EndsSame ==
  ASSUME Terminals, UNCHANGED <<pid, flagterminal, fd0, child, flagchanneleofreceived>>,
         flagterminal => openfds' = openfds
  PROVE  EndsWell
<1>1. Terminals'
  BY DEF Terminals
<1> QED
  BY <1>1 DEF EndsWell, InputWhole, NoneAfterClose

\* A handler that finds no room for its packets leaves everything alone.
LEMMA EndsFull ==
  ASSUME Terminals, die("full"), UNCHANGED <<packetvars, childvars>>
  PROVE  EndsWell
  BY EndsSame DEF die, chanvars, fds, packetvars, childvars

(* The blocks that call no read or write of the channel leave the terminal
   and the input of the child alone. *)
LEMMA EndsLoop ==
  ASSUME Terminals,
         \/ loop_break \/ loop_poll \/ loop_polltimeout \/ loop_selfpipe \/ loop_check
         \/ loop_send \/ loop_recv \/ packet_sendall \/ packet_getall
  PROVE  EndsWell
<1>1. UNCHANGED <<pid, flagterminal, fd0, openfds, child, flagchanneleofreceived>>
  BY DEF loop_break, loop_poll, loop_polltimeout, loop_selfpipe, loop_check, loop_send, loop_recv,
     packet_sendall, packet_getall, die, chanvars, fds, childvars, packetvars
<1> QED
  BY <1>1, EndsSame

(* Reading the output of the child leaves a terminal's master open. *)
LEMMA EndsOutput ==
  ASSUME Base, Terminals, loop_from1 \/ loop_from2
  PROVE  EndsWell
<1>1. ASSUME NEW r, channel_read(r) \/ channel_extendedread(r)
      PROVE  UNCHANGED <<pid, flagterminal, fd0>> /\ (flagterminal => openfds' = openfds)
  <2>1. CASE channel_read(r)
    BY <2>1 DEF channel_read, die, chanvars, fds
  <2>2. CASE channel_extendedread(r)
    BY <2>2 DEF channel_extendedread, die, chanvars, fds
  <2> QED
    BY <1>1, <2>1, <2>2
<1>2. \/ die("full") /\ UNCHANGED <<packetvars, childvars>>
      \/ UNCHANGED <<chanvars, packetvars, childvars>>
      \/ \E r : (channel_read(r) \/ channel_extendedread(r)) /\ UNCHANGED <<packetvars, child>>
  BY DEF loop_from1, loop_from2, Handler
<1>3. CASE UNCHANGED <<chanvars, packetvars, childvars>>
  BY <1>3, EndsSame DEF chanvars, fds, packetvars, childvars
<1>4. CASE \E r : (channel_read(r) \/ channel_extendedread(r)) /\ UNCHANGED <<packetvars, child>>
  BY <1>1, <1>4, EndsSame DEF packetvars
<1> QED
  BY <1>2, <1>3, <1>4, EndsFull

\* The input: what is written, or why nothing is.
LEMMA EndsInput ==
  ASSUME Base, Terminals, loop_tochild
  PROVE  EndsWell
<1>0. /\ len0 \in Nat /\ PipeCap - cin \in Nat /\ cin \in Nat /\ pid \in {-1, 0, 1}
      /\ NamesFitMode /\ DescriptorsMatch /\ DescriptorsOK /\ flagterminal \in BOOLEAN
  BY Numbers, BufSizeAssumption
     DEF Base, Pipes, ChannelInv, ChannelTypeOK, CountersOK, FlagsOK
<1>1. PICK w \in IF child.reads /\ fd0 \in openfds
                 THEN 1..Least(len0, PipeCap - cin) ELSE {0} :
        Handler(WriteToChild(w) /\ cin' = cin + w /\ UNCHANGED packetvars
                  /\ UNCHANGED <<child, cout, cerr, outleft>>, AdjustMsgs(w))
  BY DEF loop_tochild
<1>2. CASE die("full") /\ UNCHANGED <<packetvars, childvars>>
  BY <1>2, EndsFull
<1>3. CASE WriteToChild(w) /\ cin' = cin + w /\ UNCHANGED packetvars /\ UNCHANGED child
  <2>1. CASE maxpacket = 0 \/ pid <= 0 \/ fd0 = NoFd
    BY <1>3, <2>1, EndsSame DEF WriteToChild, die, chanvars, fds, packetvars
  <2>2. CASE ~(maxpacket = 0 \/ pid <= 0 \/ fd0 = NoFd)
    <3>1. channel_write(w)
      BY <1>3, <2>2 DEF WriteToChild
    <3>2. UNCHANGED <<pid, flagterminal, child, flagchanneleofreceived>>
      BY <1>3, <3>1 DEF channel_write, packetvars
    <3>3. CASE UNCHANGED <<fd0, openfds>>
      BY <3>2, <3>3, EndsSame
    <3>4. CASE w = 0 /\ fd0' = NoFd /\ openfds' = openfds \ {fd0}
      <4>1. ~(child.reads /\ fd0 \in openfds)
        BY <1>0, <1>1, <3>4, LeastOfTwo
      <4>2. CASE ~child.reads
        BY <1>0, <2>2, <3>2, <3>4, <4>2 DEF EndsWell, InputWhole, NoneAfterClose, Terminals
      <4>3. CASE child.reads
        <5>1. fd0 \notin openfds
          BY <4>1, <4>3
        <5>2. flagterminal
          BY <1>0, <2>2, <5>1 DEF DescriptorsMatch
        <5>3. fd0 = "master"
          BY <1>0, <2>2, <5>2 DEF NamesFitMode, DescriptorsOK
        <5> QED
          BY <1>0, <2>2, <4>3, <5>1, <5>2, <5>3 DEF Terminals
      <4> QED
        BY <4>2, <4>3
    <3>5. CASE w # 0 /\ len0 - w = 0 /\ ~flagterminal
      <4>1. w \in Nat
        BY <1>0, <1>1, <3>5, LeastOfTwo
      <4>2. cin' - cin = len0
        BY <1>0, <1>3, <3>5, <4>1
      <4> QED
        BY <3>2, <3>5, <4>2 DEF EndsWell, InputWhole, NoneAfterClose, Terminals
    <3> QED
      BY <3>1, <3>3, <3>4, <3>5 DEF channel_write, WriteInput, CloseInput
  <2> QED
    BY <2>1, <2>2
<1> QED
  BY <1>1, <1>2, <1>3 DEF Handler

(* Collecting the child's status leaves the terminal as it is. *)
LEMMA EndsWait ==
  ASSUME Base, LoopInv, Terminals, status = "run", loop_wait
  PROVE  EndsWell
<1>1. UNCHANGED <<fd0, openfds, flagterminal, flagchanneleofreceived>>
      /\ (child'.reads <=> child.reads)
      /\ (UNCHANGED <<pid, child>> \/ (pid' = -1 /\ pid = 1))
  <2>1. UNCHANGED <<fd0, openfds, flagterminal, flagchanneleofreceived>>
    BY DEF loop_wait, Handler, channel_waitnohang, die, chanvars, fds, packetvars
  <2>2. \/ UNCHANGED <<pid, child>>
        \/ pid = 1 /\ pid' = -1 /\ child' = [child EXCEPT !.st = "reaped"]
    BY Reaps
  <2>3. child' = [child EXCEPT !.st = "reaped"] => child'.reads = child.reads
    BY DEF LoopInv, Lives
  <2> QED
    BY <2>1, <2>2, <2>3
<1>2. CASE UNCHANGED <<pid, child>>
  BY <1>1, <1>2, EndsSame
<1>3. CASE pid' = -1 /\ pid = 1
  BY <1>1, <1>3 DEF EndsWell, InputWhole, NoneAfterClose, Terminals
<1> QED
  BY <1>1, <1>2, <1>3

(* What the child does to its own ends of the pipes or the pty. *)
LEMMA EndsChild ==
  ASSUME LoopInv, Terminals, Child
  PROVE  EndsWell
<1>1. UNCHANGED <<pid, flagterminal, fd0, openfds, flagchanneleofreceived>>
  BY DEF Child, chanvars, fds, packetvars
<1>2. child'.reads => child.reads
  <2>1. CASE UNCHANGED child
    BY <2>1
  <2>2. CASE ChildExit \/ ChildCloseInput
    BY <2>2 DEF ChildExit, ChildCloseInput, LoopInv, Lives
  <2>3. CASE \E s \in {"out", "err"} : ChildCloseOutput(s)
    BY <2>3 DEF ChildCloseOutput, LoopInv, Lives
  <2>4. \/ UNCHANGED child \/ ChildExit \/ ChildCloseInput
        \/ \E s \in {"out", "err"} : ChildCloseOutput(s)
    BY DEF Child, ChildWrite, ChildRead
  <2> QED
    BY <2>1, <2>2, <2>3, <2>4
<1> QED
  BY <1>1, <1>2 DEF EndsWell, InputWhole, NoneAfterClose, Terminals
\* The handlers of packets that touch neither the input nor the terminal.
LEMMA EndsQuiet ==
  ASSUME Terminals,
         \/ packet_channel_open \/ packet_channel_recv_data \/ packet_channel_recv_extendeddata
         \/ packet_channel_recv_windowadjust \/ packet_global_request \/ packet_unimplemented
         \/ packet_disconnect \/ packet_kexinit \/ process_done
         \/ (\E t \in {"window-change", "env"} : request_other(t)) \/ reject
  PROVE  EndsWell
<1> USE EndsSame DEF die, chanvars, fds, packetvars, childvars
<1>1. CASE packet_channel_open
  BY <1>1 DEF packet_channel_open, Handler, channel_open
<1>2. CASE packet_channel_recv_data
  BY <1>2 DEF packet_channel_recv_data, Silent, channel_put
<1>3. CASE packet_channel_recv_extendeddata
  BY <1>3 DEF packet_channel_recv_extendeddata, Silent, channel_putextended
<1>4. CASE packet_channel_recv_windowadjust
  BY <1>4 DEF packet_channel_recv_windowadjust, Silent, channel_incrementremotewindow
<1>5. CASE packet_global_request \/ packet_unimplemented \/ packet_kexinit \/ reject
  BY <1>5 DEF packet_global_request, packet_unimplemented, packet_kexinit, reject, Handler
<1>6. CASE packet_disconnect \/ process_done
  BY <1>6 DEF packet_disconnect, process_done
<1>7. ASSUME NEW t, request_other(t)
      PROVE  UNCHANGED <<pid, flagterminal, fd0, openfds, child, flagchanneleofreceived>>
  BY <1>7 DEF request_other, reject, accept, Handler
<1> QED
  BY <1>1, <1>2, <1>3, <1>4, <1>5, <1>6, <1>7

\* The start of the child, with the input that an early EOF leaves it.
LEMMA EndsStart ==
  ASSUME Base, Terminals, NEW t, request_start(t)
  PROVE  EndsWell
<1>0. pid = 0 => fd0 = NoFd
  BY DEF Base, ChannelInv, BeforeChild
<1>1. CASE pid # 0
  BY <1>1, EndsQuiet DEF request_start
<1>2. CASE pid = 0
  <2>1. PICK ok \in {TRUE, "fork" \notin Failures} :
          \/ reject
          \/ channel_exec(ok) /\ (maxpacket = 0 \/ ~ok) /\ UNCHANGED <<packetvars, childvars>>
          \/ accept(channel_exec(ok) /\ ChildStart /\ UNCHANGED <<cin, cout, cerr, outleft>>)
             /\ maxpacket # 0 /\ ok
    BY DEF request_start
  <2>2. CASE channel_exec(ok) /\ (maxpacket = 0 \/ ~ok) /\ UNCHANGED <<packetvars, childvars>>
    BY <2>2, EndsSame DEF channel_exec, die, chanvars, fds, packetvars, childvars
  <2>3. CASE accept(channel_exec(ok) /\ ChildStart /\ UNCHANGED <<cin, cout, cerr, outleft>>)
             /\ maxpacket # 0 /\ ok
    <3>1. \/ die("full") /\ UNCHANGED <<packetvars, childvars>>
          \/ channel_exec(ok) /\ UNCHANGED packetvars
      BY <2>3 DEF accept, Handler
    <3>2. CASE channel_exec(ok) /\ UNCHANGED packetvars
      <4>1. /\ pid' = 1 /\ UNCHANGED <<flagterminal, flagchanneleofreceived>>
            /\ flagterminal => openfds' = openfds \ {"slave"}
        BY <1>2, <2>3, <3>2 DEF channel_exec, channel_forkpty, packetvars
      <4>2. Terminals'
        BY <1>2, <4>1 DEF Terminals
      <4> QED
        BY <1>0, <1>2, <4>1, <4>2 DEF EndsWell, InputWhole, NoneAfterClose, Terminals
    <3> QED
      BY <3>1, <3>2, EndsFull
  <2> QED
    BY <2>1, <2>2, <2>3, EndsQuiet
<1> QED
  BY <1>1, <1>2

(* A pty request opens the master, and only before the start. *)
LEMMA EndsPty ==
  ASSUME Base, Terminals, request_pty
  PROVE  EndsWell
<1>1. \/ reject
      \/ die("proto") /\ UNCHANGED <<packetvars, childvars>>
      \/ die("full") /\ UNCHANGED <<packetvars, childvars>>
      \/ channel_openterminal(TRUE) /\ UNCHANGED <<packetvars, childvars>> /\ pid = 0
  BY DEF request_pty, accept, Handler
<1>2. CASE channel_openterminal(TRUE) /\ UNCHANGED <<packetvars, childvars>> /\ pid = 0
  <2>1. CASE die("proto")
    BY <1>2, <2>1, EndsSame DEF die, chanvars, fds, packetvars, childvars
  <2>2. CASE ~die("proto")
    <3>1. /\ openfds' = openfds \cup {"master", "slave"}
          /\ UNCHANGED <<pid, fd0, child, flagchanneleofreceived>>
      BY <1>2, <2>2 DEF channel_openterminal, packetvars, childvars
    <3> QED
      BY <1>2, <3>1 DEF EndsWell, InputWhole, NoneAfterClose, Terminals
  <2> QED
    BY <2>1, <2>2
<1>3. CASE die("proto") /\ UNCHANGED <<packetvars, childvars>>
  BY <1>3, EndsSame DEF die, chanvars, fds, packetvars, childvars
<1> QED
  BY <1>1, <1>2, <1>3, EndsFull, EndsQuiet

\* EOF and CLOSE of the client: the input ends if nothing is buffered.
LEMMA EndsClose ==
  ASSUME Base, Terminals, packet_channel_recv_eof \/ packet_channel_recv_close
  PROVE  EndsWell
<1>0. /\ pid \in {-1, 0, 1} /\ len0 \in Nat /\ cin \in Nat /\ (pid = 0 => fd0 = NoFd)
      /\ (maxpacket = 0 => pid = 0)
  BY Numbers, BufSizeAssumption
     DEF Base, Pipes, ChannelInv, ChannelTypeOK, CountersOK, BeforeChild
<1>1. \/ die("full") /\ UNCHANGED <<packetvars, childvars>>
      \/ (channel_puteof \/ channel_close) /\ UNCHANGED <<packetvars, childvars>> /\ maxpacket = 0
      \/ channel_puteof /\ UNCHANGED <<packetvars, childvars>>
      \/ channel_close /\ UNCHANGED childvars /\ maxpacket # 0
  BY DEF packet_channel_recv_eof, packet_channel_recv_close, Silent, Handler
<1>2. ASSUME channel_puteof, UNCHANGED childvars,
             UNCHANGED packetvars \/ pid # 0
      PROVE  EndsWell
  <2>1. UNCHANGED <<pid, flagterminal, len0, cin, child>>
        /\ (flagterminal => openfds' = openfds)
    BY <1>2 DEF channel_puteof, CloseInput, die, chanvars, fds, childvars
  <2>2. fd0' = fd0 \/ len0 = 0
    BY <1>2 DEF channel_puteof, CloseInput, die, chanvars, fds
  <2>3. Terminals'
    BY <1>2, <2>1 DEF Terminals, packetvars
  <2> QED
    BY <1>0, <1>2, <2>1, <2>2, <2>3 DEF EndsWell, InputWhole, NoneAfterClose
<1>3. CASE channel_close /\ UNCHANGED childvars /\ maxpacket # 0
  <2>1. CASE pid > 0
    BY <1>0, <1>2, <1>3, <2>1 DEF channel_close
  <2>2. CASE pid < 0
    <3>1. UNCHANGED <<pid, flagterminal, fd0, openfds, child>>
      BY <1>0, <1>3, <2>2 DEF channel_close, chanvars, fds, childvars
    <3> QED
      BY <2>2, <3>1 DEF EndsWell, InputWhole, NoneAfterClose, Terminals
  <2>3. CASE pid = 0
    <3>1. pid' = -1 /\ flagterminal' = FALSE /\ fd0 = NoFd
      BY <1>0, <1>3, <2>3 DEF channel_close
    <3> QED
      BY <3>1 DEF EndsWell, InputWhole, NoneAfterClose, Terminals
  <2> QED
    BY <1>0, <2>1, <2>2, <2>3
<1>4. CASE (channel_puteof \/ channel_close) /\ UNCHANGED <<packetvars, childvars>> /\ maxpacket = 0
  BY <1>2, <1>4 DEF channel_close
<1> QED
  BY <1>1, <1>2, <1>3, <1>4, EndsFull

(* Every step of the connection keeps the account of the end. *)
LEMMA EndsStep ==
  ASSUME Base, LoopInv, Terminals, Next
  PROVE  EndsWell
<1>1. CASE Client \/ Stopped
  BY <1>1, EndsSame DEF Client, Stopped, vars, chanvars, fds, packetvars, childvars
<1>2. CASE Child
  BY <1>2, EndsChild
<1>3. CASE Server /\ process
  BY <1>3, EndsQuiet, EndsStart, EndsPty, EndsClose DEF process, packet_channel_request
<1>4. CASE (Server /\ ~process) \/ Timeout
  BY <1>4, EndsLoop, EndsOutput, EndsInput, EndsWait DEF Server, Timeout
<1> QED
  BY <1>1, <1>2, <1>3, <1>4 DEF Next

(* That account holds throughout. *)
LEMMA EndsAlways == Spec => [](Base /\ LoopInv /\ Terminals)
<1>1. Init => Terminals
  BY DEF Init, ChannelInit, channel_init, Terminals
<1>2. Base /\ LoopInv /\ Terminals /\ [Next]_vars => Terminals'
  <2>1. UNCHANGED vars /\ Terminals => Terminals'
    BY DEF vars, chanvars, fds, packetvars, childvars, Terminals
  <2> QED
    BY <2>1, EndsStep DEF EndsWell
<1> QED
  BY <1>1, <1>2, LoopAlways, PTL DEF Spec

\* As long as somebody holds the slave of the pty the master stays open: an
\* EOF of the client does not cost the output (channel.c, channel_puteof and
\* channel_write, which close fd0 only without a terminal or on an error).
THEOREM PtyStaysOpen == Spec => []PtyKeptOpen
<1>1. Terminals => PtyKeptOpen
  BY DEF Terminals, PtyKeptOpen
<1> QED
  BY <1>1, EndsAlways, PTL

\* Once the client's CLOSE was handled there is no start and no pty any more
\* (channel.c, channel_close; main_tinysshd.c, the packets behind it).
THEOREM CloseEndsAll == Spec => CloseIsFinal
<1>1. Base /\ LoopInv /\ Terminals /\ [Next]_vars => [NoneAfterClose]_vars
  BY EndsStep DEF EndsWell
<1> QED
  BY <1>1, EndsAlways, PTL DEF Spec, CloseIsFinal, NoneAfterClose

\* The input of a child that reads is closed only when all of it was written
\* (channel.c, channel_puteof and channel_write; the buffer is flushed first).
THEOREM InputArrivesWhole == Spec => InputNotCutShort
<1>1. Base /\ LoopInv /\ Terminals /\ [Next]_vars => [InputWhole]_vars
  BY EndsStep DEF EndsWell
<1> QED
  BY <1>1, EndsAlways, PTL DEF Spec, InputNotCutShort, InputWhole
-----------------------------------------------------------------------------
(* Both ends of a connection. What one side believes is what the other believes
   plus the packets on their way. Every invariant from here on says so of some
   count or list taken over the packets of a direction, and is kept because a
   step of the connection adds packets at one end of a direction, takes one at
   the other, or moves packets between the buffers in between. First the replies
   match the requests; then the packets that end a channel come in their order,
   behind all of the output; last, the windows of both sides agree, so that no
   packet of a client that keeps to the rules is refused. *)

Packet == InPackets \cup OutPackets
Kinds == {m.t : m \in Packet}

(* The number a packet carries, a length or a window, is a natural number. *)
LEMMA PacketNumbers == \A m \in Packet : m.n \in Nat
<1>1. \A m \in OutPackets : m.n \in Nat
  BY DEF OutPackets
<1>2. \A m \in InPackets : m.n \in Nat
  <2> SUFFICES ASSUME NEW m \in InPackets PROVE m.n \in Nat
    OBVIOUS
  <2>1. m.n \in 0..WindowMax \/ m.n \in 0..PacketLimit
    BY DEF InPackets
  <2> QED
    BY <2>1, PacketAssumption, WindowAssumption
<1> QED
  BY <1>1, <1>2 DEF Packet

(* So is its share in the bytes of a type. *)
LEMMA Shares == \A m \in Packet : \A t : Share(m, t) \in Nat
  BY PacketNumbers DEF Share

-----------------------------------------------------------------------------
(* Counts over sequences. A set of numbers that holds 0, and with each
   number below n the next one, holds all of them up to n. *)
LEMMA Climb ==
  ASSUME NEW n \in Nat, NEW S, 0 \in S, \A i \in 1..n : i - 1 \in S => i \in S
  PROVE  0..n \subseteq S
<1> SUFFICES ASSUME ~(0..n \subseteq S) PROVE FALSE
  OBVIOUS
<1> DEFINE T == {i \in 0..n : i \notin S}
           R == OpToRel(<, Nat)
<1>1. IsWellFoundedOn(R, Nat)
  BY NatLessThanWellFounded
<1>2. \A x, y \in Nat : <<y, x>> \in R <=> y < x
  BY DEF OpToRel
<1>3. T \subseteq Nat /\ T # {}
  OBVIOUS
<1> HIDE DEF R, T
<1>4. PICK x \in T : \A y \in T : ~(<<y, x>> \in R)
  BY <1>1, <1>3, WFMin
<1>5. x \in 0..n /\ x \notin S /\ \A y \in T : ~(y < x)
  BY <1>2, <1>3, <1>4 DEF T
<1>6. x \in 1..n /\ x - 1 \in 0..n /\ x - 1 < x
  BY <1>5
<1>7. x - 1 \in S
  BY <1>5, <1>6 DEF T
<1> QED
  BY <1>5, <1>6, <1>7

(* The partial sums of a sequence exist, and Bytes is the last of them. *)
Summed(f, q, n, t) ==
    /\ f \in [0..n -> Nat] /\ f[0] = 0
    /\ \A i \in 1..n : f[i] = f[i - 1] + Share(q[i], t)

(* The sums of the first packets of a sequence exist as a function: no
   least position lacks one. *)
LEMMA SumsExist ==
  ASSUME NEW q \in Seq(Packet), NEW t
  PROVE  \E f : Summed(f, q, Len(q), t)
<1> DEFINE S == {n \in 0..Len(q) : \E f : Summed(f, q, n, t)}
<1>0. Len(q) \in Nat /\ \A i \in 1..Len(q) : Share(q[i], t) \in Nat
  BY Shares, LenProperties, ElementOfSeq
<1>1. 0 \in S
  <2>1. Summed([i \in 0..0 |-> 0], q, 0, t)
    BY DEF Summed
  <2> QED
    BY <1>0, <2>1
<1>2. ASSUME NEW i \in 1..Len(q), i - 1 \in S PROVE i \in S
  <2>1. PICK f : Summed(f, q, i - 1, t)
    BY <1>2
  <2> DEFINE g == [j \in 0..i |-> IF j = i THEN f[i - 1] + Share(q[i], t) ELSE f[j]]
  <2>2. f \in [0..(i - 1) -> Nat] /\ f[0] = 0
        /\ \A j \in 1..(i - 1) : f[j] = f[j - 1] + Share(q[j], t)
    BY <2>1 DEF Summed
  <2>3. g \in [0..i -> Nat]
    BY <1>0, <2>2
  <2>4. g[0] = 0 /\ \A j \in 1..i : g[j] = g[j - 1] + Share(q[j], t)
    BY <1>0, <2>2
  <2>5. Summed(g, q, i, t)
    BY <2>3, <2>4 DEF Summed
  <2> QED
    BY <1>0, <2>5
<1>3. \A i \in 1..Len(q) : i - 1 \in S => i \in S
  BY <1>2
<1> HIDE DEF S
<1>4. 0..Len(q) \subseteq S
  BY <1>0, <1>1, <1>3, Climb
<1>5. Len(q) \in S
  BY <1>0, <1>4
<1> QED
  BY <1>5 DEF S

(* Bytes is the last of those sums. *)
LEMMA BytesSum ==
  ASSUME NEW q \in Seq(Packet), NEW t
  PROVE  \E f : Summed(f, q, Len(q), t) /\ Bytes(q, t) = f[Len(q)]
<1>0. Len(q) \in Nat /\ \A i \in 1..Len(q) : Share(q[i], t) \in Nat
  BY Shares, LenProperties, ElementOfSeq
<1> DEFINE IsSum(g) == g = [i \in 0..Len(q) |-> IF i = 0 THEN 0 ELSE g[i - 1] + Share(q[i], t)]
<1>1. PICK f : Summed(f, q, Len(q), t)
  BY SumsExist
<1>2. IsSum(f)
  BY <1>0, <1>1 DEF Summed
<1> DEFINE c == CHOOSE g : IsSum(g)
<1>3. IsSum(c)
  <2> HIDE DEF IsSum
  <2> QED
    BY <1>2, Zenon
<1>4. Bytes(q, t) = c[Len(q)]
  BY Zenon DEF Bytes
<1> HIDE DEF c
<1>5. c[0] = 0 /\ \A i \in 1..Len(q) : c[i] = c[i - 1] + Share(q[i], t)
  BY <1>0, <1>3
<1>6. 0..Len(q) \subseteq {i \in 0..Len(q) : c[i] \in Nat}
  <2> DEFINE S == {i \in 0..Len(q) : c[i] \in Nat}
  <2>1. 0 \in S /\ \A i \in 1..Len(q) : i - 1 \in S => i \in S
    BY <1>0, <1>5
  <2> HIDE DEF S
  <2>2. 0..Len(q) \subseteq S
    BY <1>0, <2>1, Climb
  <2> QED
    BY <2>2 DEF S
<1>7. c \in [0..Len(q) -> Nat]
  BY <1>3, <1>6
<1> QED
  BY <1>4, <1>5, <1>7 DEF Summed
(* A sum of packets is a natural number. *)
LEMMA BytesNat ==
  ASSUME NEW q \in Seq(Packet), NEW t
  PROVE  Bytes(q, t) \in Nat
<1>1. PICK f : Summed(f, q, Len(q), t) /\ Bytes(q, t) = f[Len(q)]
  BY BytesSum
<1> QED
  BY <1>1, LenProperties DEF Summed

\* What two sequences carry one after the other is the sum.
LEMMA BytesConcat ==
  ASSUME NEW p \in Seq(Packet), NEW q \in Seq(Packet), NEW t
  PROVE  p \o q \in Seq(Packet) /\ Bytes(p \o q, t) = Bytes(p, t) + Bytes(q, t)
<1> DEFINE r == p \o q
           k == Len(p)
<1>0. /\ r \in Seq(Packet) /\ k \in Nat /\ Len(q) \in Nat /\ Len(r) = k + Len(q)
      /\ \A i \in 1..k : r[i] = p[i]
      /\ \A i \in 1..Len(q) : r[k + i] = q[i]
  BY ConcatProperties, LenProperties
<1>1. /\ \A i \in 1..k : Share(p[i], t) \in Nat
      /\ \A i \in 1..Len(q) : Share(q[i], t) \in Nat
  BY Shares, ElementOfSeq
<1> HIDE DEF r, k
<1>2. PICK f : Summed(f, r, Len(r), t) /\ Bytes(r, t) = f[Len(r)]
  BY <1>0, BytesSum
<1>3. PICK g : Summed(g, p, k, t) /\ Bytes(p, t) = g[k]
  BY BytesSum DEF k
<1>4. PICK h : Summed(h, q, Len(q), t) /\ Bytes(q, t) = h[Len(q)]
  BY BytesSum
<1>5. f[k] = g[k]
  <2> DEFINE S == {i \in 0..k : f[i] = g[i]}
  <2>1. 0 \in S
    BY <1>0, <1>2, <1>3 DEF Summed
  <2>2. ASSUME NEW i \in 1..k, i - 1 \in S PROVE i \in S
    <3>1. f[i] = f[i - 1] + Share(r[i], t)
      BY <1>0, <1>2 DEF Summed
    <3>2. g[i] = g[i - 1] + Share(p[i], t)
      BY <1>3 DEF Summed
    <3> QED
      BY <1>0, <2>2, <3>1, <3>2
  <2>3. \A i \in 1..k : i - 1 \in S => i \in S
    BY <2>2
  <2> HIDE DEF S
  <2>4. 0..k \subseteq S
    BY <1>0, <2>1, <2>3, Climb
  <2> QED
    BY <1>0, <2>4 DEF S
<1>6. f[k + Len(q)] = g[k] + h[Len(q)]
  <2> DEFINE S == {i \in 0..Len(q) : f[k + i] = g[k] + h[i]}
  <2>0. g[k] \in Nat /\ \A i \in 0..Len(q) : h[i] \in Nat
    <3>1. k \in 0..k /\ g \in [0..k -> Nat] /\ h \in [0..Len(q) -> Nat]
      BY <1>0, <1>3, <1>4 DEF Summed
    <3> QED
      BY <3>1
  <2>1. 0 \in S
    BY <1>0, <1>4, <1>5, <2>0 DEF Summed
  <2>2. ASSUME NEW i \in 1..Len(q), i - 1 \in S PROVE i \in S
    <3>1. k + i \in 1..Len(r) /\ k + (i - 1) = (k + i) - 1
      BY <1>0
    <3>2. f[k + i] = f[k + (i - 1)] + Share(r[k + i], t)
      BY <1>2, <3>1 DEF Summed
    <3>3. h[i] = h[i - 1] + Share(q[i], t)
      BY <1>4 DEF Summed
    <3>4. f[k + (i - 1)] = g[k] + h[i - 1] /\ h[i - 1] \in Nat /\ Share(q[i], t) \in Nat
      BY <1>0, <1>1, <2>0, <2>2
    <3>5. r[k + i] = q[i]
      BY <1>0
    <3> QED
      BY <2>0, <3>2, <3>3, <3>4, <3>5
  <2>3. \A i \in 1..Len(q) : i - 1 \in S => i \in S
    BY <2>2
  <2> HIDE DEF S
  <2>4. 0..Len(q) \subseteq S
    BY <1>0, <2>1, <2>3, Climb
  <2>5. Len(q) \in S
    BY <1>0, <2>4
  <2> QED
    BY <2>5 DEF S
<1>7. r \in Seq(Packet) /\ Bytes(r, t) = Bytes(p, t) + Bytes(q, t)
  BY <1>0, <1>2, <1>3, <1>4, <1>6
<1> QED
  BY <1>7 DEF r

(* The sum of no packet and of one packet. *)
LEMMA BytesFew ==
  ASSUME NEW t
  PROVE  /\ Bytes(<<>>, t) = 0
         /\ \A m \in Packet : Bytes(<<m>>, t) = Share(m, t)
<1>1. <<>> \in Seq(Packet) /\ Len(<<>>) = 0
  BY EmptySeq
<1>2. Bytes(<<>>, t) = 0
  BY <1>1, BytesSum DEF Summed
<1>3. ASSUME NEW m \in Packet PROVE Bytes(<<m>>, t) = Share(m, t)
  <2>1. <<m>> \in Seq(Packet) /\ Len(<<m>>) = 1 /\ <<m>>[1] = m
    OBVIOUS
  <2>2. PICK f : Summed(f, <<m>>, 1, t) /\ Bytes(<<m>>, t) = f[1]
    BY <2>1, BytesSum
  <2>3. f[0] = 0 /\ f[1] = f[0] + Share(m, t)
    BY <2>1, <2>2 DEF Summed
  <2> QED
    BY <2>2, <2>3, Shares
<1> QED
  BY <1>2, <1>3

\* The first packet and the rest.
LEMMA Split ==
  ASSUME NEW S, NEW q \in Seq(S), q # <<>>
  PROVE  /\ Head(q) \in S /\ Tail(q) \in Seq(S) /\ <<Head(q)>> \in Seq(S)
         /\ q = <<Head(q)>> \o Tail(q)
<1>1. Head(q) \in S /\ Tail(q) \in Seq(S) /\ Len(q) \in Nat /\ Len(q) > 0
      /\ Len(Tail(q)) = Len(q) - 1 /\ \A i \in 1..Len(Tail(q)) : Tail(q)[i] = q[i + 1]
  BY HeadTailProperties, LenProperties, EmptySeq
<1>2. Head(q) = q[1]
  OBVIOUS
<1> DEFINE r == <<Head(q)>> \o Tail(q)
<1>3. r \in Seq(S) /\ Len(r) = Len(q) /\ \A i \in 1..Len(q) : r[i] = q[i]
  BY <1>1, <1>2
<1>4. q = r
  <2> HIDE DEF r
  <2> QED
    BY <1>3, SeqEqual
<1> QED
  BY <1>1, <1>4

(* Appending one packet is joining a sequence of one. *)
LEMMA Joined ==
  ASSUME NEW S, NEW q \in Seq(S), NEW m \in S
  PROVE  Append(q, m) = q \o <<m>> /\ <<m>> \in Seq(S) /\ Append(q, m) \in Seq(S)
  OBVIOUS
-----------------------------------------------------------------------------
(* The requests and replies of a sequence, in the same way. *)
LEMMA HeardKinds == \A s \in Seq(Kinds), m \in Packet : Heard(s, m) \in Seq(Kinds)
<1> SUFFICES ASSUME NEW s \in Seq(Kinds), NEW m \in Packet PROVE Heard(s, m) \in Seq(Kinds)
  OBVIOUS
<1>1. m.t \in Kinds
  BY DEF Kinds
<1> HIDE DEF Kinds
<1> QED
  BY <1>1, AppendProperties DEF Heard

(* What is heard of a packet comes behind what was heard before it. *)
LEMMA HeardLater ==
  \A s, u \in Seq(Kinds), m \in Packet : Heard(s \o u, m) = s \o Heard(u, m)
<1> SUFFICES ASSUME NEW s \in Seq(Kinds), NEW u \in Seq(Kinds), NEW m \in Packet
             PROVE  Heard(s \o u, m) = s \o Heard(u, m)
  OBVIOUS
<1>1. m.t \in Kinds
  BY DEF Kinds
<1> HIDE DEF Kinds
<1>2. s \o u \in Seq(Kinds) /\ <<m.t>> \in Seq(Kinds)
  BY <1>1, ConcatProperties
<1>3. Append(s \o u, m.t) = (s \o u) \o <<m.t>> /\ Append(u, m.t) = u \o <<m.t>>
  BY <1>1, <1>2, AppendIsConcat
<1>4. (s \o u) \o <<m.t>> = s \o (u \o <<m.t>>)
  BY <1>2, ConcatAssociative
<1> QED
  BY <1>3, <1>4 DEF Heard

Told(f, q, n) ==
    /\ f \in [0..n -> Seq(Kinds)] /\ f[0] = <<>>
    /\ \A i \in 1..n : f[i] = Heard(f[i - 1], q[i])

(* The lists heard of the first packets of a sequence exist as a function. *)
LEMMA TellsExist ==
  ASSUME NEW q \in Seq(Packet)
  PROVE  \E f : Told(f, q, Len(q))
<1> DEFINE S == {n \in 0..Len(q) : \E f : Told(f, q, n)}
           K == Seq(Kinds)
           z == <<>>
<1>0. /\ Len(q) \in Nat /\ z \in K
      /\ \A i \in 1..Len(q), s \in K : Heard(s, q[i]) \in K
  BY HeardKinds, LenProperties, ElementOfSeq, EmptySeq
<1> HIDE DEF K, z
<1>1. 0 \in S
  <2> DEFINE g == [i \in 0..0 |-> z]
  <2>1. Told(g, q, 0)
    BY <1>0 DEF Told, K, z
  <2> QED
    BY <1>0, <2>1
<1>2. ASSUME NEW i \in 1..Len(q), i - 1 \in S PROVE i \in S
  <2>1. PICK f : Told(f, q, i - 1)
    BY <1>2
  <2> DEFINE g == [j \in 0..i |-> IF j = i THEN Heard(f[i - 1], q[i]) ELSE f[j]]
  <2>2. f \in [0..(i - 1) -> K] /\ f[0] = z
        /\ \A j \in 1..(i - 1) : f[j] = Heard(f[j - 1], q[j])
    BY <2>1 DEF Told, K, z
  <2>3. Heard(f[i - 1], q[i]) \in K
    BY <1>0, <2>2
  <2>4. g \in [0..i -> K]
    BY <1>0, <2>2, <2>3
  <2>5. g[0] = z /\ \A j \in 1..i : g[j] = Heard(g[j - 1], q[j])
    BY <1>0, <2>2
  <2>6. Told(g, q, i)
    BY <2>4, <2>5 DEF Told, K, z
  <2> QED
    BY <1>0, <2>6
<1>3. \A i \in 1..Len(q) : i - 1 \in S => i \in S
  BY <1>2
<1> HIDE DEF S
<1>4. 0..Len(q) \subseteq S
  BY <1>0, <1>1, <1>3, Climb
<1>5. Len(q) \in S
  BY <1>0, <1>4
<1> QED
  BY <1>5 DEF S

(* Talk is the last of those lists. *)
LEMMA TalkTold ==
  ASSUME NEW q \in Seq(Packet)
  PROVE  \E f : Told(f, q, Len(q)) /\ Talk(q) = f[Len(q)]
<1> DEFINE K == Seq(Kinds)
           z == <<>>
           IsTalk(g) == g = [i \in 0..Len(q) |-> IF i = 0 THEN <<>> ELSE Heard(g[i - 1], q[i])]
           c == CHOOSE g : IsTalk(g)
<1>0. /\ Len(q) \in Nat /\ z \in K
      /\ \A i \in 1..Len(q), s \in K : Heard(s, q[i]) \in K
  BY HeardKinds, LenProperties, ElementOfSeq, EmptySeq
<1>1. PICK f : Told(f, q, Len(q))
  BY TellsExist
<1> HIDE DEF K, z
<1>2. IsTalk(f)
  <2>1. f \in [0..Len(q) -> K] /\ f[0] = z
        /\ \A i \in 1..Len(q) : f[i] = Heard(f[i - 1], q[i])
    BY <1>1 DEF Told, K, z
  <2>2. \A i \in 0..Len(q) : f[i] = IF i = 0 THEN z ELSE Heard(f[i - 1], q[i])
    BY <1>0, <2>1
  <2> QED
    BY <2>1, <2>2 DEF z
<1>3. IsTalk(c)
  <2> HIDE DEF IsTalk
  <2> QED
    BY <1>2, Zenon
<1>4. Talk(q) = c[Len(q)]
  BY Zenon DEF Talk
<1> HIDE DEF c
<1>5. c[0] = z /\ \A i \in 1..Len(q) : c[i] = Heard(c[i - 1], q[i])
  <2>1. c = [i \in 0..Len(q) |-> IF i = 0 THEN z ELSE Heard(c[i - 1], q[i])]
    BY <1>3 DEF z
  <2> QED
    BY <1>0, <2>1
<1> HIDE DEF IsTalk
<1>6. \A i \in 0..Len(q) : c[i] \in K
  <2> DEFINE S == {i \in 0..Len(q) : c[i] \in K}
  <2>1. 0 \in S /\ \A i \in 1..Len(q) : i - 1 \in S => i \in S
    BY <1>0, <1>5
  <2> HIDE DEF S
  <2>2. 0..Len(q) \subseteq S
    BY <1>0, <2>1, Climb
  <2> QED
    BY <2>2 DEF S
<1>7. c \in [0..Len(q) -> K]
  BY <1>3, <1>6 DEF IsTalk
<1> QED
  BY <1>4, <1>5, <1>7 DEF Told, K, z

(* Talk lists types of packets. *)
LEMMA TalkKinds ==
  ASSUME NEW q \in Seq(Packet)
  PROVE  Talk(q) \in Seq(Kinds)
<1>1. PICK f : Told(f, q, Len(q)) /\ Talk(q) = f[Len(q)]
  BY TalkTold
<1>2. f \in [0..Len(q) -> Seq(Kinds)] /\ Len(q) \in 0..Len(q)
  BY <1>1, LenProperties DEF Told
<1> QED
  BY <1>1, <1>2

(* Talk of two sequences joined is the two talks joined. *)
LEMMA TalkConcat ==
  ASSUME NEW p \in Seq(Packet), NEW q \in Seq(Packet)
  PROVE  Talk(p \o q) = Talk(p) \o Talk(q)
<1> DEFINE r == p \o q
           k == Len(p)
           K == Seq(Kinds)
           z == <<>>
           Then(s, u) == s \o u
<1>0. /\ r \in Seq(Packet) /\ k \in Nat /\ Len(q) \in Nat /\ Len(r) = k + Len(q)
      /\ \A i \in 1..k : r[i] = p[i]
      /\ \A i \in 1..Len(q) : r[k + i] = q[i] /\ q[i] \in Packet
  BY ConcatProperties, LenProperties, ElementOfSeq
<1>1. /\ \A s \in K : Then(s, z) = s
      /\ \A s, u \in K, m \in Packet : Heard(Then(s, u), m) = Then(s, Heard(u, m))
  BY HeardLater, ConcatEmptySeq
<1> HIDE DEF r, k
<1>2. PICK f : Told(f, r, Len(r)) /\ Talk(r) = f[Len(r)]
  BY <1>0, TalkTold
<1>3. PICK g : Told(g, p, k) /\ Talk(p) = g[k]
  BY TalkTold DEF k
<1>4. PICK h : Told(h, q, Len(q)) /\ Talk(q) = h[Len(q)]
  BY TalkTold
<1>5. /\ f[0] = z /\ \A i \in 1..Len(r) : f[i] = Heard(f[i - 1], r[i])
      /\ g[0] = z /\ \A i \in 1..k : g[i] = Heard(g[i - 1], p[i])
      /\ h[0] = z /\ \A i \in 1..Len(q) : h[i] = Heard(h[i - 1], q[i])
      /\ g \in [0..k -> K] /\ h \in [0..Len(q) -> K]
  BY <1>2, <1>3, <1>4 DEF Told
<1> HIDE DEF K, z, Then
<1>6. f[k] = g[k]
  <2> DEFINE S == {i \in 0..k : f[i] = g[i]}
  <2>1. 0 \in S
    BY <1>0, <1>5
  <2>2. ASSUME NEW i \in 1..k, i - 1 \in S PROVE i \in S
    <3>1. f[i] = Heard(f[i - 1], r[i]) /\ r[i] = p[i]
      BY <1>0, <1>5
    <3> QED
      BY <1>0, <1>5, <2>2, <3>1
  <2>3. \A i \in 1..k : i - 1 \in S => i \in S
    BY <2>2
  <2> HIDE DEF S
  <2>4. 0..k \subseteq S
    BY <1>0, <2>1, <2>3, Climb
  <2> QED
    BY <1>0, <2>4 DEF S
<1>7. f[k + Len(q)] = Then(g[k], h[Len(q)])
  <2> DEFINE S == {i \in 0..Len(q) : f[k + i] = Then(g[k], h[i])}
  <2>0. g[k] \in K /\ \A i \in 0..Len(q) : h[i] \in K
    <3>1. k \in 0..k
      BY <1>0
    <3> QED
      BY <1>5, <3>1
  <2>1. 0 \in S
    BY <1>0, <1>1, <1>5, <1>6, <2>0
  <2>2. ASSUME NEW i \in 1..Len(q), i - 1 \in S PROVE i \in S
    <3>1. k + i \in 1..Len(r) /\ k + (i - 1) = (k + i) - 1
      BY <1>0
    <3>2. f[k + i] = Heard(f[k + (i - 1)], q[i]) /\ q[i] \in Packet
      BY <1>0, <1>5, <3>1
    <3>3. f[k + (i - 1)] = Then(g[k], h[i - 1]) /\ h[i - 1] \in K
      BY <1>0, <2>0, <2>2
    <3> QED
      BY <1>1, <1>5, <2>0, <3>2, <3>3
  <2>3. \A i \in 1..Len(q) : i - 1 \in S => i \in S
    BY <2>2
  <2> HIDE DEF S
  <2>4. 0..Len(q) \subseteq S
    BY <1>0, <2>1, <2>3, Climb
  <2>5. Len(q) \in S
    BY <1>0, <2>4
  <2> QED
    BY <2>5 DEF S
<1>8. Talk(r) = Then(Talk(p), Talk(q))
  BY <1>0, <1>2, <1>3, <1>4, <1>7
<1> QED
  BY <1>8 DEF r, Then

(* Talk of no packet and of one packet. *)
LEMMA TalkFew ==
  /\ Talk(<<>>) = <<>>
  /\ \A m \in Packet : Talk(<<m>>) = IF Replying(m) THEN <<m.t>> ELSE <<>>
<1>1. <<>> \in Seq(Packet) /\ Len(<<>>) = 0
  BY EmptySeq
<1>2. Talk(<<>>) = <<>>
  BY <1>1, TalkTold DEF Told
<1>3. ASSUME NEW m \in Packet
      PROVE  Talk(<<m>>) = IF Replying(m) THEN <<m.t>> ELSE <<>>
  <2>1. <<m>> \in Seq(Packet) /\ Len(<<m>>) = 1 /\ <<m>>[1] = m
    OBVIOUS
  <2>2. PICK f : Told(f, <<m>>, 1) /\ Talk(<<m>>) = f[1]
    BY <2>1, TalkTold
  <2>3. f[0] = <<>> /\ f[1] = Heard(f[0], <<m>>[1])
    <3>1. f[0] = <<>> /\ \A i \in 1..1 : f[i] = Heard(f[i - 1], <<m>>[i])
      BY <2>2 DEF Told
    <3>2. 1 \in 1..1 /\ 1 - 1 = 0
      OBVIOUS
    <3> HIDE <2>1
    <3> QED
      BY <3>1, <3>2
  <2>4. Talk(<<m>>) = Heard(<<>>, m)
    BY <2>1, <2>2, <2>3
  <2>5. Append(<<>>, m.t) = <<m.t>>
    OBVIOUS
  <2> QED
    BY <2>4, <2>5 DEF Heard
<1> QED
  BY <1>2, <1>3
-----------------------------------------------------------------------------
(* How the packets move. Those on their way to one side change at the ends
   only: the buffers in between pass them on. *)
OutWires == sendbuf \in Seq(OutPackets) /\ s2c \in Seq(OutPackets)

(* A sequence is its first k members and the rest. *)
LEMMA Cut ==
  ASSUME NEW S, NEW q \in Seq(S), NEW k \in 1..Len(q)
  PROVE  /\ SubSeq(q, 1, k) \in Seq(S) /\ SubSeq(q, k + 1, Len(q)) \in Seq(S)
         /\ SubSeq(q, 1, k) \o SubSeq(q, k + 1, Len(q)) = q
<1>1. Len(q) \in Nat /\ \A i \in 1..Len(q) : q[i] \in S
  BY LenProperties, ElementOfSeq
<1>2. SubSeq(q, 1, k) \in Seq(S) /\ SubSeq(q, k + 1, Len(q)) \in Seq(S)
  BY <1>1, SubSeqProperties
<1>3. SubSeq(q, 1, k) \o SubSeq(q, k + 1, Len(q)) = SubSeq(q, 1, Len(q))
  BY <1>1, ConcatAdjacentSubSeq
<1> QED
  BY <1>1, <1>2, <1>3, SubSeqFull

\* packet_send and packet_sendall pass packets on to the transport.
LEMMA SendPasses ==
  ASSUME OutWires, packet_send
  PROVE  OutWires' /\ ToClient' = ToClient
<1> USE DEF OutWires, ToClient
<1>1. CASE UNCHANGED <<sendbuf, s2c>>
  BY <1>1
<1>2. CASE ~UNCHANGED <<sendbuf, s2c>>
  <2>1. Len(sendbuf) \in Nat /\ Len(s2c) \in Nat
    BY LenProperties
  <2>2. PICK k \in 1..Least(Len(sendbuf), NetCap - Len(s2c)) :
          /\ s2c' = s2c \o SubSeq(sendbuf, 1, k)
          /\ sendbuf' = SubSeq(sendbuf, k + 1, Len(sendbuf))
    BY <1>2 DEF packet_send
  <2>3. k \in 1..Len(sendbuf)
    <3>1. NetCap - Len(s2c) \in Int /\ Len(sendbuf) \in Int
      BY <2>1, Numbers
    <3>2. Least(Len(sendbuf), NetCap - Len(s2c)) <= Len(sendbuf)
      BY <3>1, LeastOfTwo
    <3>3. Least(Len(sendbuf), NetCap - Len(s2c)) \in Int
      BY <3>1 DEF Least
    <3> QED
      BY <2>1, <2>2, <3>2, <3>3
  <2>4. /\ SubSeq(sendbuf, 1, k) \in Seq(OutPackets) /\ sendbuf' \in Seq(OutPackets)
        /\ SubSeq(sendbuf, 1, k) \o sendbuf' = sendbuf
    BY <2>2, <2>3, Cut
  <2>5. s2c' \in Seq(OutPackets)
    BY <2>2, <2>4, ConcatProperties
  <2>6. (s2c \o SubSeq(sendbuf, 1, k)) \o sendbuf' = s2c \o (SubSeq(sendbuf, 1, k) \o sendbuf')
    BY <2>4, ConcatAssociative
  <2> QED
    BY <2>2, <2>4, <2>5, <2>6
<1> QED
  BY <1>1, <1>2

(* A packet that moves from sendbuf to the network leaves the direction as
   it is. *)
LEMMA HeadPasses ==
  ASSUME OutWires, sendbuf # <<>>, s2c' = Append(s2c, Head(sendbuf)), sendbuf' = Tail(sendbuf)
  PROVE  OutWires' /\ ToClient' = ToClient
<1> USE DEF OutWires, ToClient
<1>1. /\ Head(sendbuf) \in OutPackets /\ Tail(sendbuf) \in Seq(OutPackets)
      /\ <<Head(sendbuf)>> \in Seq(OutPackets) /\ sendbuf = <<Head(sendbuf)>> \o Tail(sendbuf)
  BY Split
<1>2. s2c' = s2c \o <<Head(sendbuf)>> /\ s2c' \in Seq(OutPackets)
  BY <1>1, Joined
<1> QED
  BY <1>1, <1>2, ConcatAssociative

\* The server puts packets behind all others; the client takes the first.
LEMMA PutBehind ==
  ASSUME OutWires, NEW msgs \in Seq(OutPackets), sendbuf' = sendbuf \o msgs, s2c' = s2c
  PROVE  OutWires' /\ ToClient' = ToClient \o msgs
  BY ConcatProperties, ConcatAssociative DEF OutWires, ToClient

(* The client takes the first packet of the direction. *)
LEMMA ClientTakes ==
  ASSUME OutWires, ClientRecv, UNCHANGED sendbuf
  PROVE  /\ OutWires' /\ Head(s2c) \in OutPackets
         /\ ToClient = <<Head(s2c)>> \o ToClient'
<1> USE DEF OutWires, ToClient
<1>1. s2c # <<>> /\ s2c' = Tail(s2c)
  BY DEF ClientRecv
<1>2. /\ Head(s2c) \in OutPackets /\ Tail(s2c) \in Seq(OutPackets)
      /\ <<Head(s2c)>> \in Seq(OutPackets) /\ s2c = <<Head(s2c)>> \o Tail(s2c)
  BY <1>1, Split
<1> QED
  BY <1>1, <1>2, ConcatAssociative

\* The same towards the server.
LEMMA RecvPasses ==
  ASSUME Wires, packet_recv
  PROVE  ToServer' = ToServer
<1> USE DEF Wires, ToServer
<1>1. PICK k \in 1..Len(c2s) : /\ recvbuf' = recvbuf \o SubSeq(c2s, 1, k)
                               /\ c2s' = SubSeq(c2s, k + 1, Len(c2s))
  BY DEF packet_recv, Arrived
<1>2. /\ SubSeq(c2s, 1, k) \in Seq(InPackets) /\ c2s' \in Seq(InPackets)
      /\ SubSeq(c2s, 1, k) \o c2s' = c2s
  BY <1>1, Cut
<1>3. (recvbuf \o SubSeq(c2s, 1, k)) \o c2s' = recvbuf \o (SubSeq(c2s, 1, k) \o c2s')
  BY <1>2, ConcatAssociative
<1> QED
  BY <1>1, <1>2, <1>3

(* A handler takes the first packet of the other direction. *)
LEMMA ServerTakes ==
  ASSUME Wires, recvbuf # <<>>, recvbuf' = Tail(recvbuf), c2s' = c2s
  PROVE  Head(recvbuf) \in InPackets /\ ToServer = <<Head(recvbuf)>> \o ToServer'
<1> USE DEF Wires, ToServer
<1>1. /\ Head(recvbuf) \in InPackets /\ Tail(recvbuf) \in Seq(InPackets)
      /\ <<Head(recvbuf)>> \in Seq(InPackets) /\ recvbuf = <<Head(recvbuf)>> \o Tail(recvbuf)
  BY Split
<1> QED
  BY <1>1, ConcatAssociative

(* The client puts a packet behind the last of its direction. *)
LEMMA ClientPuts ==
  ASSUME Wires, NEW m \in InPackets, c2s' = Append(c2s, m), UNCHANGED recvbuf
  PROVE  ToServer' = ToServer \o <<m>>
<1>1. c2s' = c2s \o <<m>> /\ <<m>> \in Seq(InPackets)
  BY Joined DEF Wires
<1> QED
  BY <1>1, ConcatAssociative DEF Wires, ToServer

(* Each direction is a sequence of packets. *)
LEMMA Directions ==
  /\ Wires => ToServer \in Seq(InPackets)
  /\ OutWires => ToClient \in Seq(OutPackets)
  /\ Seq(InPackets) \subseteq Seq(Packet) /\ Seq(OutPackets) \subseteq Seq(Packet)
<1>1. Seq(InPackets) \subseteq Seq(Packet) /\ Seq(OutPackets) \subseteq Seq(Packet)
  BY SeqMonotonic DEF Packet
<1> QED
  BY <1>1, ConcatProperties DEF Wires, OutWires, ToServer, ToClient
-----------------------------------------------------------------------------
(* What the server puts on the wire. *)
Plain == {m \in OutPackets : m.t \notin Replies}

(* Packets that answer no request are packets of the server. *)
LEMMA PlainOut == Seq(Plain) \subseteq Seq(OutPackets) /\ <<>> \in Seq(Plain)
<1>1. Plain \subseteq OutPackets
  BY DEF Plain
<1> QED
  BY <1>1, SeqMonotonic, EmptySeq

(* Which types answer no request. *)
LEMMA PlainPackets ==
  ASSUME NEW t \in {"EOF", "STATUS", "CLOSE", "CONFIRM", "OPENFAIL", "OPENXFAIL", "DATA", "EXT",
                    "ADJ", "KEX", "UNIMPL"},
         NEW n \in Nat
  PROVE  Msg(t, n) \in Plain /\ <<Msg(t, n)>> \in Seq(Plain)
<1>1. Msg(t, n) \in OutPackets
  BY DEF Msg, OutPackets, Farewells, Rank
<1>2. Msg(t, n) \in Plain
  BY <1>1 DEF Msg, Plain, Replies
<1> QED
  BY <1>2

\* Packets that are no replies say nothing.
LEMMA PlainTalk ==
  ASSUME NEW q \in Seq(Plain)
  PROVE  Talk(q) = <<>>
<1> DEFINE z == <<>>
<1>0. q \in Seq(Packet) /\ Len(q) \in Nat
  BY PlainOut, Directions, LenProperties
<1>1. \A i \in 1..Len(q) : ~Replying(q[i])
  <2> SUFFICES ASSUME NEW i \in 1..Len(q) PROVE ~Replying(q[i])
    OBVIOUS
  <2>1. q[i] \in Plain
    BY ElementOfSeq
  <2> QED
    BY <2>1 DEF Plain, OutPackets, Replying, Requests, Starts, Farewells, Rank
<1>2. PICK f : Told(f, q, Len(q)) /\ Talk(q) = f[Len(q)]
  BY <1>0, TalkTold
<1>3. f[0] = z /\ \A i \in 1..Len(q) : f[i] = f[i - 1]
  <2>1. f[0] = z /\ \A i \in 1..Len(q) : f[i] = Heard(f[i - 1], q[i])
    BY <1>2 DEF Told
  <2> QED
    BY <1>1, <2>1 DEF Heard
<1> DEFINE S == {i \in 0..Len(q) : f[i] = z}
<1> HIDE DEF z
<1>4. 0 \in S /\ \A i \in 1..Len(q) : i - 1 \in S => i \in S
  BY <1>0, <1>3
<1> HIDE DEF S
<1>5. 0..Len(q) \subseteq S
  BY <1>0, <1>4, Climb
<1>6. Len(q) \in S
  BY <1>0, <1>5
<1> QED
  BY <1>2, <1>6 DEF S, z

(* The packets that end a channel are among them. *)
LEMMA Closings ==
  /\ EofMsgs \in Seq(Plain) /\ StatusMsgs \in Seq(Plain) /\ CloseMsgs \in Seq(Plain)
  /\ EofMsgs \o StatusMsgs \in Seq(Plain) /\ EofMsgs \o CloseMsgs \in Seq(Plain)
<1>1. EofMsgs \in Seq(Plain) /\ StatusMsgs \in Seq(Plain) /\ CloseMsgs \in Seq(Plain)
  BY PlainPackets, PlainOut DEF EofMsgs, StatusMsgs, CloseMsgs, Done
<1> QED
  BY <1>1, ConcatProperties

\* A step puts packets behind those on their way, or stops the process.
Puts(msgs) == OutWires' /\ ToClient' = ToClient \o msgs
PutsPlain == \E msgs \in Seq(Plain) : Puts(msgs)

(* A step that leaves the buffers alone puts no answer. *)
LEMMA PutNone ==
  ASSUME OutWires, UNCHANGED <<sendbuf, s2c>>
  PROVE  PutsPlain
<1>1. OutWires' /\ ToClient' = ToClient /\ ToClient \in Seq(OutPackets)
  BY Directions DEF OutWires, ToClient
<1> QED
  BY <1>1, ConcatEmptySeq, PlainOut DEF PutsPlain, Puts

(* A handler that goes on puts exactly its packets behind the direction. *)
LEMMA HandlerPuts ==
  ASSUME OutWires, NEW ACTION A, NEW msgs \in Seq(OutPackets), Handler(A, msgs), UNCHANGED s2c
  PROVE  OutWires' /\ (status' = "run" => A /\ Puts(msgs))
<1>1. CASE die("full") /\ UNCHANGED sendbuf
  BY <1>1, PutNone DEF die, PutsPlain, Puts
<1>2. CASE A /\ sendbuf' = sendbuf \o msgs
  BY <1>2, PutBehind DEF Puts
<1> QED
  BY <1>1, <1>2 DEF Handler

(* A handler whose packets answer nothing puts no answer. *)
LEMMA HandlerPutsPlain ==
  ASSUME OutWires, NEW ACTION A, NEW msgs \in Seq(Plain), Handler(A, msgs), UNCHANGED s2c
  PROVE  PutsPlain
<1>1. msgs \in Seq(OutPackets)
  BY PlainOut
<1>2. CASE die("full") /\ UNCHANGED sendbuf
  BY <1>2, PutNone
<1>3. CASE sendbuf' = sendbuf \o msgs
  BY <1>1, <1>3, PutBehind DEF Puts, PutsPlain
<1> QED
  BY <1>2, <1>3 DEF Handler

\* The blocks of the loop put no replies.
LEMMA LoopPuts ==
  ASSUME Base, OutWires,
         \/ loop_break \/ loop_poll \/ loop_polltimeout \/ loop_selfpipe \/ loop_tochild
         \/ loop_from1 \/ loop_from2 \/ loop_check \/ loop_wait \/ loop_send
         \/ loop_recv \/ packet_sendall \/ packet_getall
  PROVE  PutsPlain
<1>1. CASE \/ loop_break \/ loop_poll \/ loop_polltimeout \/ loop_selfpipe \/ loop_check
           \/ loop_recv \/ packet_getall
  BY <1>1, PutNone DEF loop_break, loop_poll, loop_polltimeout, loop_selfpipe, loop_check,
     loop_recv, packet_getall
<1>0. CountersOK /\ InputFits /\ len0 \in Nat /\ cin \in Nat /\ PipeCap - cin \in Nat
      /\ cout \in Nat /\ cerr \in Nat
  BY BufSizeAssumption, Numbers DEF Base, Pipes, ChannelInv, ChannelTypeOK, CountersOK
<1>2. CASE loop_tochild
  <2>1. PICK w \in IF child.reads /\ fd0 \in openfds
                   THEN 1..Least(len0, PipeCap - cin) ELSE {0} :
          Handler(WriteToChild(w) /\ cin' = cin + w /\ UNCHANGED packetvars
                    /\ UNCHANGED <<child, cout, cerr, outleft>>, AdjustMsgs(w))
    BY <1>2 DEF loop_tochild
  <2>2. w \in 0..len0
    BY <1>0, <2>1, LeastOfTwo
  <2> DEFINE left == IF w = 0 THEN 0 ELSE len0 - w
  <2>3. left \in 0..BufSize /\ localwindow \in 0..BufSize /\ left + localwindow <= BufSize
    BY <1>0, <2>2, BufSizeAssumption DEF CountersOK, InputFits
  <2> HIDE DEF left
  <2>4. plus(left, localwindow) \in Nat
    BY <2>3, PlusFits, BufSizeAssumption
  <2>5. AdjustMsgs(w) \in Seq(Plain)
    BY <2>4, PlainPackets, PlainOut DEF AdjustMsgs, left
  <2> QED
    BY <1>2, <2>1, <2>5, HandlerPutsPlain DEF loop_tochild
<1>3. CASE loop_from1 \/ loop_from2
  <2>1. CASE UNCHANGED sendbuf
    BY <1>3, <2>1, PutNone DEF loop_from1, loop_from2
  <2>2. CASE ~UNCHANGED sendbuf
    <3>1. PICK top \in {Least(cout, ReadLimit), Least(cerr, ReadLimit)}, t \in {"DATA", "EXT"} :
            \E r \in 1..top \cup {0} : \E msgs \in {<<>>, <<Msg(t, r)>>} :
              sendbuf' = sendbuf \o msgs
      BY <1>3, <2>2 DEF loop_from1, loop_from2, Handler
    <3>2. PICK r \in 1..top \cup {0} : \E msgs \in {<<>>, <<Msg(t, r)>>} :
            sendbuf' = sendbuf \o msgs
      BY <3>1
    <3>3. PICK msgs \in {<<>>, <<Msg(t, r)>>} : sendbuf' = sendbuf \o msgs
      BY <3>2
    <3>4. r \in Nat
      OBVIOUS
    <3>5. msgs \in Seq(Plain)
      BY <3>4, PlainPackets, PlainOut
    <3>6. UNCHANGED s2c
      BY <1>3 DEF loop_from1, loop_from2
    <3> QED
      BY <3>3, <3>5, <3>6, PlainOut, PutBehind DEF Puts, PutsPlain
  <2> QED
    BY <2>1, <2>2
<1>4. CASE loop_wait
  <2>1. CASE UNCHANGED sendbuf
    BY <1>4, <2>1, PutNone DEF loop_wait
  <2>2. CASE ~UNCHANGED sendbuf
    <3>1. sendbuf' = sendbuf \o (EofMsgs \o StatusMsgs) /\ UNCHANGED s2c
      BY <1>4, <2>2 DEF loop_wait, Handler
    <3> QED
      BY <3>1, Closings, PlainOut, PutBehind DEF Puts, PutsPlain
  <2> QED
    BY <2>1, <2>2
<1>5. CASE loop_send
  <2>1. OutWires' /\ ToClient' = ToClient /\ ToClient \in Seq(OutPackets)
    BY <1>5, SendPasses, Directions DEF loop_send, OutWires, ToClient
  <2> QED
    BY <2>1, ConcatEmptySeq, PlainOut DEF Puts, PutsPlain
<1>6. CASE packet_sendall
  <2>1. CASE sendbuf = <<>>
    <3>1. UNCHANGED s2c /\ (sendbuf' = <<>> \/ sendbuf' = <<Done("CLOSE")>>)
      BY <1>6, <2>1 DEF packet_sendall
    <3>2. <<Done("CLOSE")>> \in Seq(Plain)
      BY PlainPackets DEF Done
    <3>3. sendbuf \o <<Done("CLOSE")>> = <<Done("CLOSE")>>
      BY <2>1, <3>2, ConcatEmptySeq
    <3>4. CASE sendbuf' = <<Done("CLOSE")>>
      BY <3>1, <3>2, <3>3, <3>4, PlainOut, PutBehind DEF Puts, PutsPlain
    <3> QED
      BY <2>1, <3>1, <3>4, PutNone
  <2>2. CASE sendbuf # <<>>
    <3>1. \/ UNCHANGED <<sendbuf, s2c>>
          \/ s2c' = Append(s2c, Head(sendbuf)) /\ sendbuf' = Tail(sendbuf)
      BY <1>6, <2>2 DEF packet_sendall
    <3>2. CASE s2c' = Append(s2c, Head(sendbuf)) /\ sendbuf' = Tail(sendbuf)
      <4>1. OutWires' /\ ToClient' = ToClient /\ ToClient \in Seq(OutPackets)
        BY <2>2, <3>2, HeadPasses, Directions
      <4> QED
        BY <4>1, ConcatEmptySeq, PlainOut DEF Puts, PutsPlain
    <3> QED
      BY <3>1, <3>2, PutNone
  <2> QED
    BY <2>1, <2>2
<1> QED
  BY <1>1, <1>2, <1>3, <1>4, <1>5, <1>6
-----------------------------------------------------------------------------
(* Every request that wants a reply gets one. *)
ReplyClass(t) == IF t \in {"GLOBAL", "REQFAIL"} THEN "global" ELSE "channel"

\* The reply r says to the request k that a child was started for it.
Begun(k, r) == r = "SUCCESS" /\ k \in Starts

\* What a step says to the packet m: nothing, or the reply that m asks for; and a
\* start that succeeded has started the child.
Answers(m) ==
    \/ ~Replying(m) /\ PutsPlain
    \/ /\ Replying(m)
       /\ \E r \in Replies : /\ Puts(<<Done(r)>>) /\ ReplyClass(r) = ReplyClass(m.t)
                             /\ Begun(m.t, r) => ~HasChild /\ HasChild'

(* A reply is a packet of the server. *)
LEMMA ReplyPackets == \A r \in Replies : <<Done(r)>> \in Seq(OutPackets) /\ Done(r) \in OutPackets
<1> SUFFICES ASSUME NEW r \in Replies PROVE Done(r) \in OutPackets
  OBVIOUS
<1> QED
  BY DEF OutPackets, Done, Msg

(* A handler that replies in the class of the request it received answers
   it. *)
LEMMA HandlerAnswers ==
  ASSUME Wires, OutWires, NEW t \in Requests \cup {"GLOBAL"}, Received(t),
         NEW r \in Replies, ReplyClass(r) = ReplyClass(t),
         NEW ACTION A, Handler(A, Answer(r)), status' = "run",
         A /\ Begun(t, r) => ~HasChild /\ HasChild'
  PROVE  Answers(Head(recvbuf))
<1> DEFINE m == Head(recvbuf)
<1>1. m.t = t /\ UNCHANGED s2c
  BY DEF Received
<1>2. CASE m.n = 0
  <2>1. ~Replying(m)
    BY <1>1, <1>2 DEF Replying, Replies, Requests, Starts
  <2>2. Answer(r) = <<>>
    BY <1>2 DEF Answer
  <2>3. PutsPlain
    BY <1>1, <2>2, PlainOut, HandlerPutsPlain
  <2> QED
    BY <2>1, <2>3 DEF Answers
<1>3. CASE m.n # 0
  <2>1. Replying(m)
    BY <1>1, <1>3 DEF Replying
  <2>2. Answer(r) = <<Done(r)>>
    BY <1>3 DEF Answer
  <2>3. A /\ Puts(<<Done(r)>>)
    BY <1>1, <2>2, ReplyPackets, HandlerPuts
  <2> QED
    BY <1>1, <2>1, <2>3 DEF Answers
<1> QED
  BY <1>2, <1>3

(* packet_channel_request's failure path answers the request, if it wants
   an answer. *)
LEMMA RejectAnswers ==
  ASSUME Wires, OutWires, NEW t \in Requests, Received(t), reject, status' = "run"
  PROVE  Answers(Head(recvbuf))
<1>1. "FAILURE" \in Replies /\ ReplyClass("FAILURE") = ReplyClass(t)
  BY DEF Replies, ReplyClass, Requests, Starts
<1>2. Handler(UNCHANGED <<chanvars, status, packetvars, childvars>>, Answer("FAILURE"))
  BY DEF reject
<1> QED
  BY <1>1, <1>2, HandlerAnswers DEF Begun

(* So does its success path, which starts a child before it says SUCCESS. *)
LEMMA AcceptAnswers ==
  ASSUME Wires, OutWires, NEW t \in Requests, Received(t), NEW ACTION A, accept(A),
         status' = "run", A /\ t \in Starts => ~HasChild /\ HasChild'
  PROVE  Answers(Head(recvbuf))
<1>1. "SUCCESS" \in Replies /\ ReplyClass("SUCCESS") = ReplyClass(t)
  BY DEF Replies, ReplyClass, Requests, Starts
<1>2. Handler(A /\ UNCHANGED packetvars, Answer("SUCCESS"))
  BY DEF accept
<1>3. (A /\ UNCHANGED packetvars) /\ Begun(t, "SUCCESS") => ~HasChild /\ HasChild'
  BY DEF Begun
<1> QED
  BY <1>1, <1>2, <1>3, HandlerAnswers

(* Every path of packet_channel_request answers the request it received. *)
LEMMA RequestAnswers ==
  ASSUME Wires, OutWires, status = "run", packet_channel_request, status' = "run"
  PROVE  Answers(Head(recvbuf))
<1>1. ASSUME NEW t \in Starts, request_start(t) PROVE Answers(Head(recvbuf))
  <2>0. t \in Requests /\ Received(t)
    BY <1>1 DEF Requests, request_start
  <2>1. PICK ok \in {TRUE, "fork" \notin Failures} :
          \/ reject
          \/ channel_exec(ok) /\ (maxpacket = 0 \/ ~ok)
          \/ accept(channel_exec(ok) /\ ChildStart /\ UNCHANGED <<cin, cout, cerr, outleft>>)
    BY <1>1 DEF request_start
  <2>2. channel_exec(ok) => pid = 0 /\ pid' = 1
    BY DEF channel_exec, die
  <2>3. CASE channel_exec(ok) /\ (maxpacket = 0 \/ ~ok)
    BY <2>3 DEF channel_exec, die
  <2>4. CASE accept(channel_exec(ok) /\ ChildStart /\ UNCHANGED <<cin, cout, cerr, outleft>>)
    <3>1. (channel_exec(ok) /\ ChildStart /\ UNCHANGED <<cin, cout, cerr, outleft>>) /\ t \in Starts
            => ~HasChild /\ HasChild'
      BY <2>2 DEF HasChild, ChildStart
    <3> QED
      BY <2>0, <2>4, <3>1, AcceptAnswers
  <2> QED
    BY <2>0, <2>1, <2>3, <2>4, RejectAnswers
<1>2. CASE request_pty
  <2>0. "pty-req" \in Requests /\ "pty-req" \notin Starts /\ Received("pty-req")
    BY <1>2 DEF Requests, Starts, request_pty
  <2>1. reject \/ accept(channel_openterminal(TRUE) /\ UNCHANGED childvars)
    BY <1>2 DEF request_pty, die
  <2> QED
    BY <2>0, <2>1, RejectAnswers, AcceptAnswers
<1>3. ASSUME NEW t \in {"window-change", "env"}, request_other(t) PROVE Answers(Head(recvbuf))
  <2>0. t \in Requests /\ t \notin Starts /\ Received(t)
    BY <1>3 DEF Requests, Starts, request_other
  <2>1. reject \/ accept(UNCHANGED <<chanvars, status, childvars>>)
    BY <1>3 DEF request_other
  <2> QED
    BY <2>0, <2>1, RejectAnswers, AcceptAnswers
<1> QED
  BY <1>1, <1>2, <1>3 DEF packet_channel_request

\* The handlers of all other packets but global requests put no replies.
LEMMA OthersPut ==
  ASSUME OutWires,
         \/ packet_channel_open \/ packet_channel_recv_data \/ packet_channel_recv_extendeddata
         \/ packet_channel_recv_windowadjust \/ packet_channel_recv_eof
         \/ packet_channel_recv_close \/ packet_unimplemented \/ packet_disconnect
         \/ packet_kexinit \/ process_done
  PROVE  PutsPlain
<1>1. CASE packet_channel_open
  <2>1. BufSize \in Nat /\ 0 \in Nat
    BY BufSizeAssumption
  <2>2. /\ <<Msg("CONFIRM", BufSize)>> \in Seq(Plain) /\ <<Done("OPENFAIL")>> \in Seq(Plain)
        /\ <<Done("OPENXFAIL")>> \in Seq(Plain)
    BY <2>1, PlainPackets DEF Done
  <2>3. UNCHANGED s2c
    BY <1>1 DEF packet_channel_open, Received
  <2>4. CASE UNCHANGED sendbuf
    BY <2>3, <2>4, PutNone
  <2>5. CASE ~UNCHANGED sendbuf
    <3>1. PICK msgs \in {<<Msg("CONFIRM", BufSize)>>, <<Done("OPENFAIL")>>, <<Done("OPENXFAIL")>>} :
            sendbuf' = sendbuf \o msgs
      BY <1>1, <2>5 DEF packet_channel_open, Handler
    <3> QED
      BY <2>2, <2>3, <3>1, PlainOut, PutBehind DEF Puts, PutsPlain
  <2> QED
    BY <2>4, <2>5
<1>2. CASE packet_channel_recv_close
  <2>1. UNCHANGED s2c /\ (UNCHANGED sendbuf \/ sendbuf' = sendbuf \o (EofMsgs \o CloseMsgs))
    BY <1>2 DEF packet_channel_recv_close, Received, Silent, Handler
  <2> QED
    BY <2>1, PutNone, Closings, PlainOut, PutBehind DEF Puts, PutsPlain
<1>3. CASE packet_unimplemented \/ packet_kexinit
  <2>1. <<Done("UNIMPL")>> \in Seq(Plain) /\ <<Done("KEX")>> \in Seq(Plain)
    BY PlainPackets DEF Done
  <2>2. UNCHANGED s2c /\ (\/ UNCHANGED sendbuf \/ sendbuf' = sendbuf \o <<Done("UNIMPL")>>
                          \/ sendbuf' = sendbuf \o <<Done("KEX")>>)
    BY <1>3 DEF packet_unimplemented, packet_kexinit, Received, Handler
  <2> QED
    BY <2>1, <2>2, PutNone, PlainOut, PutBehind DEF Puts, PutsPlain
<1>4. CASE \/ packet_channel_recv_data \/ packet_channel_recv_extendeddata
           \/ packet_channel_recv_windowadjust \/ packet_channel_recv_eof
           \/ packet_disconnect \/ process_done
  BY <1>4, PutNone DEF packet_channel_recv_data, packet_channel_recv_extendeddata,
     packet_channel_recv_windowadjust, packet_channel_recv_eof, packet_disconnect, process_done,
     Received, Silent
<1> QED
  BY <1>1, <1>2, <1>3, <1>4
(* A handler puts no answer, or takes a request and puts exactly its
   answer. *)
LEMMA ProcessAnswers ==
  ASSUME Base, OutWires, status = "run", process, status' = "run"
  PROVE  \/ PutsPlain /\ ToServer' = ToServer
         \/ /\ Head(recvbuf) \in InPackets /\ ToServer = <<Head(recvbuf)>> \o ToServer'
            /\ Answers(Head(recvbuf))
<1>0. Wires
  BY DEF Base
<1>1. ASSUME NEW t, Received(t)
      PROVE  /\ Head(recvbuf) \in InPackets /\ ToServer = <<Head(recvbuf)>> \o ToServer'
             /\ Head(recvbuf).t = t
  BY <1>0, <1>1, ServerTakes DEF Received
<1>2. CASE process_done
  <2>1. ToServer' = ToServer
    BY <1>2 DEF process_done, ToServer
  <2> QED
    BY <1>2, <2>1, OthersPut
<1>3. CASE packet_channel_request
  <2>1. \E t : Received(t)
    BY <1>3 DEF packet_channel_request, request_start, request_pty, request_other
  <2> QED
    BY <1>0, <1>1, <1>3, <2>1, RequestAnswers
<1>4. CASE packet_global_request
  <2>1. /\ "REQFAIL" \in Replies /\ ReplyClass("REQFAIL") = ReplyClass("GLOBAL")
        /\ "GLOBAL" \in Requests \cup {"GLOBAL"}
    BY DEF Replies, ReplyClass
  <2>2. Received("GLOBAL") /\ Handler(UNCHANGED <<chanvars, status, packetvars, childvars>>, Answer("REQFAIL"))
    BY <1>4 DEF packet_global_request
  <2>3. Answers(Head(recvbuf))
    BY <1>0, <2>1, <2>2, HandlerAnswers DEF Begun
  <2> QED
    BY <1>1, <2>2, <2>3
<1>5. CASE \/ packet_channel_open \/ packet_channel_recv_data \/ packet_channel_recv_extendeddata
           \/ packet_channel_recv_windowadjust \/ packet_channel_recv_eof
           \/ packet_channel_recv_close \/ packet_unimplemented \/ packet_disconnect
           \/ packet_kexinit
  <2>1. PutsPlain
    BY <1>5, OthersPut
  <2>2. PICK t \in {"OPEN", "OPENX", "DATA", "EXT", "ADJ", "EOF", "CLOSE", "OTHER", "DISCONNECT",
                    "KEXINIT"} : Received(t)
    BY <1>5 DEF packet_channel_open, packet_channel_recv_data, packet_channel_recv_extendeddata,
       packet_channel_recv_windowadjust, packet_channel_recv_eof, packet_channel_recv_close,
       packet_unimplemented, packet_disconnect, packet_kexinit
  <2>3. ~Replying(Head(recvbuf))
    BY <1>1, <2>2 DEF Replying, Replies, Requests, Starts
  <2> QED
    BY <1>1, <2>1, <2>2, <2>3 DEF Answers
<1> QED
  BY <1>2, <1>3, <1>4, <1>5 DEF process

\* The packets put are packets, also when the process stops.
LEMMA ProcessWires ==
  ASSUME Base, OutWires, process
  PROVE  OutWires'
<1>1. CASE packet_channel_request \/ packet_global_request
  <2>1. UNCHANGED s2c
    BY <1>1 DEF packet_channel_request, request_start, request_pty, request_other,
       packet_global_request, Received
  <2>2. UNCHANGED sendbuf \/ \E r \in Replies : sendbuf' = sendbuf \o Answer(r)
    <3>1. "SUCCESS" \in Replies /\ "FAILURE" \in Replies /\ "REQFAIL" \in Replies
      BY DEF Replies
    <3>2. CASE packet_global_request
      BY <3>1, <3>2 DEF packet_global_request, Handler
    <3>3. reject => UNCHANGED sendbuf \/ sendbuf' = sendbuf \o Answer("FAILURE")
      BY DEF reject, Handler
    <3>4. ASSUME NEW ACTION A, accept(A)
          PROVE  UNCHANGED sendbuf \/ sendbuf' = sendbuf \o Answer("SUCCESS")
      BY <3>4 DEF accept, Handler
    <3>5. ASSUME NEW t, request_start(t)
          PROVE  UNCHANGED sendbuf \/ \E r \in Replies : sendbuf' = sendbuf \o Answer(r)
      BY <3>1, <3>3, <3>4, <3>5 DEF request_start
    <3>6. ASSUME NEW t, request_other(t)
          PROVE  UNCHANGED sendbuf \/ \E r \in Replies : sendbuf' = sendbuf \o Answer(r)
      BY <3>1, <3>3, <3>4, <3>6 DEF request_other
    <3>7. CASE request_pty
      BY <3>1, <3>3, <3>4, <3>7 DEF request_pty
    <3> QED
      BY <1>1, <3>2, <3>5, <3>6, <3>7 DEF packet_channel_request
  <2>3. \A r \in Replies : Answer(r) \in Seq(OutPackets)
    BY ReplyPackets, EmptySeq DEF Answer
  <2> QED
    BY <2>1, <2>2, <2>3, PutBehind DEF OutWires
<1>2. CASE ~(packet_channel_request \/ packet_global_request)
  BY <1>2, OthersPut DEF process, PutsPlain, Puts
<1> QED
  BY <1>1, <1>2
-----------------------------------------------------------------------------
(* The client, as far as it decides what it does. *)
Fields == {"open", "started", "ext", "eof", "close", "kex", "gone", "waiting", "seen", "left"}

ClientOK ==
    /\ DOMAIN client = Fields
    /\ client.open \in {"no", "asked", "yes", "failed"} /\ client.kex \in {"no", "wait", "reply"}
    /\ {client.started, client.ext, client.eof, client.close, client.gone} \subseteq BOOLEAN
    /\ client.waiting \in Seq(Kinds) /\ client.seen \in SUBSET Farewells /\ client.left \in Int

(* A request of the client is put and noted as waiting, in one step. *)
LEMMA ClientRequests ==
  ASSUME ClientOK, ClientRequest
  PROVE  \E m \in InPackets : /\ c2s' = Append(c2s, m) /\ m.t \in Requests \cup {"GLOBAL"}
                              /\ client'.waiting = client.waiting \o Talk(<<m>>)
                              /\ client' = [client EXCEPT !.left = @ - 1, !.waiting = client'.waiting]
                              /\ ClientOK'
<1>1. client.waiting \in Seq(Kinds)
  BY DEF ClientOK
<1>2. PICK t \in Requests \cup {"GLOBAL"}, n \in Wants :
        /\ c2s' = Append(c2s, Msg(t, n))
        /\ client' = [Spend EXCEPT !.waiting = IF n = 1 THEN Append(@, t) ELSE @]
  BY DEF ClientRequest, ClientSends
<1> DEFINE m == Msg(t, n)
<1>3. m \in InPackets /\ m \in Packet /\ m.t = t /\ t \in Kinds /\ n \in {0, 1}
  <2>1. m \in InPackets /\ n \in {0, 1} /\ m.t = t
    BY Numbers, PacketAssumption DEF InPackets, Msg
  <2>2. m \in Packet
    BY <2>1 DEF Packet
  <2> HIDE DEF m
  <2> QED
    BY <2>1, <2>2 DEF Kinds
<1>4. Replying(m) <=> n = 1
  BY <1>3 DEF Replying, Msg, Replies, Requests, Starts
<1> DEFINE more == client.waiting \o Talk(<<m>>)
<1>5. more = (IF n = 1 THEN Append(client.waiting, t) ELSE client.waiting)
  <2>1. CASE n = 1
    <3>1. Talk(<<m>>) = <<t>>
      BY <1>3, <1>4, <2>1, TalkFew
    <3>2. Append(client.waiting, t) = client.waiting \o <<t>>
      BY <1>1, <1>3, Joined
    <3> QED
      BY <2>1, <3>1, <3>2
  <2>2. CASE n # 1
    <3>1. Talk(<<m>>) = <<>>
      BY <1>3, <1>4, <2>2, TalkFew
    <3>2. client.waiting \o <<>> = client.waiting
      BY <1>1, ConcatEmptySeq
    <3> QED
      BY <2>2, <3>1, <3>2
  <2> QED
    BY <2>1, <2>2
<1>6. more \in Seq(Kinds)
  <2>1. Append(client.waiting, t) \in Seq(Kinds)
    BY <1>1, <1>3, AppendProperties
  <2> HIDE DEF more
  <2> QED
    BY <1>1, <1>5, <2>1
<1> HIDE DEF more
<1>7. client' = [client EXCEPT !.left = @ - 1, !.waiting = more]
  BY <1>2, <1>5 DEF Spend, ClientOK, Fields
<1>8. client'.waiting = more
  BY <1>7 DEF ClientOK, Fields
<1>9. ClientOK'
  BY <1>6, <1>7 DEF ClientOK, Fields
<1> HIDE DEF m
<1> QED
  BY <1>2, <1>3, <1>7, <1>8, <1>9 DEF m, more

\* What the client does of its own accord: it notes one thing it has done.
LEMMA ClientSpends ==
  ASSUME ClientOK, NEW f \in {"open", "ext", "eof", "close", "kex", "gone"}, NEW v, NEW n \in Int,
         client' = [client EXCEPT !.left = n, ![f] = v],
         f = "open" => v \in {"no", "asked", "yes", "failed"},
         f = "kex" => v \in {"no", "wait", "reply"},
         f \notin {"open", "kex"} => v \in BOOLEAN
  PROVE  /\ ClientOK' /\ client'.waiting = client.waiting /\ client'.started = client.started
         /\ client'.seen = client.seen
<1>1. DOMAIN client' = Fields /\ \A g \in Fields \ {"left", f} : client'[g] = client[g]
  BY DEF ClientOK, Fields
<1>2. client'[f] = v /\ client'.left = n
  BY DEF ClientOK, Fields
<1>3. client'.waiting = client.waiting /\ client'.started = client.started /\ client'.seen = client.seen
  BY <1>1 DEF Fields
<1>4. client'.open \in {"no", "asked", "yes", "failed"} /\ client'.kex \in {"no", "wait", "reply"}
  BY <1>1, <1>2 DEF Fields, ClientOK
<1>5. {client'.started, client'.ext, client'.eof, client'.close, client'.gone} \subseteq BOOLEAN
  BY <1>1, <1>2 DEF Fields, ClientOK
<1> QED
  BY <1>1, <1>2, <1>3, <1>4, <1>5 DEF ClientOK

\* All but a request leaves what it waits for, and what it has seen, alone.
LEMMA ClientOthers ==
  ASSUME ClientOK, Client, ~ClientRequest, ~ClientRecv
  PROVE  /\ ClientOK' /\ client'.waiting = client.waiting /\ client'.started = client.started
         /\ client'.seen = client.seen
<1> DEFINE l == client.left
<1>0. l \in Int /\ l - 1 \in Int
  BY DEF ClientOK
<1>a. DOMAIN client = Fields
  BY DEF ClientOK, Fields
<1>1. CASE ClientOpen
  <2>1. \/ client' = [client EXCEPT !.left = l - 1]
        \/ client' = [client EXCEPT !.left = l - 1, !.open = "asked"]
    BY <1>1 DEF ClientOpen, ClientSends, Spend
  <2>2. [client EXCEPT !.left = l - 1] = [client EXCEPT !.left = l - 1, !.open = client.open]
    BY <1>a DEF Fields
  <2>3. client.open \in {"no", "asked", "yes", "failed"}
    BY DEF ClientOK
  <2> QED
    BY <1>0, <2>1, <2>2, <2>3, ClientSpends
<1>2. CASE ClientData
  <2>1. PICK t \in {"DATA", "EXT"} : client' = [Spend EXCEPT !.ext = @ \/ t = "EXT"]
    BY <1>2 DEF ClientData, ClientSends
  <2>2. client.ext \in BOOLEAN
    BY DEF ClientOK
  <2>3. PICK b \in BOOLEAN : client' = [client EXCEPT !.left = l - 1, !.ext = b]
    BY <2>1, <2>2 DEF Spend, ClientOK, Fields
  <2> QED
    BY <1>0, <2>3, ClientSpends
<1>3. CASE ClientEof \/ ClientAdjust
  <2>1. client' = client \/ client' = [client EXCEPT !.left = l - 1, !.eof = TRUE]
    BY <1>3 DEF ClientEof, ClientAdjust, ClientSends, Spend
  <2>2. CASE client' = client
    BY <2>2 DEF ClientOK
  <2> QED
    BY <1>0, <2>1, <2>2, ClientSpends
<1>4. CASE ClientClose
  <2>1. \E n \in {l, l - 1} : client' = [client EXCEPT !.left = n, !.close = TRUE]
    <3>1. \/ client' = [client EXCEPT !.left = l - 1, !.close = TRUE]
          \/ client' = [client EXCEPT !.close = TRUE]
      BY <1>4 DEF ClientClose, ClientSends, Spend
    <3>2. [client EXCEPT !.left = l, !.close = TRUE] = [client EXCEPT !.close = TRUE]
      BY <1>a DEF Fields
    <3> QED
      BY <3>1, <3>2
  <2> QED
    BY <1>0, <2>1, ClientSpends
<1>5. CASE ClientKexinit \/ ClientNewkeys
  <2>1. \/ client' = [client EXCEPT !.kex = "no"]
        \/ client' = [client EXCEPT !.left = l - 1, !.kex = "wait"]
    BY <1>5 DEF ClientKexinit, ClientNewkeys, ClientSends, Spend
  <2>2. [client EXCEPT !.left = l, !.kex = "no"] = [client EXCEPT !.kex = "no"]
    BY <1>a DEF Fields
  <2> QED
    BY <1>0, <2>1, <2>2, ClientSpends
<1>6. CASE ClientOther \/ ClientHangup
  <2>1. \E b \in BOOLEAN : \/ client' = [client EXCEPT !.gone = b]
                           \/ client' = [client EXCEPT !.left = l - 1, !.gone = b]
    BY <1>6 DEF ClientOther, ClientHangup, ClientSends, Spend
  <2>2. \A b \in BOOLEAN : [client EXCEPT !.left = l, !.gone = b] = [client EXCEPT !.gone = b]
    BY <1>a DEF Fields
  <2> QED
    BY <1>0, <2>1, <2>2, ClientSpends
<1> QED
  BY <1>1, <1>2, <1>3, <1>4, <1>5, <1>6 DEF Client

\* The packets it sends then, none of which asks for a reply.
OwnKinds == {"OPEN", "OPENX", "DATA", "EXT", "ADJ", "EOF", "CLOSE", "KEXINIT", "NEWKEYS",
             "OTHER", "DISCONNECT", "HANGUP"}
(* Whatever else the client puts asks for no answer. *)
LEMMA OtherKinds ==
  ASSUME Client, ~ClientRequest, ~ClientRecv
  PROVE  \E m \in InPackets : c2s' = Append(c2s, m) /\ m.t \in OwnKinds
<1> USE Numbers, PacketAssumption
<1>0. /\ \A t \in OwnKinds \ {"OPEN"}, n \in 0..PacketLimit : Msg(t, n) \in InPackets /\ Msg(t, n).t = t
      /\ \A t \in OwnKinds \ {"OPEN"} : Done(t) \in InPackets /\ Done(t).t = t
  BY DEF InPackets, Msg, Done, OwnKinds
<1> HIDE Numbers, PacketAssumption
<1>1. CASE ClientOpen
  <2>1. \A w \in Windows, l \in Limits : [t |-> "OPEN", n |-> w, l |-> l] \in InPackets
    BY Numbers DEF InPackets
  <2>2. Done("OPENX") \in InPackets /\ Done("OPENX").t \in OwnKinds
    BY <1>0 DEF OwnKinds
  <2>3. \A w, l : [t |-> "OPEN", n |-> w, l |-> l].t \in OwnKinds
    BY DEF OwnKinds
  <2> QED
    BY <1>1, <2>1, <2>2, <2>3 DEF ClientOpen, ClientSends
<1>2. CASE ClientData \/ ClientAdjust
  <2>1. PICK t \in {"DATA", "EXT", "ADJ"}, n \in Sizes : c2s' = Append(c2s, Msg(t, n))
    BY <1>2 DEF ClientData, ClientAdjust, ClientSends
  <2>2. n \in 0..PacketLimit /\ t \in OwnKinds \ {"OPEN"}
    BY Numbers DEF OwnKinds
  <2> QED
    BY <1>0, <2>1, <2>2
<1>3. CASE ClientEof \/ ClientClose \/ ClientKexinit \/ ClientNewkeys \/ ClientOther \/ ClientHangup
  <2>1. PICK t \in OwnKinds \ {"OPEN"} : c2s' = Append(c2s, Done(t))
    BY <1>3 DEF ClientEof, ClientClose, ClientKexinit, ClientNewkeys, ClientOther, ClientHangup,
       ClientSends, OwnKinds
  <2> QED
    BY <1>0, <2>1
<1> QED
  BY <1>1, <1>2, <1>3 DEF Client
\* How the replies so far answer the first requests; alive says that there is a
\* child, heard that the client knows: a start succeeds once.
Answered(pre, rep, alive, heard) ==
    /\ Len(pre) = Len(rep)
    /\ \A i \in 1..Len(rep) : /\ ReplyClass(pre[i]) = ReplyClass(rep[i])
                              /\ Begun(pre[i], rep[i]) => alive /\ ~heard
    /\ \A i, j \in 1..Len(rep) : Begun(pre[i], rep[i]) /\ Begun(pre[j], rep[j]) => i = j

\* One more request is answered.
LEMMA AnsweredMore ==
  ASSUME NEW S, NEW pre \in Seq(S), NEW rep \in Seq(S), NEW k \in S, NEW r \in S,
         NEW was, NEW alive, NEW heard, Answered(pre, rep, was, heard), ReplyClass(k) = ReplyClass(r),
         was => alive, heard => was, Begun(k, r) => ~was /\ alive
  PROVE  Answered(pre \o <<k>>, rep \o <<r>>, alive, heard)
<1> DEFINE p == pre \o <<k>>
           q == rep \o <<r>>
           n == Len(rep)
<1>1. /\ n \in Nat /\ Len(pre) = n /\ Len(p) = n + 1 /\ Len(q) = n + 1
      /\ \A i \in 1..n : p[i] = pre[i] /\ q[i] = rep[i]
      /\ p[n + 1] = k /\ q[n + 1] = r
  BY DEF Answered
<1> HIDE DEF p, q, n
<1>2. \A i \in 1..n : /\ ReplyClass(p[i]) = ReplyClass(q[i])
                      /\ Begun(p[i], q[i]) => was /\ ~heard
  BY <1>1 DEF Answered, n
<1>3. \A i, j \in 1..n : Begun(p[i], q[i]) /\ Begun(p[j], q[j]) => i = j
  BY <1>1 DEF Answered, n
<1>4. 1..(n + 1) = 1..n \cup {n + 1}
  BY <1>1
<1>5. \A i \in 1..(n + 1) : /\ ReplyClass(p[i]) = ReplyClass(q[i])
                            /\ Begun(p[i], q[i]) => alive /\ ~heard
  BY <1>1, <1>2, <1>4
<1>6. \A i, j \in 1..(n + 1) : Begun(p[i], q[i]) /\ Begun(p[j], q[j]) => i = j
  <2>1. Begun(p[n + 1], q[n + 1]) => \A i \in 1..n : ~Begun(p[i], q[i])
    BY <1>1, <1>2
  <2> QED
    BY <1>3, <1>4, <2>1
<1>7. Answered(p, q, alive, heard)
  BY <1>1, <1>5, <1>6 DEF Answered
<1> QED
  BY <1>7 DEF p, q

(* Matching lists match in their first members and in the rest; who takes the
   first one may have heard of the start by it. *)
LEMMA AnsweredFirst ==
  ASSUME NEW S, NEW pre \in Seq(S), NEW rep \in Seq(S), NEW r \in S, NEW alive, NEW heard, NEW hears,
         Answered(pre, <<r>> \o rep, alive, heard),
         hears => heard \/ Begun(Head(pre), r)
  PROVE  /\ pre # <<>> /\ ReplyClass(Head(pre)) = ReplyClass(r)
         /\ Begun(Head(pre), r) => alive
         /\ Answered(Tail(pre), rep, alive, hears)
<1> DEFINE q == <<r>> \o rep
           n == Len(rep)
           p == Tail(pre)
<1>1. n \in Nat /\ Len(q) = n + 1 /\ q[1] = r /\ \A i \in 1..n : q[i + 1] = rep[i]
  OBVIOUS
<1>2. /\ Len(pre) = n + 1
      /\ \A i \in 1..(n + 1) : /\ ReplyClass(pre[i]) = ReplyClass(q[i])
                               /\ Begun(pre[i], q[i]) => alive /\ ~heard
      /\ \A i, j \in 1..(n + 1) : Begun(pre[i], q[i]) /\ Begun(pre[j], q[j]) => i = j
  BY <1>1 DEF Answered
<1>3. pre # <<>> /\ Head(pre) = pre[1] /\ Len(p) = n /\ \A i \in 1..n : p[i] = pre[i + 1]
  BY <1>1, <1>2
<1> HIDE DEF p, q, n
<1>4. ReplyClass(Head(pre)) = ReplyClass(r) /\ (Begun(Head(pre), r) => alive)
  BY <1>1, <1>2, <1>3
<1>a. \A i \in 1..n : i + 1 \in 1..(n + 1) /\ i + 1 # 1 /\ 1 \in 1..(n + 1)
  BY <1>1
<1>5. \A i \in 1..n : /\ ReplyClass(p[i]) = ReplyClass(rep[i])
                      /\ Begun(p[i], rep[i]) => alive /\ ~hears
  BY <1>1, <1>2, <1>3, <1>a
<1>6. \A i, j \in 1..n : Begun(p[i], rep[i]) /\ Begun(p[j], rep[j]) => i = j
  <2> SUFFICES ASSUME NEW i \in 1..n, NEW j \in 1..n, Begun(p[i], rep[i]), Begun(p[j], rep[j])
               PROVE  i = j
    OBVIOUS
  <2>1. i + 1 = j + 1
    BY <1>1, <1>2, <1>3, <1>a
  <2> QED
    BY <2>1
<1>7. Answered(p, rep, alive, hears)
  BY <1>3, <1>5, <1>6 DEF Answered, n
<1> QED
  BY <1>3, <1>4, <1>7 DEF p

(* A child that was started stays started. *)
LEMMA AnsweredStill ==
  ASSUME NEW pre, NEW rep, NEW alive, NEW alive2, NEW heard, Answered(pre, rep, alive, heard),
         alive => alive2
  PROVE  Answered(pre, rep, alive2, heard)
  BY DEF Answered

\* What the client makes of a packet.
LEMMA ClientHears ==
  ASSUME ClientOK, ClientRecv, Head(s2c) \in OutPackets,
         Head(s2c).t \in Replies => client.waiting # <<>>
  PROVE  /\ ClientOK'
         /\ Head(s2c).t \notin Replies => client'.waiting = client.waiting /\ client'.started = client.started
         /\ Head(s2c).t \in Replies =>
              /\ client'.waiting = Tail(client.waiting)
              /\ client'.started => \/ client.started
                                    \/ Head(s2c).t = "SUCCESS" /\ Head(client.waiting) \in Starts
         /\ client'.seen = client.seen \cup ({Head(s2c).t} \cap Farewells)
<1> DEFINE m == Head(s2c)
<1>0. Farewells = {"EOF", "STATUS", "CLOSE"} /\ Replies = {"SUCCESS", "FAILURE", "REQFAIL"}
  BY DEF Farewells, Rank, Replies
<1>1. CASE m.t \in Replies
  <2>1. PICK b \in BOOLEAN : /\ client' = [client EXCEPT !.waiting = Tail(@), !.started = b]
                             /\ b => \/ client.started
                                     \/ m.t = "SUCCESS" /\ Head(client.waiting) \in Starts
    <3>1. client' = [client EXCEPT !.waiting = Tail(@),
                                   !.started = @ \/ (m.t = "SUCCESS" /\ Head(client.waiting) \in Starts)]
      BY <1>0, <1>1 DEF ClientRecv
    <3>2. client.started \in BOOLEAN /\ DOMAIN client = Fields
      BY DEF ClientOK
    <3> DEFINE c == m.t = "SUCCESS" /\ Head(client.waiting) \in Starts
    <3>3. client' = [client EXCEPT !.waiting = Tail(@), !.started = client.started \/ c]
      BY <3>1, <3>2 DEF Fields
    <3> QED
      BY <3>2, <3>3
  <2>2. Tail(client.waiting) \in Seq(Kinds)
    BY <1>1, HeadTailProperties DEF ClientOK
  <2> QED
    BY <1>0, <1>1, <2>1, <2>2 DEF ClientOK, Fields
<1>2. CASE m.t \in Farewells
  <2>1. client' = [client EXCEPT !.seen = @ \cup {m.t}]
    BY <1>0, <1>2 DEF ClientRecv
  <2> QED
    BY <1>0, <1>2, <2>1 DEF ClientOK, Fields
<1>3. CASE m.t \notin Replies \cup Farewells
  <2>1. \/ client' = [client EXCEPT !.open = "yes"] \/ client' = [client EXCEPT !.open = "failed"]
        \/ client' = [client EXCEPT !.kex = "reply"] \/ client' = client
    BY <1>0, <1>3 DEF ClientRecv
  <2> QED
    BY <1>3, <2>1 DEF ClientOK, Fields
<1> QED
  BY <1>1, <1>2, <1>3
\* The packets that wait: what the loop takes of them is no request.
Takes(m) == m \in InPackets /\ ToServer = <<m>> \o ToServer'

(* The blocks of the loop take no request from the packets. *)
LEMMA LoopTakes ==
  ASSUME Base,
         \/ loop_break \/ loop_poll \/ loop_polltimeout \/ loop_selfpipe \/ loop_tochild
         \/ loop_from1 \/ loop_from2 \/ loop_check \/ loop_wait \/ loop_send
         \/ loop_recv \/ packet_sendall \/ packet_getall
  PROVE  ToServer' = ToServer \/ \E m : Takes(m) /\ m.t \in {"AUTH", "NEWKEYS"}
<1>0. Wires
  BY DEF Base
<1>1. CASE UNCHANGED <<recvbuf, c2s>>
  BY <1>1 DEF ToServer
<1>2. CASE packet_recv
  BY <1>0, <1>2, RecvPasses
<1>3. CASE /\ packet_getall /\ recvbuf # <<>> /\ recvbuf' = Tail(recvbuf) /\ UNCHANGED c2s
           /\ Head(recvbuf).t \in {"AUTH", "NEWKEYS"}
  BY <1>0, <1>3, ServerTakes DEF Takes
<1>4. CASE packet_getall
  BY <1>1, <1>2, <1>3, <1>4 DEF packet_getall, Awaited
<1>5. CASE loop_recv
  BY <1>1, <1>2, <1>5 DEF loop_recv
<1>6. CASE \/ loop_break \/ loop_poll \/ loop_polltimeout \/ loop_selfpipe \/ loop_tochild
           \/ loop_from1 \/ loop_from2 \/ loop_check \/ loop_wait \/ loop_send \/ packet_sendall
  BY <1>1, <1>6 DEF loop_break, loop_poll, loop_polltimeout, loop_selfpipe, loop_tochild,
     loop_from1, loop_from2, loop_check, loop_wait, loop_send, packet_sendall
<1> QED
  BY <1>4, <1>5, <1>6

(* The directions after a step are sequences of packets as well. *)
LEMMA DirectionsNext ==
  /\ Wires' => ToServer' \in Seq(InPackets)
  /\ OutWires' => ToClient' \in Seq(OutPackets)
  BY ConcatProperties DEF Wires, OutWires, ToServer, ToClient

(* The invariant of the replies: what the client waits for is what the replies
   on their way answer, followed by the requests on their way. *)
Pending(pre) ==
    /\ Answered(pre, Talk(ToClient), HasChild, client.started)
    /\ client.waiting = pre \o Talk(ToServer)

ReplyInv ==
    Running => /\ \E pre \in Seq(Kinds) : Pending(pre)
               /\ client.started => HasChild

WireInv == OutWires /\ ClientOK /\ ReplyInv

\* Nothing of it changes when what is said does not.
LEMMA PendingSame ==
  ASSUME NEW pre, Pending(pre), Talk(ToClient)' = Talk(ToClient), Talk(ToServer)' = Talk(ToServer),
         client'.waiting = client.waiting, client'.started = client.started, HasChild => HasChild'
  PROVE  Pending(pre)'
  BY AnsweredStill DEF Pending

(* Talk of a sequence with one packet before it or behind it. *)
LEMMA TalkSplits ==
  ASSUME NEW m \in Packet, NEW q \in Seq(Packet)
  PROVE  Talk(<<m>> \o q) = Talk(<<m>>) \o Talk(q) /\ Talk(q \o <<m>>) = Talk(q) \o Talk(<<m>>)
         /\ Talk(<<m>>) \in Seq(Kinds) /\ Talk(q) \in Seq(Kinds)
<1>1. <<m>> \in Seq(Packet)
  OBVIOUS
<1> QED
  BY <1>1, TalkConcat, TalkKinds

(* A step that puts no answer leaves what the server has answered as it is. *)
LEMMA TalkPasses ==
  ASSUME OutWires, PutsPlain
  PROVE  OutWires' /\ Talk(ToClient)' = Talk(ToClient)
<1>1. PICK msgs \in Seq(Plain) : OutWires' /\ ToClient' = ToClient \o msgs
  BY DEF PutsPlain, Puts
<1>2. msgs \in Seq(Packet) /\ ToClient \in Seq(Packet)
  BY PlainOut, Directions
<1>3. Talk(ToClient \o msgs) = Talk(ToClient) \o <<>>
  BY <1>2, TalkConcat, PlainTalk
<1>4. Talk(ToClient) \o <<>> = Talk(ToClient)
  BY <1>2, TalkKinds, ConcatEmptySeq
<1> QED
  BY <1>1, <1>3, <1>4

\* A packet that asks for nothing joins or leaves those on their way to the server.
LEMMA QuietPacket ==
  ASSUME Base, Base', NEW m \in Packet, ~Replying(m),
         ToServer = <<m>> \o ToServer' \/ ToServer' = ToServer \o <<m>>
  PROVE  Talk(ToServer)' = Talk(ToServer)
<1>1. ToServer \in Seq(Packet) /\ ToServer' \in Seq(Packet)
  BY Directions, DirectionsNext DEF Base
<1>2. Talk(<<m>>) = <<>>
  BY TalkFew
<1>3. Talk(ToServer) \in Seq(Kinds) /\ Talk(ToServer') \in Seq(Kinds)
  BY <1>1, TalkKinds
<1>4. Talk(ToServer) = <<>> \o Talk(ToServer') \/ Talk(ToServer') = Talk(ToServer) \o <<>>
  BY <1>1, <1>2, TalkSplits
<1> QED
  BY <1>3, <1>4, ConcatEmptySeq

(* A step of the server keeps requests and answers matched. *)
LEMMA RepliesServer ==
  ASSUME Base, Base', WireInv, Server \/ Timeout, HasChild => HasChild'
  PROVE  WireInv'
<1>0. Running /\ UNCHANGED client
  BY DEF Running, Server, Timeout, clientvars
<1>1. ClientOK'
  BY <1>0 DEF WireInv, ClientOK
<1>2. CASE \/ loop_break \/ loop_poll \/ loop_polltimeout \/ loop_selfpipe \/ loop_tochild
           \/ loop_from1 \/ loop_from2 \/ loop_check \/ loop_wait \/ loop_send
           \/ loop_recv \/ packet_sendall \/ packet_getall
  <2>1. OutWires' /\ Talk(ToClient)' = Talk(ToClient)
    BY <1>2, LoopPuts, TalkPasses DEF WireInv
  <2>2. Talk(ToServer)' = Talk(ToServer)
    <3>1. CASE ToServer' = ToServer
      BY <3>1
    <3>2. ASSUME NEW m, Takes(m), m.t \in {"AUTH", "NEWKEYS"} PROVE Talk(ToServer)' = Talk(ToServer)
      <4>1. m \in Packet /\ ~Replying(m)
        BY <3>2 DEF Takes, Packet, Replying, Replies, Requests, Starts
      <4> QED
        BY <3>2, <4>1, QuietPacket DEF Takes
    <3> QED
      BY <1>2, <3>1, <3>2, LoopTakes
  <2>3. ReplyInv'
    BY <1>0, <2>1, <2>2, PendingSame DEF WireInv, ReplyInv
  <2> QED
    BY <1>1, <2>1, <2>3 DEF WireInv
<1>3. CASE process
  <2>1. OutWires'
    BY <1>3, ProcessWires DEF WireInv
  <2>2. ASSUME Running' PROVE ReplyInv'
    <3>0. status = "run" /\ status' = "run" /\ OutWires
      BY <1>0, <2>2 DEF Running, WireInv
    <3>1. PICK pre \in Seq(Kinds) : Pending(pre)
      BY <1>0 DEF WireInv, ReplyInv
    <3>s. (client.started => HasChild) /\ (client'.started => HasChild')
      BY <1>0 DEF WireInv, ReplyInv
    <3>2. CASE PutsPlain /\ Talk(ToServer)' = Talk(ToServer)
      BY <1>0, <3>0, <3>1, <3>2, <3>s, TalkPasses, PendingSame DEF ReplyInv
    <3>3. CASE PutsPlain /\ ToServer' = ToServer
      BY <3>2, <3>3
    <3> DEFINE m == Head(recvbuf)
    <3>4. CASE m \in InPackets /\ ToServer = <<m>> \o ToServer' /\ Answers(m)
      <4>0. m \in Packet
        BY <3>4 DEF Packet
      <4>1. CASE ~Replying(m)
        <5>1. Talk(ToServer)' = Talk(ToServer)
          BY <3>4, <4>0, <4>1, QuietPacket
        <5> QED
          BY <3>2, <3>4, <4>1, <5>1 DEF Answers
      <4>2. CASE Replying(m)
        <5>1. PICK r \in Replies : /\ Puts(<<Done(r)>>) /\ ReplyClass(r) = ReplyClass(m.t)
                                   /\ Begun(m.t, r) => ~HasChild /\ HasChild'
          BY <3>4, <4>2 DEF Answers
        <5>2. Done(r) \in Packet /\ Replying(Done(r)) /\ Done(r).t = r /\ r \in Kinds /\ m.t \in Kinds
          <6>1. Done(r) \in Packet /\ Replying(Done(r)) /\ Done(r).t = r
            BY ReplyPackets DEF Packet, Replying, Done, Msg
          <6> QED
            BY <4>0, <6>1 DEF Kinds
        <5>3. /\ ToServer \in Seq(Packet) /\ ToServer' \in Seq(Packet) /\ ToClient \in Seq(Packet)
          BY <3>0, Directions, DirectionsNext DEF Base
        <5>4. Talk(ToClient)' = Talk(ToClient) \o <<r>> /\ Talk(ToClient) \in Seq(Kinds)
          BY <5>1, <5>2, <5>3, TalkFew, TalkSplits DEF Puts
        <5>5. Talk(ToServer) = <<m.t>> \o Talk(ToServer)' /\ Talk(ToServer)' \in Seq(Kinds)
          BY <3>4, <4>0, <4>2, <5>3, TalkFew, TalkSplits
        <5>a. PICK k \in Kinds : k = m.t
          BY <5>2
        <5> DEFINE new == pre \o <<k>>
        <5>6. /\ Answered(pre, Talk(ToClient), HasChild, client.started)
              /\ client.waiting = pre \o Talk(ToServer)
          BY <3>1 DEF Pending
        <5>7. Answered(new, Talk(ToClient)', HasChild', client.started)
          BY <3>s, <5>1, <5>2, <5>a, <5>4, <5>6, AnsweredMore
        <5>8. <<k>> \in Seq(Kinds)
          OBVIOUS
        <5>9. new \in Seq(Kinds) /\ client.waiting = new \o Talk(ToServer)'
          <6>1. (pre \o <<k>>) \o Talk(ToServer)' = pre \o (<<k>> \o Talk(ToServer)')
            BY <5>5, <5>8, ConcatAssociative
          <6> QED
            BY <5>5, <5>6, <5>a, <5>8, <6>1, ConcatProperties
        <5>10. Pending(new)'
          BY <1>0, <5>7, <5>9 DEF Pending
        <5> HIDE DEF new
        <5> QED
          BY <3>s, <5>9, <5>10 DEF ReplyInv
      <4> QED
        BY <4>1, <4>2
    <3> QED
      BY <1>3, <3>0, <3>3, <3>4, ProcessAnswers
  <2>3. ReplyInv'
    BY <2>2 DEF ReplyInv
  <2> QED
    BY <1>1, <2>1, <2>3 DEF WireInv
<1> QED
  BY <1>2, <1>3 DEF Server, Timeout

(* So does a step of the client. *)
LEMMA RepliesClient ==
  ASSUME Base, Base', WireInv, Client
  PROVE  WireInv'
<1>0. /\ Running /\ Running' /\ UNCHANGED <<pid, child, sendbuf, recvbuf>> /\ OutWires /\ ClientOK
      /\ Wires /\ HasChild' = HasChild
  BY DEF Running, Client, WireInv, chanvars, childvars, Base, HasChild
<1>1. PICK pre \in Seq(Kinds) : Pending(pre)
  BY <1>0 DEF WireInv, ReplyInv
<1>2. client.started => HasChild
  BY <1>0 DEF WireInv, ReplyInv
<1>3. /\ ToServer \in Seq(Packet) /\ ToServer' \in Seq(Packet) /\ ToClient \in Seq(Packet)
      /\ Talk(ToServer) \in Seq(Kinds) /\ Talk(ToClient) \in Seq(Kinds)
  BY <1>0, Directions, DirectionsNext, TalkKinds DEF Base
<1>4. CASE ClientRequest
  <2>1. PICK m \in InPackets : /\ c2s' = Append(c2s, m) /\ m.t \in Requests \cup {"GLOBAL"}
                               /\ client'.waiting = client.waiting \o Talk(<<m>>)
                               /\ client' = [client EXCEPT !.left = @ - 1, !.waiting = client'.waiting]
                               /\ ClientOK'
    BY <1>0, <1>4, ClientRequests
  <2>2. UNCHANGED <<s2c, ToClient>> /\ OutWires'
    BY <1>0, <1>4 DEF ClientRequest, ClientSends, ToClient, OutWires
  <2>3. ToServer' = ToServer \o <<m>> /\ m \in Packet
    BY <1>0, <2>1, ClientPuts DEF Packet
  <2>4. Talk(ToServer)' = Talk(ToServer) \o Talk(<<m>>) /\ Talk(<<m>>) \in Seq(Kinds)
    BY <1>3, <2>3, TalkSplits
  <2>5. client'.waiting = pre \o Talk(ToServer)'
    <3>1. client.waiting = pre \o Talk(ToServer)
      BY <1>1 DEF Pending
    <3>2. (pre \o Talk(ToServer)) \o Talk(<<m>>) = pre \o (Talk(ToServer) \o Talk(<<m>>))
      BY <1>3, <2>4, ConcatAssociative, SMTT(30)
    <3> QED
      BY <2>1, <2>4, <3>1, <3>2
  <2>7. client'.started = client.started
    BY <1>0, <2>1 DEF ClientOK, Fields
  <2>6. Pending(pre)'
    BY <1>0, <1>1, <2>2, <2>5, <2>7 DEF Pending
  <2> QED
    BY <1>0, <1>2, <2>1, <2>2, <2>6, <2>7 DEF WireInv, ReplyInv
<1>5. CASE ~ClientRequest /\ ~ClientRecv
  <2>1. PICK m \in InPackets : c2s' = Append(c2s, m) /\ m.t \in OwnKinds
    BY <1>5, OtherKinds
  <2>2. m \in Packet /\ ~Replying(m)
    BY <2>1 DEF Packet, Replying, OwnKinds, Replies, Requests, Starts
  <2>3. Talk(ToServer)' = Talk(ToServer)
    BY <1>0, <2>1, <2>2, ClientPuts, QuietPacket
  <2>4. UNCHANGED s2c
    BY <1>5, ClientPackets
  <2>5. OutWires' /\ ToClient' = ToClient
    BY <1>0, <2>4 DEF OutWires, ToClient
  <2>6. ClientOK' /\ client'.waiting = client.waiting /\ client'.started = client.started
    BY <1>0, <1>5, ClientOthers
  <2> QED
    BY <1>0, <1>1, <1>2, <2>3, <2>5, <2>6, PendingSame DEF WireInv, ReplyInv
<1>6. CASE ClientRecv
  <2> DEFINE m == Head(s2c)
  <2>1. OutWires' /\ m \in OutPackets /\ ToClient = <<m>> \o ToClient'
    BY <1>0, <1>6, ClientTakes
  <2>2. m \in Packet /\ ToClient' \in Seq(Packet) /\ m.t \in Kinds
    <3>1. m \in Packet
      BY <2>1 DEF Packet
    <3> QED
      BY <2>1, <3>1, Directions, DirectionsNext DEF Kinds
  <2>3. ToServer' = ToServer
    BY <1>0, <1>6 DEF ClientRecv, ToServer
  <2>4. Talk(ToClient) = Talk(<<m>>) \o Talk(ToClient)' /\ Talk(ToClient)' \in Seq(Kinds)
    BY <2>1, <2>2, TalkSplits
  <2>5. m.t \in Replies <=> Replying(m)
    BY <2>1 DEF OutPackets, Replying, Requests, Starts, Farewells, Rank, Replies
  <2>6. CASE m.t \in Replies
    <3>1. Talk(ToClient) = <<m.t>> \o Talk(ToClient)'
      BY <2>2, <2>4, <2>5, <2>6, TalkFew
    <3>2. /\ Answered(pre, <<m.t>> \o Talk(ToClient)', HasChild, client.started)
          /\ client.waiting = pre \o Talk(ToServer)
      BY <1>1, <3>1 DEF Pending
    <3> DEFINE hears == client.started \/ Begun(Head(pre), m.t)
    <3>3. /\ pre # <<>>
          /\ Begun(Head(pre), m.t) => HasChild
          /\ Answered(Tail(pre), Talk(ToClient)', HasChild, hears)
      BY <2>2, <2>4, <3>2, AnsweredFirst
    <3>4. Tail(pre) \in Seq(Kinds)
      BY <3>3, HeadTailProperties
    <3>5. /\ client.waiting # <<>> /\ Head(client.waiting) = Head(pre)
          /\ Tail(client.waiting) = Tail(pre) \o Talk(ToServer)
      BY <1>3, <3>2, <3>3
    <3>6. ClientOK' /\ client'.waiting = Tail(client.waiting)
          /\ (client'.started => hears)
      BY <1>0, <1>6, <2>1, <2>6, <3>5, ClientHears DEF Begun
    <3>a. Answered(Tail(pre), Talk(ToClient)', HasChild, client'.started)
      BY <3>3, <3>6 DEF Answered
    <3>7. Pending(Tail(pre))'
      BY <1>0, <2>3, <3>5, <3>6, <3>a DEF Pending
    <3>8. client'.started => HasChild'
      BY <1>0, <1>2, <3>3, <3>6
    <3> QED
      BY <1>0, <2>1, <3>4, <3>6, <3>7, <3>8 DEF WireInv, ReplyInv
  <2>7. CASE m.t \notin Replies
    <3>1. Talk(ToClient)' = Talk(ToClient)
      BY <2>2, <2>4, <2>5, <2>7, TalkFew, ConcatEmptySeq
    <3>2. ClientOK' /\ client'.waiting = client.waiting /\ client'.started = client.started
      BY <1>0, <1>6, <2>1, <2>7, ClientHears
    <3> QED
      BY <1>0, <1>1, <1>2, <2>1, <2>3, <3>1, <3>2, PendingSame DEF WireInv, ReplyInv
  <2> QED
    BY <2>6, <2>7
<1> QED
  BY <1>4, <1>5, <1>6

(* A child once started is never forgotten. *)
LEMMA ChildStays ==
  ASSUME Base, LoopInv, [Next]_vars, child.st # "none"
  PROVE  child'.st # "none"
<1>0. child \in [st : {"none", "run", "zombie", "reaped"}, reads : BOOLEAN,
                writes : SUBSET {"out", "err"}] /\ pid # 0
  BY DEF LoopInv, Lives
<1>1. CASE UNCHANGED child
  BY <1>1
<1>2. CASE process
  <2>1. SameChild \/ Started \/ Abandoned
    BY <1>2, ProcessEffect DEF Base, ChannelInv, ChannelTypeOK, CountersOK
  <2> QED
    BY <1>0, <2>1 DEF SameChild, Started, Abandoned
<1>3. CASE loop_wait
  BY <1>0, <1>3 DEF loop_wait, Handler, childvars
<1>4. CASE Child
  BY <1>0, <1>4 DEF Child, ChildWrite, ChildRead, ChildCloseOutput, ChildCloseInput, ChildExit
<1>5. \/ loop_break \/ loop_poll \/ loop_polltimeout \/ loop_selfpipe \/ loop_tochild
      \/ loop_from1 \/ loop_from2 \/ loop_check \/ loop_send \/ loop_recv \/ packet_sendall
      \/ packet_getall \/ Client \/ Stopped \/ UNCHANGED vars
      => UNCHANGED child
  BY DEF loop_break, loop_poll, loop_polltimeout, loop_selfpipe, loop_tochild, loop_from1, loop_from2,
     loop_check, loop_send, loop_recv, packet_sendall, packet_getall, Client, Stopped, vars, childvars,
     Handler
<1> QED
  BY <1>1, <1>2, <1>3, <1>4, <1>5 DEF Next, Server, Timeout

(* Every step keeps requests and answers matched. *)
LEMMA RepliesStep == Base /\ LoopInv /\ WireInv /\ [Next]_vars => WireInv'
<1> SUFFICES ASSUME Base, LoopInv, WireInv, [Next]_vars PROVE WireInv'
  OBVIOUS
<1>1. Base' /\ (HasChild => HasChild')
  <2>1. Base' /\ [ChannelNext]_cvars
    BY BaseStep
  <2>2. <<pid, pid'>> \in {<<0, 0>>, <<0, 1>>, <<0, -1>>, <<1, 1>>, <<1, -1>>, <<-1, -1>>}
    BY <2>1, OneLifeStep DEF Base
  <2> QED
    BY <2>1, <2>2, ChildStays DEF HasChild
<1>2. CASE Server \/ Timeout
  BY <1>1, <1>2, RepliesServer
<1>3. CASE Client
  BY <1>1, <1>3, RepliesClient
<1>4. CASE UNCHANGED <<client, pid, status, sendbuf, recvbuf, c2s, s2c>>
  <2>1. UNCHANGED <<ToServer, ToClient>>
    BY <1>4 DEF ToServer, ToClient
  <2>2. OutWires' /\ ClientOK'
    BY <1>4 DEF WireInv, OutWires, ClientOK
  <2>3. ReplyInv'
    BY <1>1, <1>4, <2>1, PendingSame DEF WireInv, ReplyInv, Running
  <2> QED
    BY <2>2, <2>3 DEF WireInv
<1>5. UNCHANGED vars \/ Child \/ Stopped => UNCHANGED <<client, pid, status, sendbuf, recvbuf, c2s, s2c>>
  BY DEF vars, Child, Stopped, clientvars, chanvars
<1> QED
  BY <1>2, <1>3, <1>4, <1>5 DEF Next

(* At first nothing is asked and nothing answered. *)
LEMMA RepliesStart == Init => WireInv
<1> SUFFICES ASSUME Init PROVE WireInv
  OBVIOUS
<1>1. OutWires
  BY EmptySeq DEF Init, OutWires
<1>2. ClientOK
  BY EmptySeq, Numbers DEF Init, ClientOK, Fields
<1>3. Done("AUTH") \in Packet /\ ~Replying(Done("AUTH"))
  <2>1. 0 \in 0..PacketLimit
    BY PacketAssumption
  <2> QED
    BY <2>1 DEF Done, Msg, InPackets, Packet, Replying, Replies, Requests, Starts
<1>4. Talk(<<Done("AUTH")>>) = <<>> /\ Talk(<<>>) = <<>>
  BY <1>3, TalkFew
<1>5. ToServer = <<Done("AUTH")>> /\ ToClient = <<>>
  BY <1>3 DEF Init, ToServer, ToClient
<1>6. client.waiting = <<>> /\ client.started = FALSE
  BY DEF Init
<1>7. Pending(<<>>) /\ <<>> \in Seq(Kinds)
  BY <1>4, <1>5, <1>6, EmptySeq DEF Pending, Answered
<1> QED
  BY <1>1, <1>2, <1>6, <1>7 DEF WireInv, ReplyInv

(* Requests and answers match throughout. *)
LEMMA WiresAlways == Spec => [](Base /\ WireInv)
<1>1. Init => WireInv
  BY RepliesStart
<1>2. Base /\ LoopInv /\ WireInv /\ [Next]_vars => WireInv'
  BY RepliesStep
<1> QED
  BY <1>1, <1>2, LoopAlways, PTL DEF Spec

(* What is matched so far and waiting for the rest lines up position by
   position. *)
LEMMA AnsweredAll ==
  ASSUME NEW S, NEW pre \in Seq(S), NEW rep \in Seq(S), NEW rest \in Seq(S), NEW alive, NEW heard,
         Answered(pre, rep, alive, heard)
  PROVE  LET p == pre \o rest
             q == rep \o rest
             begun == {i \in 1..Len(q) : q[i] = "SUCCESS" /\ p[i] \in Starts}
         IN  /\ Len(p) = Len(q)
             /\ \A i \in 1..Len(q) : ReplyClass(p[i]) = ReplyClass(q[i])
             /\ begun # {} => alive
             /\ \A i, j \in begun : i = j /\ ~heard
<1> DEFINE n == Len(rep)
           p == pre \o rest
           q == rep \o rest
           begun == {i \in 1..Len(q) : q[i] = "SUCCESS" /\ p[i] \in Starts}
<1>0. n \in Nat /\ Len(rest) \in Nat /\ Len(pre) = n
  BY LenProperties DEF Answered
<1>a. /\ Len(p) = n + Len(rest) /\ \A i \in 1..n : p[i] = pre[i]
      /\ \A i \in 1..Len(rest) : p[n + i] = rest[i]
  BY <1>0
<1>b. /\ Len(q) = n + Len(rest) /\ \A i \in 1..n : q[i] = rep[i]
      /\ \A i \in 1..Len(rest) : q[n + i] = rest[i]
  BY <1>0
<1>1. /\ Len(p) = n + Len(rest) /\ Len(q) = n + Len(rest)
      /\ \A i \in 1..n : p[i] = pre[i] /\ q[i] = rep[i]
      /\ \A i \in 1..Len(rest) : p[n + i] = rest[i] /\ q[n + i] = rest[i]
  BY <1>a, <1>b
<1>2. \A i \in 1..n : ReplyClass(pre[i]) = ReplyClass(rep[i])
  BY DEF Answered
<1>d. \A i \in 1..n : Begun(pre[i], rep[i]) => alive /\ ~heard
  BY Zenon DEF Answered
<1>e. \A i, j \in 1..n : Begun(pre[i], rep[i]) /\ Begun(pre[j], rep[j]) => i = j
  BY DEF Answered
<1> HIDE DEF n, p, q
<1>c. ASSUME NEW i \in 1..Len(q), i \notin 1..n PROVE p[i] = q[i]
  <2>1. i - n \in 1..Len(rest) /\ n + (i - n) = i
    BY <1>0, <1>1, <1>c
  <2> QED
    BY <1>1, <2>1
<1>3. ASSUME NEW i \in 1..Len(q) PROVE ReplyClass(p[i]) = ReplyClass(q[i])
  <2>1. CASE i \in 1..n
    BY <1>1, <1>2, <2>1
  <2>2. CASE i \notin 1..n
    BY <1>c, <2>2
  <2> QED
    BY <2>1, <2>2
<1>4. begun \subseteq 1..n /\ \A i \in begun : Begun(pre[i], rep[i])
  <2> SUFFICES ASSUME NEW i \in begun PROVE i \in 1..n /\ Begun(pre[i], rep[i])
    OBVIOUS
  <2>1. i \in 1..Len(q) /\ q[i] = "SUCCESS" /\ p[i] \in Starts
    OBVIOUS
  <2>2. i \in 1..n
    BY <1>c, <2>1 DEF Starts
  <2> QED
    BY <1>1, <2>1, <2>2 DEF Begun
<1> HIDE DEF begun
<1>5. (begun # {} => alive) /\ \A i, j \in begun : i = j /\ ~heard
  <2>1. ASSUME NEW i \in begun PROVE i \in 1..n /\ Begun(pre[i], rep[i]) /\ alive /\ ~heard
    <3>1. i \in 1..n /\ Begun(pre[i], rep[i])
      BY <1>4
    <3> QED
      BY <1>d, <3>1, Zenon
  <2>2. ASSUME NEW i \in begun, NEW j \in begun PROVE i = j
    BY <1>e, <2>1
  <2> QED
    BY <2>1, <2>2
<1> QED
  BY <1>1, <1>3, <1>5 DEF p, q, begun

(* Every request that wants a reply gets exactly one, in the order of the
   requests, and of the same class, whatever the client sends and whatever of
   it fails; exec, shell and subsystem are told of success once and only when
   the child was started for them (main_tinysshd.c, packet_channel_request,
   "global request"). *)
THEOREM RepliesComeInOrder == Spec => []RepliesInOrder
<1>1. ASSUME Base, WireInv PROVE RepliesInOrder
  <2> SUFFICES ASSUME Running
               PROVE  LET both == Talk(ToClient) \o Talk(ToServer)
                          begun == {i \in 1..Len(both) :
                                      both[i] = "SUCCESS" /\ client.waiting[i] \in Starts}
                      IN  /\ Len(client.waiting) = Len(both)
                          /\ \A i \in 1..Len(both) : ReplyClass(client.waiting[i]) = ReplyClass(both[i])
                          /\ begun # {} \/ client.started => HasChild
                          /\ \A i, j \in begun : i = j /\ ~client.started
    BY DEF RepliesInOrder, ReplyClass
  <2>1. PICK pre \in Seq(Kinds) : Pending(pre)
    BY <1>1 DEF WireInv, ReplyInv
  <2>2. Talk(ToClient) \in Seq(Kinds) /\ Talk(ToServer) \in Seq(Kinds)
    BY <1>1, Directions, TalkKinds DEF WireInv, Base
  <2>3. client.started => HasChild
    BY <1>1 DEF WireInv, ReplyInv
  <2> QED
    BY <2>1, <2>2, <2>3, AnsweredAll DEF Pending
<1> QED
  BY <1>1, WiresAlways, PTL
-----------------------------------------------------------------------------
(* How the channel ends. First what the single blocks and handlers put: none but
   the end of the child and the client's CLOSE lead to a farewell. *)
Says(T) == /\ OutWires'
           /\ \/ ToClient' = ToClient
              \/ \E m \in OutPackets : m.t \in T /\ ToClient' = ToClient \o <<m>>

(* A step that leaves the buffers alone says nothing. *)
LEMMA SaysNothing ==
  ASSUME OutWires, UNCHANGED <<sendbuf, s2c>>, NEW T
  PROVE  Says(T)
  BY DEF OutWires, ToClient, Says

(* A step that puts one packet says its type. *)
LEMMA SaysOne ==
  ASSUME OutWires, NEW t, NEW n \in Nat, Msg(t, n) \in OutPackets, NEW T, t \in T,
         sendbuf' = sendbuf \o <<Msg(t, n)>>, UNCHANGED s2c
  PROVE  Says(T)
<1>1. <<Msg(t, n)>> \in Seq(OutPackets) /\ Msg(t, n).t = t
  BY DEF Msg
<1>2. OutWires' /\ ToClient' = ToClient \o <<Msg(t, n)>>
  BY <1>1, PutBehind
<1> QED
  BY <1>1, <1>2 DEF Says

(* The blocks of the loop put only output of the child and window
   adjustments. *)
LEMMA QuietLoop ==
  ASSUME Base, OutWires,
         \/ loop_break \/ loop_poll \/ loop_polltimeout \/ loop_selfpipe \/ loop_tochild
         \/ loop_from1 \/ loop_from2 \/ loop_check \/ loop_send \/ loop_recv \/ packet_getall
  PROVE  /\ Says(IF pc \in {"from1", "from2"} THEN {"DATA", "EXT"} ELSE {"ADJ"})
         /\ UNCHANGED packetvars
<1> DEFINE T == IF pc \in {"from1", "from2"} THEN {"DATA", "EXT"} ELSE {"ADJ"}
<1>0. CountersOK /\ InputFits /\ len0 \in Nat /\ cin \in Nat /\ PipeCap - cin \in Nat
      /\ cout \in Nat /\ cerr \in Nat
  BY BufSizeAssumption, Numbers DEF Base, Pipes, ChannelInv, ChannelTypeOK, CountersOK
<1>a. \A t \in {"ADJ", "DATA", "EXT"}, n \in Nat : Msg(t, n) \in OutPackets
  BY DEF OutPackets, Msg
<1> HIDE DEF T
<1>1. CASE \/ loop_break \/ loop_poll \/ loop_polltimeout \/ loop_selfpipe \/ loop_check
           \/ loop_recv \/ packet_getall
  <2>1. UNCHANGED <<sendbuf, s2c>> /\ UNCHANGED packetvars
    BY <1>1 DEF loop_break, loop_poll, loop_polltimeout, loop_selfpipe, loop_check,
       loop_recv, packet_getall
  <2>2. Says(T)
    BY <2>1, SaysNothing
  <2> QED
    BY <2>1, <2>2 DEF T
<1>2. CASE loop_tochild
  <2>1. PICK w \in IF child.reads /\ fd0 \in openfds
                   THEN 1..Least(len0, PipeCap - cin) ELSE {0} :
          Handler(WriteToChild(w) /\ cin' = cin + w /\ UNCHANGED packetvars
                    /\ UNCHANGED <<child, cout, cerr, outleft>>, AdjustMsgs(w))
    BY <1>2 DEF loop_tochild
  <2>2. w \in 0..len0
    BY <1>0, <2>1, LeastOfTwo
  <2> DEFINE left == IF w = 0 THEN 0 ELSE len0 - w
  <2>3. left \in 0..BufSize /\ localwindow \in 0..BufSize /\ left + localwindow <= BufSize
    BY <1>0, <2>2, BufSizeAssumption DEF CountersOK, InputFits
  <2> HIDE DEF left
  <2> DEFINE n == plus(left, localwindow)
  <2>4. n \in Nat
    BY <2>3, PlusFits, BufSizeAssumption
  <2> HIDE DEF n
  <2>5. UNCHANGED sendbuf \/ sendbuf' = sendbuf \o <<>> \/ sendbuf' = sendbuf \o <<Msg("ADJ", n)>>
    BY <2>1 DEF Handler, AdjustMsgs, left, n
  <2>6. sendbuf \o <<>> = sendbuf
    BY ConcatEmptySeq DEF OutWires
  <2>7. UNCHANGED s2c /\ pc = "tochild" /\ UNCHANGED packetvars
    BY <1>2, <2>1 DEF loop_tochild, Handler
  <2>8. "ADJ" \in T
    BY <2>7 DEF T
  <2>9. Says(T)
    BY <1>a, <2>4, <2>5, <2>6, <2>7, <2>8, SaysNothing, SaysOne
  <2> QED
    BY <2>7, <2>9 DEF T
<1>3. CASE loop_from1 \/ loop_from2
  <2>0. UNCHANGED <<s2c, packetvars>> /\ pc \in {"from1", "from2"}
    BY <1>3 DEF loop_from1, loop_from2, Handler
  <2>1. CASE UNCHANGED sendbuf
    BY <2>0, <2>1, SaysNothing DEF T
  <2>2. CASE ~UNCHANGED sendbuf
    <3>1. PICK top \in {Least(cout, ReadLimit), Least(cerr, ReadLimit)}, t \in {"DATA", "EXT"} :
            \E r \in 1..top \cup {0} : \E msgs \in {<<>>, <<Msg(t, r)>>} :
              sendbuf' = sendbuf \o msgs
      BY <1>3, <2>2 DEF loop_from1, loop_from2, Handler
    <3>2. PICK r \in 1..top \cup {0} : \E msgs \in {<<>>, <<Msg(t, r)>>} :
            sendbuf' = sendbuf \o msgs
      BY <3>1
    <3>3. r \in Nat /\ t \in {"DATA", "EXT"}
      OBVIOUS
    <3>4. sendbuf' = sendbuf \o <<>> \/ sendbuf' = sendbuf \o <<Msg(t, r)>>
      BY <3>2
    <3>5. sendbuf \o <<>> = sendbuf
      BY ConcatEmptySeq DEF OutWires
    <3>6. Says({"DATA", "EXT"})
      BY <1>a, <2>0, <2>2, <3>3, <3>4, <3>5, SaysOne
    <3> QED
      BY <2>0, <3>6
  <2> QED
    BY <2>1, <2>2
<1>4. CASE loop_send
  <2>1. UNCHANGED packetvars /\ (packet_send \/ UNCHANGED <<sendbuf, s2c>>)
    BY <1>4 DEF loop_send
  <2>2. Says(T)
    BY <2>1, SendPasses, SaysNothing DEF Says
  <2> QED
    BY <2>1, <2>2 DEF T
<1> QED
  BY <1>1, <1>2, <1>3, <1>4

Words == Replies \cup {"CONFIRM", "OPENFAIL", "OPENXFAIL", "KEX", "UNIMPL"}

(* The handlers other than that of CHANNEL_CLOSE put none of the packets
   that end a channel. *)
LEMMA QuietProcess ==
  ASSUME Base, OutWires, process, ~packet_channel_recv_close
  PROVE  Says(Words) /\ UNCHANGED packetvars
<1>a. \A t \in Words, n \in Nat : Msg(t, n) \in OutPackets
  BY DEF OutPackets, Msg, Words
<1>b. \A t \in Words, n \in Nat :
         sendbuf' = sendbuf \o <<Msg(t, n)>> /\ UNCHANGED s2c => Says(Words)
  BY <1>a, SaysOne
<1>c. UNCHANGED <<sendbuf, s2c>> => Says(Words)
  BY SaysNothing
<1>1. CASE packet_channel_request \/ packet_global_request
  <2>1. UNCHANGED s2c
    BY <1>1 DEF packet_channel_request, request_start, request_pty, request_other,
       packet_global_request, Received
  <2>2. UNCHANGED packetvars /\ (UNCHANGED sendbuf \/ \E r \in Replies : sendbuf' = sendbuf \o Answer(r))
    <3>1. "SUCCESS" \in Replies /\ "FAILURE" \in Replies /\ "REQFAIL" \in Replies
      BY DEF Replies
    <3>2. CASE packet_global_request
      BY <3>1, <3>2 DEF packet_global_request, Handler
    <3> DEFINE P == UNCHANGED packetvars
                    /\ (UNCHANGED sendbuf \/ \E r \in Replies : sendbuf' = sendbuf \o Answer(r))
    <3>3. reject => P
      BY <3>1 DEF reject, Handler
    <3>4. ASSUME NEW ACTION A, accept(A) PROVE P
      BY <3>1, <3>4 DEF accept, Handler
    <3> HIDE DEF P
    <3>n. UNCHANGED <<packetvars, sendbuf>> => P
      BY DEF P
    <3>5. ASSUME NEW t, request_start(t) PROVE P
      BY <3>n, <3>3, <3>4, <3>5 DEF request_start
    <3>6. ASSUME NEW t, request_other(t) PROVE P
      BY <3>3, <3>4, <3>6 DEF request_other
    <3>7. ASSUME request_pty PROVE P
      BY <3>n, <3>3, <3>4, <3>7 DEF request_pty
    <3>8. packet_channel_request => P
      BY <3>5, <3>6, <3>7 DEF packet_channel_request
    <3> QED
      BY <1>1, <3>2, <3>8 DEF P
  <2>3. ASSUME NEW r \in Replies, sendbuf' = sendbuf \o Answer(r) PROVE Says(Words)
    <3>1. Answer(r) = <<>> \/ Answer(r) = <<Msg(r, 0)>>
      BY DEF Answer, Done
    <3>2. sendbuf \o <<>> = sendbuf
      BY ConcatEmptySeq DEF OutWires
    <3>3. r \in Words /\ 0 \in Nat
      BY DEF Words
    <3> QED
      BY <1>b, <1>c, <2>1, <2>3, <3>1, <3>2, <3>3
  <2> QED
    BY <1>c, <2>1, <2>2, <2>3
<1>2. CASE packet_channel_open \/ packet_unimplemented \/ packet_kexinit
  <2>1. UNCHANGED s2c
    BY <1>2 DEF packet_channel_open, packet_unimplemented, packet_kexinit, Received
  <2>2. UNCHANGED packetvars
    BY <1>2 DEF packet_channel_open, packet_unimplemented, packet_kexinit, Handler
  <2>3. UNCHANGED sendbuf \/ \E t \in Words, n \in {0, BufSize} : sendbuf' = sendbuf \o <<Msg(t, n)>>
    BY <1>2 DEF packet_channel_open, packet_unimplemented, packet_kexinit, Handler, Done, Words
  <2> QED
    BY <1>b, <1>c, <2>1, <2>2, <2>3, BufSizeAssumption
<1>3. CASE \/ packet_channel_recv_data \/ packet_channel_recv_extendeddata
           \/ packet_channel_recv_windowadjust \/ packet_channel_recv_eof
           \/ packet_disconnect \/ process_done
  BY <1>c, <1>3 DEF packet_channel_recv_data, packet_channel_recv_extendeddata,
     packet_channel_recv_windowadjust, packet_channel_recv_eof, packet_disconnect, process_done,
     Received, Silent
<1> QED
  BY <1>1, <1>2, <1>3 DEF process
(* The farewells among the packets on their way, and those the client has seen. *)
Tidy(seen, q) ==
    /\ \A i, j \in 1..Len(q) :
          {q[i].t, q[j].t} \subseteq Farewells /\ i < j => Rank[q[i].t] < Rank[q[j].t]
    /\ \A t \in seen, i \in 1..Len(q) : q[i].t \in Farewells => Rank[t] < Rank[q[i].t]
Spoken(seen, q) == {t \in Farewells : t \in seen \/ \E i \in 1..Len(q) : q[i].t = t}

\* Output is covered when an EOF comes after it.
Covered(q) ==
    \A i \in 1..Len(q) : q[i].t \in {"DATA", "EXT"} => \E j \in i..Len(q) : q[j].t = "EOF"

(* The order in which the packets that end a channel come. *)
LEMMA RankValues ==
  /\ Farewells = {"EOF", "STATUS", "CLOSE"}
  /\ Rank["EOF"] = 1 /\ Rank["STATUS"] = 2 /\ Rank["CLOSE"] = 3
  BY DEF Farewells, Rank

\* One more packet behind the others.
Longer(r, q, m) ==
    /\ Len(q) \in Nat /\ Len(r) = Len(q) + 1 /\ r[Len(q) + 1] = m
    /\ \A i \in 1..Len(q) : r[i] = q[i]

(* A sequence with a packet behind it, position by position. *)
LEMMA Behind ==
  ASSUME NEW S, NEW q \in Seq(S), NEW m \in S
  PROVE  Longer(q \o <<m>>, q, m)
  BY DEF Longer

(* A packet that ranks above all those said keeps them in order. *)
LEMMA TidyBehind ==
  ASSUME NEW seen \in SUBSET Farewells, NEW q \in Seq(OutPackets), NEW m \in OutPackets, Tidy(seen, q),
         m.t \in Farewells => \A t \in Spoken(seen, q) : Rank[t] < Rank[m.t]
  PROVE  /\ Tidy(seen, q \o <<m>>)
         /\ Spoken(seen, q \o <<m>>) = Spoken(seen, q) \cup ({m.t} \cap Farewells)
<1> DEFINE r == q \o <<m>>
<1>1. Longer(r, q, m)
  BY Behind
<1> HIDE DEF r
<1> DEFINE n == Len(q)
<1>2. n \in Nat /\ Len(r) = n + 1 /\ r[n + 1] = m /\ \A i \in 1..n : r[i] = q[i]
  BY <1>1 DEF Longer
<1> HIDE DEF n
<1>3. Spoken(seen, r) = Spoken(seen, q) \cup ({m.t} \cap Farewells)
  <2>1. ASSUME NEW t \in Farewells
        PROVE  (\E i \in 1..(n + 1) : r[i].t = t) <=> (t = m.t \/ \E i \in 1..n : q[i].t = t)
    <3>1. ASSUME NEW i \in 1..(n + 1), r[i].t = t PROVE t = m.t \/ \E k \in 1..n : q[k].t = t
      <4>1. CASE i \in 1..n
        BY <1>2, <3>1, <4>1
      <4>2. CASE i = n + 1
        BY <1>2, <3>1, <4>2
      <4> QED
        BY <1>2, <4>1, <4>2
    <3>2. ASSUME t = m.t PROVE \E i \in 1..(n + 1) : r[i].t = t
      BY <1>2, <3>2
    <3>3. ASSUME NEW k \in 1..n, q[k].t = t PROVE \E i \in 1..(n + 1) : r[i].t = t
      BY <1>2, <3>3
    <3> QED
      BY <3>1, <3>2, <3>3
  <2> QED
    BY <1>2, <2>1 DEF Spoken, n
<1>4. ASSUME NEW i \in 1..(n + 1), NEW j \in 1..(n + 1), {r[i].t, r[j].t} \subseteq Farewells, i < j
      PROVE  Rank[r[i].t] < Rank[r[j].t]
  <2>1. i \in 1..n /\ r[i] = q[i]
    BY <1>2, <1>4
  <2>2. CASE j \in 1..n
    BY <1>2, <1>4, <2>1, <2>2 DEF Tidy, n
  <2>3. CASE j = n + 1
    BY <1>2, <1>4, <2>1, <2>3 DEF Spoken, n
  <2> QED
    BY <1>2, <2>2, <2>3
<1>5. ASSUME NEW t \in seen, NEW i \in 1..(n + 1), r[i].t \in Farewells
      PROVE  Rank[t] < Rank[r[i].t]
  <2>1. CASE i \in 1..n
    BY <1>2, <1>5, <2>1 DEF Tidy, n
  <2>2. CASE i = n + 1
    BY <1>2, <1>5, <2>2 DEF Spoken
  <2> QED
    BY <1>2, <2>1, <2>2
<1>6. Tidy(seen, r)
  BY <1>2, <1>4, <1>5 DEF Tidy
<1> QED
  BY <1>3, <1>6 DEF r

\* The client takes the first packet.
LEMMA TidyFirst ==
  ASSUME NEW seen \in SUBSET Farewells, NEW q \in Seq(OutPackets), NEW m \in OutPackets,
         Tidy(seen, <<m>> \o q)
  PROVE  LET later == seen \cup ({m.t} \cap Farewells)
         IN  Tidy(later, q) /\ Spoken(later, q) = Spoken(seen, <<m>> \o q)
<1> DEFINE r == <<m>> \o q
           n == Len(q)
           later == seen \cup ({m.t} \cap Farewells)
<1>1. n \in Nat /\ Len(r) = n + 1 /\ r[1] = m /\ \A i \in 1..n : r[i + 1] = q[i]
  OBVIOUS
<1> HIDE DEF r, n
<1>2. /\ \A i, j \in 1..(n + 1) :
           {r[i].t, r[j].t} \subseteq Farewells /\ i < j => Rank[r[i].t] < Rank[r[j].t]
      /\ \A t \in seen, i \in 1..(n + 1) : r[i].t \in Farewells => Rank[t] < Rank[r[i].t]
  BY <1>1 DEF Tidy, r
<1>3. \A i \in 1..n : i + 1 \in 1..(n + 1) /\ 1 \in 1..(n + 1) /\ 1 < i + 1
  BY <1>1
<1>4. \A i, j \in 1..n :
         {q[i].t, q[j].t} \subseteq Farewells /\ i < j => Rank[q[i].t] < Rank[q[j].t]
  <2> SUFFICES ASSUME NEW i \in 1..n, NEW j \in 1..n, {q[i].t, q[j].t} \subseteq Farewells, i < j
               PROVE  Rank[q[i].t] < Rank[q[j].t]
    OBVIOUS
  <2>1. i + 1 < j + 1
    OBVIOUS
  <2> QED
    BY <1>1, <1>2, <1>3, <2>1
<1>5. \A t \in later, i \in 1..n : q[i].t \in Farewells => Rank[t] < Rank[q[i].t]
  <2> SUFFICES ASSUME NEW t \in later, NEW i \in 1..n, q[i].t \in Farewells
               PROVE  Rank[t] < Rank[q[i].t]
    OBVIOUS
  <2>1. CASE t \in seen
    BY <1>1, <1>2, <1>3, <2>1
  <2>2. CASE t = m.t /\ t \in Farewells
    BY <1>1, <1>2, <1>3, <2>2
  <2> QED
    BY <2>1, <2>2
<1>6. Tidy(later, q)
  BY <1>4, <1>5 DEF Tidy, n
<1>7. ASSUME NEW t \in Farewells
      PROVE  (\E i \in 1..(n + 1) : r[i].t = t) <=> (t = m.t \/ \E i \in 1..n : q[i].t = t)
  <2>1. ASSUME NEW i \in 1..(n + 1), r[i].t = t PROVE t = m.t \/ \E k \in 1..n : q[k].t = t
    <3>1. CASE i = 1
      BY <1>1, <2>1, <3>1
    <3>2. CASE i # 1
      <4>1. i - 1 \in 1..n /\ (i - 1) + 1 = i
        BY <1>1, <3>2
      <4> QED
        BY <1>1, <2>1, <4>1
    <3> QED
      BY <3>1, <3>2
  <2>2. ASSUME t = m.t PROVE \E i \in 1..(n + 1) : r[i].t = t
    BY <1>1, <2>2
  <2>3. ASSUME NEW k \in 1..n, q[k].t = t PROVE \E i \in 1..(n + 1) : r[i].t = t
    BY <1>1, <1>3, <2>3
  <2> QED
    BY <2>1, <2>2, <2>3
<1>8. Spoken(later, q) = Spoken(seen, r)
  BY <1>1, <1>7 DEF Spoken, n
<1> QED
  BY <1>6, <1>8 DEF r

(* A packet behind that is no output, or is the EOF itself, leaves no
   output behind the EOF. *)
LEMMA CoveredBehind ==
  ASSUME NEW q \in Seq(OutPackets), NEW m \in OutPackets,
         (Covered(q) /\ m.t \notin {"DATA", "EXT"}) \/ m.t = "EOF"
  PROVE  Covered(q \o <<m>>)
<1> DEFINE r == q \o <<m>>
           n == Len(q)
<1>1. Longer(r, q, m)
  BY Behind
<1> HIDE DEF r
<1>2. n \in Nat /\ Len(r) = n + 1 /\ r[n + 1] = m /\ \A i \in 1..n : r[i] = q[i]
  BY <1>1 DEF Longer
<1> HIDE DEF n
<1>3. ASSUME NEW i \in 1..(n + 1), r[i].t \in {"DATA", "EXT"}
      PROVE  \E j \in i..(n + 1) : r[j].t = "EOF"
  <2>1. CASE m.t = "EOF"
    BY <1>2, <2>1
  <2>2. CASE Covered(q) /\ m.t \notin {"DATA", "EXT"}
    <3>1. i \in 1..n /\ q[i].t \in {"DATA", "EXT"}
      BY <1>2, <1>3, <2>2
    <3>2. PICK j \in i..n : q[j].t = "EOF"
      BY <2>2, <3>1 DEF Covered, n
    <3>3. j \in 1..n /\ j \in i..(n + 1)
      BY <1>2, <3>1
    <3> QED
      BY <1>2, <3>2, <3>3
  <2> QED
    BY <2>1, <2>2
<1>4. Covered(r)
  BY <1>2, <1>3 DEF Covered
<1> QED
  BY <1>4 DEF r

(* Nor does taking the first packet. *)
LEMMA CoveredFirst ==
  ASSUME NEW q \in Seq(OutPackets), NEW m \in OutPackets, Covered(<<m>> \o q)
  PROVE  Covered(q)
<1> DEFINE r == <<m>> \o q
           n == Len(q)
<1>1. n \in Nat /\ Len(r) = n + 1 /\ \A i \in 1..n : r[i + 1] = q[i]
  OBVIOUS
<1> HIDE DEF r, n
<1>2. ASSUME NEW i \in 1..n, q[i].t \in {"DATA", "EXT"} PROVE \E j \in i..n : q[j].t = "EOF"
  <2>1. i + 1 \in 1..(n + 1) /\ r[i + 1].t \in {"DATA", "EXT"}
    BY <1>1, <1>2
  <2>2. PICK j \in (i + 1)..(n + 1) : r[j].t = "EOF"
    BY <1>1, <2>1 DEF Covered, r
  <2>3. j - 1 \in i..n /\ j - 1 \in 1..n /\ (j - 1) + 1 = j
    BY <1>1
  <2> QED
    BY <1>1, <2>2, <2>3
<1> QED
  BY <1>2 DEF Covered, n
(* The invariant of the end: what was said is what the flags remember, and the
   child is gone before its status is said. *)
Sayings == Spoken(client.seen, ToClient)

Flags ==
    /\ flageofsent \in BOOLEAN /\ flagclosesent \in BOOLEAN /\ flagchanneleofreceived \in BOOLEAN
    /\ flageofsent <=> "EOF" \in Sayings
    /\ IF pc = "flush_close" THEN "CLOSE" \in Sayings /\ ~flagclosesent
       ELSE flagclosesent <=> "CLOSE" \in Sayings

Phases ==
    /\ "STATUS" \in Sayings \/ "CLOSE" \in Sayings => "EOF" \in Sayings
    /\ "STATUS" \in Sayings => pid < 0
    /\ Running /\ pc = "flush_status" => flageofsent /\ ~flagclosesent
    /\ Running /\ pc \in {"flush_status", "flush_close"} => pid < 0
    /\ Running /\ flageofsent /\ ~flagchanneleofreceived => pid < 0 /\ Covered(ToClient)

EndInv == Tidy(client.seen, ToClient) /\ Flags /\ Phases

Known == Base /\ LoopInv /\ WireInv /\ client.seen \in SUBSET Farewells /\ pid \in {-1, 0, 1}

\* A step that says no farewell.
LEMMA EndsQuietly ==
  ASSUME Known, EndInv, NEW T, T \cap Farewells = {}, Says(T), UNCHANGED <<packetvars, client>>,
         pid < 0 => pid' < 0, status = "run",
         \/ pc' = pc
         \/ pc # "flush_close" /\ pc' # "flush_close" /\ (pc' # "flush_status" \/ status' # "run"),
         flageofsent /\ ~flagchanneleofreceived => T \cap {"DATA", "EXT"} = {}
  PROVE  EndInv'
<1>0. /\ ToClient \in Seq(OutPackets) /\ client.seen \in SUBSET Farewells
      /\ UNCHANGED <<flageofsent, flagclosesent, flagchanneleofreceived>> /\ client'.seen = client.seen
  BY Directions DEF Known, WireInv, packetvars
<1>1. /\ Tidy(client.seen, ToClient') /\ Sayings' = Sayings
      /\ flageofsent /\ ~flagchanneleofreceived /\ Covered(ToClient) => Covered(ToClient')
  <2>1. CASE ToClient' = ToClient
    BY <1>0, <2>1 DEF EndInv, Sayings
  <2>2. CASE ToClient' # ToClient
    <3>1. PICK m \in OutPackets : m.t \in T /\ ToClient' = ToClient \o <<m>>
      BY <2>2 DEF Says
    <3>2. m.t \notin Farewells /\ Tidy(client.seen, ToClient)
      BY <3>1 DEF EndInv
    <3> DEFINE more == Sayings \cup ({m.t} \cap Farewells)
    <3>a. more = Sayings
      BY <3>2
    <3>b. Tidy(client.seen, ToClient \o <<m>>) /\ Spoken(client.seen, ToClient \o <<m>>) = more
      BY <1>0, <3>2, TidyBehind DEF Sayings
    <3>3. /\ Tidy(client.seen, ToClient \o <<m>>)
          /\ Spoken(client.seen, ToClient \o <<m>>) = Sayings
      BY <3>a, <3>b
    <3>4. flageofsent /\ ~flagchanneleofreceived /\ Covered(ToClient) => Covered(ToClient \o <<m>>)
      BY <1>0, <3>1, CoveredBehind
    <3> QED
      BY <1>0, <3>1, <3>3, <3>4 DEF Sayings
  <2> QED
    BY <2>1, <2>2
<1>2. Tidy(client.seen, ToClient)'
  BY <1>0, <1>1
<1>3. Flags'
  BY <1>0, <1>1 DEF EndInv, Flags
<1>4. Phases'
  BY <1>0, <1>1 DEF EndInv, Phases, Running
<1> QED
  BY <1>2, <1>3, <1>4 DEF EndInv

\* One farewell is said.
And(q, t) == q \o <<Done(t)>>
ComesLast(seen, q, t) == \A u \in Spoken(seen, q) : Rank[u] < Rank[t]

(* What one ending packet changes in a direction that may still take it. *)
LEMMA Farewell ==
  ASSUME NEW seen \in SUBSET Farewells, NEW q \in Seq(OutPackets), Tidy(seen, q),
         NEW t \in Farewells, ComesLast(seen, q, t)
  PROVE  /\ And(q, t) \in Seq(OutPackets) /\ Tidy(seen, And(q, t))
         /\ Spoken(seen, And(q, t)) = Spoken(seen, q) \cup {t}
         /\ Covered(q) \/ t = "EOF" => Covered(And(q, t))
<1>1. Done(t) \in OutPackets /\ Done(t).t = t /\ t \notin {"DATA", "EXT"}
  BY RankValues DEF Done, Msg, OutPackets
<1>2. <<Done(t)>> \in Seq(OutPackets)
  BY <1>1
<1>3. q \o <<Done(t)>> \in Seq(OutPackets)
  BY <1>2, ConcatProperties
<1> DEFINE m == Done(t)
<1> HIDE DEF m
<1>a. m \in OutPackets /\ m.t = t
  BY <1>1 DEF m
<1>b. Spoken(seen, q) \cup ({m.t} \cap Farewells) = Spoken(seen, q) \cup {t}
  BY <1>a
<1>c. Tidy(seen, q \o <<m>>) /\ Spoken(seen, q \o <<m>>) = Spoken(seen, q) \cup ({m.t} \cap Farewells)
  BY <1>a, TidyBehind DEF ComesLast
<1>d. Tidy(seen, And(q, t)) /\ Spoken(seen, And(q, t)) = Spoken(seen, q) \cup {t}
  BY <1>b, <1>c DEF m, And
<1>e. Covered(q) \/ t = "EOF" => Covered(And(q, t))
  BY <1>1, CoveredBehind DEF And
<1> QED
  BY <1>3, <1>d, <1>e DEF And
(* What the invariant says of the packets now on their way. *)
LEMMA FarewellNow ==
  ASSUME Known, EndInv
  PROVE  /\ client.seen \in SUBSET Farewells /\ ToClient \in Seq(OutPackets)
         /\ Tidy(client.seen, ToClient) /\ Sayings \subseteq Farewells
         /\ \A S \in SUBSET OutPackets : <<>> \in Seq(S)
         /\ ToClient \o <<>> = ToClient
<1>1. ToClient \in Seq(OutPackets) /\ client.seen \in SUBSET Farewells /\ Tidy(client.seen, ToClient)
  BY Directions DEF Known, WireInv, EndInv
<1>2. Sayings \subseteq Farewells
  BY DEF Sayings, Spoken
<1> QED
  BY <1>1, <1>2, EmptySeq, ConcatEmptySeq

\* EOF and then one more, or one more alone.
LEMMA TwoFarewells ==
  ASSUME Known, EndInv, NEW t \in {"STATUS", "CLOSE"}, t \notin Sayings, "CLOSE" \notin Sayings,
         pc # "flush_close", NEW msgs, ToClient' = ToClient \o msgs, client'.seen = client.seen,
         msgs = EofMsgs \o <<Done(t)>>
  PROVE  /\ Tidy(client.seen, ToClient)' /\ Sayings' = Sayings \cup {"EOF", t}
         /\ ~flageofsent => Covered(ToClient)'
<1>1. /\ client.seen \in SUBSET Farewells /\ ToClient \in Seq(OutPackets)
      /\ Tidy(client.seen, ToClient) /\ Sayings \subseteq {"EOF", "STATUS", "CLOSE"}
  BY FarewellNow, RankValues
<1>2. /\ flageofsent <=> "EOF" \in Sayings
      /\ "STATUS" \in Sayings \/ "CLOSE" \in Sayings => "EOF" \in Sayings
  BY DEF EndInv, Flags, Phases
<1>3. t \in Farewells /\ "EOF" \in Farewells
  BY RankValues
<1>4. <<Done(t)>> \in Seq(OutPackets) /\ <<Done("EOF")>> \in Seq(OutPackets)
  BY RankValues DEF Done, Msg, OutPackets
<1>5. CASE flageofsent
  <2>1. ToClient' = And(ToClient, t)
    BY <1>4, <1>5, ConcatEmptySeq DEF EofMsgs, And
  <2>2. ASSUME NEW u \in Spoken(client.seen, ToClient) PROVE Rank[u] < Rank[t]
    <3>1. u \in {"EOF", "STATUS"}
      BY <1>1 DEF Sayings
    <3>2. CASE t = "STATUS"
      BY <3>1, <3>2, RankValues DEF Sayings
    <3>3. CASE t = "CLOSE"
      BY <3>1, <3>3, RankValues
    <3> QED
      BY <3>2, <3>3
  <2>b. ComesLast(client.seen, ToClient, t)
    BY <2>2 DEF ComesLast
  <2>3. Tidy(client.seen, And(ToClient, t))
        /\ Spoken(client.seen, And(ToClient, t)) = Spoken(client.seen, ToClient) \cup {t}
    BY <1>1, <1>3, <2>b, Farewell
  <2> QED
    BY <1>2, <1>5, <2>1, <2>3 DEF Sayings
<1>6. CASE ~flageofsent
  <2>0. PICK e \in Farewells : e = "EOF"
    BY <1>3
  <2> DEFINE q == And(ToClient, e)
  <2>1. ToClient' = And(q, t)
    <3>1. EofMsgs = <<Done("EOF")>>
      BY <1>6 DEF EofMsgs
    <3>2. ToClient \o (<<Done("EOF")>> \o <<Done(t)>>) = (ToClient \o <<Done("EOF")>>) \o <<Done(t)>>
      BY <1>1, <1>4, ConcatAssociative
    <3> QED
      BY <2>0, <3>1, <3>2 DEF And
  <2>2. Sayings = {}
    BY <1>1, <1>2, <1>6
  <2>3. ComesLast(client.seen, ToClient, e)
    BY <2>2 DEF Sayings, ComesLast
  <2>a. /\ q \in Seq(OutPackets) /\ Tidy(client.seen, q)
        /\ Spoken(client.seen, q) = Spoken(client.seen, ToClient) \cup {e}
        /\ Covered(ToClient) \/ e = "EOF" => Covered(q)
    BY <1>1, <2>3, Farewell
  <2>4. /\ q \in Seq(OutPackets) /\ Tidy(client.seen, q)
        /\ Spoken(client.seen, q) = Spoken(client.seen, ToClient) \cup {e} /\ Covered(q)
    BY <2>0, <2>a
  <2>5. Spoken(client.seen, q) = {"EOF"}
    BY <2>0, <2>2, <2>4 DEF Sayings
  <2> HIDE DEF q
  <2>6. ComesLast(client.seen, q, t)
    BY <2>5, RankValues DEF ComesLast
  <2>7. /\ Tidy(client.seen, And(q, t)) /\ Covered(And(q, t))
        /\ Spoken(client.seen, And(q, t)) = Spoken(client.seen, q) \cup {t}
    BY <1>1, <1>3, <2>4, <2>6, Farewell
  <2> QED
    BY <2>1, <2>2, <2>5, <2>7 DEF Sayings
<1> QED
  BY <1>2, <1>5, <1>6 DEF EndInv, Flags

(* loop_wait's EOF and exit status keep the order. *)
LEMMA EndsReaped ==
  ASSUME Known, EndInv, status = "run", loop_wait, UNCHANGED client
  PROVE  EndInv'
<1>0. /\ pc = "wait" /\ pc' \notin {"flush_close"} /\ watch \subseteq Blocks
      /\ pc' \in {"send", "recv", "process", "flush_status"} /\ OutWires /\ UNCHANGED s2c
  BY Reaps DEF Known, WireInv, LoopInv, Positions, loop_wait
<1>1. CASE ~(pid > 0 /\ child.st = "zombie") \/ (die("full") /\ UNCHANGED <<packetvars, sendbuf>>)
  <2>1. UNCHANGED <<packetvars, sendbuf>> /\ (pid < 0 => pid' < 0)
    BY <1>1 DEF loop_wait, die, chanvars
  <2>2. pc' # "flush_status" \/ status' # "run"
    <3>1. CASE ~(pid > 0 /\ child.st = "zombie")
      BY <1>0, <3>1, NextBlock DEF loop_wait, Continue
    <3>2. CASE die("full")
      BY <3>2 DEF die
    <3> QED
      BY <1>1, <3>1, <3>2
  <2>3. Says({})
    BY <1>0, <2>1, SaysNothing
  <2> QED
    BY <1>0, <2>1, <2>2, <2>3, EndsQuietly
<1>2. CASE pid > 0 /\ child.st = "zombie" /\ ~(die("full") /\ UNCHANGED <<packetvars, sendbuf>>)
  <2>1. /\ channel_waitnohang /\ flageofsent' = TRUE
        /\ UNCHANGED <<flagclosesent, flagchanneleofreceived>>
        /\ sendbuf' = sendbuf \o (EofMsgs \o StatusMsgs)
        /\ IF flagclosesent THEN Continue("wait") ELSE pc' = "flush_status"
    BY <1>2 DEF loop_wait, Handler
  <2>2. pid' = -1 \/ status' # "run"
    BY <1>2, <2>1 DEF channel_waitnohang, die
  <2>3. EofMsgs \o StatusMsgs \in Seq(OutPackets)
    BY Closings, PlainOut
  <2>4. ToClient' = ToClient \o (EofMsgs \o StatusMsgs)
    BY <1>0, <2>1, <2>3, PutBehind
  <2>5. maxpacket # 0 /\ pid' = -1
    <3>1. maxpacket # 0
      BY <1>2 DEF Known, Base, ChannelInv, BeforeChild
    <3> QED
      BY <1>2, <2>1, <3>1 DEF channel_waitnohang
  <2>6. "STATUS" \notin Sayings /\ (flagclosesent <=> "CLOSE" \in Sayings) /\ flagclosesent \in BOOLEAN
        /\ flagchanneleofreceived \in BOOLEAN /\ flageofsent \in BOOLEAN
        /\ (flageofsent <=> "EOF" \in Sayings) /\ ("CLOSE" \in Sayings => "EOF" \in Sayings)
    <3>1. ~(pid < 0)
      BY <1>2 DEF Known
    <3> QED
      BY <1>0, <3>1 DEF EndInv, Flags, Phases
  <2>7. flageofsent => flagchanneleofreceived
    BY <1>2, <2>6 DEF EndInv, Phases, Running, Known
  <2>8. CASE flagclosesent
    <3>1. flageofsent /\ EofMsgs \o StatusMsgs = <<>>
      BY <2>6, <2>8 DEF EofMsgs, StatusMsgs
    <3>2. ToClient' = ToClient /\ Sayings' = Sayings /\ client'.seen = client.seen
      BY <2>4, <3>1, FarewellNow DEF Sayings
    <3>3. pc' \notin {"flush_status", "flush_close"}
      BY <1>0, <2>1, <2>8, NextBlock DEF Continue
    <3>4. Tidy(client.seen, ToClient)'
      BY <3>2 DEF EndInv
    <3>5. Flags'
      BY <1>0, <2>1, <2>6, <3>1, <3>2, <3>3 DEF Flags
    <3>6. Phases'
      BY <2>1, <2>5, <2>6, <2>7, <3>1, <3>2, <3>3 DEF Phases
    <3> QED
      BY <3>4, <3>5, <3>6 DEF EndInv
  <2>9. CASE ~flagclosesent
    <3>1. StatusMsgs = <<Done("STATUS")>>
      BY <2>9 DEF StatusMsgs
    <3>2. /\ Tidy(client.seen, ToClient)' /\ Sayings' = Sayings \cup {"EOF", "STATUS"}
          /\ ~flageofsent => Covered(ToClient)'
      BY <1>0, <2>4, <2>6, <2>9, <3>1, TwoFarewells
    <3>3. pc' = "flush_status"
      BY <2>1, <2>9
    <3>4. Flags'
      BY <2>1, <2>6, <2>9, <3>2, <3>3 DEF Flags
    <3>5. Phases'
      BY <2>1, <2>5, <2>7, <2>9, <3>2, <3>3 DEF Phases
    <3> QED
      BY <3>2, <3>4, <3>5 DEF EndInv
  <2> QED
    BY <2>8, <2>9
<1> QED
  BY <1>1, <1>2

(* So does the answer to CHANNEL_CLOSE. *)
LEMMA EndsAnswered ==
  ASSUME Known, EndInv, status = "run", packet_channel_recv_close, UNCHANGED client,
         pid < 0 => pid' < 0
  PROVE  EndInv'
<1>0. pc = "process" /\ pc' = pc /\ OutWires /\ UNCHANGED s2c
  BY DEF packet_channel_recv_close, Received, Silent, Stay, loopvars, Known, WireInv
<1>1. CASE UNCHANGED <<packetvars, sendbuf>>
  <2>1. Says({})
    BY <1>0, <1>1, SaysNothing
  <2> QED
    BY <1>0, <1>1, <2>1, EndsQuietly
<1>2. CASE ~UNCHANGED <<packetvars, sendbuf>>
  <2>1. /\ flageofsent' = TRUE /\ flagclosesent' = TRUE /\ flagchanneleofreceived' = TRUE
        /\ sendbuf' = sendbuf \o (EofMsgs \o CloseMsgs)
    BY <1>2 DEF packet_channel_recv_close, Silent, Handler
  <2>2. EofMsgs \o CloseMsgs \in Seq(OutPackets)
    BY Closings, PlainOut
  <2>3. ToClient' = ToClient \o (EofMsgs \o CloseMsgs)
    BY <1>0, <2>1, <2>2, PutBehind
  <2>4. (flagclosesent <=> "CLOSE" \in Sayings) /\ flagclosesent \in BOOLEAN /\ flageofsent \in BOOLEAN
        /\ (flageofsent <=> "EOF" \in Sayings) /\ ("CLOSE" \in Sayings => "EOF" \in Sayings)
        /\ ("STATUS" \in Sayings => pid < 0)
    BY <1>0 DEF EndInv, Flags, Phases
  <2>5. Tidy(client.seen, ToClient)' /\ Sayings' = Sayings \cup {"EOF", "CLOSE"}
    <3>1. CASE flagclosesent
      <4>1. flageofsent /\ EofMsgs \o CloseMsgs = <<>>
        BY <2>4, <3>1 DEF EofMsgs, CloseMsgs
      <4>2. ToClient' = ToClient /\ Sayings' = Sayings /\ client'.seen = client.seen
        BY <2>3, <4>1, FarewellNow DEF Sayings
      <4> QED
        BY <2>4, <3>1, <4>1, <4>2 DEF EndInv
    <3>2. CASE ~flagclosesent
      <4>1. CloseMsgs = <<Done("CLOSE")>>
        BY <3>2 DEF CloseMsgs
      <4> QED
        BY <1>0, <2>3, <2>4, <3>2, <4>1, TwoFarewells
    <3> QED
      BY <3>1, <3>2
  <2>6. Flags'
    BY <1>0, <2>1, <2>5 DEF Flags
  <2>7. Phases'
    BY <1>0, <2>1, <2>4, <2>5 DEF Phases
  <2> QED
    BY <2>5, <2>6, <2>7 DEF EndInv
<1> QED
  BY <1>1, <1>2
(* So do the blocks of the loop, which put no ending packet. *)
LEMMA EndsLoops ==
  ASSUME Known, EndInv, status = "run", UNCHANGED client, pid < 0 => pid' < 0,
         \/ loop_break \/ loop_poll \/ loop_polltimeout \/ loop_selfpipe \/ loop_tochild
         \/ loop_from1 \/ loop_from2 \/ loop_check \/ loop_send \/ loop_recv \/ packet_getall
  PROVE  EndInv'
<1> DEFINE T == IF pc \in {"from1", "from2"} THEN {"DATA", "EXT"} ELSE {"ADJ"}
<1>1. Says(T) /\ UNCHANGED packetvars /\ T \cap Farewells = {}
  BY QuietLoop, RankValues DEF Known, WireInv
<1>2. pc' = pc \/ (pc # "flush_close" /\ pc' \notin {"flush_close", "flush_status"})
  <2>0. watch \subseteq Blocks /\ Ready \subseteq Blocks
    BY DEF Known, LoopInv, Positions, Ready, Watched, Blocks
  <2>1. CASE loop_break \/ loop_polltimeout
    BY <2>1 DEF loop_break, loop_polltimeout, loopvars
  <2>5. CASE packet_getall
    <3>1. pc \in {"auth", "rekey"} /\ (pc' = "top" \/ pc' = pc)
      BY <2>5 DEF packet_getall, Awaited, loopvars
    <3> QED
      BY <3>1
  <2>2. CASE loop_poll
    BY <2>0, <2>2, NextBlock DEF loop_poll
  <2>3. CASE loop_selfpipe \/ loop_tochild \/ loop_from1 \/ loop_from2
    BY <2>0, <2>3, NextBlock DEF loop_selfpipe, loop_tochild, loop_from1, loop_from2, Continue
  <2>4. CASE loop_check \/ loop_send \/ loop_recv
    BY <2>0, <2>4, NextBlock DEF loop_check, loop_send, loop_recv, Continue
  <2> QED
    BY <2>1, <2>2, <2>3, <2>4, <2>5
<1>3. flageofsent /\ ~flagchanneleofreceived => T \cap {"DATA", "EXT"} = {}
  <2> SUFFICES ASSUME flageofsent, ~flagchanneleofreceived PROVE pc \notin {"from1", "from2"}
    OBVIOUS
  <2>1. pid < 0
    BY DEF EndInv, Phases, Running
  <2>2. pc \in {"from1", "from2"} => pid > 0
    BY DEF Known, LoopInv, Positions, Watches, Blocks
  <2> QED
    BY <2>1, <2>2 DEF Known
<1> HIDE DEF T
<1> QED
  BY <1>1, <1>2, <1>3, EndsQuietly

(* So do the handlers. *)
LEMMA EndsProcess ==
  ASSUME Known, EndInv, status = "run", UNCHANGED client, pid < 0 => pid' < 0, process
  PROVE  EndInv'
<1>1. CASE packet_channel_recv_close
  BY <1>1, EndsAnswered
<1>2. CASE ~packet_channel_recv_close
  <2>1. Says(Words) /\ UNCHANGED packetvars
    BY <1>2, QuietProcess DEF Known, WireInv
  <2>2. Words \cap Farewells = {} /\ Words \cap {"DATA", "EXT"} = {}
    BY RankValues DEF Words, Replies
  <2>3. pc # "flush_close" /\ pc' \notin {"flush_close", "flush_status"}
    BY ProcessEffect DEF Known
  <2> QED
    BY <2>1, <2>2, <2>3, EndsQuietly
<1> QED
  BY <1>1, <1>2

(* So does packet_sendall, which only moves packets on. *)
LEMMA EndsFlush ==
  ASSUME Known, EndInv, status = "run", UNCHANGED client, UNCHANGED pid, packet_sendall
  PROVE  EndInv'
<1>0. OutWires /\ ToClient \in Seq(OutPackets) /\ pc \in DOMAIN AfterFlush
      /\ UNCHANGED <<flageofsent, flagchanneleofreceived>> /\ flagclosesent \in BOOLEAN
      /\ client'.seen = client.seen
  BY Directions DEF Known, WireInv, packet_sendall, EndInv, Flags
<1>1. CASE sendbuf # <<>>
  <2>1. UNCHANGED <<pc, packetvars>>
    BY <1>0, <1>1 DEF packet_sendall, loopvars, packetvars
  <2>2. \/ UNCHANGED <<sendbuf, s2c>>
        \/ s2c' = Append(s2c, Head(sendbuf)) /\ sendbuf' = Tail(sendbuf)
    BY <1>1 DEF packet_sendall
  <2>3. Says({})
    <3>1. CASE UNCHANGED <<sendbuf, s2c>>
      BY <1>0, <3>1, SaysNothing
    <3>2. CASE s2c' = Append(s2c, Head(sendbuf)) /\ sendbuf' = Tail(sendbuf)
      <4>1. OutWires' /\ ToClient' = ToClient
        BY <1>0, <1>1, <3>2, HeadPasses
      <4> QED
        BY <4>1 DEF Says
    <3> QED
      BY <2>2, <3>1, <3>2
  <2> QED
    BY <2>1, <2>3, EndsQuietly
<1>2. CASE sendbuf = <<>> /\ pc = "flush_status"
  <2>1. /\ pc' = "flush_close" /\ sendbuf' = <<Done("CLOSE")>> /\ UNCHANGED <<s2c, status>>
        /\ flagclosesent' = (flagclosesent \/ pc = "flush_close")
    BY <1>2 DEF packet_sendall, AfterFlush
  <2>2. flageofsent /\ ~flagclosesent /\ pid < 0 /\ flagclosesent' = FALSE
    BY <1>0, <1>2, <2>1 DEF EndInv, Phases, Running
  <2>3. "EOF" \in Sayings /\ "CLOSE" \notin Sayings
    BY <1>2, <2>2 DEF EndInv, Flags
  <2>4. PICK c \in Farewells : c = "CLOSE"
    BY RankValues
  <2>5. <<Done(c)>> \in Seq(OutPackets)
    BY RankValues DEF Done, Msg, OutPackets
  <2>6. ToClient' = And(ToClient, c)
    <3>1. s2c \o <<>> = s2c
      BY <1>0, ConcatEmptySeq DEF OutWires
    <3> QED
      BY <1>2, <2>1, <2>4, <3>1 DEF And, ToClient
  <2>7. client.seen \in SUBSET Farewells /\ Tidy(client.seen, ToClient) /\ Sayings \subseteq {"EOF", "STATUS", "CLOSE"}
    BY FarewellNow, RankValues
  <2>8. ComesLast(client.seen, ToClient, c)
    <3>1. ASSUME NEW u \in Sayings PROVE Rank[u] < Rank["CLOSE"]
      <4>1. u \in {"EOF", "STATUS"}
        BY <2>3, <2>7
      <4> QED
        BY <4>1, RankValues
    <3> QED
      BY <2>4, <3>1 DEF ComesLast, Sayings
  <2>9. /\ Tidy(client.seen, And(ToClient, c))
        /\ Spoken(client.seen, And(ToClient, c)) = Spoken(client.seen, ToClient) \cup {c}
        /\ Covered(ToClient) \/ c = "EOF" => Covered(And(ToClient, c))
    BY <1>0, <2>7, <2>8, Farewell
  <2>10. Tidy(client.seen, ToClient)' /\ Sayings' = Sayings \cup {"CLOSE"}
         /\ (Covered(ToClient) => Covered(ToClient)')
    BY <1>0, <2>4, <2>6, <2>9 DEF Sayings
  <2>11. Flags'
    BY <1>0, <2>1, <2>2, <2>3, <2>10 DEF EndInv, Flags
  <2>12. Phases'
    BY <1>0, <2>1, <2>2, <2>3, <2>10 DEF EndInv, Phases, Running
  <2> QED
    BY <2>10, <2>11, <2>12 DEF EndInv
<1>3. CASE sendbuf = <<>> /\ pc # "flush_status"
  <2>1. /\ sendbuf' = <<>> /\ UNCHANGED <<s2c, status>> /\ pc' = AfterFlush[pc]
        /\ flagclosesent' = (flagclosesent \/ pc = "flush_close")
    BY <1>3 DEF packet_sendall
  <2>2. ToClient' = ToClient /\ Sayings' = Sayings
    BY <1>0, <1>3, <2>1 DEF ToClient, Sayings
  <2>3. pc \in {"flush_close", "flush_process", "flush_rekey"}
    BY <1>0, <1>3 DEF AfterFlush
  <2>4. pc' \notin {"flush_status", "flush_close"}
    <3>1. Following("wait", watch) \in {"send", "recv", "process"}
      BY NextBlock DEF Known, LoopInv, Positions
    <3> QED
      BY <2>1, <2>3, <3>1 DEF AfterFlush
  <2>5. Tidy(client.seen, ToClient)'
    BY <1>0, <2>2 DEF EndInv
  <2>6. Flags'
    BY <1>0, <2>1, <2>2, <2>3, <2>4 DEF EndInv, Flags
  <2>7. Phases'
    BY <1>0, <2>1, <2>2, <2>4 DEF EndInv, Phases, Running
  <2> QED
    BY <2>5, <2>6, <2>7 DEF EndInv
<1> QED
  BY <1>1, <1>2, <1>3

(* So does a step that touches neither the packets nor what was seen of
   them. *)
LEMMA EndsSilent ==
  ASSUME EndInv, UNCHANGED <<pid, status, packetvars, pc, ToClient>>, client'.seen = client.seen
  PROVE  EndInv'
<1>1. Sayings' = Sayings
  BY DEF Sayings
<1>2. UNCHANGED <<flageofsent, flagclosesent, flagchanneleofreceived>>
  BY DEF packetvars
<1>3. Flags' /\ Phases'
  BY <1>1, <1>2 DEF EndInv, Flags, Phases, Running
<1> QED
  BY <1>3 DEF EndInv

(* So does the client, who takes the packets in order. *)
LEMMA EndsClient ==
  ASSUME Known, EndInv, Client
  PROVE  EndInv'
<1>0. /\ UNCHANGED <<pid, status, packetvars, pc, sendbuf>> /\ OutWires /\ ClientOK
      /\ client.seen \in SUBSET Farewells
  BY DEF Known, WireInv, Client, chanvars, loopvars
<1>1. CASE ~ClientRecv
  <2>1. UNCHANGED ToClient
    <3>1. UNCHANGED s2c
      BY <1>1, ClientPackets
    <3> QED
      BY <1>0, <3>1 DEF ToClient
  <2>2. client'.seen = client.seen
    <3>1. CASE ClientRequest
      <4>1. PICK w : client' = [client EXCEPT !.left = @ - 1, !.waiting = w]
        BY <1>0, <3>1, ClientRequests
      <4> QED
        BY <1>0, <4>1 DEF ClientOK, Fields
    <3> QED
      BY <1>0, <1>1, <3>1, ClientOthers
  <2> QED
    BY <1>0, <2>1, <2>2, EndsSilent
<1>2. CASE ClientRecv
  <2> DEFINE m == Head(s2c)
  <2>1. OutWires' /\ m \in OutPackets /\ ToClient = <<m>> \o ToClient'
    BY <1>0, <1>2, ClientTakes
  <2>2. client'.seen = client.seen \cup ({m.t} \cap Farewells)
    <3>0. Farewells = {"EOF", "STATUS", "CLOSE"} /\ Replies = {"SUCCESS", "FAILURE", "REQFAIL"}
      BY RankValues DEF Replies
    <3>1. CASE m.t \in Farewells
      <4>1. client' = [client EXCEPT !.seen = @ \cup {m.t}]
        BY <1>2, <3>0, <3>1 DEF ClientRecv
      <4> QED
        BY <1>0, <3>0, <3>1, <4>1 DEF ClientOK, Fields
    <3>2. CASE m.t \notin Farewells
      <4>1. \/ client' = [client EXCEPT !.open = "yes"] \/ client' = [client EXCEPT !.open = "failed"]
            \/ client' = [client EXCEPT !.kex = "reply"] \/ client' = client
            \/ \E w, b : client' = [client EXCEPT !.waiting = w, !.started = b]
        BY <1>2, <3>0, <3>2 DEF ClientRecv
      <4> QED
        BY <1>0, <3>2, <4>1 DEF ClientOK, Fields
    <3> QED
      BY <3>1, <3>2
  <2>3. PICK q \in Seq(OutPackets) : q = ToClient'
    BY <2>1, DirectionsNext
  <2> DEFINE later == client.seen \cup ({m.t} \cap Farewells)
  <2>4. Tidy(client.seen, <<m>> \o q)
    BY <2>1, <2>3 DEF EndInv
  <2>5. Tidy(later, q) /\ Spoken(later, q) = Spoken(client.seen, <<m>> \o q)
    BY <1>0, <2>1, <2>4, TidyFirst
  <2>6. Tidy(client.seen, ToClient)' /\ Sayings' = Sayings
    BY <2>1, <2>2, <2>3, <2>5 DEF Sayings
  <2>7. Covered(ToClient) => Covered(ToClient)'
    BY <2>1, <2>3, CoveredFirst
  <2>8. UNCHANGED <<flageofsent, flagclosesent, flagchanneleofreceived>>
    BY <1>0 DEF packetvars
  <2>9. Flags' /\ Phases'
    BY <1>0, <2>6, <2>7, <2>8 DEF EndInv, Flags, Phases, Running
  <2> QED
    BY <2>6, <2>9 DEF EndInv
<1> QED
  BY <1>1, <1>2
(* Every step keeps the ending packets in order. *)
LEMMA FarewellStep ==
  ASSUME Base, LoopInv, WireInv, EndInv, [Next]_vars
  PROVE  EndInv'
<1>1. Known /\ (pid < 0 => pid' < 0)
  <2>1. [ChannelNext]_cvars /\ pid \in {-1, 0, 1} /\ client.seen \in SUBSET Farewells
    BY BaseStep DEF Base, ChannelInv, ChannelTypeOK, CountersOK, WireInv, ClientOK
  <2>2. <<pid, pid'>> \in {<<0, 0>>, <<0, 1>>, <<0, -1>>, <<1, 1>>, <<1, -1>>, <<-1, -1>>}
    BY <2>1, OneLifeStep DEF Base
  <2> QED
    BY <2>1, <2>2 DEF Known
<1>2. CASE UNCHANGED vars \/ Child \/ Stopped
  <2>1. UNCHANGED <<pid, status, packetvars, pc, sendbuf, s2c, client>>
    BY <1>2 DEF vars, Child, Stopped, chanvars, loopvars, clientvars
  <2> QED
    BY <2>1, EndsSilent DEF ToClient
<1>3. CASE Client
  BY <1>1, <1>3, EndsClient
<1>4. CASE Server \/ Timeout
  <2>1. status = "run" /\ UNCHANGED client
    BY <1>4 DEF Server, Timeout, clientvars
  <2>2. CASE process
    BY <1>1, <2>1, <2>2, EndsProcess
  <2>3. CASE loop_wait
    BY <1>1, <2>1, <2>3, EndsReaped
  <2>4. CASE packet_sendall
    <3>1. UNCHANGED pid
      BY <2>4 DEF packet_sendall, die, chanvars
    <3> QED
      BY <1>1, <2>1, <2>4, <3>1, EndsFlush
  <2>5. CASE ~process /\ ~loop_wait /\ ~packet_sendall
    BY <1>1, <1>4, <2>1, <2>5, EndsLoops DEF Server, Timeout
  <2> QED
    BY <2>2, <2>3, <2>4, <2>5
<1> QED
  BY <1>2, <1>3, <1>4 DEF Next

(* At first none has been said. *)
LEMMA FarewellStart == Init => EndInv
<1> SUFFICES ASSUME Init PROVE EndInv
  OBVIOUS
<1>1. ToClient = <<>> /\ client.seen = {}
  BY DEF Init, ToClient
<1>2. Tidy({}, <<>>) /\ Spoken({}, <<>>) = {}
  BY DEF Tidy, Spoken
<1>3. Flags
  BY <1>1, <1>2 DEF Init, Flags, Sayings
<1>4. Phases
  BY <1>1, <1>2 DEF Init, Phases, Sayings
<1> QED
  BY <1>1, <1>2, <1>3, <1>4 DEF EndInv

(* The ending packets are in order throughout. *)
LEMMA FarewellAlways == Spec => [](Base /\ LoopInv /\ WireInv /\ EndInv)
<1>1. Base /\ LoopInv /\ WireInv /\ EndInv /\ [Next]_vars => EndInv'
  BY FarewellStep
<1> QED
  BY <1>1, FarewellStart, LoopAlways, WiresAlways, PTL DEF Spec
-----------------------------------------------------------------------------
(* All output is read before the end of the output: what the loop closes was
   empty, and nobody writes to it any more. *)
Early1 == pc \in {"selfpipe", "tochild", "from1"} /\ "from1" \in watch
Early2 == pc \in {"selfpipe", "tochild", "from1", "from2"} /\ "from2" \in watch

Drained ==
    ~flagterminal /\ child.st # "none" =>
        /\ fd1 = NoFd => cout = 0 /\ "out" \notin child.writes
        /\ fd2 = NoFd => cerr = 0 /\ "err" \notin child.writes
        /\ Early1 => cout > 0 \/ "out" \notin child.writes
        /\ Early2 => cerr > 0 \/ "err" \notin child.writes

\* A step that leaves the output alone, and does not go back to an earlier block.
LEMMA DrainedSame ==
  ASSUME Drained, UNCHANGED <<fd1, fd2, cout, cerr, flagterminal>>, child'.writes = child.writes,
         child'.st # "none" => child.st # "none", Early1' => Early1, Early2' => Early2
  PROVE  Drained'
  BY DEF Drained

\* The blocks that neither read the output nor poll.
LEMMA DrainedLoop ==
  ASSUME Base, LoopInv, Drained, status = "run",
         \/ loop_break \/ loop_polltimeout \/ loop_selfpipe \/ loop_tochild \/ loop_check
         \/ loop_wait \/ loop_send \/ loop_recv \/ packet_sendall \/ packet_getall
  PROVE  Drained'
<1>0. watch \subseteq Blocks
  BY DEF LoopInv, Positions
<1>1. UNCHANGED <<fd1, fd2, cout, cerr, flagterminal>>
  BY DEF loop_break, loop_polltimeout, loop_selfpipe, loop_tochild, loop_check, loop_wait, loop_send,
     loop_recv, packet_sendall, packet_getall, Handler, WriteToChild, channel_write,
     channel_waitnohang, die, chanvars, fds, childvars
<1>2. child'.writes = child.writes /\ (child'.st # "none" => child.st # "none")
  <2>1. CASE loop_wait
    <3>1. CASE UNCHANGED child
      BY <3>1
    <3>2. CASE child.st = "zombie" /\ child' = [child EXCEPT !.st = "reaped"]
      BY <3>2 DEF LoopInv, Lives
    <3> QED
      BY <2>1, <3>1, <3>2, Reaps
  <2>2. CASE ~loop_wait
    <3>1. UNCHANGED child
      BY <2>2 DEF loop_break, loop_polltimeout, loop_selfpipe, loop_tochild, loop_check, loop_send,
         loop_recv, packet_sendall, packet_getall, Handler, childvars
    <3> QED
      BY <3>1
  <2> QED
    BY <2>1, <2>2
<1>3. (Early1' => Early1) /\ (Early2' => Early2)
  <2>1. CASE loop_selfpipe \/ loop_tochild
    BY <1>0, <2>1, NextBlock DEF loop_selfpipe, loop_tochild, Continue, Early1, Early2
  <2>2. CASE loop_check \/ loop_send \/ loop_recv
    BY <1>0, <2>2, NextBlock DEF loop_check, loop_send, loop_recv, Continue, Early1, Early2
  <2>3. CASE loop_wait
    BY <2>3, Reaps DEF Early1, Early2
  <2>4. CASE packet_sendall
    <3>1. UNCHANGED loopvars \/ (pc \in DOMAIN AfterFlush /\ pc' = AfterFlush[pc])
      BY <2>4 DEF packet_sendall, loopvars
    <3>2. Following("wait", watch) \in {"send", "recv", "process"}
      BY <1>0, NextBlock
    <3> QED
      BY <3>1, <3>2 DEF AfterFlush, loopvars, Early1, Early2
  <2>5. CASE loop_break \/ loop_polltimeout \/ packet_getall
    BY <2>5 DEF loop_break, loop_polltimeout, packet_getall, loopvars, Early1, Early2
  <2> QED
    BY <2>1, <2>2, <2>3, <2>4, <2>5
<1> QED
  BY <1>1, <1>2, <1>3, DrainedSame

(* A round that starts has read what the last poll reported. *)
LEMMA DrainedPoll ==
  ASSUME Base, Drained, loop_poll
  PROVE  Drained'
<1>1. UNCHANGED <<chanvars, childvars>> /\ watch' = Ready
  BY DEF loop_poll
<1>2. UNCHANGED <<fd1, fd2, cout, cerr, child, flagterminal>>
  BY <1>1 DEF chanvars, fds, childvars
<1>3. ASSUME ~flagterminal, "from1" \in Ready PROVE cout > 0 \/ "out" \notin child.writes
  <2>1. fd1 # NoFd /\ Pollable("from1")
    BY <1>3 DEF Ready, Watched, channel_readisready
  <2>2. fd1 \in openfds
    BY <1>3, <2>1 DEF Base, ChannelInv, DescriptorsMatch
  <2> QED
    BY <2>1, <2>2 DEF Pollable
<1>4. ASSUME "from2" \in Ready PROVE cerr > 0 \/ "err" \notin child.writes
  BY <1>4 DEF Ready, Pollable
<1> QED
  BY <1>1, <1>2, <1>3, <1>4 DEF Drained, Early1, Early2

\* What the loop reads: with window and a descriptor that is open, r = 0 is the end.
LEMMA DrainedRead ==
  ASSUME Base, LoopInv, Drained, loop_from1 \/ loop_from2
  PROVE  Drained'
<1>0. /\ CountersOK /\ NamesFitMode /\ DescriptorsMatch /\ watch \subseteq Blocks
      /\ cout \in Nat /\ cerr \in Nat /\ (maxpacket = 0 => pid = 0)
      /\ pc = "from1" => "from1" \in watch /\ pid > 0 /\ fd1 # NoFd
      /\ pc = "from2" => "from2" \in watch /\ pid > 0 /\ fd2 # NoFd
  BY Numbers DEF Base, Pipes, ChannelInv, ChannelTypeOK, BeforeChild, LoopInv, Positions, Watches, Blocks
<1>a. pid > 0 => maxpacket \in Nat \ {0} /\ PacketLimit \in Nat \ {0}
  BY <1>0, PacketAssumption DEF CountersOK
<1>c. pid \in {-1, 0, 1} /\ (pid > 0 => ~(maxpacket = 0 \/ pid <= 0))
  BY <1>0, <1>a DEF CountersOK
<1>b. ReadLimit \in Nat /\ remotewindow \in Nat /\ (pid > 0 /\ remotewindow > 0 => ReadLimit > 0)
  BY <1>0, <1>a, ReadLimits DEF ReadLimit, Least
<1>1. (Early1' => Early1) /\ (Early2' => Early2)
  BY <1>0, NextBlock DEF loop_from1, loop_from2, Continue, Early1, Early2
<1>2. CASE UNCHANGED <<chanvars, childvars>>
  <2>1. UNCHANGED <<fd1, fd2, cout, cerr, child, flagterminal>>
    BY <1>2 DEF chanvars, fds, childvars
  <2> QED
    BY <1>1, <2>1, DrainedSame
<1>3. CASE loop_from1 /\ ~UNCHANGED <<chanvars, childvars>>
  <2>1. PICK r \in IF fd1 \in openfds /\ cout > 0 /\ ReadLimit > 0
                   THEN 1..Least(cout, ReadLimit) ELSE {0} :
          channel_read(r) /\ cout' = cout - r /\ UNCHANGED <<child, cerr>>
    BY <1>3 DEF loop_from1, Handler, die
  <2>2. pc = "from1" /\ pid > 0 /\ fd1 # NoFd /\ Early1 /\ r \in Nat /\ ~Early1'
    BY <1>0, <1>3, <2>1, NextBlock, LeastOfTwo DEF loop_from1, Continue, Early1
  <2>3. CASE remotewindow = 0
    <3>1. r = 0 /\ UNCHANGED chanvars
      BY <1>a, <1>b, <1>c, <2>1, <2>2, <2>3 DEF channel_read, ReadLimit, Least
    <3>2. UNCHANGED <<fd1, fd2, cout, cerr, child, flagterminal>>
      BY <1>0, <2>1, <3>1 DEF chanvars, fds
    <3> QED
      BY <1>1, <3>2, DrainedSame
  <2>4. CASE remotewindow # 0
    <3>1. UNCHANGED <<fd2, flagterminal>> /\ (r > 0 => fd1' = fd1)
      BY <1>c, <2>1, <2>2, <2>4 DEF channel_read
    <3>2. CASE r > 0
      BY <1>1, <2>1, <2>2, <3>1, <3>2 DEF Drained
    <3>3. CASE r = 0 /\ ~flagterminal
      <4>1. fd1 \in openfds
        BY <1>0, <2>2, <3>3 DEF DescriptorsMatch
      <4>2. cout = 0
        BY <1>0, <1>b, <2>1, <2>2, <2>4, <3>3, <4>1
      <4> QED
        BY <1>0, <1>1, <2>1, <2>2, <3>1, <3>3, <4>2 DEF Drained
    <3>4. CASE flagterminal
      BY <3>1, <3>4 DEF Drained
    <3> QED
      BY <2>2, <3>2, <3>3, <3>4
  <2> QED
    BY <2>3, <2>4
<1>4. CASE loop_from2 /\ ~UNCHANGED <<chanvars, childvars>>
  <2>1. PICK r \in IF cerr > 0 /\ ReadLimit > 0 THEN 1..Least(cerr, ReadLimit) ELSE {0} :
          channel_extendedread(r) /\ cerr' = cerr - r /\ UNCHANGED <<child, cout>>
    BY <1>4 DEF loop_from2, Handler, die
  <2>2. pc = "from2" /\ pid > 0 /\ fd2 # NoFd /\ Early2 /\ r \in Nat /\ ~Early2' /\ ~Early1'
    BY <1>0, <1>4, <2>1, NextBlock, LeastOfTwo DEF loop_from2, Continue, Early1, Early2
  <2>3. CASE remotewindow = 0
    <3>1. r = 0 /\ UNCHANGED chanvars
      BY <1>a, <1>b, <1>c, <2>1, <2>2, <2>3 DEF channel_extendedread, ReadLimit, Least
    <3>2. UNCHANGED <<fd1, fd2, cout, cerr, child, flagterminal>>
      BY <1>0, <2>1, <3>1 DEF chanvars, fds
    <3> QED
      BY <1>1, <3>2, DrainedSame
  <2>4. CASE remotewindow # 0
    <3>1. UNCHANGED <<fd1, flagterminal>> /\ (r > 0 => fd2' = fd2)
      BY <1>c, <2>1, <2>2, <2>4 DEF channel_extendedread
    <3>2. CASE r > 0
      BY <2>1, <2>2, <3>1, <3>2 DEF Drained
    <3>3. CASE r = 0
      <4>1. cerr = 0
        BY <1>0, <1>b, <2>1, <2>2, <2>4, <3>3
      <4> QED
        BY <1>0, <2>1, <2>2, <3>1, <3>3, <4>1 DEF Drained
    <3> QED
      BY <2>2, <3>2, <3>3
  <2> QED
    BY <2>3, <2>4
<1> QED
  BY <1>2, <1>3, <1>4
\* The handlers leave the output alone; without terminal a child starts with both streams.
OutputKept ==
    /\ UNCHANGED <<cout, cerr>> /\ (pid # 0 => UNCHANGED flagterminal)
    /\ pid = 0 /\ pid' = 1 /\ ~flagterminal' => fd2' # NoFd

(* A handler reads none of the child's output. *)
LEMMA ProcessOutput ==
  ASSUME pid \in {-1, 0, 1}, process
  PROVE  OutputKept
<1> USE DEF Received, childvars, chanvars, fds, die
<1>1. CASE packet_channel_open
  <2>1. UNCHANGED <<cout, cerr, pid, flagterminal>>
    BY <1>1 DEF packet_channel_open, Handler, channel_open
  <2> QED
    BY <2>1 DEF OutputKept
<1>2. ASSUME NEW t, request_start(t)
      PROVE  OutputKept
  <2>0. reject => OutputKept
    BY DEF reject, Handler, OutputKept
  <2>1. PICK ok \in {TRUE, "fork" \notin Failures} :
          \/ reject
          \/ channel_exec(ok) /\ (maxpacket = 0 \/ ~ok) /\ UNCHANGED childvars
          \/ accept(channel_exec(ok) /\ ChildStart /\ UNCHANGED <<cin, cout, cerr, outleft>>) /\ maxpacket # 0 /\ ok
    BY <1>2 DEF request_start
  <2>2. CASE channel_exec(ok) /\ (maxpacket = 0 \/ ~ok) /\ UNCHANGED childvars
    BY <2>2 DEF channel_exec, OutputKept
  <2>3. CASE accept(channel_exec(ok) /\ ChildStart /\ UNCHANGED <<cin, cout, cerr, outleft>>)
    <3>1. (die("full") /\ UNCHANGED childvars) \/ (channel_exec(ok) /\ UNCHANGED <<cout, cerr>>)
      BY <2>3 DEF accept, Handler
    <3> QED
      BY <3>1 DEF channel_exec, channel_fork, channel_forkpty, OutputKept, NoFd
  <2> QED
    BY <2>0, <2>1, <2>2, <2>3
<1>3. CASE request_pty
  <2>1. UNCHANGED <<cout, cerr, pid>> /\ (pid # 0 => UNCHANGED flagterminal)
    BY <1>3 DEF request_pty, reject, accept, Handler, channel_openterminal
  <2> QED
    BY <2>1 DEF OutputKept
<1>4. ASSUME NEW t, request_other(t)
      PROVE  OutputKept
  BY <1>4 DEF request_other, reject, accept, Handler, OutputKept
<1>5. CASE packet_channel_request
  BY <1>2, <1>3, <1>4, <1>5 DEF packet_channel_request
<1>6. CASE packet_channel_recv_data \/ packet_channel_recv_extendeddata
  BY <1>6 DEF packet_channel_recv_data, packet_channel_recv_extendeddata, Silent, channel_put,
     channel_putextended, OutputKept
<1>7. CASE packet_channel_recv_windowadjust
  BY <1>7 DEF packet_channel_recv_windowadjust, Silent, channel_incrementremotewindow, OutputKept
<1>8. CASE packet_channel_recv_eof
  BY <1>8 DEF packet_channel_recv_eof, Silent, channel_puteof, OutputKept
<1>9. CASE packet_channel_recv_close
  <2>1. UNCHANGED childvars /\ (die("full") \/ channel_close)
    BY <1>9 DEF packet_channel_recv_close, Silent, Handler
  <2> QED
    BY <2>1 DEF channel_close, channel_puteof, OutputKept
<1>10. CASE packet_global_request \/ packet_unimplemented \/ packet_kexinit
  BY <1>10 DEF packet_global_request, packet_unimplemented, packet_kexinit, Handler, OutputKept
<1>11. CASE packet_disconnect \/ process_done
  BY <1>11 DEF packet_disconnect, process_done, OutputKept
<1> QED
  BY <1>1, <1>5, <1>6, <1>7, <1>8, <1>9, <1>10, <1>11 DEF process

(* So it keeps the account of it. *)
LEMMA DrainedProcess ==
  ASSUME Base, LoopInv, Drained, process
  PROVE  Drained'
<1>1. pid \in {-1, 0, 1} /\ (child.st # "none" => pid # 0)
  BY DEF Base, ChannelInv, ChannelTypeOK, CountersOK, LoopInv, Lives
<1>2. OutputKept /\ ~Early1' /\ ~Early2' /\ (SameChild \/ Started \/ Abandoned)
  BY <1>1, ProcessOutput, ProcessEffect DEF Early1, Early2
<1>3. CASE SameChild
  BY <1>1, <1>2, <1>3 DEF Drained, SameChild, OutputKept
<1>4. CASE Started
  BY <1>2, <1>4 DEF Drained, Started, OutputKept
<1>5. CASE Abandoned
  BY <1>1, <1>5 DEF Drained, Abandoned
<1> QED
  BY <1>2, <1>3, <1>4, <1>5

\* The child writes only while it holds the stream, and never opens one again.
LEMMA DrainedChild ==
  ASSUME Base, LoopInv, Drained, Child
  PROVE  Drained'
<1>0. /\ UNCHANGED <<fd1, fd2, flagterminal, pc, watch>> /\ cout \in Nat /\ cerr \in Nat
      /\ child \in [st : {"none", "run", "zombie", "reaped"}, reads : BOOLEAN,
                    writes : SUBSET {"out", "err"}]
  BY Numbers DEF Child, chanvars, fds, loopvars, Base, Pipes, LoopInv, Lives
<1>1. CASE \E s \in {"out", "err"} : ChildWrite(s)
  <2>1. PICK s \in {"out", "err"} : ChildWrite(s)
    BY <1>1
  <2>2. /\ UNCHANGED child
        /\ \/ "out" \in child.writes /\ cout' = cout + 1 /\ UNCHANGED cerr
           \/ "err" \in child.writes /\ cerr' = cerr + 1 /\ UNCHANGED cout
    BY <2>1 DEF ChildWrite
  <2> QED
    BY <1>0, <2>2 DEF Drained, Early1, Early2
<1>2. CASE \E s \in {"out", "err"} : ChildCloseOutput(s)
  <2>1. UNCHANGED <<cout, cerr>> /\ child'.st = child.st /\ child'.writes \subseteq child.writes
    BY <1>0, <1>2 DEF ChildCloseOutput
  <2> QED
    BY <1>0, <2>1 DEF Drained, Early1, Early2
<1>3. CASE ChildRead \/ ChildCloseInput \/ ChildExit
  <2>1. /\ UNCHANGED <<cout, cerr>> /\ child'.writes = child.writes
        /\ child'.st # "none" => child.st # "none"
    BY <1>0, <1>3 DEF ChildRead, ChildCloseInput, ChildExit
  <2> QED
    BY <1>0, <2>1, DrainedSame DEF Early1, Early2
<1> QED
  BY <1>1, <1>2, <1>3 DEF Child

(* Every step keeps the account of the output read. *)
LEMMA DrainedStep ==
  ASSUME Base, LoopInv, Drained, [Next]_vars
  PROVE  Drained'
<1>1. CASE UNCHANGED vars \/ Client \/ Stopped
  <2>1. UNCHANGED <<fd1, fd2, cout, cerr, child, flagterminal, pc, watch>>
    BY <1>1 DEF vars, Client, Stopped, chanvars, fds, childvars, loopvars
  <2> QED
    BY <2>1, DrainedSame DEF Early1, Early2
<1>2. CASE Server \/ Timeout
  <2>1. status = "run"
    BY <1>2 DEF Server, Timeout
  <2>2. CASE process \/ loop_poll \/ loop_from1 \/ loop_from2
    BY <2>2, DrainedProcess, DrainedPoll, DrainedRead
  <2>3. CASE ~(process \/ loop_poll \/ loop_from1 \/ loop_from2)
    BY <1>2, <2>1, <2>3, DrainedLoop DEF Server, Timeout
  <2> QED
    BY <2>2, <2>3
<1>3. CASE Child
  BY <1>3, DrainedChild
<1> QED
  BY <1>1, <1>2, <1>3 DEF Next

(* The account of the output holds throughout. *)
LEMMA DrainedAlways == Spec => [](Base /\ LoopInv /\ Drained)
<1>1. Init => Drained
  BY DEF Init, Drained
<1>2. Base /\ LoopInv /\ Drained /\ [Next]_vars => Drained'
  BY DrainedStep
<1> QED
  BY <1>1, <1>2, LoopAlways, PTL DEF Spec

(* How a channel ends, seen by the client: all output, one EOF, one exit status,
   one CLOSE, in this order, for every client and every child; with a terminal
   all but the completeness of the output (main_tinysshd.c, packet_channel_send_eof,
   packet_channel_send_close, packet_channel_recv_close; the pty exception is
   what the run pty_output shows). *)
THEOREM EndsComeInOrder == Spec => []((~flagterminal => EndsInOrder) /\ ClosingOnce /\ OutputBeforeEof)
<1>1. ASSUME WireInv, EndInv PROVE ClosingOnce
  <2>1. \A t \in Farewells : Sent(t) <=> t \in Sayings
    BY DEF Sent, Sayings, Spoken
  <2>2. Sent("EOF") <=> "EOF" \in Sayings
    BY <2>1, RankValues
  <2>3. Sent("STATUS") <=> "STATUS" \in Sayings
    BY <2>1, RankValues
  <2>4. Sent("CLOSE") <=> "CLOSE" \in Sayings
    BY <2>1, RankValues
  <2>5. Tidy(client.seen, ToClient) /\ Flags /\ Phases
    BY <1>1 DEF EndInv
  <2> QED
    BY <2>2, <2>3, <2>4, <2>5 DEF ClosingOnce, Flags, Phases, Tidy
<1>2. ASSUME EndInv PROVE OutputBeforeEof
  <2>1. Running /\ flageofsent /\ ~flagchanneleofreceived => Covered(ToClient)
    BY <1>2 DEF EndInv, Phases
  <2> QED
    BY <2>1 DEF OutputBeforeEof, Covered
<1>3. ASSUME Base, LoopInv, Drained, ~flagterminal PROVE OutputComplete
  <2> SUFFICES ASSUME pid = -1, child.st = "reaped" PROVE cout = 0 /\ cerr = 0 /\ child.writes = {}
    BY DEF OutputComplete
  <2>1. fd1 = NoFd /\ fd2 = NoFd /\ child.writes \subseteq {"out", "err"}
    BY <1>3 DEF LoopInv, Lives
  <2> QED
    BY <1>3, <2>1 DEF Drained
<1>4. Base /\ LoopInv /\ WireInv /\ EndInv /\ Drained
        => (~flagterminal => EndsInOrder) /\ ClosingOnce /\ OutputBeforeEof
  BY <1>1, <1>2, <1>3 DEF EndsInOrder
<1> QED
  BY <1>4, FarewellAlways, DrainedAlways, PTL
-----------------------------------------------------------------------------
(* The two windows. First what a sequence of packets carries: the data that
   takes window from the receiver, the grants that give window to it, and the
   packets that open the channel, of which there is never more than one. *)
Offers == {"OPEN", "CONFIRM", "OPENFAIL"}
Types(q) == {q[i].t : i \in 1..Len(q)}
Load(q) == Bytes(q, "DATA") + Bytes(q, "EXT")
Grant(q) == Bytes(q, "ADJ") + Bytes(q, "OPEN") + Bytes(q, "CONFIRM")
Offered(q) == \E i \in 1..Len(q) : q[i].t \in Offers
Alone(q) == \A i, j \in 1..Len(q) : q[i].t \in Offers /\ q[j].t \in Offers => i = j

(* The types in two sequences joined, in none and in one packet. *)
LEMMA TypesJoined ==
  ASSUME NEW S, NEW p \in Seq(S), NEW q \in Seq(S)
  PROVE  Types(p \o q) = Types(p) \cup Types(q)
<1>1. /\ Len(p) \in Nat /\ Len(q) \in Nat /\ Len(p \o q) = Len(p) + Len(q)
      /\ \A i \in 1..Len(p) : (p \o q)[i] = p[i]
      /\ \A i \in 1..Len(q) : (p \o q)[Len(p) + i] = q[i]
  BY LenProperties, ConcatProperties
<1> DEFINE r == p \o q
           a == Len(p)
           b == Len(q)
<1>2. a \in Nat /\ b \in Nat /\ Len(r) = a + b
      /\ (\A i \in 1..a : r[i] = p[i]) /\ (\A i \in 1..b : r[a + i] = q[i])
  BY <1>1
<1> HIDE DEF r, a, b
<1>3. ASSUME NEW i \in 1..Len(r) PROVE r[i].t \in Types(p) \cup Types(q)
  <2>1. CASE i \in 1..a
    BY <1>2, <2>1 DEF Types, a
  <2>2. CASE i \notin 1..a
    <3>1. i - a \in 1..b /\ a + (i - a) = i
      BY <1>2, <2>2
    <3>2. r[i] = q[i - a]
      BY <1>2, <3>1
    <3> QED
      BY <3>1, <3>2 DEF Types, b
  <2> QED
    BY <2>1, <2>2
<1>4. ASSUME NEW i \in 1..a PROVE p[i].t \in Types(r)
  <2>1. i \in 1..Len(r) /\ r[i] = p[i]
    BY <1>2
  <2> QED
    BY <2>1 DEF Types
<1>5. ASSUME NEW i \in 1..b PROVE q[i].t \in Types(r)
  <2>1. a + i \in 1..Len(r) /\ r[a + i] = q[i]
    BY <1>2
  <2> QED
    BY <2>1 DEF Types
<1>6. Types(r) = Types(p) \cup Types(q)
  BY <1>3, <1>4, <1>5 DEF Types, a, b
<1> QED
  BY <1>6 DEF r

(* A type that is not there carries nothing. *)
LEMMA Absent ==
  ASSUME NEW q \in Seq(Packet), NEW t, t \notin Types(q)
  PROVE  Bytes(q, t) = 0
<1>1. Len(q) \in Nat /\ \A i \in 1..Len(q) : Share(q[i], t) = 0
  BY LenProperties DEF Types, Share
<1>2. PICK f : Summed(f, q, Len(q), t) /\ Bytes(q, t) = f[Len(q)]
  BY BytesSum
<1> DEFINE S == {i \in 0..Len(q) : f[i] = 0}
<1>3. 0 \in S /\ \A i \in 1..Len(q) : i - 1 \in S => i \in S
  BY <1>1, <1>2 DEF Summed
<1> HIDE DEF S
<1>4. 0..Len(q) \subseteq S
  BY <1>1, <1>3, Climb
<1>5. Len(q) \in S
  BY <1>1, <1>4
<1> QED
  BY <1>2, <1>5 DEF S

(* What a sequence carries is a natural number, and adds up. *)
LEMMA Amounts ==
  ASSUME NEW p \in Seq(Packet), NEW q \in Seq(Packet)
  PROVE  /\ Load(p) \in Nat /\ Grant(p) \in Nat
         /\ Load(p \o q) = Load(p) + Load(q) /\ Grant(p \o q) = Grant(p) + Grant(q)
<1>0. \A t : Bytes(p, t) \in Nat /\ Bytes(q, t) \in Nat
  BY BytesNat
<1>a. \A t : Bytes(p \o q, t) = Bytes(p, t) + Bytes(q, t)
  BY BytesConcat
<1>1. /\ Bytes(p, "DATA") \in Nat /\ Bytes(p, "EXT") \in Nat
      /\ Bytes(q, "DATA") \in Nat /\ Bytes(q, "EXT") \in Nat
      /\ Bytes(p, "ADJ") \in Nat /\ Bytes(p, "OPEN") \in Nat /\ Bytes(p, "CONFIRM") \in Nat
      /\ Bytes(q, "ADJ") \in Nat /\ Bytes(q, "OPEN") \in Nat /\ Bytes(q, "CONFIRM") \in Nat
  BY <1>0
<1>2. /\ Bytes(p \o q, "DATA") = Bytes(p, "DATA") + Bytes(q, "DATA")
      /\ Bytes(p \o q, "EXT") = Bytes(p, "EXT") + Bytes(q, "EXT")
      /\ Bytes(p \o q, "ADJ") = Bytes(p, "ADJ") + Bytes(q, "ADJ")
      /\ Bytes(p \o q, "OPEN") = Bytes(p, "OPEN") + Bytes(q, "OPEN")
      /\ Bytes(p \o q, "CONFIRM") = Bytes(p, "CONFIRM") + Bytes(q, "CONFIRM")
  BY <1>a
<1> DEFINE r == p \o q
<1> HIDE DEF r
<1>3. Load(p) \in Nat /\ Grant(p) \in Nat
  <2>1. \A a, b, c \in Nat : a + b \in Nat /\ a + b + c \in Nat
    OBVIOUS
  <2> QED
    BY <1>1, <2>1, Zenon DEF Load, Grant
<1>4. Load(r) = Load(p) + Load(q)
  BY <1>1, <1>2 DEF Load, r
<1>5. Grant(r) = Grant(p) + Grant(q)
  <2>1. PICK a \in Nat, b \in Nat, c \in Nat, d \in Nat, e \in Nat, f \in Nat :
          /\ a = Bytes(p, "ADJ") /\ b = Bytes(p, "OPEN") /\ c = Bytes(p, "CONFIRM")
          /\ d = Bytes(q, "ADJ") /\ e = Bytes(q, "OPEN") /\ f = Bytes(q, "CONFIRM")
    BY <1>1, Zenon
  <2>2. Grant(p) = a + b + c /\ Grant(q) = d + e + f
    BY <2>1, Zenon DEF Grant
  <2>3. Grant(r) = (a + d) + (b + e) + (c + f)
    BY <1>2, <2>1, Zenon DEF Grant, r
  <2> QED
    BY <2>2, <2>3
<1> QED
  BY <1>3, <1>4, <1>5 DEF r

(* What one packet carries. *)
LoadOf(m) == IF m.t \in {"DATA", "EXT"} THEN m.n ELSE 0
GrantOf(m) == IF m.t \in {"ADJ", "OPEN", "CONFIRM"} THEN m.n ELSE 0

(* A sequence of one carries what its packet does. *)
LEMMA AmountsOfOne ==
  ASSUME NEW m \in Packet
  PROVE  /\ <<m>> \in Seq(Packet) /\ Load(<<m>>) = LoadOf(m) /\ Grant(<<m>>) = GrantOf(m)
         /\ Types(<<m>>) = {m.t} /\ LoadOf(m) \in Nat /\ GrantOf(m) \in Nat
<1>1. \A t : Bytes(<<m>>, t) = Share(m, t)
  BY BytesFew
<1>2. m.n \in Nat
  BY PacketNumbers
<1>3. Load(<<m>>) = LoadOf(m) /\ Grant(<<m>>) = GrantOf(m) /\ LoadOf(m) \in Nat /\ GrantOf(m) \in Nat
  BY <1>1, <1>2 DEF Load, Grant, LoadOf, GrantOf, Share
<1>4. Types(<<m>>) = {m.t} /\ <<m>> \in Seq(Packet)
  BY DEF Types
<1> QED
  BY <1>3, <1>4

(* q has all that p has, and the packet m. *)
Grows(p, q, m) ==
    /\ Load(q) = Load(p) + LoadOf(m) /\ Grant(q) = Grant(p) + GrantOf(m)
    /\ Types(q) = Types(p) \cup {m.t}
    /\ Offered(q) <=> Offered(p) \/ m.t \in Offers
    /\ LoadOf(m) \in Nat /\ GrantOf(m) \in Nat
    /\ Load(p) \in Nat /\ Grant(p) \in Nat /\ Load(q) \in Nat /\ Grant(q) \in Nat

(* Whether the opening is under way can be told from the types. *)
LEMMA OfferedTypes ==
  ASSUME NEW q
  PROVE  Offered(q) <=> Types(q) \cap Offers # {}
  BY DEF Offered, Types

(* A packet put behind the others, and what it must not be if they hold an offer. *)
LEMMA GrowsBehind ==
  ASSUME NEW p \in Seq(Packet), NEW m \in Packet
  PROVE  /\ Grows(p, p \o <<m>>, m)
         /\ Alone(p) /\ (m.t \in Offers => ~Offered(p)) => Alone(p \o <<m>>)
<1>1. /\ <<m>> \in Seq(Packet) /\ Load(<<m>>) = LoadOf(m) /\ Grant(<<m>>) = GrantOf(m)
      /\ Types(<<m>>) = {m.t} /\ LoadOf(m) \in Nat /\ GrantOf(m) \in Nat
  BY AmountsOfOne
<1>2. Types(p \o <<m>>) = Types(p) \cup {m.t}
  <2>1. Types(p \o <<m>>) = Types(p) \cup Types(<<m>>)
    BY <1>1, TypesJoined, ZenonT(40)
  <2> QED
    BY <1>1, <2>1
<1>3. Grows(p, p \o <<m>>, m)
  <2>1. /\ Load(p) \in Nat /\ Grant(p) \in Nat
        /\ Load(p \o <<m>>) = Load(p) + LoadOf(m) /\ Grant(p \o <<m>>) = Grant(p) + GrantOf(m)
    BY <1>1, Amounts
  <2>2. Load(p \o <<m>>) \in Nat /\ Grant(p \o <<m>>) \in Nat
    BY <1>1, <2>1
  <2>3. Offered(p \o <<m>>) <=> Offered(p) \/ m.t \in Offers
    BY <1>2, OfferedTypes
  <2> QED
    BY <1>1, <1>2, <2>1, <2>2, <2>3 DEF Grows
<1>4. ASSUME Alone(p), m.t \in Offers => ~Offered(p) PROVE Alone(p \o <<m>>)
  <2>1. Longer(p \o <<m>>, p, m)
    BY Behind
  <2> QED
    BY <1>4, <2>1 DEF Alone, Offered, Longer
<1> QED
  BY <1>3, <1>4

(* The same for the packet ahead of the others, which is taken. *)
LEMMA GrowsAhead ==
  ASSUME NEW p \in Seq(Packet), NEW m \in Packet
  PROVE  /\ Grows(p, <<m>> \o p, m)
         /\ Alone(<<m>> \o p) => Alone(p) /\ (m.t \in Offers => ~Offered(p))
<1>1. /\ <<m>> \in Seq(Packet) /\ Load(<<m>>) = LoadOf(m) /\ Grant(<<m>>) = GrantOf(m)
      /\ Types(<<m>>) = {m.t} /\ LoadOf(m) \in Nat /\ GrantOf(m) \in Nat
  BY AmountsOfOne
<1>2. Types(<<m>> \o p) = Types(p) \cup {m.t}
  <2>1. Types(<<m>> \o p) = Types(<<m>>) \cup Types(p)
    BY <1>1, TypesJoined, ZenonT(40)
  <2> QED
    BY <1>1, <2>1
<1>3. Grows(p, <<m>> \o p, m)
  <2>1. Load(p) \in Nat /\ Grant(p) \in Nat
    BY Amounts
  <2>2. Load(<<m>> \o p) = LoadOf(m) + Load(p) /\ Grant(<<m>> \o p) = GrantOf(m) + Grant(p)
    BY <1>1, Amounts
  <2>3. Offered(<<m>> \o p) <=> Offered(p) \/ m.t \in Offers
    BY <1>2, OfferedTypes
  <2>4. /\ Load(<<m>> \o p) = Load(p) + LoadOf(m) /\ Grant(<<m>> \o p) = Grant(p) + GrantOf(m)
        /\ Load(<<m>> \o p) \in Nat /\ Grant(<<m>> \o p) \in Nat
    BY <1>1, <2>1, <2>2
  <2> QED
    BY <1>1, <1>2, <2>1, <2>3, <2>4 DEF Grows
<1>4. ASSUME Alone(<<m>> \o p) PROVE Alone(p) /\ (m.t \in Offers => ~Offered(p))
  <2> DEFINE q == <<m>> \o p
  <2>1. Len(p) \in Nat /\ Len(q) = Len(p) + 1 /\ q[1] = m /\ \A i \in 1..Len(p) : q[i + 1] = p[i]
    BY LenProperties
  <2>2. Alone(q)
    BY <1>4
  <2> HIDE DEF q
  <2>3. ASSUME NEW i \in 1..Len(p), NEW j \in 1..Len(p), p[i].t \in Offers, p[j].t \in Offers PROVE i = j
    <3>1. i + 1 \in 1..Len(q) /\ j + 1 \in 1..Len(q)
      BY <2>1
    <3>2. q[i + 1].t \in Offers /\ q[j + 1].t \in Offers
      BY <2>1, <2>3
    <3>3. i + 1 = j + 1
      BY <2>2, <3>1, <3>2 DEF Alone
    <3> QED
      BY <3>3
  <2>4. ASSUME m.t \in Offers, NEW i \in 1..Len(p), p[i].t \in Offers PROVE FALSE
    <3>1. i + 1 \in 1..Len(q) /\ 1 \in 1..Len(q)
      BY <2>1
    <3>2. q[i + 1].t \in Offers /\ q[1].t \in Offers
      BY <2>1, <2>4
    <3>3. i + 1 = 1
      BY <2>2, <3>1, <3>2 DEF Alone
    <3> QED
      BY <3>3
  <2> QED
    BY <2>3, <2>4 DEF Alone, Offered
<1> QED
  BY <1>3, <1>4
(* Most steps touch neither window: what they put and take carries nothing. *)
Touched == {"DATA", "EXT", "ADJ"} \cup Offers
Mute == {m \in OutPackets : m.t \notin Touched}
Like(p, q) ==
    /\ Load(q) = Load(p) /\ Grant(q) = Grant(p)
    /\ Types(q) \cap Touched = Types(p) \cap Touched
    /\ Alone(p) => Alone(q)

(* Packets that carry nothing change nothing of what is on its way. *)
LEMMA MuteWeighs ==
  ASSUME NEW q \in Seq(Packet), NEW r \in Seq(Mute)
  PROVE  r \in Seq(OutPackets) /\ Like(q, q \o r)
<1>0. Mute \subseteq OutPackets /\ Mute \subseteq Packet
  BY DEF Mute, Packet
<1>1. r \in Seq(Packet) /\ r \in Seq(OutPackets) /\ Types(r) \cap Touched = {}
  <2>1. Types(r) \cap Touched = {}
    BY ElementOfSeq DEF Types, Mute
  <2> QED
    BY <1>0, <2>1, SeqMonotonic
<1>2. \A t \in Touched : Bytes(r, t) = 0
  BY <1>1, Absent
<1>3. Load(r) = 0 /\ Grant(r) = 0
  BY <1>2 DEF Load, Grant, Touched, Offers
<1> DEFINE s == q \o r
<1>4. /\ Load(s) = Load(q) + Load(r) /\ Grant(s) = Grant(q) + Grant(r)
      /\ Load(q) \in Nat /\ Grant(q) \in Nat
  BY <1>1, Amounts
<1>5. Types(s) = Types(q) \cup Types(r)
  BY <1>1, TypesJoined
<1>6. /\ Len(q) \in Nat /\ Len(r) \in Nat /\ Len(s) = Len(q) + Len(r)
      /\ \A i \in 1..Len(q) : s[i] = q[i]
      /\ \A i \in 1..Len(r) : s[Len(q) + i] = r[i]
  BY <1>1, LenProperties, ConcatProperties
<1>7. Types(s) \cap Touched = Types(q) \cap Touched
  BY <1>1, <1>5
<1> HIDE DEF s
<1>8. ASSUME Alone(q) PROVE Alone(s)
  <2>1. ASSUME NEW i \in 1..Len(s), s[i].t \in Offers PROVE i \in 1..Len(q) /\ q[i].t \in Offers
    <3>1. CASE i \in 1..Len(q)
      BY <1>6, <2>1, <3>1
    <3>2. CASE i \notin 1..Len(q)
      <4>1. i - Len(q) \in 1..Len(r) /\ Len(q) + (i - Len(q)) = i
        BY <1>6, <3>2
      <4>2. s[i] = r[i - Len(q)]
        BY <1>6, <4>1
      <4>3. s[i].t \in Types(r)
        BY <4>1, <4>2 DEF Types
      <4> QED
        BY <1>1, <2>1, <4>3 DEF Touched
    <3> QED
      BY <3>1, <3>2
  <2> QED
    BY <1>8, <2>1 DEF Alone
<1>9. Like(q, s)
  BY <1>3, <1>4, <1>7, <1>8 DEF Like
<1> QED
  BY <1>1, <1>9 DEF s

(* Which types those are. *)
LEMMA MutePackets ==
  /\ \A t \in {"EOF", "STATUS", "CLOSE", "SUCCESS", "FAILURE", "REQFAIL", "OPENXFAIL", "KEX", "UNIMPL"} :
        <<Done(t)>> \in Seq(Mute)
  /\ <<>> \in Seq(Mute) /\ EofMsgs \in Seq(Mute)
  /\ EofMsgs \o StatusMsgs \in Seq(Mute) /\ EofMsgs \o CloseMsgs \in Seq(Mute)
<1>1. \A t \in {"EOF", "STATUS", "CLOSE", "SUCCESS", "FAILURE", "REQFAIL", "OPENXFAIL", "KEX", "UNIMPL"} :
         Done(t) \in Mute
  BY DEF Done, Msg, Mute, OutPackets, Replies, Farewells, Rank, Touched, Offers
<1>2. EofMsgs \in Seq(Mute) /\ StatusMsgs \in Seq(Mute) /\ CloseMsgs \in Seq(Mute)
  BY <1>1 DEF EofMsgs, StatusMsgs, CloseMsgs
<1> QED
  BY <1>1, <1>2, ConcatProperties, EmptySeq

\* A step after which what is on its way to the client carries what it did before.
Calm == OutWires' /\ Like(ToClient, ToClient')

(* That is so if nothing is put, *)
LEMMA CalmNone ==
  ASSUME OutWires, ToClient' = ToClient, OutWires'
  PROVE  Calm
  BY DEF Calm, Like

(* or packets that carry nothing. *)
LEMMA CalmPut ==
  ASSUME OutWires, NEW msgs \in Seq(Mute), sendbuf' = sendbuf \o msgs, UNCHANGED s2c
  PROVE  Calm
<1>1. ToClient \in Seq(Packet)
  BY Directions
<1>2. msgs \in Seq(OutPackets) /\ Like(ToClient, ToClient \o msgs)
  BY <1>1, MuteWeighs
<1>3. OutWires' /\ ToClient' = ToClient \o msgs
  BY <1>2, PutBehind
<1> QED
  BY <1>2, <1>3 DEF Calm

(* The same for a handler. *)
LEMMA CalmHandler ==
  ASSUME OutWires, NEW ACTION A, NEW msgs \in Seq(Mute), Handler(A, msgs), UNCHANGED s2c
  PROVE  Calm
<1>1. CASE UNCHANGED sendbuf
  BY <1>1, CalmNone DEF OutWires, ToClient
<1>2. CASE sendbuf' = sendbuf \o msgs
  BY <1>2, CalmPut
<1> QED
  BY <1>1, <1>2 DEF Handler

\* The counters that a step may leave alone.
Counters == <<maxpacket, localwindow, remotewindow, len0>>

(* The blocks of the loop but those that write to the child or read from it. *)
LEMMA CalmLoop ==
  ASSUME Base, OutWires,
         \/ loop_break \/ loop_poll \/ loop_polltimeout \/ loop_selfpipe \/ loop_check \/ loop_wait
         \/ loop_send \/ loop_recv \/ packet_sendall \/ packet_getall
  PROVE  Calm /\ UNCHANGED Counters
<1>0. UNCHANGED Counters
  <2>1. CASE loop_wait
    BY <2>1 DEF loop_wait, Handler, channel_waitnohang, die, chanvars, Counters
  <2> QED
    BY <2>1 DEF loop_break, loop_poll, loop_polltimeout, loop_selfpipe, loop_check, loop_send,
       loop_recv, packet_sendall, packet_getall, die, chanvars, Counters
<1>1. CASE \/ loop_break \/ loop_poll \/ loop_polltimeout \/ loop_selfpipe \/ loop_check
           \/ loop_recv \/ packet_getall
  <2>1. UNCHANGED <<sendbuf, s2c>>
    BY <1>1 DEF loop_break, loop_poll, loop_polltimeout, loop_selfpipe, loop_check, loop_recv, packet_getall
  <2> QED
    BY <1>0, <2>1, CalmNone DEF OutWires, ToClient
<1>2. CASE loop_wait
  <2>1. UNCHANGED s2c /\ (UNCHANGED sendbuf \/ sendbuf' = sendbuf \o (EofMsgs \o StatusMsgs))
    BY <1>2 DEF loop_wait, Handler
  <2>2. CASE UNCHANGED sendbuf
    BY <1>0, <2>1, <2>2, CalmNone DEF OutWires, ToClient
  <2> QED
    BY <1>0, <2>1, <2>2, MutePackets, CalmPut
<1>3. CASE loop_send
  <2>1. OutWires' /\ ToClient' = ToClient
    BY <1>3, SendPasses DEF loop_send, OutWires, ToClient
  <2> QED
    BY <1>0, <2>1, CalmNone
<1>4. CASE packet_sendall
  <2>1. CASE UNCHANGED <<sendbuf, s2c>>
    BY <1>0, <2>1, CalmNone DEF OutWires, ToClient
  <2>2. CASE sendbuf # <<>> /\ s2c' = Append(s2c, Head(sendbuf)) /\ sendbuf' = Tail(sendbuf)
    BY <1>0, <2>2, HeadPasses, CalmNone
  <2>3. CASE sendbuf = <<>> /\ UNCHANGED s2c /\ sendbuf' = <<Done("CLOSE")>>
    <3>1. <<Done("CLOSE")>> \in Seq(Mute) /\ <<Done("CLOSE")>> \in Seq(Plain)
      BY MutePackets, PlainPackets DEF Done
    <3>2. sendbuf \o <<Done("CLOSE")>> = <<Done("CLOSE")>>
      BY <2>3, <3>1, ConcatEmptySeq
    <3> QED
      BY <1>0, <2>3, <3>1, <3>2, CalmPut
  <2>4. \/ UNCHANGED <<sendbuf, s2c>>
        \/ sendbuf # <<>> /\ s2c' = Append(s2c, Head(sendbuf)) /\ sendbuf' = Tail(sendbuf)
        \/ sendbuf = <<>> /\ UNCHANGED s2c /\ sendbuf' = <<Done("CLOSE")>>
    BY <1>4 DEF packet_sendall
  <2> QED
    BY <2>1, <2>2, <2>3, <2>4
<1> QED
  BY <1>1, <1>2, <1>3, <1>4
(* The packet that a handler takes is not there any more. *)
LEMMA TakesOne ==
  ASSUME NEW m \in Packet, NEW p \in Seq(Packet), NEW q, q = <<m>> \o p
  PROVE  /\ Grows(p, q, m) /\ Types(p) \subseteq Types(q) /\ m.t \in Types(q)
         /\ Alone(q) => Alone(p) /\ (m.t \in Offers => ~Offered(p))
         /\ m.t \notin Touched => Like(q, p)
<1>1. Grows(p, q, m) /\ (Alone(q) => Alone(p) /\ (m.t \in Offers => ~Offered(p)))
  BY GrowsAhead
<1>2. Types(p) \subseteq Types(q) /\ m.t \in Types(q)
  BY <1>1 DEF Grows
<1>3. ASSUME m.t \notin Touched PROVE Like(q, p)
  <2>1. LoadOf(m) = 0 /\ GrantOf(m) = 0
    BY <1>3 DEF LoadOf, GrantOf, Touched, Offers
  <2>2. Load(p) = Load(q) /\ Grant(p) = Grant(q)
    BY <1>1, <2>1 DEF Grows
  <2>3. Types(p) \cap Touched = Types(q) \cap Touched
    BY <1>1, <1>3 DEF Grows
  <2> QED
    BY <1>1, <2>2, <2>3 DEF Like
<1> QED
  BY <1>1, <1>2, <1>3

(* Requests, however they end, put a reply or nothing and leave the windows alone. *)
LEMMA CalmRequest ==
  ASSUME Base, OutWires, packet_channel_request \/ packet_global_request
  PROVE  Calm /\ UNCHANGED Counters
<1>0. pid = 0 => len0 = 0
  BY DEF Base, ChannelInv, BeforeChild
<1>1. UNCHANGED s2c
  BY DEF packet_channel_request, request_start, request_pty, request_other,
     packet_global_request, Received
<1>2. \A r \in Replies : Answer(r) \in Seq(Mute)
  BY MutePackets DEF Answer, Replies
<1>a. "SUCCESS" \in Replies /\ "FAILURE" \in Replies /\ "REQFAIL" \in Replies
  BY DEF Replies
<1>3. reject => Calm /\ UNCHANGED Counters
  <2>1. reject => UNCHANGED Counters
    BY DEF reject, Handler, die, chanvars, Counters
  <2>2. reject => Calm
    BY <1>1, <1>2, <1>a, CalmHandler DEF reject
  <2> QED
    BY <2>1, <2>2
<1>4. ASSUME NEW ACTION A, accept(A), A => UNCHANGED Counters
      PROVE  Calm /\ UNCHANGED Counters
  <2>1. Handler(A /\ UNCHANGED packetvars, Answer("SUCCESS"))
    BY <1>4 DEF accept
  <2>2. Calm
    BY <1>1, <1>2, <1>a, <2>1, CalmHandler
  <2>3. UNCHANGED Counters
    BY <1>4, <2>1 DEF Handler, die, chanvars, Counters
  <2> QED
    BY <2>2, <2>3
<1>5. \A ok \in BOOLEAN : channel_exec(ok) => UNCHANGED Counters \/ pid # 0
  BY <1>0 DEF channel_exec, die, chanvars, Counters
<1>6. \A ok \in BOOLEAN : channel_openterminal(ok) => UNCHANGED Counters
  BY DEF channel_openterminal, die, chanvars, Counters
<1>7. ASSUME NEW t, request_start(t) PROVE Calm /\ UNCHANGED Counters
  <2>1. CASE reject
    BY <1>3, <2>1
  <2>2. CASE ~reject
    <3>1. PICK ok \in {TRUE} \cup {"fork" \notin Failures} :
            IF maxpacket = 0 \/ ~ok
            THEN channel_exec(ok) /\ UNCHANGED <<packetvars, sendbuf, childvars>>
            ELSE accept(/\ channel_exec(ok) /\ ChildStart
                        /\ UNCHANGED <<cin, cout, cerr, outleft>>)
      BY <1>7, <2>2 DEF request_start
    <3>a. pid = 0 /\ ok \in BOOLEAN
      BY <1>7, <2>2 DEF request_start
    <3>2. channel_exec(ok) => UNCHANGED Counters
      BY <3>a, <1>0 DEF channel_exec, die, chanvars, Counters
    <3>3. CASE maxpacket = 0 \/ ~ok
      <4>1. channel_exec(ok) /\ UNCHANGED sendbuf
        BY <3>1, <3>3
      <4> QED
        BY <1>1, <3>2, <4>1, CalmNone DEF OutWires, ToClient
    <3>4. CASE ~(maxpacket = 0 \/ ~ok)
      <4> DEFINE A == channel_exec(ok) /\ ChildStart /\ UNCHANGED <<cin, cout, cerr, outleft>>
      <4>1. accept(A)
        BY <3>1, <3>4
      <4>2. A => UNCHANGED Counters
        BY <3>2
      <4> QED
        BY <1>4, <4>1, <4>2
    <3> QED
      BY <3>3, <3>4
  <2> QED
    BY <2>1, <2>2
<1>8. CASE request_pty
  <2>1. \/ reject \/ (die("proto") /\ UNCHANGED sendbuf)
        \/ accept(channel_openterminal(TRUE) /\ UNCHANGED childvars)
    BY <1>8 DEF request_pty
  <2>2. (channel_openterminal(TRUE) /\ UNCHANGED childvars) => UNCHANGED Counters
    BY <1>6
  <2>3. CASE die("proto") /\ UNCHANGED sendbuf
    <3>1. UNCHANGED Counters
      BY <2>3 DEF die, chanvars, Counters
    <3> QED
      BY <1>1, <2>3, <3>1, CalmNone DEF OutWires, ToClient
  <2> QED
    BY <1>3, <1>4, <2>1, <2>2, <2>3
<1>9. ASSUME NEW t, request_other(t) PROVE Calm /\ UNCHANGED Counters
  <2>1. reject \/ accept(UNCHANGED <<chanvars, status, childvars>>)
    BY <1>9 DEF request_other
  <2>2. UNCHANGED <<chanvars, status, childvars>> => UNCHANGED Counters
    BY DEF chanvars, Counters
  <2> QED
    BY <1>3, <1>4, <2>1, <2>2
<1>10. CASE packet_global_request
  <2>1. Handler(UNCHANGED <<chanvars, status, packetvars, childvars>>, Answer("REQFAIL"))
    BY <1>10 DEF packet_global_request
  <2>2. UNCHANGED Counters
    BY <2>1 DEF Handler, die, chanvars, Counters
  <2> QED
    BY <1>1, <1>2, <1>a, <2>1, <2>2, CalmHandler
<1> QED
  BY <1>7, <1>8, <1>9, <1>10 DEF packet_channel_request

(* So do all handlers but those of an opening, of data and of more window. *)
LEMMA CalmProcess ==
  ASSUME Base, OutWires, process,
         recvbuf # <<>> => Head(recvbuf).t \notin {"OPEN", "DATA", "EXT", "ADJ"}
  PROVE  Calm /\ UNCHANGED Counters
<1>1. CASE packet_channel_request \/ packet_global_request
  BY <1>1, CalmRequest
<1>2. CASE packet_channel_recv_eof \/ packet_disconnect \/ process_done
  <2>1. UNCHANGED Counters
    BY <1>2 DEF packet_channel_recv_eof, packet_disconnect, process_done, Silent, channel_puteof,
       die, chanvars, Counters
  <2>2. UNCHANGED <<sendbuf, s2c>>
    BY <1>2 DEF packet_channel_recv_eof, packet_disconnect, process_done, Silent, Received
  <2> QED
    BY <2>1, <2>2, CalmNone DEF OutWires, ToClient
<1>3. CASE packet_channel_recv_close
  <2>1. UNCHANGED Counters
    BY <1>3 DEF packet_channel_recv_close, Silent, channel_close, channel_puteof, Handler,
       die, chanvars, Counters
  <2>2. UNCHANGED s2c /\ (UNCHANGED sendbuf \/ sendbuf' = sendbuf \o (EofMsgs \o CloseMsgs))
    BY <1>3 DEF packet_channel_recv_close, Received, Silent, Handler
  <2>3. CASE UNCHANGED sendbuf
    BY <2>1, <2>2, <2>3, CalmNone DEF OutWires, ToClient
  <2> QED
    BY <2>1, <2>2, <2>3, MutePackets, CalmPut
<1>4. CASE packet_unimplemented \/ packet_kexinit \/ packet_channel_open
  <2>0. <<Done("UNIMPL")>> \in Seq(Mute) /\ <<Done("KEX")>> \in Seq(Mute) /\ <<Done("OPENXFAIL")>> \in Seq(Mute)
    BY MutePackets
  <2>1. PICK r \in {"UNIMPL", "KEX", "OPENXFAIL"} :
          Handler(UNCHANGED <<chanvars, status, packetvars, childvars>>, <<Done(r)>>) /\ UNCHANGED s2c
    BY <1>4 DEF packet_unimplemented, packet_kexinit, packet_channel_open, Received
  <2>2. UNCHANGED Counters
    BY <2>1 DEF Handler, die, chanvars, Counters
  <2>3. <<Done(r)>> \in Seq(Mute)
    BY <2>0
  <2> QED
    BY <2>1, <2>2, <2>3, CalmHandler
<1> QED
  BY <1>1, <1>2, <1>3, <1>4 DEF process, packet_channel_recv_data, packet_channel_recv_extendeddata,
     packet_channel_recv_windowadjust, Received
-----------------------------------------------------------------------------
(* The accounts of the two windows, for a client that keeps to the rules. *)
Channelled == Requests \cup {"DATA", "EXT", "ADJ", "EOF", "CLOSE"}

\* Whoever is asked answers: the packet that opens the channel, or its answer,
\* is the only one of its kind, and is where client and server think it is.
Opening ==
    /\ Alone(ToServer) /\ Alone(ToClient)
    /\ client.open = "no" =>
          ~Offered(ToServer) /\ ~Offered(ToClient) /\ maxpacket = 0 /\ rcredit = 0
    /\ client.open = "asked" =>
          \/ Offered(ToServer) /\ ~Offered(ToClient) /\ maxpacket = 0
          \/ ~Offered(ToServer) /\ Offered(ToClient) /\ maxpacket # 0
    /\ client.open \in {"yes", "failed"} =>
          ~Offered(ToServer) /\ ~Offered(ToClient) /\ maxpacket # 0

\* What is said on the channel is said on an open channel, and data only to a child.
Allowed ==
    /\ Types(ToServer) \cap Channelled # {} \/ pid # 0 => client.open = "yes"
    /\ Types(ToServer) \cap {"DATA", "EXT"} # {} => pid # 0
    /\ "EXT" \in Types(ToServer) => client.ext

\* The child has not been started, or it takes input.
Listens == pid = 0 \/ ~Discards

\* What the server may send, with what it has sent and what it was granted; what
\* the client has sent and was granted.
OutSum == remotewindow + Load(ToClient) + Grant(ToServer)
InSum == Load(ToServer) + Grant(ToClient)

Unopened == maxpacket = 0 => remotewindow = 0 /\ localwindow = 0
Outgoing == rcredit \in 0..WindowMax /\ rcredit = OutSum
Incoming ==
    /\ credit \in Nat /\ credit + InSum <= localwindow
    /\ Confirmed /\ Listens => credit + InSum = localwindow
\* With nothing buffered some of the window is left.
Room == maxpacket # 0 /\ ~client.ext /\ Listens /\ len0 = 0 => localwindow > 0

Held == Opening /\ Allowed /\ Unopened /\ Outgoing /\ Incoming /\ Room

(* The sums are numbers, before and after a step. *)
LEMMA Weighed ==
  /\ Wires /\ OutWires => /\ Load(ToServer) \in Nat /\ Grant(ToServer) \in Nat
                          /\ Load(ToClient) \in Nat /\ Grant(ToClient) \in Nat
  /\ Wires' /\ OutWires' => /\ Load(ToServer') \in Nat /\ Grant(ToServer') \in Nat
                            /\ Load(ToClient') \in Nat /\ Grant(ToClient') \in Nat
<1>1. ASSUME Wires, OutWires
      PROVE  /\ Load(ToServer) \in Nat /\ Grant(ToServer) \in Nat
             /\ Load(ToClient) \in Nat /\ Grant(ToClient) \in Nat
  <2>1. ToServer \in Seq(Packet) /\ ToClient \in Seq(Packet)
    BY <1>1, Directions
  <2> QED
    BY <2>1, Amounts
<1>2. ASSUME Wires', OutWires'
      PROVE  /\ Load(ToServer') \in Nat /\ Grant(ToServer') \in Nat
             /\ Load(ToClient') \in Nat /\ Grant(ToClient') \in Nat
  <2>1. ToServer' \in Seq(Packet) /\ ToClient' \in Seq(Packet)
    BY <1>2, Directions, DirectionsNext
  <2> QED
    BY <2>1, Amounts
<1> QED
  BY <1>1, <1>2

(* Who knows of the opening can be told from the types. *)
LEMMA ConfirmedTypes ==
  /\ Confirmed <=> client.open = "yes" \/ "CONFIRM" \in Types(ToClient)
  /\ Confirmed' <=> client'.open = "yes" \/ "CONFIRM" \in Types(ToClient')
  BY DEF Confirmed, Types

\* A child is started once, is gone for good, and its input stays closed.
Moves ==
    /\ pid # 0 => pid' # 0
    /\ Listens' => Listens
    /\ maxpacket # 0 => maxpacket' = maxpacket

(* Every step of the connection is of that kind. *)
LEMMA MovesStep ==
  ASSUME Base, Next
  PROVE  Moves
<1>0. ChannelInv
  BY DEF Base
<1>1. [ChannelNext]_cvars
  BY BaseStep
<1>2. /\ <<pid, pid'>> \in {<<0, 0>>, <<0, 1>>, <<0, -1>>, <<1, 1>>, <<1, -1>>, <<-1, -1>>}
      /\ (maxpacket # 0 => maxpacket' = maxpacket)
  BY <1>0, <1>1, OneLifeStep
<1>3. pid # 0 /\ fd0 = NoFd => fd0' = NoFd
  BY <1>0, <1>1, InputStaysClosedStep
<1> QED
  BY <1>2, <1>3 DEF Moves, Listens, Discards

\* No opening is put or taken, and nothing new comes from the client.
Steady ==
    /\ Types(ToClient') \cap Offers = Types(ToClient) \cap Offers
    /\ Types(ToServer') \cap Offers = Types(ToServer) \cap Offers
    /\ Types(ToServer') \subseteq Types(ToServer)
    /\ Alone(ToClient) => Alone(ToClient')
    /\ Alone(ToServer) => Alone(ToServer')
    /\ OutWires' /\ Wires'
    /\ maxpacket' = maxpacket
    /\ maxpacket = 0 => UNCHANGED <<remotewindow, localwindow>>
    /\ pid' # 0 => pid # 0 \/ client.open = "yes"

\* What one side gives up the other gets.
Balanced ==
    /\ OutSum' = OutSum
    /\ localwindow' - InSum' >= localwindow - InSum
    /\ Listens' => localwindow' - InSum' = localwindow - InSum
    /\ maxpacket # 0 /\ ~client.ext /\ Listens' /\ len0' = 0 =>
          localwindow' > 0 \/ (len0 = 0 /\ localwindow' = localwindow)

(* Such a step of the server keeps the accounts. *)
LEMMA HeldStill ==
  ASSUME Base, Base', OutWires, Held, Moves, Steady, Balanced, UNCHANGED clientvars
  PROVE  Held'
<1>0. UNCHANGED <<client, credit, rcredit>>
  BY DEF clientvars
<1>1. Opening'
  <2>1. /\ Offered(ToServer') <=> Offered(ToServer)
        /\ Offered(ToClient') <=> Offered(ToClient)
    <3>1. /\ Offered(ToServer') <=> Types(ToServer') \cap Offers # {}
          /\ Offered(ToClient') <=> Types(ToClient') \cap Offers # {}
          /\ Offered(ToServer) <=> Types(ToServer) \cap Offers # {}
          /\ Offered(ToClient) <=> Types(ToClient) \cap Offers # {}
      BY OfferedTypes
    <3> QED
      BY <3>1 DEF Steady
  <2>2. Alone(ToServer') /\ Alone(ToClient') /\ maxpacket' = maxpacket
    BY DEF Held, Opening, Steady
  <2> QED
    BY <1>0, <2>1, <2>2 DEF Held, Opening
<1>2. Allowed'
  <2>1. Types(ToServer') \subseteq Types(ToServer) /\ (pid # 0 => pid' # 0)
        /\ (pid' # 0 => pid # 0 \/ client.open = "yes")
    BY DEF Steady, Moves
  <2> QED
    BY <1>0, <2>1 DEF Held, Allowed
<1>3. Unopened'
  BY DEF Held, Unopened, Steady
<1>4. Outgoing'
  BY <1>0 DEF Held, Outgoing, Balanced
<1>5. InSum \in Nat /\ InSum' \in Nat /\ (Confirmed' => Confirmed)
  <2>1. InSum \in Nat /\ InSum' \in Nat
    BY Weighed DEF InSum, Base, Steady
  <2>2. "CONFIRM" \in Types(ToClient') => "CONFIRM" \in Types(ToClient)
    BY DEF Steady, Offers
  <2> QED
    BY <1>0, <2>1, <2>2, ConfirmedTypes
<1>6. Incoming'
  <2>1. localwindow \in Nat /\ localwindow' \in Nat
    BY BufSizeAssumption DEF Base, ChannelInv, ChannelTypeOK, CountersOK
  <2>a. InSum \in Nat /\ InSum' \in Nat
    BY <1>5
  <2>2. PICK i \in Nat, j \in Nat, k \in Nat : i = InSum /\ j = InSum' /\ k = localwindow'
    BY <2>a, <2>1
  <2>3. credit \in Nat /\ credit' = credit /\ credit + i <= localwindow
    BY <1>0, <2>2 DEF Held, Incoming
  <2>4. k - j >= localwindow - i
    BY <2>2 DEF Balanced
  <2>5. credit + j <= k
    BY <2>1, <2>3, <2>4
  <2>6. ASSUME Confirmed', Listens' PROVE credit + j = k
    <3>1. credit + i = localwindow
      BY <1>5, <2>2, <2>6 DEF Held, Incoming, Moves
    <3>2. k - j = localwindow - i
      BY <2>2, <2>6 DEF Balanced
    <3> QED
      BY <2>1, <2>3, <3>1, <3>2
  <2> QED
    BY <2>2, <2>3, <2>5, <2>6 DEF Incoming
<1>7. Room'
  <2>1. maxpacket' = maxpacket
    BY DEF Steady
  <2> QED
    BY <1>0, <2>1 DEF Held, Room, Balanced, Moves
<1> QED
  BY <1>1, <1>2, <1>3, <1>4, <1>6, <1>7 DEF Held
\* A step puts l bytes of data and g of window on the way to the client, or takes
\* a of data and b of window from what is on its way to the server; an opening
\* is none of it.
Gives(l, g) ==
    /\ OutWires'
    /\ Load(ToClient') = Load(ToClient) + l /\ Grant(ToClient') = Grant(ToClient) + g
    /\ Types(ToClient') \cap Offers = Types(ToClient) \cap Offers
    /\ Alone(ToClient) => Alone(ToClient')

Gets(a, b) ==
    /\ Load(ToServer) = Load(ToServer') + a /\ Grant(ToServer) = Grant(ToServer') + b
    /\ Types(ToServer') \cap Offers = Types(ToServer) \cap Offers
    /\ Types(ToServer') \subseteq Types(ToServer)
    /\ Alone(ToServer) => Alone(ToServer')

(* A calm step gives nothing. *)
LEMMA GivesNothing ==
  ASSUME Wires, OutWires, Calm
  PROVE  Gives(0, 0)
<1>1. Load(ToClient) \in Nat /\ Grant(ToClient) \in Nat
  BY Weighed
<1>2. Types(ToClient') \cap Offers = Types(ToClient) \cap Offers
  BY DEF Calm, Like, Touched
<1> QED
  BY <1>1, <1>2 DEF Calm, Like, Gives

(* One packet gives what it carries. *)
LEMMA GivesOne ==
  ASSUME OutWires, NEW m \in OutPackets, m.t \notin Offers, sendbuf' = sendbuf \o <<m>>, UNCHANGED s2c
  PROVE  Gives(LoadOf(m), GrantOf(m))
<1>0. m \in Packet /\ ToClient \in Seq(Packet) /\ <<m>> \in Seq(OutPackets)
  BY Directions DEF Packet
<1>1. OutWires' /\ ToClient' = ToClient \o <<m>>
  BY <1>0, PutBehind
<1>2. /\ Grows(ToClient, ToClient \o <<m>>, m)
      /\ Alone(ToClient) => Alone(ToClient \o <<m>>)
  BY <1>0, GrowsBehind
<1>3. Types(ToClient \o <<m>>) \cap Offers = Types(ToClient) \cap Offers
  BY <1>2 DEF Grows
<1> QED
  BY <1>1, <1>2, <1>3 DEF Grows, Gives

(* Nothing taken, or a packet taken that is no offer. *)
LEMMA GetsNothing ==
  ASSUME Wires, OutWires, \/ ToServer' = ToServer
                          \/ \E m : Takes(m) /\ m.t \notin Touched, Wires'
  PROVE  Gets(0, 0)
<1>0. Load(ToServer) \in Nat /\ Grant(ToServer) \in Nat
  BY Weighed
<1>1. CASE ToServer' = ToServer
  BY <1>0, <1>1 DEF Gets
<1>2. CASE \E m : Takes(m) /\ m.t \notin Touched
  <2>1. PICK m : Takes(m) /\ m.t \notin Touched
    BY <1>2
  <2>2. ToServer' \in Seq(Packet) /\ m \in Packet
    BY <2>1, Directions, DirectionsNext DEF Takes, Packet
  <2>3. Like(ToServer, ToServer') /\ Types(ToServer') \subseteq Types(ToServer)
    BY <2>1, <2>2, TakesOne DEF Takes
  <2>4. Types(ToServer') \cap Offers = Types(ToServer) \cap Offers
    BY <2>3 DEF Like, Touched
  <2> QED
    BY <1>0, <2>3, <2>4 DEF Like, Gets
<1> QED
  BY <1>1, <1>2

(* One packet taken gives what it carries. *)
LEMMA GetsOne ==
  ASSUME Wires', NEW m, Takes(m), m.t \notin Offers
  PROVE  Gets(LoadOf(m), GrantOf(m)) /\ m.t \in Types(ToServer)
<1>1. ToServer' \in Seq(Packet) /\ m \in Packet
  BY Directions, DirectionsNext DEF Takes, Packet
<1>2. /\ Grows(ToServer', ToServer, m) /\ Types(ToServer') \subseteq Types(ToServer)
      /\ (Alone(ToServer) => Alone(ToServer')) /\ m.t \in Types(ToServer)
  BY <1>1, TakesOne DEF Takes
<1>3. Types(ToServer') \cap Offers = Types(ToServer) \cap Offers
  BY <1>2 DEF Grows
<1> QED
  BY <1>2, <1>3 DEF Grows, Gets

\* The counters follow what is given and taken.
Counted(l, g, a, b) ==
    /\ maxpacket' = maxpacket
    /\ maxpacket = 0 => UNCHANGED <<remotewindow, localwindow>>
    /\ remotewindow' = remotewindow - l + b
    /\ localwindow' >= localwindow - a + g
    /\ Listens' => localwindow' = localwindow - a + g
    /\ maxpacket # 0 /\ ~client.ext /\ Listens' /\ len0' = 0 =>
          localwindow' > 0 \/ (len0 = 0 /\ localwindow' = localwindow)

(* Sums to which the same is added and from which the same is taken. *)
LEMMA Sums ==
  ASSUME NEW l \in Nat, NEW g \in Nat, NEW a \in Nat, NEW b \in Nat,
         NEW lc \in Nat, NEW gc \in Nat, NEW ls \in Nat, NEW gs \in Nat,
         NEW lc2 \in Nat, NEW gc2 \in Nat, NEW ls2 \in Nat, NEW gs2 \in Nat,
         NEW rw \in Nat, NEW rw2 \in Nat, NEW lw \in Nat, NEW lw2 \in Nat,
         lc2 = lc + l, gc2 = gc + g, ls = ls2 + a, gs = gs2 + b
  PROVE  /\ rw2 = rw - l + b => rw2 + lc2 + gs2 = rw + lc + gs
         /\ lw2 >= lw - a + g => lw2 - (ls2 + gc2) >= lw - (ls + gc)
         /\ lw2 = lw - a + g => lw2 - (ls2 + gc2) = lw - (ls + gc)
  OBVIOUS

(* Such a step keeps the accounts. *)
LEMMA HeldCounted ==
  ASSUME Base, Base', OutWires, Held, Moves, UNCHANGED clientvars,
         NEW l \in Nat, NEW g \in Nat, NEW a \in Nat, NEW b \in Nat,
         Gives(l, g), Gets(a, b), Counted(l, g, a, b),
         pid' # 0 => pid # 0 \/ client.open = "yes"
  PROVE  Held'
<1>1. Steady
  BY DEF Gives, Gets, Counted, Steady, Base
<1>2. PICK lc \in Nat, gc \in Nat, ls \in Nat, gs \in Nat :
        lc = Load(ToClient) /\ gc = Grant(ToClient) /\ ls = Load(ToServer) /\ gs = Grant(ToServer)
  BY Weighed DEF Base
<1>3. PICK lc2 \in Nat, gc2 \in Nat, ls2 \in Nat, gs2 \in Nat :
        lc2 = Load(ToClient') /\ gc2 = Grant(ToClient') /\ ls2 = Load(ToServer') /\ gs2 = Grant(ToServer')
  BY Weighed DEF Base, Gives
<1>4. remotewindow \in Nat /\ remotewindow' \in Nat /\ localwindow \in Nat /\ localwindow' \in Nat
  BY BufSizeAssumption, WindowAssumption DEF Base, ChannelInv, ChannelTypeOK, CountersOK
<1>5. PICK rw \in Nat, rw2 \in Nat, lw \in Nat, lw2 \in Nat :
        rw = remotewindow /\ rw2 = remotewindow' /\ lw = localwindow /\ lw2 = localwindow'
  BY <1>4
<1>6. lc2 = lc + l /\ gc2 = gc + g /\ ls = ls2 + a /\ gs = gs2 + b
  BY <1>2, <1>3 DEF Gives, Gets
<1>7. /\ rw2 = rw - l + b => rw2 + lc2 + gs2 = rw + lc + gs
      /\ lw2 >= lw - a + g => lw2 - (ls2 + gc2) >= lw - (ls + gc)
      /\ lw2 = lw - a + g => lw2 - (ls2 + gc2) = lw - (ls + gc)
  BY <1>6, Sums
<1>8. /\ OutSum = rw + lc + gs /\ OutSum' = rw2 + lc2 + gs2
      /\ InSum = ls + gc /\ InSum' = ls2 + gc2
  BY <1>2, <1>3, <1>5 DEF OutSum, InSum
<1>9. /\ rw2 = rw - l + b /\ lw2 >= lw - a + g /\ (Listens' => lw2 = lw - a + g)
      /\ (maxpacket # 0 /\ ~client.ext /\ Listens' /\ len0' = 0 =>
             localwindow' > 0 \/ (len0 = 0 /\ localwindow' = localwindow))
  BY <1>5, Zenon DEF Counted
<1>10. Balanced
  BY <1>5, <1>7, <1>8, <1>9, Zenon DEF Balanced
<1> QED
  BY <1>1, <1>10, HeldStill

(* A calm step that takes no more than a packet of no weight keeps them. *)
LEMMA HeldCalm ==
  ASSUME Base, Base', OutWires, Held, Moves, UNCHANGED clientvars, Calm, UNCHANGED Counters,
         ToServer' = ToServer \/ \E m : Takes(m) /\ m.t \notin Touched,
         pid' # 0 => pid # 0 \/ client.open = "yes"
  PROVE  Held'
<1>0. localwindow \in Nat /\ remotewindow \in Nat
  BY BufSizeAssumption, WindowAssumption DEF Base, ChannelInv, ChannelTypeOK, CountersOK
<1>1. Gives(0, 0) /\ Gets(0, 0)
  BY GivesNothing, GetsNothing DEF Base
<1>2. Counted(0, 0, 0, 0)
  BY <1>0 DEF Counted, Counters
<1> QED
  BY <1>1, <1>2, HeldCounted
(* The blocks of the loop that neither write to the child nor read from it. *)
LEMMA HeldLoop ==
  ASSUME Base, Base', OutWires, Held, Moves, UNCHANGED clientvars,
         \/ loop_break \/ loop_poll \/ loop_polltimeout \/ loop_selfpipe \/ loop_check \/ loop_wait
         \/ loop_send \/ loop_recv \/ packet_sendall \/ packet_getall
  PROVE  Held'
<1>1. Calm /\ UNCHANGED Counters
  BY CalmLoop
<1>2. ToServer' = ToServer \/ \E m : Takes(m) /\ m.t \in {"AUTH", "NEWKEYS"}
  BY LoopTakes
<1>3. ToServer' = ToServer \/ \E m : Takes(m) /\ m.t \notin Touched
  BY <1>2 DEF Touched, Offers
<1>4. pid' # 0 => pid # 0
  <2>1. CASE loop_wait
    <3>1. pid' = pid \/ pid > 0
      BY <2>1 DEF loop_wait, Handler, channel_waitnohang, die, chanvars
    <3> QED
      BY <3>1
  <2>2. CASE ~loop_wait
    BY <2>2 DEF loop_break, loop_poll, loop_polltimeout, loop_selfpipe, loop_check, loop_send,
       loop_recv, packet_sendall, packet_getall, die, chanvars
  <2> QED
    BY <2>1, <2>2
<1> QED
  BY <1>1, <1>3, <1>4, HeldCalm

(* An empty buffer leaves room after the adjustment. *)
LEMMA PlusRoom ==
  ASSUME NEW window \in 0..BufSize
  PROVE  window + plus(0, window) > 0
  BY BufSizeAssumption DEF plus

(* channel_write and the adjustment: the window given back is what the packet says. *)
LEMMA Written ==
  ASSUME CountersOK, InputFits, Pipes, NEW w, WriteToChild(w), maxpacket # 0, pid > 0, fd0 # NoFd,
         w \in IF child.reads /\ fd0 \in openfds THEN 1..Least(len0, PipeCap - cin) ELSE {0}
  PROVE  LET more == plus(IF w = 0 THEN 0 ELSE len0 - w, localwindow)
         IN  /\ more \in Nat /\ localwindow' = localwindow + more
             /\ UNCHANGED <<maxpacket, remotewindow, pid>>
             /\ len0' = 0 => localwindow' > 0
<1> DEFINE left == IF w = 0 THEN 0 ELSE len0 - w
           more == plus(left, localwindow)
<1>1. len0 \in 0..BufSize /\ localwindow \in 0..BufSize /\ BufSize \in Nat /\ PipeCap - cin \in Int
      /\ len0 + localwindow <= BufSize
  BY BufSizeAssumption, Numbers DEF CountersOK, InputFits, Pipes
<1>2. w \in 0..len0
  BY <1>1, LeastOfTwo
<1>3. left \in 0..BufSize /\ left + localwindow <= BufSize
  BY <1>1, <1>2
<1>a. ~(maxpacket = 0 \/ pid <= 0 \/ fd0 = NoFd)
  BY DEF CountersOK
<1>b. channel_write(w) /\ localwindow' = localwindow + plus(len0', localwindow)
  BY <1>a DEF WriteToChild
<1>4. len0' = left
  <2>1. CASE len0 = 0
    BY <1>b, <1>2, <2>1 DEF channel_write
  <2>2. CASE len0 # 0
    BY <1>b, <2>2 DEF channel_write, WriteInput
  <2> QED
    BY <2>1, <2>2
<1>5. /\ localwindow' = localwindow + plus(len0', localwindow)
      /\ UNCHANGED <<maxpacket, remotewindow, pid>>
  BY <1>b DEF channel_write
<1> HIDE DEF left
<1>6. plus(left, localwindow) \in 0..BufSize
  BY <1>1, <1>3, PlusFits
<1>7. ASSUME left = 0 PROVE localwindow + plus(left, localwindow) > 0
  BY <1>1, <1>7, PlusRoom
<1>8. /\ more \in Nat /\ localwindow' = localwindow + more
      /\ len0' = 0 => localwindow' > 0
  BY <1>1, <1>4, <1>5, <1>6, <1>7
<1> QED
  BY <1>5, <1>8 DEF left

(* "write to the child" keeps the accounts. *)
LEMMA HeldTochild ==
  ASSUME Base, Base', LoopInv, OutWires, Held, Moves, UNCHANGED clientvars, loop_tochild, status' = "run"
  PROVE  Held'
<1>0. CountersOK /\ InputFits /\ Pipes /\ Wires /\ Wires' /\ (maxpacket = 0 => pid = 0)
  BY DEF Base, ChannelInv, ChannelTypeOK, BeforeChild
<1>a. localwindow \in Nat /\ remotewindow \in Nat
  BY <1>0, BufSizeAssumption, WindowAssumption DEF CountersOK
<1>1. pid > 0 /\ fd0 # NoFd /\ maxpacket # 0
  <2>1. pc = "tochild" /\ "tochild" \in watch
    BY DEF loop_tochild, LoopInv, Positions, Blocks
  <2> QED
    BY <1>0, <2>1 DEF LoopInv, Watches
<1>2. PICK w \in IF child.reads /\ fd0 \in openfds
                 THEN 1..Least(len0, PipeCap - cin) ELSE {0} :
        Handler(WriteToChild(w) /\ cin' = cin + w /\ UNCHANGED packetvars
                  /\ UNCHANGED <<child, cout, cerr, outleft>>, AdjustMsgs(w))
  BY DEF loop_tochild
<1>3. WriteToChild(w) /\ sendbuf' = sendbuf \o AdjustMsgs(w)
  BY <1>2 DEF Handler, die
<1> DEFINE more == plus(IF w = 0 THEN 0 ELSE len0 - w, localwindow)
<1>4. /\ more \in Nat /\ localwindow' = localwindow + more
      /\ UNCHANGED <<maxpacket, remotewindow, pid>> /\ (len0' = 0 => localwindow' > 0)
  BY <1>0, <1>1, <1>2, <1>3, Written
<1>5. AdjustMsgs(w) = IF more = 0 THEN <<>> ELSE <<Msg("ADJ", more)>>
  BY DEF AdjustMsgs
<1> HIDE DEF more
<1>6. UNCHANGED <<s2c, recvbuf, c2s>>
  BY DEF loop_tochild
<1>7. Gives(0, more)
  <2>1. CASE more = 0
    <3>1. <<>> \in Seq(Mute)
      BY MutePackets
    <3>2. Calm
      BY <1>3, <1>5, <1>6, <2>1, <3>1, CalmPut
    <3> QED
      BY <1>0, <2>1, <3>2, GivesNothing
  <2>2. CASE more # 0
    <3> DEFINE m == Msg("ADJ", more)
    <3>1. m \in OutPackets /\ m.t = "ADJ" /\ m.n = more
      BY <1>4 DEF Msg, OutPackets
    <3>2. LoadOf(m) = 0 /\ GrantOf(m) = more /\ m.t \notin Offers
      BY <3>1 DEF LoadOf, GrantOf, Offers
    <3>3. sendbuf' = sendbuf \o <<m>>
      BY <1>3, <1>5, <2>2
    <3> HIDE DEF m
    <3> QED
      BY <1>6, <3>1, <3>2, <3>3, GivesOne
  <2> QED
    BY <2>1, <2>2
<1>8. Gets(0, 0)
  <2>1. ToServer' = ToServer
    BY <1>6 DEF ToServer
  <2> QED
    BY <1>0, <2>1, GetsNothing
<1>9. Counted(0, more, 0, 0)
  BY <1>1, <1>4, <1>a DEF Counted
<1> QED
  BY <1>4, <1>7, <1>8, <1>9, HeldCounted

(* "read from the child": what is read of either stream is what the packet carries. *)
LEMMA HeldFrom ==
  ASSUME Base, Base', LoopInv, OutWires, Held, Moves, UNCHANGED clientvars, loop_from1 \/ loop_from2,
         status' = "run"
  PROVE  Held'
<1>0. CountersOK /\ Pipes /\ Wires /\ Wires' /\ (maxpacket = 0 => pid = 0)
  BY DEF Base, ChannelInv, ChannelTypeOK, BeforeChild
<1>a. localwindow \in Nat /\ remotewindow \in Nat /\ cout \in Nat /\ cerr \in Nat
  BY <1>0, BufSizeAssumption, WindowAssumption DEF CountersOK, Pipes
<1>b. UNCHANGED <<s2c, recvbuf, c2s>>
  BY DEF loop_from1, loop_from2
<1>c. Gets(0, 0)
  <2>1. ToServer' = ToServer
    BY <1>b DEF ToServer
  <2> QED
    BY <1>0, <2>1, GetsNothing
<1>1. CASE UNCHANGED <<chanvars, sendbuf>>
  <2>1. Calm
    BY <1>b, <1>1, CalmNone DEF OutWires, ToClient
  <2>2. Gives(0, 0)
    BY <1>0, <2>1, GivesNothing
  <2>3. Counted(0, 0, 0, 0)
    BY <1>a, <1>1 DEF Counted, chanvars
  <2>4. pid' = pid
    BY <1>1 DEF chanvars
  <2> QED
    BY <1>c, <2>2, <2>3, <2>4, HeldCounted
<1>2. CASE ~UNCHANGED <<chanvars, sendbuf>>
  <2>0. ReadLimit \in Nat /\ ReadLimit <= remotewindow
    BY <1>0, ReadLimits
  <2>1. PICK t \in {"DATA", "EXT"}, top \in {Least(cout, ReadLimit), Least(cerr, ReadLimit)} :
          \E r \in 1..top \cup {0} :
             /\ (channel_read(r) \/ channel_extendedread(r))
             /\ sendbuf' = sendbuf \o (IF r = 0 THEN <<>> ELSE <<Msg(t, r)>>)
    BY <1>2 DEF loop_from1, loop_from2, Handler, die
  <2>2. PICK r \in 1..top \cup {0} :
             /\ (channel_read(r) \/ channel_extendedread(r))
             /\ sendbuf' = sendbuf \o (IF r = 0 THEN <<>> ELSE <<Msg(t, r)>>)
    BY <2>1
  <2>3. r \in Nat /\ (remotewindow = 0 => r = 0)
    <3>1. top \in Int /\ top <= ReadLimit
      BY <1>a, <2>0, LeastOfTwo
    <3> QED
      BY <1>a, <2>0, <3>1
  <2>4. pid' = pid /\ maxpacket' = maxpacket /\ maxpacket # 0 /\ len0' = len0 /\ localwindow' = localwindow
    BY <2>2 DEF channel_read, channel_extendedread, die, chanvars
  <2>6. remotewindow' = remotewindow - r
    BY <1>a, <2>2, <2>3 DEF channel_read, channel_extendedread, die, chanvars
  <2>7. Held'
    <3>1. Gives(r, 0)
      <4>1. CASE r = 0
        <5>1. <<>> \in Seq(Mute) /\ sendbuf' = sendbuf \o <<>>
          BY <2>2, <4>1, MutePackets
        <5>2. Calm
          BY <1>b, <5>1, CalmPut
        <5> QED
          BY <1>0, <4>1, <5>2, GivesNothing
      <4>2. CASE r # 0
        <5> DEFINE m == Msg(t, r)
        <5>1. m \in OutPackets /\ m.t \in {"DATA", "EXT"} /\ m.n = r
          BY <2>3 DEF Msg, OutPackets
        <5>2. LoadOf(m) = r /\ GrantOf(m) = 0 /\ m.t \notin Offers
          BY <5>1 DEF LoadOf, GrantOf, Offers
        <5>3. sendbuf' = sendbuf \o <<m>>
          BY <2>2, <4>2
        <5> HIDE DEF m
        <5> QED
          BY <1>b, <5>1, <5>2, <5>3, GivesOne
      <4> QED
        BY <4>1, <4>2
    <3>2. Counted(r, 0, 0, 0)
      BY <1>a, <2>3, <2>4, <2>6 DEF Counted
    <3> QED
      BY <1>c, <2>3, <2>4, <3>1, <3>2, HeldCounted
  <2> QED
    BY <2>7
<1> QED
  BY <1>1, <1>2
(* A handler that changes whether there is a child handles a packet of the channel. *)
LEMMA ChildMoves ==
  ASSUME Wires, process, pid' # pid
  PROVE  recvbuf # <<>> /\ Head(recvbuf).t \in Channelled
<1>1. CASE packet_channel_request
  <2>1. \E t \in Requests : Received(t)
    BY <1>1 DEF packet_channel_request, request_start, request_pty, request_other, Requests, Starts
  <2> QED
    BY <2>1 DEF Received, Channelled
<1>2. CASE packet_channel_recv_close
  BY <1>2 DEF packet_channel_recv_close, Received, Channelled
<1>3. CASE \/ packet_channel_open \/ packet_channel_recv_data \/ packet_channel_recv_extendeddata
           \/ packet_channel_recv_windowadjust \/ packet_channel_recv_eof \/ packet_global_request
           \/ packet_unimplemented \/ packet_disconnect \/ packet_kexinit \/ process_done
  <2>1. UNCHANGED pid
    BY <1>3 DEF packet_channel_open, packet_channel_recv_data, packet_channel_recv_extendeddata,
       packet_channel_recv_windowadjust, packet_channel_recv_eof, packet_global_request,
       packet_unimplemented, packet_disconnect, packet_kexinit, process_done, Silent, Handler,
       channel_open, channel_put, channel_putextended, channel_incrementremotewindow, channel_puteof,
       die, chanvars
  <2> QED
    BY <2>1
<1> QED
  BY <1>1, <1>2, <1>3 DEF process

(* The first packet of those waiting is taken, or there is none. *)
LEMMA ProcessTakes ==
  ASSUME Wires, process
  PROVE  \/ recvbuf = <<>> /\ ToServer' = ToServer
         \/ /\ recvbuf # <<>> /\ Takes(Head(recvbuf))
            /\ Head(recvbuf).t \in Channelled \cup {"OPEN", "OPENX", "GLOBAL", "OTHER", "DISCONNECT", "KEXINIT"}
<1>1. \/ process_done
      \/ \E t \in Channelled \cup {"OPEN", "OPENX", "GLOBAL", "OTHER", "DISCONNECT", "KEXINIT"} : Received(t)
  BY DEF process, packet_channel_open, packet_channel_request, request_start, request_pty,
     request_other, packet_channel_recv_data, packet_channel_recv_extendeddata,
     packet_channel_recv_windowadjust, packet_channel_recv_eof, packet_channel_recv_close,
     packet_global_request, packet_unimplemented, packet_disconnect, packet_kexinit, Channelled,
     Requests, Starts
<1>2. CASE process_done
  BY <1>2 DEF process_done, ToServer
<1>3. CASE \E t \in Channelled \cup {"OPEN", "OPENX", "GLOBAL", "OTHER", "DISCONNECT", "KEXINIT"} : Received(t)
  <2>1. /\ recvbuf # <<>> /\ recvbuf' = Tail(recvbuf) /\ c2s' = c2s
        /\ Head(recvbuf).t \in Channelled \cup {"OPEN", "OPENX", "GLOBAL", "OTHER", "DISCONNECT", "KEXINIT"}
    BY <1>3 DEF Received
  <2> QED
    BY <2>1, ServerTakes DEF Takes
<1> QED
  BY <1>1, <1>2, <1>3

(* The handlers of all packets that carry nothing keep the accounts. *)
LEMMA HeldQuiet ==
  ASSUME Base, Base', OutWires, Held, Moves, UNCHANGED clientvars, process,
         recvbuf # <<>> => Head(recvbuf).t \notin {"OPEN", "DATA", "EXT", "ADJ"}
  PROVE  Held'
<1>0. Wires
  BY DEF Base
<1>1. Calm /\ UNCHANGED Counters
  BY CalmProcess
<1>2. ToServer' = ToServer \/ \E m : Takes(m) /\ m.t \notin Touched
  <2>1. ASSUME recvbuf # <<>>, Takes(Head(recvbuf)),
               Head(recvbuf).t \in Channelled \cup {"OPEN", "OPENX", "GLOBAL", "OTHER", "DISCONNECT", "KEXINIT"}
        PROVE  Head(recvbuf).t \notin Touched
    BY <2>1 DEF Channelled, Touched, Offers, Requests, Starts
  <2> QED
    BY <1>0, <2>1, ProcessTakes
<1>3. ASSUME pid' # 0 PROVE pid # 0 \/ client.open = "yes"
  <2>1. CASE pid' = pid
    BY <1>3, <2>1
  <2>2. CASE pid' # pid
    <3>1. recvbuf # <<>> /\ Head(recvbuf).t \in Channelled
      BY <1>0, <2>2, ChildMoves
    <3>2. Takes(Head(recvbuf))
      BY <1>0, <3>1, ProcessTakes
    <3>3. Head(recvbuf).t \in Types(ToServer)
      <4>1. Wires'
        BY DEF Base
      <4>2. ToServer' \in Seq(Packet) /\ Head(recvbuf) \in Packet
        BY <3>2, <4>1, Directions, DirectionsNext DEF Takes, Packet
      <4> QED
        BY <3>2, <4>2, TakesOne DEF Takes
    <3> QED
      BY <3>1, <3>3 DEF Held, Allowed
  <2> QED
    BY <2>1, <2>2
<1> QED
  BY <1>1, <1>2, <1>3, HeldCalm

(* So do those of data, extended data and more window. *)
LEMMA HeldAmounts ==
  ASSUME Base, Base', OutWires, Held, Moves, UNCHANGED clientvars, status' = "run",
         \/ packet_channel_recv_data \/ packet_channel_recv_extendeddata
         \/ packet_channel_recv_windowadjust
  PROVE  Held'
<1> DEFINE m == Head(recvbuf)
<1>0. CountersOK /\ Wires /\ Wires' /\ (maxpacket = 0 => pid = 0)
  BY DEF Base, ChannelInv, ChannelTypeOK, BeforeChild
<1>a. localwindow \in Nat /\ remotewindow \in Nat /\ len0 \in Nat
  BY <1>0, BufSizeAssumption, WindowAssumption DEF CountersOK
<1>b. process /\ recvbuf # <<>> /\ UNCHANGED <<s2c, sendbuf>> /\ m.t \in {"DATA", "EXT", "ADJ"}
  BY DEF packet_channel_recv_data, packet_channel_recv_extendeddata, packet_channel_recv_windowadjust,
     Received, Silent, process
<1>c. Takes(m)
  BY <1>0, <1>b, ProcessTakes
<1>d. m.n \in Nat
  BY <1>c, PacketNumbers DEF Takes, Packet
<1>e. Gives(0, 0)
  <2>1. Calm
    BY <1>b, CalmNone DEF OutWires, ToClient
  <2> QED
    BY <1>0, <2>1, GivesNothing
<1>f. Gets(LoadOf(m), GrantOf(m)) /\ m.t \in Types(ToServer)
  <2>1. m.t \notin Offers
    BY <1>b DEF Offers
  <2> HIDE DEF m
  <2> QED
    BY <1>0, <1>c, <2>1, GetsOne
<1>1. CASE packet_channel_recv_data
  <2>1. channel_put(m.n) /\ m.t = "DATA"
    BY <1>1 DEF packet_channel_recv_data, Silent, Received
  <2>2. LoadOf(m) = m.n /\ GrantOf(m) = 0
    BY <2>1 DEF LoadOf, GrantOf
  <2> HIDE DEF m
  <2>3. \/ Discards /\ UNCHANGED chanvars
        \/ /\ len0' = len0 + m.n /\ localwindow' = localwindow - m.n
           /\ UNCHANGED <<maxpacket, pid, remotewindow>>
    BY <2>1 DEF channel_put, die
  <2>4. maxpacket # 0 /\ pid # 0 /\ pid' = pid
    BY <2>1, <2>3 DEF channel_put, die, chanvars
  <2>5. Counted(0, 0, m.n, 0)
    <3>1. CASE Discards /\ UNCHANGED chanvars
      <4>1. ~Listens'
        BY <2>4, <3>1 DEF Moves, Listens
      <4> QED
        BY <1>a, <1>d, <3>1, <4>1 DEF Counted, chanvars
    <3>2. CASE /\ len0' = len0 + m.n /\ localwindow' = localwindow - m.n
               /\ UNCHANGED <<maxpacket, pid, remotewindow>>
      <4>1. len0' = 0 => len0 = 0 /\ m.n = 0
        BY <1>a, <1>d, <3>2
      <4>2. m.n = 0 => localwindow' = localwindow
        BY <1>a, <3>2
      <4> QED
        BY <1>a, <1>d, <2>4, <3>2, <4>1, <4>2 DEF Counted
    <3> QED
      BY <2>3, <3>1, <3>2
  <2> QED
    BY <1>d, <1>e, <1>f, <2>2, <2>4, <2>5, HeldCounted
<1>2. CASE packet_channel_recv_extendeddata
  <2>1. channel_putextended(m.n) /\ m.t = "EXT"
    BY <1>2 DEF packet_channel_recv_extendeddata, Silent, Received
  <2>2. LoadOf(m) = m.n /\ GrantOf(m) = 0
    BY <2>1 DEF LoadOf, GrantOf
  <2>a. client.ext
    BY <1>f, <2>1 DEF Held, Allowed
  <2> HIDE DEF m
  <2>3. localwindow' = localwindow - m.n /\ UNCHANGED <<maxpacket, pid, remotewindow, len0>>
    BY <2>1 DEF channel_putextended, die
  <2>4. maxpacket # 0
    BY <2>1 DEF channel_putextended, die
  <2>5. Counted(0, 0, m.n, 0)
    BY <1>a, <1>d, <2>a, <2>3, <2>4 DEF Counted
  <2> QED
    BY <1>d, <1>e, <1>f, <2>2, <2>3, <2>5, HeldCounted
<1>3. CASE packet_channel_recv_windowadjust
  <2>1. channel_incrementremotewindow(m.n) /\ m.t = "ADJ"
    BY <1>3 DEF packet_channel_recv_windowadjust, Silent, Received
  <2>2. LoadOf(m) = 0 /\ GrantOf(m) = m.n
    BY <2>1 DEF LoadOf, GrantOf
  <2>4. maxpacket # 0
    <3>1. client.open = "yes"
      BY <1>f, <2>1 DEF Held, Allowed, Channelled
    <3> QED
      BY <3>1 DEF Held, Opening
  <2> HIDE DEF m
  <2>3. remotewindow' = remotewindow + m.n /\ UNCHANGED <<maxpacket, pid, localwindow, len0>>
    BY <2>1 DEF channel_incrementremotewindow, die
  <2>5. Counted(0, 0, 0, m.n)
    BY <1>a, <1>d, <2>3, <2>4 DEF Counted
  <2> QED
    BY <1>d, <1>e, <1>f, <2>2, <2>3, <2>5, HeldCounted
<1> QED
  BY <1>1, <1>2, <1>3
\* What packet_channel_open does with the first OPEN, and the answer it puts.
Opens(m, r) ==
    /\ maxpacket' # 0 /\ remotewindow' = m.n /\ localwindow' = BufSize
    /\ UNCHANGED <<pid, len0, s2c>>
    /\ sendbuf' = sendbuf \o <<r>>
    /\ r \in OutPackets /\ (\/ r.t = "CONFIRM" /\ r.n = BufSize
                            \/ r.t = "OPENFAIL" /\ r.n = 0)

(* That is what it does. *)
LEMMA OpenEffect ==
  ASSUME Wires, packet_channel_open, recvbuf # <<>>, Head(recvbuf).t = "OPEN", maxpacket = 0, pid = 0,
         status' = "run"
  PROVE  \E r : Opens(Head(recvbuf), r)
<1> DEFINE m == Head(recvbuf)
           limit == IF m.l > PacketLimit THEN PacketLimit
                    ELSE IF m.l < PacketMin THEN PacketMin ELSE m.l
<1>0. Received("OPEN")
  BY DEF packet_channel_open, Received
<1>1. m.n \in 0..WindowMax /\ m.l \in Nat
  BY <1>0, Headed, OpenPacket
<1>2. limit # 0
  BY <1>1, PacketAssumption
<1>3. PICK envok \in {TRUE} \cup {"env" \notin Failures} :
        Handler(channel_open(m.n, limit) /\ UNCHANGED <<packetvars, childvars>>,
                IF channel_open_done(envok) THEN <<Msg("CONFIRM", BufSize)>>
                ELSE <<Done("OPENFAIL")>>)
  BY DEF packet_channel_open, Received
<1> DEFINE r == IF channel_open_done(envok) THEN Msg("CONFIRM", BufSize) ELSE Done("OPENFAIL")
<1>4. r \in OutPackets /\ (\/ r.t = "CONFIRM" /\ r.n = BufSize
                           \/ r.t = "OPENFAIL" /\ r.n = 0)
  <2>1. /\ Msg("CONFIRM", BufSize) \in OutPackets
        /\ Msg("CONFIRM", BufSize).t = "CONFIRM" /\ Msg("CONFIRM", BufSize).n = BufSize
    BY BufSizeAssumption DEF Msg, OutPackets
  <2>2. /\ Done("OPENFAIL") \in OutPackets
        /\ Done("OPENFAIL").t = "OPENFAIL" /\ Done("OPENFAIL").n = 0
    BY DEF Msg, Done, OutPackets
  <2>3. r = Msg("CONFIRM", BufSize) \/ r = Done("OPENFAIL")
    OBVIOUS
  <2> HIDE DEF r
  <2> QED
    BY <2>1, <2>2, <2>3
<1> HIDE DEF limit
<1>5. channel_open(m.n, limit) /\ sendbuf' = sendbuf \o <<r>>
  BY <1>3 DEF Handler, die
<1> HIDE DEF m, r
<1>6. maxpacket' # 0 /\ remotewindow' = m.n /\ localwindow' = BufSize /\ UNCHANGED <<pid, len0>>
  BY <1>2, <1>5 DEF channel_open
<1>7. UNCHANGED s2c
  BY <1>0 DEF Received
<1>8. Opens(m, r)
  BY <1>4, <1>5, <1>6, <1>7 DEF Opens
<1> QED
  BY <1>8 DEF m

(* The opening sets up the accounts. *)
LEMMA HeldOpen ==
  ASSUME Base, Base', OutWires, ClientOK, Held, UNCHANGED clientvars, packet_channel_open,
         recvbuf # <<>>, Head(recvbuf).t = "OPEN", status' = "run"
  PROVE  Held'
<1> DEFINE m == Head(recvbuf)
<1>0. Wires /\ Wires' /\ process /\ UNCHANGED <<client, credit, rcredit>> /\ (maxpacket = 0 => pid = 0)
  BY DEF Base, process, clientvars, ChannelInv, BeforeChild
<1>1. Takes(m) /\ m.t = "OPEN" /\ m \in InPackets
  BY <1>0, ProcessTakes DEF Takes
<1>2. m.n \in Nat /\ m \in Packet
  BY <1>1, PacketNumbers DEF Packet
<1>a. ToServer' \in Seq(Packet) /\ ToClient \in Seq(Packet)
  BY <1>0, Directions, DirectionsNext
<1> HIDE DEF m
<1>3. /\ Grows(ToServer', ToServer, m) /\ Types(ToServer') \subseteq Types(ToServer)
      /\ "OPEN" \in Types(ToServer) /\ (Alone(ToServer) => Alone(ToServer') /\ ~Offered(ToServer'))
  BY <1>1, <1>2, <1>a, TakesOne DEF Takes, Offers
<1>4. Offered(ToServer)
  BY <1>3, OfferedTypes DEF Offers
<1>5. client.open = "asked" /\ maxpacket = 0 /\ ~Offered(ToClient) /\ Alone(ToServer) /\ Alone(ToClient)
  BY <1>4 DEF Held, Opening, ClientOK
<1>6. PICK r : Opens(m, r)
  BY <1>0, <1>5, OpenEffect DEF m
<1>7. r \in Packet /\ OutWires' /\ ToClient' = ToClient \o <<r>> /\ r.t \in {"CONFIRM", "OPENFAIL"}
  <2>1. r \in OutPackets /\ <<r>> \in Seq(OutPackets) /\ sendbuf' = sendbuf \o <<r>> /\ UNCHANGED s2c
        /\ r.t \in {"CONFIRM", "OPENFAIL"}
    BY <1>6 DEF Opens
  <2> QED
    BY <2>1, PutBehind DEF Packet
<1>8. Grows(ToClient, ToClient', r) /\ Alone(ToClient')
  BY <1>5, <1>7, <1>a, GrowsBehind
<1>9. Opening'
  <2>1. Offered(ToClient') /\ ~Offered(ToServer') /\ Alone(ToServer') /\ Alone(ToClient')
    BY <1>3, <1>5, <1>7, <1>8 DEF Grows, Offers
  <2>2. maxpacket' # 0 /\ client'.open = "asked"
    BY <1>0, <1>5, <1>6 DEF Opens
  <2> QED
    BY <2>1, <2>2 DEF Opening
<1>10. Allowed' /\ Unopened'
  <2>1. pid' = pid /\ maxpacket' # 0
    BY <1>6 DEF Opens
  <2> QED
    BY <1>0, <1>3, <2>1 DEF Held, Allowed, Unopened
<1>11. PICK lc \in Nat, gc \in Nat, ls \in Nat, gs \in Nat :
        lc = Load(ToClient) /\ gc = Grant(ToClient) /\ ls = Load(ToServer) /\ gs = Grant(ToServer)
  BY <1>0, Weighed
<1>12. PICK lc2 \in Nat, gc2 \in Nat, ls2 \in Nat, gs2 \in Nat :
        lc2 = Load(ToClient') /\ gc2 = Grant(ToClient') /\ ls2 = Load(ToServer') /\ gs2 = Grant(ToServer')
  BY <1>0, <1>7, Weighed
<1>13. PICK k \in Nat : /\ k = GrantOf(r) /\ k <= BufSize /\ (r.t = "CONFIRM" => k = BufSize)
                        /\ LoadOf(r) = 0
  BY <1>6, BufSizeAssumption DEF Opens, LoadOf, GrantOf
<1>14. lc2 = lc /\ gc2 = gc + k /\ ls = ls2 /\ gs = gs2 + m.n
  <2>1. LoadOf(m) = 0 /\ GrantOf(m) = m.n
    BY <1>1 DEF LoadOf, GrantOf
  <2> QED
    BY <1>3, <1>8, <1>11, <1>12, <1>13, <2>1 DEF Grows
<1>15. PICK c \in Nat : c = credit /\ rcredit = 0 + lc + gs /\ c + (ls + gc) <= 0
  <2>1. remotewindow = 0 /\ localwindow = 0
    BY <1>5 DEF Held, Unopened
  <2>2. rcredit = remotewindow + lc + gs /\ credit \in Nat /\ credit + (ls + gc) <= localwindow
    BY <1>11 DEF Held, Outgoing, OutSum, Incoming, InSum
  <2> QED
    BY <2>1, <2>2
<1>16. /\ rcredit = m.n + lc2 + gs2 /\ c + (ls2 + gc2) <= BufSize
       /\ k = BufSize => c + (ls2 + gc2) = BufSize
  <2>1. PICK n \in Nat, b \in Nat : n = m.n /\ b = BufSize
    BY <1>2, BufSizeAssumption
  <2>2. c = 0 /\ ls = 0 /\ gc = 0
    BY <1>15
  <2>3. gc2 = k /\ ls2 = 0 /\ gs = gs2 + n /\ lc2 = lc
    BY <1>14, <2>1, <2>2
  <2>4. 0 + lc + gs = n + lc2 + gs2
    BY <2>3
  <2>5. c + (ls2 + gc2) <= b /\ (k = b => c + (ls2 + gc2) = b)
    BY <1>13, <2>1, <2>2, <2>3
  <2> QED
    BY <1>15, <2>1, <2>4, <2>5
<1>17. Outgoing'
  <2>1. OutSum' = m.n + lc2 + gs2
    BY <1>6, <1>12 DEF OutSum, Opens
  <2> QED
    BY <1>0, <1>16, <2>1 DEF Held, Outgoing
<1>18. Incoming'
  <2>1. InSum' = ls2 + gc2 /\ localwindow' = BufSize /\ credit' = c
    BY <1>0, <1>6, <1>12, <1>15 DEF InSum, Opens
  <2>2. Confirmed' => k = BufSize
    <3>1. "CONFIRM" \notin Types(ToClient)
      BY <1>5, OfferedTypes DEF Offers
    <3>2. client'.open # "yes"
      BY <1>0, <1>5
    <3>3. "CONFIRM" \in Types(ToClient') => r.t = "CONFIRM"
      BY <1>8, <3>1 DEF Grows
    <3> QED
      BY <1>13, <3>2, <3>3, ConfirmedTypes
  <2> QED
    BY <1>16, <2>1, <2>2, Zenon DEF Incoming
<1>19. Room'
  <2>1. localwindow' = BufSize
    BY <1>6 DEF Opens
  <2> QED
    BY <2>1, BufSizeAssumption DEF Room
<1> QED
  BY <1>9, <1>10, <1>17, <1>18, <1>19 DEF Held

(* Every step of the server keeps the accounts, if it is not its last. *)
LEMMA HeldServer ==
  ASSUME Base, Base', LoopInv, WireInv, Held, Next, Server \/ Timeout, status' = "run"
  PROVE  Held'
<1>0. Moves /\ Wires /\ OutWires /\ ClientOK
  BY MovesStep DEF Base, WireInv
<1>1. UNCHANGED clientvars
  BY DEF Server, Timeout
<1>2. CASE process
  <2>1. CASE recvbuf # <<>> /\ Head(recvbuf).t \in {"DATA", "EXT", "ADJ"}
    <3>1. \/ packet_channel_recv_data \/ packet_channel_recv_extendeddata
          \/ packet_channel_recv_windowadjust
      BY <1>2, <2>1 DEF process, packet_channel_open, packet_channel_request, request_start, request_pty,
         request_other, packet_channel_recv_eof, packet_channel_recv_close, packet_global_request,
         packet_unimplemented, packet_disconnect, packet_kexinit, process_done, Received, Starts
    <3> QED
      BY <1>0, <1>1, <3>1, HeldAmounts
  <2>2. CASE recvbuf # <<>> /\ Head(recvbuf).t = "OPEN"
    <3>1. packet_channel_open
      BY <1>2, <2>2 DEF process, packet_channel_request, request_start, request_pty,
         request_other, packet_channel_recv_data, packet_channel_recv_extendeddata,
         packet_channel_recv_windowadjust, packet_channel_recv_eof, packet_channel_recv_close,
         packet_global_request, packet_unimplemented, packet_disconnect, packet_kexinit, process_done,
         Received, Starts
    <3> QED
      BY <1>0, <1>1, <2>2, <3>1, HeldOpen
  <2>3. CASE recvbuf # <<>> => Head(recvbuf).t \notin {"OPEN", "DATA", "EXT", "ADJ"}
    BY <1>0, <1>1, <1>2, <2>3, HeldQuiet
  <2> QED
    BY <2>1, <2>2, <2>3
<1>3. CASE \/ loop_break \/ loop_poll \/ loop_polltimeout \/ loop_selfpipe \/ loop_check \/ loop_wait
           \/ loop_send \/ loop_recv \/ packet_sendall \/ packet_getall
  BY <1>0, <1>1, <1>3, HeldLoop
<1>4. CASE loop_tochild
  BY <1>0, <1>1, <1>4, HeldTochild
<1>5. CASE loop_from1 \/ loop_from2
  BY <1>0, <1>1, <1>5, HeldFrom
<1> QED
  BY <1>2, <1>3, <1>4, <1>5 DEF Server, Timeout
\* What the client that keeps to the rules puts: an OPEN, once, or a packet that
\* it may send and that its own accounts show.
Asks(m) ==
    /\ m.t = "OPEN" /\ m.n \in 0..WindowMax /\ client.open = "no" /\ client'.open = "asked"
    /\ client'.ext = client.ext /\ rcredit' = m.n /\ credit' = credit

Tells(m) ==
    /\ m.t # "OPEN" /\ client'.open = client.open
    /\ client'.ext \in BOOLEAN
    /\ client.ext \/ m.t = "EXT" => client'.ext
    /\ m.t \in Channelled => client.open = "yes" \/ (client.started /\ m.t \in {"DATA", "EXT"})
    /\ m.t \in {"DATA", "EXT"} => client.started
    /\ credit \in Nat => credit' \in Nat /\ credit = credit' + LoadOf(m)
    /\ \/ m.t # "ADJ" /\ rcredit' = rcredit
       \/ m.t = "ADJ" /\ rcredit = 0 /\ rcredit' = m.n

(* The records of the client's packets. *)
LEMMA OwnPackets ==
  /\ \A t \in Channelled \cup {"GLOBAL", "OPENX", "KEXINIT", "NEWKEYS", "OTHER", "DISCONNECT", "HANGUP"} :
        /\ \A n \in Wants \cup Sizes : Msg(t, n) \in InPackets /\ Msg(t, n).t = t /\ Msg(t, n).n = n
        /\ Done(t) \in InPackets /\ Done(t).t = t /\ Done(t).n = 0
  /\ \A w \in Windows, l \in Limits : LET m == [t |-> "OPEN", n |-> w, l |-> l]
                                      IN  m \in InPackets /\ m.t = "OPEN" /\ m.n = w /\ w \in 0..WindowMax
<1>1. Wants \cup Sizes \cup {0} \subseteq 0..PacketLimit
  BY Numbers, PacketAssumption
<1>2. \A t \in Channelled \cup {"GLOBAL", "OPENX", "KEXINIT", "NEWKEYS", "OTHER", "DISCONNECT", "HANGUP"},
         n \in 0..PacketLimit : Msg(t, n) \in InPackets /\ Msg(t, n).t = t /\ Msg(t, n).n = n
  BY DEF Channelled, Msg, InPackets
<1>3. \A w \in Windows, l \in Limits : LET m == [t |-> "OPEN", n |-> w, l |-> l]
                                      IN  m \in InPackets /\ m.t = "OPEN" /\ m.n = w /\ w \in 0..WindowMax
  BY Numbers DEF InPackets
<1> QED
  BY <1>1, <1>2, <1>3 DEF Done

(* A step in which the windows are not mentioned. *)
LEMMA TellsPlain ==
  ASSUME ClientOK, NEW m, m.t \notin {"OPEN", "DATA", "EXT", "ADJ"},
         m.t \in Channelled => client.open = "yes",
         client'.open = client.open, client'.ext = client.ext, UNCHANGED <<credit, rcredit>>
  PROVE  Tells(m)
<1>1. LoadOf(m) = 0
  BY DEF LoadOf
<1>2. client'.ext \in BOOLEAN
  BY DEF ClientOK
<1>3. credit \in Nat => credit' \in Nat /\ credit = credit' + LoadOf(m)
  BY <1>1
<1> QED
  BY <1>2, <1>3 DEF Tells

(* Every packet it sends is one of those. *)
LEMMA ClientLegal ==
  ASSUME ClientOK, Client, ~ClientRecv, ~Wild
  PROVE  \E m \in InPackets : c2s' = Append(c2s, m) /\ UNCHANGED s2c /\ (Asks(m) \/ Tells(m))
<1> USE DEF ClientSends, Legal
<1>0. DOMAIN client = Fields
  BY DEF ClientOK
<1>1. CASE ClientOpen
  <2>1. CASE \E w \in Windows, l \in Limits :
                /\ client.open = "no"
                /\ ClientSends([t |-> "OPEN", n |-> w, l |-> l], [Spend EXCEPT !.open = "asked"])
                /\ rcredit' = w /\ UNCHANGED credit
    <3>1. PICK w \in Windows, l \in Limits :
                /\ client.open = "no"
                /\ ClientSends([t |-> "OPEN", n |-> w, l |-> l], [Spend EXCEPT !.open = "asked"])
                /\ rcredit' = w /\ UNCHANGED credit
      BY <2>1
    <3>2. PICK m : m = [t |-> "OPEN", n |-> w, l |-> l]
      OBVIOUS
    <3>3. m \in InPackets /\ m.t = "OPEN" /\ m.n = w /\ w \in 0..WindowMax
      BY <3>2, OwnPackets
    <3>4. c2s' = Append(c2s, m) /\ UNCHANGED s2c /\ client' = [Spend EXCEPT !.open = "asked"]
      BY <3>1, <3>2
    <3>5. client'.open = "asked" /\ client'.ext = client.ext
      BY <1>0, <3>4 DEF Spend, Fields
    <3> QED
      BY <3>1, <3>3, <3>4, <3>5 DEF Asks
  <2>2. CASE ClientSends(Done("OPENX"), Spend) /\ UNCHANGED <<credit, rcredit>>
    <3>1. PICK m : m = Done("OPENX")
      OBVIOUS
    <3>2. m \in InPackets /\ m.t = "OPENX"
      BY <3>1, OwnPackets
    <3>3. client'.open = client.open /\ client'.ext = client.ext
      BY <1>0, <2>2 DEF Spend, Fields
    <3>4. c2s' = Append(c2s, m) /\ UNCHANGED s2c
      BY <2>2, <3>1
    <3>5. Tells(m)
      BY <2>2, <3>2, <3>3, TellsPlain DEF Channelled, Requests, Starts
    <3> QED
      BY <3>2, <3>4, <3>5
  <2> QED
    BY <1>1, <2>1, <2>2 DEF ClientOpen
<1>2. CASE ClientRequest
  <2>1. PICK t \in Requests \cup {"GLOBAL"}, n \in Wants :
          /\ t = "GLOBAL" \/ client.open = "yes"
          /\ ClientSends(Msg(t, n), [Spend EXCEPT !.waiting = IF n = 1 THEN Append(@, t) ELSE @])
    BY <1>2 DEF ClientRequest
  <2>2. PICK m : m = Msg(t, n)
    OBVIOUS
  <2>3. m \in InPackets /\ m.t = t
    BY <2>2, OwnPackets DEF Channelled
  <2>4. client'.open = client.open /\ client'.ext = client.ext
    BY <1>0, <2>1 DEF Spend, Fields
  <2>5. c2s' = Append(c2s, m) /\ UNCHANGED s2c
    BY <2>1, <2>2
  <2>6. UNCHANGED <<credit, rcredit>>
    BY <1>2 DEF ClientRequest
  <2>7. Tells(m)
    BY <2>1, <2>3, <2>4, <2>6, TellsPlain DEF Channelled, Requests, Starts
  <2> QED
    BY <2>3, <2>5, <2>7
<1>3. CASE ClientData
  <2>1. PICK t \in {"DATA", "EXT"}, n \in Sizes :
          /\ client.started /\ n <= credit
          /\ ClientSends(Msg(t, n), [Spend EXCEPT !.ext = @ \/ t = "EXT"])
          /\ credit' = (IF n <= credit THEN credit - n ELSE 0)
    BY <1>3 DEF ClientData
  <2>2. PICK m : m = Msg(t, n)
    OBVIOUS
  <2>3. m \in InPackets /\ m.t = t /\ m.n = n /\ n \in Nat
    BY <2>2, OwnPackets, Numbers DEF Channelled
  <2>4. client'.open = client.open /\ client'.ext = (client.ext \/ t = "EXT")
    BY <1>0, <2>1 DEF Spend, Fields
  <2>5. c2s' = Append(c2s, m) /\ UNCHANGED s2c /\ UNCHANGED rcredit
    BY <1>3, <2>1, <2>2 DEF ClientData
  <2>6. LoadOf(m) = n
    BY <2>3 DEF LoadOf
  <2>7. credit' = credit - n
    BY <2>1
  <2>8. ASSUME credit \in Nat PROVE credit' \in Nat /\ credit = credit' + LoadOf(m)
    BY <2>1, <2>3, <2>6, <2>7, <2>8
  <2>9. client'.ext \in BOOLEAN /\ (client.ext \/ m.t = "EXT" => client'.ext)
    BY <2>3, <2>4, Zenon
  <2>10. Tells(m)
    BY <2>1, <2>3, <2>4, <2>5, <2>8, <2>9 DEF Tells
  <2> QED
    BY <2>3, <2>5, <2>10
<1>4. CASE ClientAdjust
  <2>1. PICK n \in Sizes :
          ClientSends(Msg("ADJ", n), client) /\ rcredit' = n /\ rcredit = 0 /\ client.open = "yes"
    BY <1>4 DEF ClientAdjust
  <2>2. PICK m : m = Msg("ADJ", n)
    OBVIOUS
  <2>a. PICK t \in Channelled : t = "ADJ"
    BY DEF Channelled
  <2>b. Msg(t, n) \in InPackets /\ Msg(t, n).t = t /\ Msg(t, n).n = n
    BY OwnPackets
  <2>3. m \in InPackets /\ m.t = "ADJ" /\ m.n = n
    BY <2>2, <2>a, <2>b
  <2>4. c2s' = Append(c2s, m) /\ UNCHANGED <<s2c, client, credit>>
    BY <1>4, <2>1, <2>2 DEF ClientAdjust
  <2>5. LoadOf(m) = 0 /\ client'.ext \in BOOLEAN
    BY <2>3, <2>4 DEF LoadOf, ClientOK
  <2>6. credit \in Nat => credit' \in Nat /\ credit = credit' + LoadOf(m)
    BY <2>4, <2>5
  <2>7. Tells(m)
    BY <2>1, <2>3, <2>4, <2>5, <2>6 DEF Tells
  <2> QED
    BY <2>3, <2>4, <2>7
<1>5. CASE ClientEof \/ ClientClose
  <2>1. PICK t \in {"EOF", "CLOSE"} : c2s' = Append(c2s, Done(t)) /\ UNCHANGED s2c /\ client.open = "yes"
    BY <1>5 DEF ClientEof, ClientClose
  <2>2. PICK m : m = Done(t)
    OBVIOUS
  <2>3. m \in InPackets /\ m.t = t
    BY <2>2, OwnPackets DEF Channelled
  <2>4. client'.open = client.open /\ client'.ext = client.ext
    BY <1>0, <1>5 DEF ClientEof, ClientClose, Spend, Fields
  <2>5. UNCHANGED <<credit, rcredit>>
    BY <1>5 DEF ClientEof, ClientClose
  <2>6. Tells(m)
    BY <2>1, <2>3, <2>4, <2>5, TellsPlain
  <2> QED
    BY <2>1, <2>2, <2>3, <2>6
<1>6. CASE ClientKexinit \/ ClientNewkeys \/ ClientOther \/ ClientHangup
  <2>1. PICK t \in {"KEXINIT", "NEWKEYS", "OTHER", "DISCONNECT", "HANGUP"} :
          c2s' = Append(c2s, Done(t)) /\ UNCHANGED s2c
    BY <1>6 DEF ClientKexinit, ClientNewkeys, ClientOther, ClientHangup
  <2>2. PICK m : m = Done(t)
    OBVIOUS
  <2>3. m \in InPackets /\ m.t = t
    BY <2>2, OwnPackets
  <2>4. client'.open = client.open /\ client'.ext = client.ext
    BY <1>0, <1>6 DEF ClientKexinit, ClientNewkeys, ClientOther, ClientHangup, Spend, Fields
  <2>5. UNCHANGED <<credit, rcredit>>
    BY <1>6 DEF ClientKexinit, ClientNewkeys, ClientOther, ClientHangup
  <2>6. Tells(m)
    BY <2>1, <2>3, <2>4, <2>5, TellsPlain DEF Channelled, Requests, Starts
  <2> QED
    BY <2>1, <2>2, <2>3, <2>6
<1> QED
  BY <1>1, <1>2, <1>3, <1>4, <1>5, <1>6 DEF Client
\* A step of the client leaves all of the server alone.
ServerRests == UNCHANGED <<chanvars, status>>

(* The client that asks for a channel has nothing on its way yet. *)
LEMMA HeldAsks ==
  ASSUME Base, Base', OutWires, OutWires', ClientOK, Held, ServerRests, ToClient' = ToClient,
         NEW m \in InPackets, ToServer' = ToServer \o <<m>>, Asks(m)
  PROVE  Held'
<1>0. /\ Wires /\ Wires' /\ UNCHANGED <<maxpacket, localwindow, remotewindow, pid, len0, fd0>>
      /\ (maxpacket = 0 => pid = 0)
  BY DEF Base, ServerRests, chanvars, fds, ChannelInv, BeforeChild
<1>1. ToServer \in Seq(Packet) /\ ToClient \in Seq(Packet) /\ m \in Packet
  BY <1>0, Directions DEF Packet
<1>2. /\ Grows(ToServer, ToServer', m)
      /\ Alone(ToServer) /\ (m.t \in Offers => ~Offered(ToServer)) => Alone(ToServer')
  BY <1>1, GrowsBehind
<1>3. /\ client.open = "no" /\ m.t = "OPEN" /\ m.n \in 0..WindowMax /\ client'.open = "asked"
      /\ client'.ext = client.ext /\ rcredit' = m.n /\ credit' = credit
  BY DEF Asks
<1>4. /\ ~Offered(ToServer) /\ ~Offered(ToClient) /\ maxpacket = 0 /\ rcredit = 0
      /\ Alone(ToServer) /\ Alone(ToClient)
  BY <1>3 DEF Held, Opening
<1>5. Opening'
  <2>1. Offered(ToServer') /\ ~Offered(ToClient') /\ Alone(ToServer') /\ Alone(ToClient')
    BY <1>2, <1>3, <1>4 DEF Grows, Offers
  <2> QED
    BY <1>0, <1>3, <1>4, <2>1 DEF Opening
<1>6. Allowed'
  <2>1. pid = 0 /\ Types(ToServer) \cap Channelled = {}
    BY <1>0, <1>3, <1>4 DEF Held, Allowed
  <2>2. Types(ToServer') \cap Channelled = {}
    BY <1>2, <1>3, <2>1 DEF Grows, Channelled, Requests, Starts
  <2>3. {"DATA", "EXT"} \subseteq Channelled
    BY DEF Channelled
  <2> QED
    BY <1>0, <2>1, <2>2, <2>3 DEF Allowed
<1>7. Unopened'
  BY <1>0 DEF Held, Unopened
<1>8. PICK rw \in Nat, lc \in Nat, gc \in Nat, ls \in Nat, gs \in Nat :
        /\ rw = remotewindow /\ lc = Load(ToClient) /\ gc = Grant(ToClient)
        /\ ls = Load(ToServer) /\ gs = Grant(ToServer)
  <2>1. remotewindow \in Nat
    BY WindowAssumption DEF Base, ChannelInv, ChannelTypeOK, CountersOK
  <2> QED
    BY <1>0, <2>1, Weighed
<1>9. rw + lc + gs = 0
  BY <1>4, <1>8 DEF Held, Outgoing, OutSum
<1>10. Load(ToServer') = ls /\ Grant(ToServer') = gs + m.n
  <2>1. LoadOf(m) = 0 /\ GrantOf(m) = m.n
    BY <1>3 DEF LoadOf, GrantOf
  <2> QED
    BY <1>2, <1>8, <2>1 DEF Grows
<1>11. Outgoing'
  <2>1. PICK n \in 0..WindowMax : n = m.n
    BY <1>3
  <2>2. OutSum' = rw + lc + (gs + n)
    BY <1>0, <1>8, <1>10, <2>1 DEF OutSum
  <2>3. rw + lc + (gs + n) = n
    BY <1>9, WindowAssumption
  <2>4. OutSum' = n /\ rcredit' = n
    BY <1>3, <2>1, <2>2, <2>3
  <2> QED
    BY <2>4 DEF Outgoing
<1>12. Incoming'
  <2>1. InSum' = InSum
    BY <1>8, <1>10 DEF InSum
  <2>2. Confirmed' => Confirmed
    BY <1>3, ConfirmedTypes
  <2>3. Listens' = Listens
    BY <1>0 DEF Listens, Discards
  <2> QED
    BY <1>0, <1>3, <2>1, <2>2, <2>3 DEF Held, Incoming
<1>13. Room'
  BY <1>0, <1>4 DEF Room
<1> QED
  BY <1>5, <1>6, <1>7, <1>11, <1>12, <1>13 DEF Held

(* What it says afterwards is on its accounts. *)
LEMMA HeldTells ==
  ASSUME Base, Base', OutWires, OutWires', ClientOK, Held, ServerRests, ToClient' = ToClient,
         client.started => pid # 0,
         NEW m \in InPackets, ToServer' = ToServer \o <<m>>, Tells(m)
  PROVE  Held'
<1>0. /\ Wires /\ Wires' /\ UNCHANGED <<maxpacket, localwindow, remotewindow, pid, len0, fd0>>
      /\ client'.open = client.open /\ m.t # "OPEN"
  BY DEF Base, ServerRests, chanvars, fds, Tells
<1>1. ToServer \in Seq(Packet) /\ ToClient \in Seq(Packet) /\ m \in Packet
  BY <1>0, Directions DEF Packet
<1>2. /\ Grows(ToServer, ToServer', m)
      /\ Alone(ToServer) /\ (m.t \in Offers => ~Offered(ToServer)) => Alone(ToServer')
  BY <1>1, GrowsBehind
<1>3. m.t \notin Offers
  BY <1>0 DEF InPackets, Offers, Requests, Starts
<1>4. m.n \in 0..PacketLimit /\ m.n \in Nat
  BY <1>0, OtherPacket, PacketAssumption
<1>5. Opening'
  <2>1. /\ Offered(ToServer') <=> Offered(ToServer)
        /\ Alone(ToServer) => Alone(ToServer')
    BY <1>2, <1>3 DEF Grows
  <2>2. ASSUME client.open = "no" PROVE rcredit' = rcredit
    <3>1. m.t # "ADJ"
      BY <2>2 DEF Tells, Channelled, Held, Allowed
    <3> QED
      BY <3>1 DEF Tells
  <2> QED
    BY <1>0, <2>1, <2>2 DEF Held, Opening
<1>6. Allowed'
  <2>1. m.t \in {"DATA", "EXT"} => pid # 0
    BY DEF Tells
  <2>2. m.t \in Channelled => client.open = "yes"
    BY <2>1 DEF Tells, Held, Allowed
  <2>3. Types(ToServer') = Types(ToServer) \cup {m.t}
    BY <1>2 DEF Grows
  <2>4. client.ext \/ m.t = "EXT" => client'.ext
    BY DEF Tells
  <2> QED
    BY <1>0, <2>1, <2>2, <2>3, <2>4 DEF Held, Allowed
<1>7. Unopened'
  BY <1>0 DEF Held, Unopened
<1>8. PICK rw \in Nat, lc \in Nat, gc \in Nat, ls \in Nat, gs \in Nat :
        /\ rw = remotewindow /\ lc = Load(ToClient) /\ gc = Grant(ToClient)
        /\ ls = Load(ToServer) /\ gs = Grant(ToServer)
  <2>1. remotewindow \in Nat
    BY WindowAssumption DEF Base, ChannelInv, ChannelTypeOK, CountersOK
  <2> QED
    BY <1>0, <2>1, Weighed
<1>9. PICK l \in Nat, g \in Nat : l = LoadOf(m) /\ g = GrantOf(m)
  BY <1>2 DEF Grows
<1>10. Load(ToServer') = ls + l /\ Grant(ToServer') = gs + g
  BY <1>2, <1>8, <1>9 DEF Grows
<1>a. rcredit = rw + lc + gs /\ rcredit \in 0..WindowMax
  BY <1>8 DEF Held, Outgoing, OutSum
<1>b. OutSum' = rw + lc + (gs + g)
  BY <1>0, <1>8, <1>10 DEF OutSum
<1>11. Outgoing'
  <2>1. CASE m.t # "ADJ" /\ rcredit' = rcredit
    <3>1. g = 0
      BY <1>3, <1>9, <2>1 DEF GrantOf, Offers
    <3> QED
      BY <1>a, <1>b, <2>1, <3>1 DEF Outgoing
  <2>2. CASE m.t = "ADJ" /\ rcredit = 0 /\ rcredit' = m.n
    <3>1. g = m.n /\ g \in 0..WindowMax
      BY <1>4, <1>9, <2>2, PacketAssumption, WindowAssumption DEF GrantOf
    <3>2. rw + lc + gs = 0
      BY <1>a, <2>2
    <3>3. rw + lc + (gs + g) = g
      BY <3>2
    <3>4. OutSum' = g /\ rcredit' = g
      BY <1>b, <2>2, <3>1, <3>3
    <3> QED
      BY <3>1, <3>4 DEF Outgoing
  <2> QED
    BY <2>1, <2>2 DEF Tells
<1>12. Incoming'
  <2>1. PICK c \in Nat, d \in Nat : c = credit /\ d = credit' /\ c = d + l
    BY <1>9 DEF Held, Incoming, Tells
  <2>2. InSum = ls + gc /\ InSum' = (ls + l) + gc
    BY <1>8, <1>10 DEF InSum
  <2>3. d + ((ls + l) + gc) = c + (ls + gc)
    BY <2>1
  <2>4. credit' + InSum' = credit + InSum /\ credit' \in Nat
    BY <2>1, <2>2, <2>3
  <2>5. Confirmed' => Confirmed
    BY <1>0, ConfirmedTypes
  <2>6. Listens' = Listens
    BY <1>0 DEF Listens, Discards
  <2> QED
    BY <1>0, <2>4, <2>5, <2>6 DEF Held, Incoming
<1>13. Room'
  <2>1. client.ext => client'.ext
    BY DEF Tells
  <2>2. Listens' = Listens
    BY <1>0 DEF Listens, Discards
  <2> QED
    BY <1>0, <2>1, <2>2 DEF Held, Room
<1> QED
  BY <1>5, <1>6, <1>7, <1>11, <1>12, <1>13 DEF Held
\* What a packet does to what the client knows of its channel.
Hears(m) ==
    /\ client'.ext = client.ext
    /\ \/ m.t = "CONFIRM" /\ client'.open = "yes"
       \/ m.t = "OPENFAIL" /\ client.open = "asked" /\ client'.open = "failed"
       \/ (m.t = "OPENFAIL" => client.open # "asked") /\ m.t # "CONFIRM" /\ client'.open = client.open
    /\ credit' = credit + GrantOf(m) /\ rcredit' = rcredit - LoadOf(m)

(* That is what it does. *)
LEMMA HearsOne ==
  ASSUME ClientOK, ClientRecv, Head(s2c) \in OutPackets, credit \in Nat, rcredit \in Nat
  PROVE  Hears(Head(s2c))
<1> DEFINE m == Head(s2c)
<1>0. DOMAIN client = Fields /\ m.t \notin {"OPEN"}
  BY DEF ClientOK, OutPackets, Replies, Farewells, Rank
<1>1. \/ m.t = "CONFIRM" /\ client' = [client EXCEPT !.open = "yes"]
      \/ m.t = "OPENFAIL" /\ client.open = "asked" /\ client' = [client EXCEPT !.open = "failed"]
      \/ /\ (m.t = "OPENFAIL" => client.open # "asked") /\ m.t # "CONFIRM"
         /\ client'.open = client.open /\ client'.ext = client.ext
  <2>1. CASE m.t = "CONFIRM"
    BY <2>1 DEF ClientRecv
  <2>2. CASE m.t = "OPENFAIL" /\ client.open = "asked"
    BY <2>2 DEF ClientRecv
  <2>3. CASE m.t # "CONFIRM" /\ (m.t = "OPENFAIL" => client.open # "asked")
    <3>1. CASE m.t \in {"SUCCESS", "FAILURE", "REQFAIL"}
      <4>1. client' = [client EXCEPT !.waiting = Tail(@),
                                     !.started = @ \/ (m.t = "SUCCESS" /\ Head(client.waiting) \in Starts)]
        BY <3>1 DEF ClientRecv
      <4> QED
        BY <1>0, <2>3, <4>1 DEF Fields
    <3>2. CASE m.t \in {"EOF", "STATUS", "CLOSE"}
      <4>1. client' = [client EXCEPT !.seen = @ \cup {m.t}]
        BY <3>2 DEF ClientRecv
      <4> QED
        BY <1>0, <2>3, <4>1 DEF Fields
    <3>3. CASE m.t = "KEX"
      <4>1. client' = [client EXCEPT !.kex = "reply"]
        BY <3>3 DEF ClientRecv
      <4> QED
        BY <1>0, <2>3, <4>1 DEF Fields
    <3>4. CASE m.t \notin {"SUCCESS", "FAILURE", "REQFAIL", "EOF", "STATUS", "CLOSE", "KEX"}
      <4>1. client' = client
        BY <2>3, <3>4 DEF ClientRecv
      <4> QED
        BY <2>3, <4>1
    <3> QED
      BY <3>1, <3>2, <3>3, <3>4
  <2> QED
    BY <2>1, <2>2, <2>3
<1>2. credit' = (IF m.t \in {"CONFIRM", "ADJ"} THEN credit + m.n ELSE credit)
      /\ rcredit' = (IF m.t \in {"DATA", "EXT"} THEN rcredit - m.n ELSE rcredit)
  BY DEF ClientRecv
<1> HIDE DEF m
<1>3. credit' = credit + GrantOf(m) /\ rcredit' = rcredit - LoadOf(m)
  BY <1>0, <1>2 DEF GrantOf, LoadOf
<1>4. /\ client'.ext = client.ext
      /\ \/ m.t = "CONFIRM" /\ client'.open = "yes"
         \/ m.t = "OPENFAIL" /\ client.open = "asked" /\ client'.open = "failed"
         \/ (m.t = "OPENFAIL" => client.open # "asked") /\ m.t # "CONFIRM" /\ client'.open = client.open
  BY <1>0, <1>1 DEF Fields
<1>5. Hears(m)
  BY <1>3, <1>4 DEF Hears
<1> QED
  BY <1>5 DEF m

(* What the client receives it puts down in its accounts. *)
LEMMA HeldHears ==
  ASSUME Base, Base', OutWires, OutWires', Held, ServerRests, ToServer' = ToServer, ClientOK,
         NEW m \in OutPackets, ToClient = <<m>> \o ToClient', Hears(m)
  PROVE  Held'
<1>0. /\ Wires /\ Wires' /\ UNCHANGED <<maxpacket, localwindow, remotewindow, pid, len0, fd0>>
      /\ client'.ext = client.ext
  BY DEF Base, ServerRests, chanvars, fds, Hears
<1>1. ToServer \in Seq(Packet) /\ ToClient' \in Seq(Packet) /\ m \in Packet
  BY <1>0, Directions, DirectionsNext DEF Packet
<1>2. /\ Grows(ToClient', ToClient, m) /\ Types(ToClient') \subseteq Types(ToClient)
      /\ m.t \in Types(ToClient)
      /\ (Alone(ToClient) => Alone(ToClient') /\ (m.t \in Offers => ~Offered(ToClient')))
  BY <1>1, TakesOne
<1>3. Alone(ToClient) /\ Alone(ToServer) /\ Alone(ToClient') /\ Alone(ToServer')
  BY <1>0, <1>2 DEF Held, Opening
<1>4. Offered(ToClient) <=> Offered(ToClient') \/ m.t \in Offers
  BY <1>2 DEF Grows
<1>5. PICK rw \in Nat, lc \in Nat, gc \in Nat, ls \in Nat, gs \in Nat, lc2 \in Nat, gc2 \in Nat :
        /\ rw = remotewindow /\ lc = Load(ToClient) /\ gc = Grant(ToClient)
        /\ ls = Load(ToServer) /\ gs = Grant(ToServer)
        /\ lc2 = Load(ToClient') /\ gc2 = Grant(ToClient')
  <2>1. remotewindow \in Nat
    BY WindowAssumption DEF Base, ChannelInv, ChannelTypeOK, CountersOK
  <2> QED
    BY <1>0, <2>1, Weighed
<1>6. PICK l \in Nat, g \in Nat : l = LoadOf(m) /\ g = GrantOf(m)
  BY <1>2 DEF Grows
<1>7. lc = lc2 + l /\ gc = gc2 + g
  BY <1>2, <1>5, <1>6 DEF Grows
<1>8. PICK r \in 0..WindowMax : r = rcredit /\ r = rw + lc + gs
  BY <1>5 DEF Held, Outgoing, OutSum
<1>9. rcredit' = rw + lc2 + gs /\ rcredit' \in 0..r /\ rcredit' \in 0..WindowMax
  <2>1. rcredit' = r - l
    BY <1>6, <1>8 DEF Hears
  <2>2. r - l = rw + lc2 + gs /\ r - l \in 0..r /\ r - l \in 0..WindowMax
    BY <1>7, <1>8, WindowAssumption
  <2> QED
    BY <2>1, <2>2
<1>10. Outgoing'
  <2>1. OutSum' = rw + lc2 + gs
    BY <1>0, <1>5 DEF OutSum
  <2> QED
    BY <1>9, <2>1 DEF Outgoing
<1>11. Opening'
  <2>1. Offered(ToServer') <=> Offered(ToServer)
    OBVIOUS
  <2>2. CASE m.t \in {"CONFIRM", "OPENFAIL"}
    <3>1. Offered(ToClient) /\ ~Offered(ToClient')
      BY <1>2, <1>3, <1>4, <2>2 DEF Offers
    <3>2. client.open = "asked" /\ maxpacket # 0 /\ ~Offered(ToServer)
      BY <3>1 DEF Held, Opening, ClientOK
    <3>3. client'.open \in {"yes", "failed"}
      BY <2>2, <3>2 DEF Hears
    <3> QED
      BY <1>0, <1>3, <2>1, <3>1, <3>2, <3>3 DEF Opening
  <2>3. CASE m.t \notin {"CONFIRM", "OPENFAIL"}
    <3>1. m.t \notin Offers
      BY <2>3 DEF OutPackets, Offers, Replies, Farewells, Rank
    <3>2. client'.open = client.open /\ (Offered(ToClient') <=> Offered(ToClient))
      BY <1>4, <2>3, <3>1 DEF Hears
    <3>3. rcredit = 0 => rcredit' = 0
      <4>1. PICK q \in 0..r : q = rcredit'
        BY <1>9
      <4>2. r = 0 => q = 0
        BY <1>8, WindowAssumption
      <4> QED
        BY <1>8, <4>1, <4>2
    <3> QED
      BY <1>0, <1>3, <2>1, <3>2, <3>3 DEF Held, Opening
  <2> QED
    BY <2>2, <2>3
<1>12. client.open = "yes" => client'.open = "yes"
  BY DEF Hears
<1>13. Allowed'
  BY <1>0, <1>12 DEF Held, Allowed
<1>14. Unopened'
  BY <1>0 DEF Held, Unopened
<1>15. Incoming'
  <2>1. PICK c \in Nat : c = credit
    BY DEF Held, Incoming
  <2>2. credit' = c + g
    BY <1>6, <2>1 DEF Hears
  <2>3. InSum = ls + gc /\ InSum' = ls + gc2
    BY <1>5 DEF InSum
  <2>4. c + g \in Nat /\ (c + g) + (ls + gc2) = c + (ls + gc)
    BY <1>7, <2>1
  <2>5. credit' \in Nat /\ credit' + InSum' = credit + InSum
    BY <2>1, <2>2, <2>3, <2>4
  <2>6. Confirmed' => Confirmed
    <3>1. client'.open = "yes" => client.open = "yes" \/ m.t = "CONFIRM"
      BY DEF Hears
    <3> QED
      BY <1>2, <3>1, ConfirmedTypes
  <2>7. Listens' = Listens
    BY <1>0 DEF Listens, Discards
  <2> QED
    BY <1>0, <2>5, <2>6, <2>7 DEF Held, Incoming
<1>16. Room'
  <2>1. Listens' = Listens
    BY <1>0 DEF Listens, Discards
  <2> QED
    BY <1>0, <2>1 DEF Held, Room
<1> QED
  BY <1>10, <1>11, <1>13, <1>14, <1>15, <1>16 DEF Held

(* Every step of the client that keeps to the rules keeps the accounts. *)
LEMMA HeldClient ==
  ASSUME Base, Base', WireInv, WireInv', Held, Client, ~Wild
  PROVE  Held'
<1>0. /\ ServerRests /\ UNCHANGED <<sendbuf, recvbuf>> /\ OutWires /\ OutWires' /\ ClientOK /\ Wires
      /\ (client.started => pid # 0)
  BY DEF Client, ServerRests, WireInv, ReplyInv, HasChild, Running, Base
<1>1. CASE ClientRecv
  <2>1. Head(s2c) \in OutPackets /\ ToClient = <<Head(s2c)>> \o ToClient'
    BY <1>0, <1>1, ClientTakes
  <2>2. ToServer' = ToServer
    BY <1>0, <1>1 DEF ClientRecv, ToServer
  <2>3. credit \in Nat /\ rcredit \in Nat
    BY WindowAssumption DEF Held, Outgoing, Incoming
  <2>4. Hears(Head(s2c))
    BY <1>0, <1>1, <2>1, <2>3, HearsOne
  <2> QED
    BY <1>0, <2>1, <2>2, <2>4, HeldHears
<1>2. CASE ~ClientRecv
  <2>1. PICK m \in InPackets : c2s' = Append(c2s, m) /\ UNCHANGED s2c /\ (Asks(m) \/ Tells(m))
    BY <1>0, <1>2, ClientLegal
  <2>2. ToServer' = ToServer \o <<m>> /\ ToClient' = ToClient
    BY <1>0, <2>1, ClientPuts DEF ToClient
  <2> QED
    BY <1>0, <2>1, <2>2, HeldAsks, HeldTells
<1> QED
  BY <1>1, <1>2
(* At first nothing is asked for and nothing granted. *)
LEMMA HeldStart == Init => Held
<1> SUFFICES ASSUME Init PROVE Held
  OBVIOUS
<1>0. PICK m : m = Done("AUTH")
  OBVIOUS
<1>1. m \in Packet /\ m.t = "AUTH"
  <2>1. 0 \in 0..PacketLimit
    BY PacketAssumption
  <2> QED
    BY <1>0, <2>1 DEF Done, Msg, InPackets, Packet
<1>2. ToServer = <<m>> /\ ToClient = <<>>
  BY <1>0 DEF Init, ToServer, ToClient
<1>3. Types(ToServer) = {"AUTH"} /\ Types(ToClient) = {}
  <2>1. Types(<<m>>) = {m.t}
    BY <1>1, AmountsOfOne
  <2>2. Types(<<>>) = {}
    BY DEF Types
  <2> QED
    BY <1>1, <1>2, <2>1, <2>2
<1>4. Load(ToServer) = 0 /\ Grant(ToServer) = 0 /\ Load(ToClient) = 0 /\ Grant(ToClient) = 0
  <2>1. Load(ToServer) = 0 /\ Grant(ToServer) = 0
    BY <1>1, <1>2, AmountsOfOne DEF LoadOf, GrantOf
  <2>2. \A t : Bytes(<<>>, t) = 0
    BY BytesFew
  <2>3. Load(<<>>) = 0 /\ Grant(<<>>) = 0
    BY <2>2 DEF Load, Grant
  <2> QED
    BY <1>2, <2>1, <2>3
<1>5. /\ client.open = "no" /\ maxpacket = 0 /\ pid = 0 /\ localwindow = 0 /\ remotewindow = 0
      /\ credit = 0 /\ rcredit = 0
  BY DEF Init, ChannelInit, channel_init
<1>6. ~Offered(ToServer) /\ ~Offered(ToClient)
  BY <1>3, OfferedTypes DEF Offers
<1>7. Opening
  BY <1>5, <1>6 DEF Opening, Alone, Offered
<1>8. Allowed
  BY <1>3, <1>5 DEF Allowed, Channelled, Requests, Starts
<1>9. Unopened /\ Outgoing /\ Incoming /\ Room
  <2>1. OutSum = 0 /\ InSum = 0
    BY <1>4, <1>5 DEF OutSum, InSum
  <2> QED
    BY <1>5, <2>1, WindowAssumption DEF Unopened, Outgoing, Incoming, Room
<1> QED
  BY <1>7, <1>8, <1>9 DEF Held

\* The accounts, of a client that keeps to the rules, as long as the server runs.
Settled == ~Wild /\ Running => Held

(* Every step keeps them, the server's last one aside. *)
LEMMA HeldStep == Base /\ LoopInv /\ WireInv /\ Settled /\ [Next]_vars => Settled'
<1> SUFFICES ASSUME Base, LoopInv, WireInv, Settled, [Next]_vars, ~Wild, Running' PROVE Held'
  BY DEF Settled
<1>1. Base' /\ WireInv'
  BY BaseStep, RepliesStep
<1>2. CASE Server \/ Timeout
  <2>1. status = "run" /\ status' = "run"
    BY <1>2 DEF Server, Timeout, Running
  <2>2. Held
    BY <2>1 DEF Settled, Running
  <2> QED
    BY <1>1, <1>2, <2>1, <2>2, HeldServer DEF Next
<1>3. CASE Client
  <2>1. Held
    BY <1>3 DEF Client, Settled, Running
  <2> QED
    BY <1>1, <1>3, <2>1, HeldClient
<1>4. CASE UNCHANGED <<chanvars, status, sendbuf, recvbuf, c2s, s2c, clientvars>>
  <2>1. UNCHANGED <<ToServer, ToClient, client, credit, rcredit, maxpacket, localwindow, remotewindow,
                    pid, len0, fd0>>
    BY <1>4 DEF ToServer, ToClient, chanvars, fds, clientvars
  <2>2. Held
    BY <1>4 DEF Settled, Running
  <2>3. UNCHANGED <<OutSum, InSum>> /\ (Confirmed' <=> Confirmed) /\ (Listens' <=> Listens)
    BY <2>1 DEF OutSum, InSum, Confirmed, Listens, Discards
  <2>4. Opening' /\ Allowed' /\ Unopened'
    BY <2>1, <2>2 DEF Held, Opening, Allowed, Unopened
  <2>5. Outgoing' /\ Incoming' /\ Room'
    BY <2>1, <2>2, <2>3 DEF Held, Outgoing, Incoming, Room
  <2> QED
    BY <2>4, <2>5 DEF Held
<1>5. UNCHANGED vars \/ Child \/ Stopped =>
        UNCHANGED <<chanvars, status, sendbuf, recvbuf, c2s, s2c, clientvars>>
  BY DEF vars, Child, Stopped
<1> QED
  BY <1>2, <1>3, <1>4, <1>5 DEF Next

(* They hold throughout. *)
LEMMA HeldAlways == Spec => [](Base /\ LoopInv /\ WireInv /\ Settled)
<1>1. Init => Settled
  BY HeldStart DEF Settled
<1>2. Base /\ LoopInv /\ WireInv /\ Settled /\ [Next]_vars => Settled'
  BY HeldStep
<1> QED
  BY <1>1, <1>2, LoopAlways, WiresAlways, PTL DEF Spec
-----------------------------------------------------------------------------
(* What the accounts say of the two windows. *)

(* Once the server knows the channel nobody asks for it any more. *)
LEMMA NoOffer ==
  ASSUME Held, ClientOK, maxpacket # 0
  PROVE  ~Offered(ToServer)
  BY DEF Held, Opening, ClientOK

(* The client's account of the server's window, term by term. *)
LEMMA OutgoingTerms ==
  ASSUME Wires, OutWires, ClientOK, Held, remotewindow \in Nat, maxpacket # 0
  PROVE  LET sent == Bytes(ToClient, "DATA") + Bytes(ToClient, "EXT")
         IN  /\ rcredit = remotewindow + sent + Bytes(ToServer, "ADJ")
             /\ sent <= rcredit
<1>1. ToServer \in Seq(Packet) /\ ToClient \in Seq(Packet)
  BY Directions
<1>2. \A t : Bytes(ToClient, t) \in Nat /\ Bytes(ToServer, t) \in Nat
  BY <1>1, BytesNat
<1>3. "OPEN" \notin Types(ToServer) /\ "CONFIRM" \notin Types(ToServer)
  BY NoOffer, OfferedTypes DEF Offers
<1>4. Bytes(ToServer, "OPEN") = 0 /\ Bytes(ToServer, "CONFIRM") = 0
  BY <1>1, <1>3, Absent
<1>5. PICK d \in Nat, e \in Nat, a \in Nat, rw \in Nat :
        /\ d = Bytes(ToClient, "DATA") /\ e = Bytes(ToClient, "EXT")
        /\ a = Bytes(ToServer, "ADJ") /\ rw = remotewindow
  <2>1. Bytes(ToClient, "DATA") \in Nat /\ Bytes(ToClient, "EXT") \in Nat /\ Bytes(ToServer, "ADJ") \in Nat
    BY <1>2
  <2> QED
    BY <2>1
<1>6. rcredit = rw + (d + e) + (a + 0 + 0)
  BY <1>4, <1>5 DEF Held, Outgoing, OutSum, Load, Grant
<1>7. rw + (d + e) + (a + 0 + 0) = rw + (d + e) + a /\ d + e <= rw + (d + e) + a
  OBVIOUS
<1> QED
  BY <1>5, <1>6, <1>7

(* The server's account of the client's window, term by term. *)
LEMMA IncomingTerms ==
  ASSUME Wires, OutWires, Held, localwindow \in Nat
  PROVE  LET claim == credit + Bytes(ToServer, "DATA") + Bytes(ToServer, "EXT")
                        + Bytes(ToClient, "ADJ") + Bytes(ToClient, "CONFIRM")
         IN  /\ claim <= localwindow
             /\ Confirmed /\ Listens => claim = localwindow
<1>1. ToServer \in Seq(Packet) /\ ToClient \in Seq(Packet) /\ ToClient \in Seq(OutPackets)
  BY Directions
<1>2. \A t : Bytes(ToClient, t) \in Nat /\ Bytes(ToServer, t) \in Nat
  BY <1>1, BytesNat
<1>3. "OPEN" \notin Types(ToClient)
  <2>1. \A m \in OutPackets : m.t # "OPEN"
    BY DEF OutPackets, Replies, Farewells, Rank
  <2>2. \A i \in 1..Len(ToClient) : ToClient[i] \in OutPackets
    BY <1>1, ElementOfSeq
  <2> QED
    BY <2>1, <2>2 DEF Types
<1>4. Bytes(ToClient, "OPEN") = 0
  BY <1>1, <1>3, Absent
<1>5. PICK d \in Nat, e \in Nat, a \in Nat, k \in Nat, c \in Nat, lw \in Nat :
        /\ d = Bytes(ToServer, "DATA") /\ e = Bytes(ToServer, "EXT")
        /\ a = Bytes(ToClient, "ADJ") /\ k = Bytes(ToClient, "CONFIRM") /\ c = credit /\ lw = localwindow
  <2>1. /\ Bytes(ToServer, "DATA") \in Nat /\ Bytes(ToServer, "EXT") \in Nat
        /\ Bytes(ToClient, "ADJ") \in Nat /\ Bytes(ToClient, "CONFIRM") \in Nat
    BY <1>2
  <2> QED
    BY <2>1 DEF Held, Incoming
<1>6. InSum = (d + e) + (a + 0 + k)
  BY <1>4, <1>5 DEF InSum, Load, Grant
<1>7. c + ((d + e) + (a + 0 + k)) = c + d + e + a + k
  OBVIOUS
<1>8. c + d + e + a + k <= lw /\ (Confirmed /\ Listens => c + d + e + a + k = lw)
  BY <1>5, <1>6, <1>7 DEF Held, Incoming
<1> QED
  BY <1>5, <1>8

(* Counters are numbers, whatever state the connection is in. *)
LEMMA WindowNumbers ==
  ASSUME Base
  PROVE  /\ Wires /\ localwindow \in Nat /\ remotewindow \in Nat /\ len0 \in Nat
         /\ localwindow <= BufSize /\ BufSize \in Nat
  BY BufSizeAssumption, WindowAssumption DEF Base, ChannelInv, ChannelTypeOK, CountersOK

(* For every client that keeps to the rules: the server never sends more than
   the client allowed, over both output streams together. *)
THEOREM OutputStaysInWindow == Spec => [](~Wild => OutputWindow)
<1>1. Base /\ WireInv /\ Settled => (~Wild => OutputWindow)
  <2> SUFFICES ASSUME Base, WireInv, Settled, ~Wild, Running, maxpacket # 0
               PROVE  LET sent == Bytes(ToClient, "DATA") + Bytes(ToClient, "EXT")
                      IN  /\ rcredit = remotewindow + sent + Bytes(ToServer, "ADJ")
                          /\ sent <= rcredit
    BY DEF OutputWindow
  <2>1. Held /\ OutWires /\ ClientOK
    BY DEF Settled, WireInv
  <2> QED
    BY <2>1, WindowNumbers, OutgoingTerms
<1> QED
  BY <1>1, HeldAlways, PTL

(* For every client that keeps to the rules: client and server agree on the
   window the client may fill, whatever is on its way between them. *)
THEOREM InputStaysInWindow == Spec => [](~Wild => InputWindow)
<1>1. Base /\ WireInv /\ Settled => (~Wild => InputWindow)
  <2> SUFFICES ASSUME Base, WireInv, Settled, ~Wild, Running, maxpacket # 0
               PROVE  LET claim == credit + Bytes(ToServer, "DATA") + Bytes(ToServer, "EXT")
                                     + Bytes(ToClient, "ADJ") + Bytes(ToClient, "CONFIRM")
                      IN  /\ claim <= localwindow
                          /\ Confirmed /\ (pid = 0 \/ ~Discards) => claim = localwindow
    BY DEF InputWindow
  <2>1. Held /\ OutWires
    BY DEF Settled, WireInv
  <2> QED
    BY <2>1, WindowNumbers, IncomingTerms DEF Listens
<1> QED
  BY <1>1, HeldAlways, PTL

(* For every client that keeps to the rules: an upload to a child that takes
   input never comes to a halt because the window is lost. *)
THEOREM CreditComesBack == Spec => [](~Wild => CreditReturns)
<1>1. Base /\ WireInv /\ Settled => (~Wild => CreditReturns)
  <2> SUFFICES ASSUME Base, WireInv, Settled, ~Wild, Running, client.started, ~Discards, ~client.ext,
                      len0 = 0, Bytes(ToServer, "DATA") = 0, Bytes(ToClient, "ADJ") = 0
               PROVE  credit > 0
    BY DEF CreditReturns
  <2>1. Held /\ OutWires /\ ClientOK /\ Wires /\ localwindow \in Nat
    BY WindowNumbers DEF Settled, WireInv
  <2>2. client.open = "yes"
    BY <2>1 DEF WireInv, ReplyInv, HasChild, Held, Allowed
  <2>3. maxpacket # 0 /\ ~Offered(ToClient)
    BY <2>1, <2>2 DEF Held, Opening
  <2>4. ToServer \in Seq(Packet) /\ ToClient \in Seq(Packet)
    BY <2>1, Directions
  <2>5. "EXT" \notin Types(ToServer) /\ "CONFIRM" \notin Types(ToClient)
    BY <2>1, <2>3, OfferedTypes DEF Held, Allowed, Offers
  <2>6. Bytes(ToServer, "EXT") = 0 /\ Bytes(ToClient, "CONFIRM") = 0
    BY <2>4, <2>5, Absent
  <2>7. Confirmed /\ Listens
    BY <2>2 DEF Confirmed, Listens
  <2>8. credit + 0 + 0 + 0 + 0 = localwindow
    BY <2>1, <2>6, <2>7, IncomingTerms
  <2>9. localwindow > 0
    BY <2>1, <2>3, <2>7 DEF Held, Room
  <2> QED
    BY <2>1, <2>8, <2>9 DEF Held, Incoming
<1> QED
  BY <1>1, HeldAlways, PTL
-----------------------------------------------------------------------------
(* The server never stops with an error of the client's or of its own. *)
Faults == {"proto", "nomem", "bug"}

(* No block of the loop finds what it was to use gone. *)
LEMMA LoopFaultless ==
  ASSUME Base, LoopInv, status = "run",
         \/ loop_break \/ loop_poll \/ loop_polltimeout \/ loop_selfpipe \/ loop_tochild
         \/ loop_from1 \/ loop_from2 \/ loop_check \/ loop_wait \/ loop_send
         \/ loop_recv \/ packet_sendall \/ packet_getall
  PROVE  status' \notin Faults
<1> USE DEF Faults
<1>0. CountersOK /\ Pipes /\ (maxpacket = 0 => pid = 0)
  BY DEF Base, ChannelInv, ChannelTypeOK, BeforeChild
<1>1. CASE loop_break \/ loop_send \/ loop_recv \/ packet_sendall \/ packet_getall
  BY <1>1 DEF loop_break, loop_send, loop_recv, packet_sendall, packet_getall, die
<1>2. CASE loop_poll \/ loop_polltimeout \/ loop_selfpipe \/ loop_check
  BY <1>2 DEF loop_poll, loop_polltimeout, loop_selfpipe, loop_check
<1>3. CASE loop_tochild
  <2>1. pid > 0 /\ fd0 # NoFd
    <3>1. pc = "tochild" /\ "tochild" \in watch
      BY <1>3 DEF loop_tochild, LoopInv, Positions, Blocks
    <3> QED
      BY <3>1 DEF LoopInv, Watches
  <2>2. ~(maxpacket = 0 \/ pid <= 0 \/ fd0 = NoFd)
    BY <1>0, <2>1 DEF CountersOK
  <2>3. die("full") \/ \E w : WriteToChild(w)
    BY <1>3, HandlerCalls DEF loop_tochild
  <2>4. ASSUME NEW w, WriteToChild(w) PROVE UNCHANGED status
    BY <2>2, <2>4 DEF WriteToChild, channel_write
  <2> QED
    BY <2>3, <2>4 DEF die
<1>4. CASE loop_from1
  <2>1. pid > 0 /\ fd1 # NoFd
    <3>1. pc = "from1" /\ "from1" \in watch
      BY <1>4 DEF loop_from1, LoopInv, Positions, Blocks
    <3> QED
      BY <3>1 DEF LoopInv, Watches
  <2>2. ~(maxpacket = 0 \/ pid <= 0 \/ fd1 = NoFd)
    BY <1>0, <2>1 DEF CountersOK
  <2>3. UNCHANGED status \/ die("full") \/ \E r : channel_read(r)
    BY <1>4, HandlerCalls DEF loop_from1
  <2>4. ASSUME NEW r, channel_read(r) PROVE UNCHANGED status
    BY <2>2, <2>4 DEF channel_read
  <2> QED
    BY <2>3, <2>4 DEF die
<1>5. CASE loop_from2
  <2>1. pid > 0 /\ fd2 # NoFd
    <3>1. pc = "from2" /\ "from2" \in watch
      BY <1>5 DEF loop_from2, LoopInv, Positions, Blocks
    <3> QED
      BY <3>1 DEF LoopInv, Watches
  <2>2. ~(maxpacket = 0 \/ pid <= 0 \/ fd2 = NoFd)
    BY <1>0, <2>1 DEF CountersOK
  <2>3. UNCHANGED status \/ die("full") \/ \E r : channel_extendedread(r)
    BY <1>5, HandlerCalls DEF loop_from2
  <2>4. ASSUME NEW r, channel_extendedread(r) PROVE UNCHANGED status
    BY <2>2, <2>4 DEF channel_extendedread
  <2> QED
    BY <2>3, <2>4 DEF die
<1>6. CASE loop_wait
  <2>1. UNCHANGED status \/ (pid > 0 /\ (die("full") \/ channel_waitnohang))
    BY <1>6, HandlerCalls DEF loop_wait
  <2> QED
    BY <1>0, <2>1 DEF die, channel_waitnohang
<1> QED
  BY <1>1, <1>2, <1>3, <1>4, <1>5, <1>6

(* What a packet of a client that keeps to the rules asks for is there: the
   channel, the child, and room in the windows. *)
LEMMA Fitting ==
  ASSUME Base, Base', OutWires, ClientOK, Held, NEW m, Takes(m)
  PROVE  /\ m.t \in Channelled => maxpacket # 0
         /\ m.t \in {"DATA", "EXT"} => pid # 0 /\ m.n <= localwindow
         /\ m.t = "ADJ" => m.n <= WindowMax - remotewindow
<1>0. Wires /\ Wires' /\ localwindow \in Nat /\ remotewindow \in Nat
  BY WindowNumbers DEF Base
<1>1. ToServer' \in Seq(Packet) /\ m \in Packet
  BY <1>0, Directions, DirectionsNext DEF Takes, Packet
<1>2. Grows(ToServer', ToServer, m) /\ m.t \in Types(ToServer)
  BY <1>1, TakesOne DEF Takes
<1>3. ASSUME m.t \in Channelled PROVE maxpacket # 0
  <2>1. client.open = "yes"
    BY <1>2, <1>3 DEF Held, Allowed
  <2> QED
    BY <2>1 DEF Held, Opening
<1>4. ASSUME m.t \in {"DATA", "EXT"} PROVE pid # 0 /\ m.n <= localwindow
  <2>1. pid # 0
    BY <1>2, <1>4 DEF Held, Allowed
  <2>2. PICK n \in Nat, l2 \in Nat, l \in Nat, g \in Nat, lw \in Nat, c \in Nat :
          /\ n = m.n /\ l2 = Load(ToServer') /\ l = Load(ToServer) /\ g = Grant(ToClient)
          /\ lw = localwindow /\ c = credit
    <3>1. m.n \in Nat
      BY <1>1, PacketNumbers
    <3> QED
      BY <1>0, <1>2, <3>1, Weighed DEF Grows, Held, Incoming
  <2>3. l = l2 + n
    BY <1>2, <1>4, <2>2 DEF Grows, LoadOf
  <2>4. c + (l + g) <= lw
    BY <2>2 DEF Held, Incoming, InSum
  <2>5. n <= lw
    BY <2>3, <2>4
  <2> QED
    BY <2>1, <2>2, <2>5
<1>5. ASSUME m.t = "ADJ" PROVE m.n <= WindowMax - remotewindow
  <2>2. PICK n \in Nat, g2 \in Nat, g \in Nat, l \in Nat, rw \in Nat :
          /\ n = m.n /\ g2 = Grant(ToServer') /\ g = Grant(ToServer) /\ l = Load(ToClient)
          /\ rw = remotewindow
    <3>1. m.n \in Nat
      BY <1>1, PacketNumbers
    <3> QED
      BY <1>0, <1>2, <3>1, Weighed DEF Grows
  <2>3. g = g2 + n
    BY <1>2, <1>5, <2>2 DEF Grows, GrantOf
  <2>4. PICK r \in 0..WindowMax : r = rw + l + g
    BY <2>2 DEF Held, Outgoing, OutSum
  <2>5. n <= WindowMax - rw
    BY <2>3, <2>4, WindowAssumption
  <2> QED
    BY <2>2, <2>5
<1> QED
  BY <1>3, <1>4, <1>5

(* So no handler rejects it. *)
LEMMA ProcessFaultless ==
  ASSUME Base, Base', OutWires, ClientOK, Held, status = "run", process, "fork" \notin Failures
  PROVE  status' \notin Faults
<1> USE DEF Faults
<1> DEFINE m == Head(recvbuf)
<1>0. Wires /\ InputFits /\ CountersOK
  BY DEF Base, ChannelInv, ChannelTypeOK
<1>1. ASSUME recvbuf # <<>>
      PROVE  /\ m.t \in Channelled => maxpacket # 0
             /\ m.t \in {"DATA", "EXT"} => pid # 0 /\ m.n <= localwindow /\ m.n \in Nat
             /\ m.t = "ADJ" => m.n <= WindowMax - remotewindow
  <2>1. Takes(m)
    BY <1>0, <1>1, ProcessTakes
  <2>2. m.n \in Nat
    BY <2>1, PacketNumbers DEF Takes, Packet
  <2> HIDE DEF m
  <2> QED
    BY <2>1, <2>2, Fitting
<1> HIDE DEF m
<1>2. CASE packet_channel_open
  <2>1. die("full") \/ UNCHANGED status \/ \E w, l : channel_open(w, l)
    BY <1>2, HandlerCalls DEF packet_channel_open
  <2> QED
    BY <2>1 DEF die, channel_open
<1>3. CASE \E t \in Starts : request_start(t)
  <2>1. PICK t \in Starts : request_start(t)
    BY <1>3
  <2>2. recvbuf # <<>> /\ m.t \in Channelled
    BY <2>1 DEF request_start, Received, m, Channelled, Requests
  <2>3. maxpacket # 0
    BY <1>1, <2>2
  <2>4. CASE reject
    BY <2>4 DEF reject, Handler, die
  <2>5. CASE ~reject
    <3>1. pid = 0 /\ accept(/\ channel_exec(TRUE) /\ ChildStart
                            /\ UNCHANGED <<cin, cout, cerr, outleft>>)
      BY <2>1, <2>3, <2>5 DEF request_start
    <3>2. die("full") \/ channel_exec(TRUE)
      BY <3>1 DEF accept, Handler
    <3> QED
      BY <2>3, <3>1, <3>2 DEF die, channel_exec
  <2> QED
    BY <2>4, <2>5
<1>4. CASE request_pty
  <2>2. recvbuf # <<>> /\ m.t \in Channelled
    BY <1>4 DEF request_pty, Received, m, Channelled, Requests
  <2>3. maxpacket # 0
    BY <1>1, <2>2
  <2>4. reject \/ (pid = 0 /\ ~flagterminal /\ accept(channel_openterminal(TRUE) /\ UNCHANGED childvars))
    BY <1>4, <2>3 DEF request_pty
  <2> QED
    BY <2>3, <2>4 DEF reject, accept, Handler, die, channel_openterminal
<1>5. CASE \E t \in {"window-change", "env"} : request_other(t)
  BY <1>5 DEF request_other, reject, accept, Handler, die
<1>6. CASE packet_channel_recv_data
  <2>1. recvbuf # <<>> /\ m.t = "DATA" /\ channel_put(m.n)
    BY <1>6 DEF packet_channel_recv_data, Received, Silent, m
  <2>2. /\ maxpacket # 0 /\ pid # 0 /\ m.n <= localwindow /\ m.n \in Nat /\ localwindow \in Nat
        /\ len0 \in Nat /\ len0 + localwindow <= BufSize
    BY <1>0, <1>1, <2>1, WindowNumbers DEF Channelled, InputFits
  <2>3. ~(m.n > localwindow) /\ ~(len0 + m.n > BufSize)
    BY <2>2, BufSizeAssumption
  <2> QED
    BY <2>1, <2>2, <2>3 DEF channel_put, chanvars
<1>7. CASE packet_channel_recv_extendeddata
  <2>1. recvbuf # <<>> /\ m.t = "EXT" /\ channel_putextended(m.n)
    BY <1>7 DEF packet_channel_recv_extendeddata, Received, Silent, m
  <2>2. maxpacket # 0 /\ pid # 0 /\ m.n <= localwindow /\ m.n \in Nat /\ localwindow \in Nat
    BY <1>1, <2>1, WindowNumbers DEF Channelled
  <2>3. ~(m.n > localwindow)
    BY <2>2
  <2> QED
    BY <2>1, <2>2, <2>3 DEF channel_putextended
<1>8. CASE packet_channel_recv_windowadjust
  <2>1. recvbuf # <<>> /\ m.t = "ADJ" /\ channel_incrementremotewindow(m.n)
    BY <1>8 DEF packet_channel_recv_windowadjust, Received, Silent, m
  <2>2. m.n <= WindowMax - remotewindow /\ m.n \in Nat /\ remotewindow \in Nat /\ WindowMax \in Nat
    <3>1. m.n \in Nat
      BY <1>0, <1>8, ProcessTakes, <2>1, PacketNumbers DEF Takes, Packet, process, m
    <3> QED
      BY <1>1, <2>1, <3>1, WindowNumbers, WindowAssumption
  <2>3. ~(m.n > WindowMax - remotewindow)
    BY <2>2
  <2> QED
    BY <2>1, <2>3 DEF channel_incrementremotewindow
<1>9. CASE packet_channel_recv_eof
  <2>1. recvbuf # <<>> /\ m.t = "EOF" /\ channel_puteof
    BY <1>9 DEF packet_channel_recv_eof, Received, Silent, m
  <2>2. maxpacket # 0
    BY <1>1, <2>1 DEF Channelled
  <2> QED
    BY <2>1, <2>2 DEF channel_puteof
<1>10. CASE packet_channel_recv_close
  <2>1. recvbuf # <<>> /\ m.t = "CLOSE"
    BY <1>10 DEF packet_channel_recv_close, Received, m
  <2>2. maxpacket # 0
    BY <1>1, <2>1 DEF Channelled
  <2>3. die("full") \/ channel_close
    BY <1>10, <2>2, HandlerCalls DEF packet_channel_recv_close
  <2> QED
    BY <2>2, <2>3 DEF die, channel_close, channel_puteof
<1>11. CASE packet_global_request \/ packet_unimplemented \/ packet_kexinit
  BY <1>11 DEF packet_global_request, packet_unimplemented, packet_kexinit, Handler, die
<1>12. CASE packet_disconnect \/ process_done
  BY <1>12 DEF packet_disconnect, process_done, die
<1> QED
  BY <1>2, <1>3, <1>4, <1>5, <1>6, <1>7, <1>8, <1>9, <1>10, <1>11, <1>12
     DEF process, packet_channel_request

(* For every client that keeps to the rules, as long as fork works: no run
   ends in a protocol error, a full channel buffer or an internal error of
   the server. *)
THEOREM LegalClientsSurvive == Spec => [](~Wild /\ "fork" \notin Failures => LegalClientSurvives)
<1> DEFINE Alive == ~Wild /\ "fork" \notin Failures => LegalClientSurvives
<1>1. Init => Alive
  BY DEF Init, ChannelInit, LegalClientSurvives
<1>2. Base /\ LoopInv /\ WireInv /\ Settled /\ Alive /\ [Next]_vars => Alive'
  <2> SUFFICES ASSUME Base, LoopInv, WireInv, Settled, LegalClientSurvives, [Next]_vars,
                      ~Wild, "fork" \notin Failures
               PROVE  status' \notin Faults
    BY DEF LegalClientSurvives, Faults
  <2>1. CASE Server \/ Timeout
    <3>1. status = "run" /\ OutWires /\ ClientOK /\ Held
      BY <2>1 DEF Server, Timeout, WireInv, Settled, Running
    <3>2. Base'
      BY BaseStep
    <3>3. CASE process
      BY <3>1, <3>2, <3>3, ProcessFaultless
    <3> QED
      BY <2>1, <3>1, <3>3, LoopFaultless DEF Server, Timeout
  <2>2. CASE UNCHANGED status
    BY <2>2 DEF LegalClientSurvives, Faults
  <2>3. UNCHANGED vars \/ Child \/ Client \/ Stopped => UNCHANGED status
    BY DEF vars, Child, Client, Stopped
  <2> QED
    BY <2>1, <2>2, <2>3 DEF Next
<1>3. Alive => (~Wild /\ "fork" \notin Failures => LegalClientSurvives)
  OBVIOUS
<1> HIDE DEF Alive
<1> QED
  BY <1>1, <1>2, <1>3, HeldAlways, PTL DEF Spec
-----------------------------------------------------------------------------
\* The buffers keep within their bounds; only a hangup needs no room.
Bounded ==
    /\ Len(sendbuf) <= SendCap /\ Len(s2c) <= NetCap
    /\ Len(c2s) <= NetCap \/ (client.gone /\ Len(c2s) <= NetCap + 1)

(* A piece of a sequence is not longer than the sequence. *)
LEMMA Shorter ==
  ASSUME NEW S, NEW q \in Seq(S)
  PROVE  /\ Len(q) \in Nat
         /\ \A k \in 1..Len(q) : Len(SubSeq(q, 1, k)) = k /\ Len(SubSeq(q, k + 1, Len(q))) <= Len(q)
         /\ q # <<>> => Len(Tail(q)) <= Len(q)
         /\ \A e \in S : Len(Append(q, e)) = Len(q) + 1
<1>1. Len(q) \in Nat
  BY LenProperties
<1>2. ASSUME NEW k \in 1..Len(q)
      PROVE  Len(SubSeq(q, 1, k)) = k /\ Len(SubSeq(q, k + 1, Len(q))) <= Len(q)
  BY <1>1, SubSeqProperties
<1>3. q # <<>> => Len(Tail(q)) <= Len(q)
  BY <1>1, HeadTailProperties
<1>4. \A e \in S : Len(Append(q, e)) = Len(q) + 1
  BY AppendProperties
<1> QED
  BY <1>1, <1>2, <1>3, <1>4

(* packet_send moves no more than fits. *)
LEMMA SendBounded ==
  ASSUME OutWires, Len(sendbuf) <= SendCap, Len(s2c) <= NetCap, packet_send
  PROVE  Len(sendbuf') <= SendCap /\ Len(s2c') <= NetCap
<1>1. CASE UNCHANGED <<sendbuf, s2c>>
  BY <1>1
<1>2. CASE sendbuf # <<>>
  <2>1. PICK k \in 1..Least(Len(sendbuf), NetCap - Len(s2c)) :
            /\ s2c' = s2c \o SubSeq(sendbuf, 1, k)
            /\ sendbuf' = SubSeq(sendbuf, k + 1, Len(sendbuf))
    BY <1>2 DEF packet_send
  <2>2. Len(sendbuf) \in Nat /\ Len(s2c) \in Nat /\ NetCap \in Nat /\ SendCap \in Nat
    BY Shorter, Numbers DEF OutWires
  <2>3. k \in 1..Len(sendbuf) /\ k <= NetCap - Len(s2c)
    <3>0. Len(sendbuf) \in Int /\ NetCap - Len(s2c) \in Int
      BY <2>2
    <3>1. PICK a \in Int, b \in Int : a = Len(sendbuf) /\ b = NetCap - Len(s2c)
      BY <3>0, Zenon
    <3>2. Least(a, b) \in Int /\ Least(a, b) <= a /\ Least(a, b) <= b
      BY LeastOfTwo
    <3>3. k \in 1..Least(a, b)
      BY <2>1, <3>1
    <3>4. k \in 1..a /\ k <= b
      BY <3>2, <3>3
    <3> QED
      BY <3>1, <3>4
  <2>4. /\ Len(SubSeq(sendbuf, 1, k)) = k /\ Len(SubSeq(sendbuf, k + 1, Len(sendbuf))) <= Len(sendbuf)
        /\ SubSeq(sendbuf, 1, k) \in Seq(OutPackets)
        /\ SubSeq(sendbuf, k + 1, Len(sendbuf)) \in Seq(OutPackets)
    BY <2>3, Shorter, Cut DEF OutWires
  <2>5. Len(s2c \o SubSeq(sendbuf, 1, k)) = Len(s2c) + k
    BY <2>4, ConcatProperties DEF OutWires
  <2>6. Len(SubSeq(sendbuf, k + 1, Len(sendbuf))) \in Nat
    BY <2>4, Shorter
  <2>7. Len(s2c \o SubSeq(sendbuf, 1, k)) <= NetCap
    BY <2>2, <2>3, <2>5
  <2>8. Len(SubSeq(sendbuf, k + 1, Len(sendbuf))) <= SendCap
    BY <2>2, <2>4, <2>6
  <2> QED
    BY <2>1, <2>7, <2>8
<1> QED
  BY <1>1, <1>2 DEF packet_send

(* packet_recv leaves no more behind than there was. *)
LEMMA RecvBounded ==
  ASSUME Wires, NEW n \in Nat, Len(c2s) <= n, packet_recv
  PROVE  Len(c2s') <= n
<1>1. PICK k \in 1..Len(c2s) : c2s' = SubSeq(c2s, k + 1, Len(c2s))
  BY DEF packet_recv, Arrived
<1>2. Len(c2s) \in Nat /\ Len(c2s') <= Len(c2s) /\ c2s' \in Seq(InPackets)
  BY <1>1, Shorter, Cut DEF Wires
<1>3. Len(c2s') \in Nat
  BY <1>2, Shorter
<1> QED
  BY <1>2, <1>3

\* A handler fits its packets into the buffer or leaves it alone.
SendFits == Len(sendbuf') <= SendCap

(* That is what Handler does. *)
LEMMA HandlerFits ==
  ASSUME OutWires, OutWires', Len(sendbuf) <= SendCap, NEW ACTION A, NEW msgs, Handler(A, msgs)
  PROVE  SendFits
<1>1. CASE UNCHANGED sendbuf
  BY <1>1 DEF SendFits
<1>2. CASE sendbuf' = sendbuf \o msgs /\ ~(Len(sendbuf \o msgs) > SendCap)
  <2>1. Len(sendbuf') \in Nat /\ ~(Len(sendbuf') > SendCap)
    BY <1>2, LenProperties DEF OutWires
  <2> QED
    BY <2>1, Numbers DEF SendFits
<1> QED
  BY <1>1, <1>2 DEF Handler

(* The blocks of the loop keep within the buffers. *)
LEMMA LoopBounded ==
  ASSUME Base, OutWires, OutWires', Bounded,
         \/ loop_break \/ loop_poll \/ loop_polltimeout \/ loop_selfpipe \/ loop_tochild
         \/ loop_from1 \/ loop_from2 \/ loop_check \/ loop_wait \/ loop_send
         \/ loop_recv \/ packet_sendall \/ packet_getall,
         UNCHANGED client
  PROVE  Bounded'
<1>0. /\ Wires /\ Len(sendbuf) <= SendCap /\ Len(s2c) <= NetCap /\ NetCap \in Nat /\ NetCap + 1 \in Nat
      /\ (Len(c2s) <= NetCap \/ (client.gone /\ Len(c2s) <= NetCap + 1))
  BY Numbers DEF Base, Bounded
<1>1. CASE \/ loop_break \/ loop_poll \/ loop_polltimeout \/ loop_selfpipe \/ loop_check
  <2>1. UNCHANGED <<sendbuf, s2c, c2s>>
    BY <1>1 DEF loop_break, loop_poll, loop_polltimeout, loop_selfpipe, loop_check
  <2> QED
    BY <1>0, <2>1 DEF Bounded
<1>2. CASE loop_tochild \/ loop_wait
  <2>1. UNCHANGED <<s2c, c2s>> /\ (UNCHANGED sendbuf \/ SendFits)
    BY <1>0, <1>2, HandlerFits DEF loop_tochild, loop_wait
  <2> QED
    BY <1>0, <2>1 DEF Bounded, SendFits
<1>3. CASE loop_from1 \/ loop_from2
  <2>1. UNCHANGED <<s2c, c2s>> /\ (UNCHANGED sendbuf \/ SendFits)
    BY <1>0, <1>3, HandlerFits DEF loop_from1, loop_from2
  <2> QED
    BY <1>0, <2>1 DEF Bounded, SendFits
<1>4. CASE loop_send
  <2>1. UNCHANGED c2s /\ (packet_send \/ UNCHANGED <<sendbuf, s2c>>)
    BY <1>4 DEF loop_send
  <2> QED
    BY <1>0, <2>1, SendBounded DEF Bounded
<1>5. CASE loop_recv \/ packet_getall
  <2>1. UNCHANGED <<sendbuf, s2c>> /\ (packet_recv \/ UNCHANGED c2s)
    BY <1>5 DEF loop_recv, packet_getall
  <2> QED
    BY <1>0, <2>1, RecvBounded DEF Bounded
<1>6. CASE packet_sendall
  <2>0. UNCHANGED c2s /\ SendCap \in Nat /\ 1 <= SendCap
    BY <1>6, Numbers DEF packet_sendall
  <2>1. CASE sendbuf # <<>> /\ Len(s2c) < NetCap /\ s2c' = Append(s2c, Head(sendbuf)) /\ sendbuf' = Tail(sendbuf)
    <3>1. Head(sendbuf) \in OutPackets /\ Len(Tail(sendbuf)) <= Len(sendbuf)
      BY <2>1, Shorter, HeadTailProperties DEF OutWires
    <3>2. Len(s2c) \in Nat /\ Len(sendbuf) \in Nat /\ Len(Append(s2c, Head(sendbuf))) = Len(s2c) + 1
      BY <3>1, Shorter DEF OutWires
    <3>3. Len(Append(s2c, Head(sendbuf))) <= NetCap
      BY <1>0, <2>1, <3>2
    <3>4. Len(Tail(sendbuf)) \in Nat
      BY <2>1, HeadTailProperties, LenProperties DEF OutWires
    <3>5. Len(Tail(sendbuf)) <= SendCap
      BY <1>0, <2>0, <3>1, <3>2, <3>4
    <3> QED
      BY <1>0, <2>0, <2>1, <3>3, <3>5 DEF Bounded
  <2>2. CASE UNCHANGED s2c /\ (sendbuf' = <<Done("CLOSE")>> \/ sendbuf' = <<>> \/ UNCHANGED sendbuf)
    <3>1. Len(<<Done("CLOSE")>>) = 1 /\ Len(<<>>) = 0
      OBVIOUS
    <3>2. Len(sendbuf') <= SendCap
      <4>1. CASE sendbuf' = <<Done("CLOSE")>>
        BY <2>0, <3>1, <4>1
      <4>2. CASE sendbuf' = <<>>
        BY <2>0, <3>1, <4>2
      <4> QED
        BY <1>0, <2>2, <4>1, <4>2
    <3> QED
      BY <1>0, <2>0, <2>2, <3>2 DEF Bounded
  <2> QED
    BY <1>6, <2>1, <2>2 DEF packet_sendall
<1> QED
  BY <1>1, <1>2, <1>3, <1>4, <1>5, <1>6

(* So do the handlers, *)
LEMMA ProcessBounded ==
  ASSUME Base, OutWires, OutWires', Bounded, process, UNCHANGED client
  PROVE  Bounded'
<1>0. Len(sendbuf) <= SendCap
  BY DEF Bounded
<1>1. UNCHANGED <<c2s, s2c>>
  BY DEF process, packet_channel_open, packet_channel_request, request_start, request_pty, request_other,
     packet_channel_recv_data, packet_channel_recv_extendeddata, packet_channel_recv_windowadjust,
     packet_channel_recv_eof, packet_channel_recv_close, packet_global_request, packet_unimplemented,
     packet_disconnect, packet_kexinit, process_done, Received
<1>2. UNCHANGED sendbuf \/ SendFits
  <2>1. CASE packet_channel_open
    BY <1>0, <2>1, HandlerFits DEF packet_channel_open
  <2>2. reject => SendFits
    BY <1>0, HandlerFits DEF reject
  <2>3. ASSUME NEW ACTION A, accept(A) PROVE SendFits
    BY <1>0, <2>3, HandlerFits DEF accept
  <2>4. CASE packet_channel_request
    BY <2>2, <2>3, <2>4 DEF packet_channel_request, request_start, request_pty, request_other
  <2>5. CASE \/ packet_channel_recv_data \/ packet_channel_recv_extendeddata
             \/ packet_channel_recv_windowadjust \/ packet_channel_recv_eof \/ packet_disconnect
             \/ process_done
    BY <2>5 DEF packet_channel_recv_data, packet_channel_recv_extendeddata,
       packet_channel_recv_windowadjust, packet_channel_recv_eof, packet_disconnect, process_done, Silent
  <2>6. CASE packet_channel_recv_close \/ packet_global_request
    BY <1>0, <2>6, HandlerFits DEF packet_channel_recv_close, packet_global_request, Silent
  <2>7. CASE packet_unimplemented \/ packet_kexinit
    BY <1>0, <2>7, HandlerFits DEF packet_unimplemented, packet_kexinit
  <2> QED
    BY <2>1, <2>4, <2>5, <2>6, <2>7 DEF process
<1> QED
  BY <1>1, <1>2 DEF Bounded, SendFits

(* and the client, which sends nothing after it hung up. *)
LEMMA ClientBounded ==
  ASSUME Base, Base', OutWires, ClientOK, Bounded, Client
  PROVE  Bounded'
<1>0. /\ DOMAIN client = Fields /\ UNCHANGED sendbuf /\ NetCap \in Nat /\ Len(c2s) \in Nat
      /\ Len(s2c) \in Nat
  BY Numbers, Shorter DEF ClientOK, Client, Base, Wires, OutWires
<1>1. CASE ClientRecv
  <2>1. UNCHANGED c2s /\ ~client.gone /\ s2c # <<>> /\ s2c' = Tail(s2c)
    BY <1>1 DEF ClientRecv
  <2>2. Len(c2s) <= NetCap
    BY <2>1 DEF Bounded
  <2>3. Len(Tail(s2c)) <= Len(s2c) /\ Len(Tail(s2c)) \in Nat
    BY <2>1, Shorter, HeadTailProperties, LenProperties DEF OutWires
  <2>4. Len(Tail(s2c)) <= NetCap
    BY <1>0, <2>3 DEF Bounded
  <2> QED
    BY <1>0, <2>1, <2>2, <2>4 DEF Bounded
<1>2. CASE ~ClientRecv
  <2>1. UNCHANGED s2c /\ \E m \in InPackets : c2s' = Append(c2s, m)
    BY <1>2, ClientPackets
  <2>2. Len(c2s') = Len(c2s) + 1
    BY <2>1, Shorter DEF Base, Wires
  <2>3. ~client.gone
    BY <1>2 DEF Client, ClientOpen, ClientRequest, ClientData, ClientEof, ClientAdjust, ClientClose,
       ClientKexinit, ClientNewkeys, ClientOther, ClientHangup, ClientSends
  <2>4. Len(c2s) <= NetCap
    BY <2>3 DEF Bounded
  <2>5. CASE ClientHangup
    <3>1. client'.gone
      BY <1>0, <2>5 DEF ClientHangup, Fields
    <3>2. Len(c2s) + 1 <= NetCap + 1
      BY <1>0, <2>4
    <3> QED
      BY <1>0, <2>1, <2>2, <3>1, <3>2 DEF Bounded
  <2>6. CASE ~ClientHangup
    <3>1. Len(c2s) < NetCap
      BY <1>2, <2>6 DEF Client, ClientOpen, ClientRequest, ClientData, ClientEof, ClientAdjust,
         ClientClose, ClientKexinit, ClientNewkeys, ClientOther, ClientSends
    <3>2. Len(c2s) + 1 <= NetCap
      BY <1>0, <3>1
    <3> QED
      BY <1>0, <2>1, <2>2, <3>2 DEF Bounded
  <2> QED
    BY <2>5, <2>6
<1> QED
  BY <1>1, <1>2
(* Every step keeps within the buffers. *)
LEMMA BoundedStep == Base /\ LoopInv /\ WireInv /\ Bounded /\ [Next]_vars => Bounded'
<1> SUFFICES ASSUME Base, LoopInv, WireInv, Bounded, [Next]_vars PROVE Bounded'
  OBVIOUS
<1>1. Base' /\ OutWires /\ OutWires' /\ ClientOK
  BY BaseStep, RepliesStep DEF WireInv
<1>2. CASE Server \/ Timeout
  <2>1. UNCHANGED client
    BY <1>2 DEF Server, Timeout, clientvars
  <2> QED
    BY <1>1, <1>2, <2>1, LoopBounded, ProcessBounded DEF Server, Timeout
<1>3. CASE Client
  BY <1>1, <1>3, ClientBounded
<1>4. UNCHANGED vars \/ Child \/ Stopped => UNCHANGED <<sendbuf, s2c, c2s, client>>
  BY DEF vars, Child, Stopped, clientvars
<1>5. CASE UNCHANGED <<sendbuf, s2c, c2s, client>>
  BY <1>5 DEF Bounded
<1> QED
  BY <1>2, <1>3, <1>4, <1>5 DEF Next

\* The windows of a client that keeps to the rules are windows.
Ranges == ~Wild => credit \in 0..BufSize /\ rcredit \in 0..WindowMax

(* The accounts keep them so. *)
LEMMA HeldRanges ==
  ASSUME Base, OutWires, Held
  PROVE  credit \in 0..BufSize /\ rcredit \in 0..WindowMax
<1>1. Wires /\ localwindow \in Nat /\ localwindow <= BufSize /\ BufSize \in Nat
  BY WindowNumbers
<1>2. PICK i \in Nat, c \in Nat : i = InSum /\ c = credit
  <2>1. InSum \in Nat /\ credit \in Nat
    BY <1>1, Weighed DEF InSum, Held, Incoming
  <2> QED
    BY <2>1
<1>3. c + i <= localwindow
  BY <1>2 DEF Held, Incoming
<1>4. c \in 0..BufSize
  BY <1>1, <1>3
<1> QED
  BY <1>2, <1>4 DEF Held, Outgoing

(* The client's step is the only one that moves them. *)
LEMMA RangesStep == Base /\ LoopInv /\ WireInv /\ Settled /\ Ranges /\ [Next]_vars => Ranges'
<1> SUFFICES ASSUME Base, LoopInv, WireInv, Settled, Ranges, [Next]_vars PROVE Ranges'
  OBVIOUS
<1>1. Base' /\ WireInv' /\ Settled'
  BY BaseStep, RepliesStep, HeldStep
<1>2. CASE Client
  <2>1. Running'
    BY <1>2 DEF Client, Running
  <2>2. ~Wild => Held'
    BY <1>1, <2>1 DEF Settled
  <2>3. Base' /\ OutWires' /\ Held' => (credit \in 0..BufSize /\ rcredit \in 0..WindowMax)'
    BY HeldRanges, PTL
  <2> QED
    BY <1>1, <2>2, <2>3 DEF Ranges, WireInv
<1>3. CASE UNCHANGED <<credit, rcredit>>
  BY <1>3 DEF Ranges
<1>4. UNCHANGED vars \/ Server \/ Timeout \/ Child \/ Stopped => UNCHANGED <<credit, rcredit>>
  BY DEF vars, Server, Timeout, Child, Stopped, clientvars
<1> QED
  BY <1>2, <1>3, <1>4 DEF Next

(* The connection's variables have their types, the client's windows for a
   client that keeps to the rules; and whatever the client does, no buffer
   holds more than it can. *)
THEOREM SessionTypes == Spec => []((~Wild => SessionTypeOK) /\ Bounded)
<1>1. Init => Bounded /\ Ranges
  <2> SUFFICES ASSUME Init PROVE Bounded /\ Ranges
    OBVIOUS
  <2>1. Len(sendbuf) = 0 /\ Len(s2c) = 0 /\ Len(c2s) = 1 /\ credit = 0 /\ rcredit = 0
    BY DEF Init
  <2> QED
    BY <2>1, Numbers, BufSizeAssumption, WindowAssumption DEF Bounded, Ranges
<1>2. Base /\ LoopInv /\ WireInv /\ Settled /\ Bounded /\ Ranges /\ [Next]_vars => (Bounded /\ Ranges)'
  BY BoundedStep, RangesStep
<1>3. Base /\ LoopInv /\ EndInv /\ WireInv /\ Bounded /\ Ranges => (~Wild => SessionTypeOK)
  <2> SUFFICES ASSUME Base, LoopInv, EndInv, WireInv, Bounded, Ranges, ~Wild PROVE SessionTypeOK
    OBVIOUS
  <2>1. ChannelTypeOK /\ {flageofsent, flagclosesent, flagchanneleofreceived} \subseteq BOOLEAN
    BY DEF Base, ChannelInv, EndInv, Flags
  <2>2. Len(sendbuf) <= SendCap /\ Len(s2c) <= NetCap /\ Len(c2s) <= NetCap + 1
    <3>1. NetCap \in Nat /\ Len(c2s) \in Nat
      BY Numbers, Shorter DEF Base, Wires
    <3> QED
      BY <3>1 DEF Bounded
  <2>3. pc \in DOMAIN Order \cup DOMAIN AfterFlush \cup DOMAIN Awaited
    BY DEF LoopInv, Positions, Places, Blocks, Order, AfterFlush, Awaited
  <2>4. watch \subseteq {"recv", "send", "tochild", "from1", "from2", "selfpipe"} /\ selfpipe \in {-1, 0, 1}
    BY DEF LoopInv, Positions, Blocks, Installed
  <2>5. {cin, cout, cerr} \subseteq 0..PipeCap
    BY DEF Base, Pipes
  <2> QED
    BY <2>1, <2>2, <2>3, <2>4, <2>5 DEF SessionTypeOK, Ranges
<1> QED
  BY <1>1, <1>2, <1>3, HeldAlways, FarewellAlways, PTL DEF Spec
=============================================================================

------------------------------- MODULE Channel -------------------------------
(***************************************************************************)
(* The single session channel of tinysshd: struct channel and the          *)
(* functions of channel.c.  Each function is an operator over the fields   *)
(* of the struct; what it reads from the kernel (how much read() or        *)
(* write() moved, whether fork() or openpty() worked, whether waitpid()    *)
(* found the child) is a parameter that the caller chooses.                *)
(*                                                                         *)
(* Bytes are counted, never represented.  A descriptor is the name of the  *)
(* kernel object it was opened for; openfds is the set of the names that   *)
(* the process really has open, which need not be what fd0, fd1 and fd2    *)
(* say.  In terminal mode fd0 and fd1 are the same descriptor, "master".   *)
(***************************************************************************)
EXTENDS Integers, FiniteSets

CONSTANTS BufSize,      \* CHANNEL_BUFSIZE, size of buf0 and of the window
          PacketMin,    \* 32, smallest maxpacket a client can impose
          PacketLimit,  \* CHANNEL_PACKET_LIMIT, largest channel data packet
          WindowMax     \* 0xffffffff, largest window a peer may grant

ASSUME BufSizeAssumption == BufSize \in Nat \ {0}
ASSUME PacketAssumption ==
    /\ PacketMin \in Nat \ {0}
    /\ PacketLimit \in Nat
    /\ PacketMin <= PacketLimit
ASSUME WindowAssumption ==
    WindowMax \in Nat /\ BufSize <= WindowMax /\ PacketLimit <= WindowMax

VARIABLES maxpacket,     \* 0 before the open; the limit of outgoing data after
          pid,           \* 0 no child yet, 1 a child runs, -1 it is gone
          fd0, fd1, fd2, \* standard input, output and error of the child
          openfds,       \* descriptors open in the kernel
          len0,          \* bytes in buf0, waiting for the child to read them
          localwindow,   \* bytes the client may still send
          remotewindow,  \* bytes the server may still send
          flagterminal,  \* a pty was requested
          remoteeof,     \* the client sent EOF or CLOSE
          status         \* "run", or why the process stopped

fds == <<fd0, fd1, fd2, openfds>>
chanvars == <<maxpacket, pid, fds, len0, localwindow, remotewindow,
              flagterminal, remoteeof>>

NoFd == "none"
Descriptors == {"in", "out", "err", "master", "slave"}
\* How the process ends: a normal end, bug_proto, bug_nomem, bug in this file;
\* the callers add die_fatal and an overflow of the send buffer.
CallerOutcomes == {"finished", "fatal", "full"}
Outcomes == {"run", "proto", "nomem", "bug"} \cup CallerOutcomes

\* The least of two numbers.
Least(a, b) == IF a < b THEN a ELSE b

-----------------------------------------------------------------------------
\* channel_init: every field zero, every descriptor -1.
channel_init ==
    /\ maxpacket = 0 /\ pid = 0
    /\ fd0 = NoFd /\ fd1 = NoFd /\ fd2 = NoFd
    /\ openfds = {}
    /\ len0 = 0 /\ localwindow = 0 /\ remotewindow = 0
    /\ flagterminal = FALSE /\ remoteeof = FALSE

\* bug_proto(), bug_nomem(), bug() and die_fatal(): the process stops.
die(why) == status' = why /\ UNCHANGED chanvars

\* channel_open.  envok: every variable fitted into the new environment.
\* The fields are set before the environment is, so a failure leaves them.
channel_open_done(envok) == maxpacket = 0 /\ pid = 0 /\ envok

channel_open(window, limit) ==
    IF maxpacket = 0 /\ pid = 0
    THEN /\ maxpacket' = limit
         /\ remotewindow' = window
         /\ localwindow' = BufSize
         /\ UNCHANGED <<pid, fds, len0, flagterminal, remoteeof, status>>
    ELSE UNCHANGED <<chanvars, status>>

\* channel_openterminal; ok: openpty() and the TERM variable worked.
channel_openterminal(ok) ==
    IF maxpacket = 0 \/ pid # 0 \/ flagterminal THEN die("proto")
    ELSE /\ flagterminal' = ok
         /\ openfds' = IF ok THEN openfds \cup {"master", "slave"} ELSE openfds
         /\ UNCHANGED <<maxpacket, pid, fd0, fd1, fd2, len0, localwindow,
                        remotewindow, remoteeof, status>>

\* channel_fork: three pipes.  channel_forkpty: fd0 and fd1 are the master,
\* and the parent closes the slave once the child has taken it.
channel_fork ==
    /\ fd0' = (IF remoteeof THEN NoFd ELSE "in") /\ fd1' = "out" /\ fd2' = "err"
    /\ openfds' = openfds \cup ({"in", "out", "err"} \ (IF remoteeof THEN {"in"} ELSE {}))

channel_forkpty ==
    /\ fd0' = "master" /\ fd1' = "master" /\ fd2' = NoFd
    /\ openfds' = openfds \ {"slave"}

\* channel_exec; ok: the fork worked.  An EOF that came before the start is
\* applied to the new pipe at once.  A failed fork is a bug() of the caller.
channel_exec(ok) ==
    IF maxpacket = 0 \/ pid # 0 THEN die("proto")
    ELSE IF ~ok THEN die("bug")
    ELSE /\ pid' = 1
         /\ IF flagterminal THEN channel_forkpty ELSE channel_fork
         /\ len0' = 0
         /\ UNCHANGED <<maxpacket, localwindow, remotewindow, flagterminal,
                        remoteeof, status>>

\* Data for a child that is gone or does not read any more is dropped.
Discards == pid < 0 \/ fd0 = NoFd

\* channel_put: n bytes of CHANNEL_DATA.
channel_put(n) ==
    IF maxpacket = 0 \/ pid = 0 \/ n > localwindow THEN die("proto")
    ELSE IF Discards THEN UNCHANGED <<chanvars, status>>
    ELSE IF len0 + n > BufSize THEN die("nomem")
    ELSE /\ len0' = len0 + n
         /\ localwindow' = localwindow - n
         /\ UNCHANGED <<maxpacket, pid, fds, remotewindow, flagterminal,
                        remoteeof, status>>

\* Slip: extended data is dropped without being counted.
channel_putextended_free(n) ==
    IF maxpacket = 0 \/ pid = 0 \/ n > localwindow THEN die("proto")
    ELSE UNCHANGED <<chanvars, status>>

\* channel_putextended: n bytes of CHANNEL_EXTENDED_DATA, always dropped.
channel_putextended(n) ==
    IF maxpacket = 0 \/ pid = 0 \/ n > localwindow THEN die("proto")
    ELSE /\ localwindow' = localwindow - n
         /\ UNCHANGED <<maxpacket, pid, fds, len0, remotewindow, flagterminal,
                        remoteeof, status>>

\* Slip: the input is closed though bytes are still buffered.
CloseInput_early(empty) ==
    IF pid # 0 /\ fd0 # NoFd /\ ~flagterminal
    THEN fd0' = NoFd /\ openfds' = openfds \ {fd0}
    ELSE UNCHANGED <<fd0, openfds>>

\* Slip: the input of a terminal, which is its output too, is closed.
CloseInput_pty(empty) ==
    IF pid # 0 /\ fd0 # NoFd /\ empty
    THEN fd0' = NoFd /\ openfds' = openfds \ {fd0}
    ELSE UNCHANGED <<fd0, openfds>>

\* close(fd0); fd0 = -1, when the input of a child without terminal is over.
CloseInput(empty) ==
    IF pid # 0 /\ fd0 # NoFd /\ empty /\ ~flagterminal
    THEN fd0' = NoFd /\ openfds' = openfds \ {fd0}
    ELSE UNCHANGED <<fd0, openfds>>

\* channel_puteof
channel_puteof ==
    IF maxpacket = 0 THEN die("proto")
    ELSE /\ remoteeof' = TRUE
         /\ CloseInput(len0 = 0)
         /\ UNCHANGED <<maxpacket, pid, fd1, fd2, len0, localwindow,
                        remotewindow, flagterminal, status>>

\* Slip: the pty of a channel closed before its start stays open.
channel_close_leak ==
    IF maxpacket = 0 \/ pid > 0 THEN channel_puteof
    ELSE IF pid < 0 THEN UNCHANGED <<chanvars, status>>
    ELSE /\ flagterminal' = FALSE
         /\ pid' = -1
         /\ UNCHANGED <<maxpacket, fds, len0, localwindow, remotewindow,
                        remoteeof, status>>

\* Slip: a CLOSE is only an EOF, with or without a child.
channel_close_soft == channel_puteof

\* channel_close: an input EOF for a running child; before any child it ends
\* the channel for good and frees the pty.
channel_close ==
    IF maxpacket = 0 \/ pid > 0 THEN channel_puteof
    ELSE IF pid < 0 THEN UNCHANGED <<chanvars, status>>
    ELSE /\ openfds' = openfds \ {"master", "slave"}
         /\ flagterminal' = FALSE
         /\ fd0' = NoFd /\ fd1' = NoFd /\ fd2' = NoFd
         /\ pid' = -1
         /\ UNCHANGED <<maxpacket, len0, localwindow, remotewindow, remoteeof,
                        status>>

-----------------------------------------------------------------------------
\* The predicates the main loop asks before it watches a descriptor.
channel_writeisready == maxpacket # 0 /\ pid > 0 /\ fd0 # NoFd /\ len0 > 0
\* Slip: the end of the output is forgotten.
channel_readisready_eof == maxpacket # 0 /\ pid # 0 /\ remotewindow > 0
channel_readisready == maxpacket # 0 /\ pid # 0 /\ fd1 # NoFd /\ remotewindow > 0
channel_extendedreadisready ==
    maxpacket # 0 /\ pid # 0 /\ fd2 # NoFd /\ remotewindow > 0
channel_iseof ==
    /\ maxpacket # 0 /\ pid # 0
    /\ pid = -1 \/ (fd1 = NoFd /\ fd2 = NoFd)

\* What one channel_read or channel_extendedread may return at most.
ReadLimit == Least(Least(maxpacket, PacketLimit), remotewindow)

\* channel_read: r bytes, or r = 0 for an end of file or an error.
channel_read(r) ==
    IF maxpacket = 0 \/ pid <= 0 \/ fd1 = NoFd THEN die("proto")
    ELSE IF remotewindow = 0 THEN UNCHANGED <<chanvars, status>>
    ELSE /\ remotewindow' = remotewindow - r
         /\ IF r > 0 THEN UNCHANGED <<fd1, openfds>>
            ELSE /\ fd1' = NoFd
                 /\ openfds' = IF flagterminal THEN openfds ELSE openfds \ {fd1}
         /\ UNCHANGED <<maxpacket, pid, fd0, fd2, len0, localwindow,
                        flagterminal, remoteeof, status>>

\* channel_extendedread: the same for the standard error.
channel_extendedread(r) ==
    IF maxpacket = 0 \/ pid <= 0 \/ fd2 = NoFd THEN die("proto")
    ELSE IF remotewindow = 0 THEN UNCHANGED <<chanvars, status>>
    ELSE /\ remotewindow' = remotewindow - r
         /\ IF r > 0 THEN UNCHANGED <<fd2, openfds>>
            ELSE /\ fd2' = NoFd
                 /\ openfds' = IF flagterminal THEN openfds ELSE openfds \ {fd2}
         /\ UNCHANGED <<maxpacket, pid, fd0, fd1, len0, localwindow,
                        flagterminal, remoteeof, status>>

\* channel_write: w bytes went to the child, or w = 0 for an error.  An error
\* closes fd0 in every mode and drops what was buffered.
WriteInput(w) ==
    IF w = 0
    THEN fd0' = NoFd /\ openfds' = openfds \ {fd0} /\ len0' = 0
    ELSE /\ len0' = len0 - w
         /\ CloseInput(remoteeof /\ len0 - w = 0)

\* localwindow is left to the window adjustment that always follows.
channel_write(w) ==
    /\ IF len0 = 0 THEN UNCHANGED <<fd0, openfds, len0>> ELSE WriteInput(w)
    /\ UNCHANGED <<maxpacket, pid, fd1, fd2, remotewindow, flagterminal,
                   remoteeof, status>>

\* Slips: the bytes buffered, or the window left, are not subtracted.
plus_nobuffer(len, window) ==
    IF len > BufSize \div 2 \/ window > BufSize \div 2 THEN 0
    ELSE BufSize - window

plus_nowindow(len, window) ==
    IF len > BufSize \div 2 \/ window > BufSize \div 2 THEN 0
    ELSE BufSize - len

\* packet_channel_send_windowadjust: how much window to give back when len
\* bytes are buffered and the client has window bytes left; 0 for nothing.
plus(len, window) ==
    IF len > BufSize \div 2 \/ window > BufSize \div 2 THEN 0
    ELSE BufSize - len - window

\* The main loop's reaction to a child that can take input: channel_write,
\* then packet_channel_send_windowadjust on what is left.
WriteToChild(w) ==
    IF maxpacket = 0 \/ pid <= 0 \/ fd0 = NoFd THEN die("proto")
    ELSE /\ channel_write(w)
         /\ localwindow' = localwindow + plus(len0', localwindow)

\* channel_waitnohang when waitpid() finds the child.
channel_waitnohang ==
    IF maxpacket = 0 THEN die("proto")
    ELSE /\ pid' = IF pid > 0 THEN -1 ELSE pid
         /\ UNCHANGED <<maxpacket, fds, len0, localwindow, remotewindow,
                        flagterminal, remoteeof, status>>

\* channel_incrementremotewindow; it does not ask whether the channel is open.
channel_incrementremotewindow(n) ==
    IF n > WindowMax - remotewindow THEN die("proto")
    ELSE /\ remotewindow' = remotewindow + n
         /\ UNCHANGED <<maxpacket, pid, fds, len0, localwindow, flagterminal,
                        remoteeof, status>>

-----------------------------------------------------------------------------
(* The channel under an arbitrary caller: any function, any arguments.      *)

ChannelInit == channel_init /\ status = "run"

Calls ==
    \/ \E w \in 0..WindowMax, l \in PacketMin..PacketLimit : channel_open(w, l)
    \/ \E ok \in BOOLEAN : channel_openterminal(ok) \/ channel_exec(ok)
    \/ \E n \in 0..PacketLimit : channel_put(n) \/ channel_putextended(n)
    \/ channel_puteof \/ channel_close \/ channel_waitnohang
    \/ \E r \in 0..ReadLimit : channel_read(r) \/ channel_extendedread(r)
    \/ \E w \in 0..len0 : WriteToChild(w)
    \/ \E n \in 0..WindowMax : channel_incrementremotewindow(n)
    \/ \E why \in CallerOutcomes : die(why)

ChannelNext == status = "run" /\ Calls

ChannelSpec == ChannelInit /\ [][ChannelNext]_<<chanvars, status>>

-----------------------------------------------------------------------------
(* What channel.c keeps true whoever calls it, and in whatever order.       *)

\* The type of struct channel: its counters, its descriptors, its flags.
CountersOK ==
    /\ maxpacket \in {0} \cup PacketMin..PacketLimit
    /\ pid \in {-1, 0, 1}
    /\ len0 \in 0..BufSize
    /\ localwindow \in 0..BufSize
    /\ remotewindow \in 0..WindowMax

DescriptorsOK ==
    /\ fd0 \in {NoFd, "in", "master"}
    /\ fd1 \in {NoFd, "out", "master"}
    /\ fd2 \in {NoFd, "err"}
    /\ openfds \subseteq Descriptors

FlagsOK ==
    /\ flagterminal \in BOOLEAN /\ remoteeof \in BOOLEAN
    /\ status \in Outcomes

ChannelTypeOK == CountersOK /\ DescriptorsOK /\ FlagsOK

\* The window offered to the client never promises more than buf0 can take:
\* what is buffered and what may still come fit together, so the length check
\* of channel_put (bug_nomem) never fires, whatever the order of data,
\* extended data, writes to the child and window adjustments.
InputFits ==
    /\ len0 + localwindow <= BufSize
    /\ status # "nomem"

\* Without a terminal fd0, fd1 and fd2 name open descriptors only, and nothing
\* else stays open: no use after close, no double close, no leak over any
\* order of EOF, CLOSE, write error and read EOF.  With a terminal at most the
\* master is open once the child runs: a slave still held by the server would
\* keep the master from ever seeing the end of the child's output.
DescriptorsMatch ==
    /\ ~flagterminal => openfds = {fd0, fd1, fd2} \ {NoFd}
    /\ flagterminal => openfds \subseteq {"master", "slave"}
    /\ pid # 0 => "slave" \notin openfds

\* A channel starts at most one child and never comes back: open only from
\* not open, a child only from an open channel that has none, and the end is
\* final.
OneLife ==
    [][/\ maxpacket # 0 => maxpacket' = maxpacket
       /\ <<pid, pid'>> \in {<<0, 0>>, <<0, 1>>, <<0, -1>>, <<1, 1>>, <<1, -1>>,
                             <<-1, -1>>}
       /\ pid' # 0 => maxpacket # 0]_<<chanvars, status>>

\* Once the input of the child is over it stays over.
InputStaysClosed ==
    [][pid # 0 /\ fd0 = NoFd => fd0' = NoFd]_<<chanvars, status>>

=============================================================================

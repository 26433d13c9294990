------------------------------- MODULE Session -------------------------------
(***************************************************************************)
(* One authenticated connection: the main loop of main_tinysshd.c, the     *)
(* packet_channel_* handlers it calls, the child process behind the        *)
(* channel's pipes or pty, the SIGCHLD self-pipe, and an SSH client at the *)
(* other end of a FIFO transport.                                          *)
(*                                                                         *)
(* The loop is sequential, but between any two of its blocks the child,    *)
(* the client and the signal handler may move: what poll() reported may be *)
(* stale when it is used.  Packets are whole (Transport models framing and *)
(* keys) and carry only what the channel looks at: a type t and a size or  *)
(* flag n.                                                                 *)
(***************************************************************************)
EXTENDS Channel, Sequences

CONSTANTS CustomCmd,    \* the server runs with -e: only shell starts a child
          SendReady,    \* packets in sendbuf up to which packet_putisready
          SendCap,      \* packets that fit into sendbuf at all
          NetCap,       \* packets the transport buffers in each direction
          PipeCap,      \* bytes a pipe or pty of the child buffers
          OutputMax,    \* bytes the child writes in its life, at most
          Windows,      \* initial windows a client offers
          Limits,       \* packet limits a client offers
          Sizes,        \* sizes of the data packets of the client
          Failures,     \* calls that may fail: fork, env (the environment)
          ClientKinds,  \* packet types the client uses
          Wants,        \* want-reply values of its requests, 0 and 1
          ClientMax,    \* packets a client sends of its own accord, at most
          Wild          \* TRUE: a client that ignores the channel's rules

ASSUME SessionAssumption ==
    /\ CustomCmd \in BOOLEAN /\ Wild \in BOOLEAN
    /\ SendReady \in Nat \ {0} /\ SendCap \in Nat /\ SendReady < SendCap
    /\ NetCap \in Nat \ {0} /\ PipeCap \in Nat \ {0}
    /\ OutputMax \in Nat /\ ClientMax \in Nat
    /\ Windows \subseteq 0..WindowMax /\ Limits \subseteq Nat
    /\ Sizes \subseteq 0..PacketLimit
    /\ Failures \subseteq {"fork", "env"}
    /\ Wants \subseteq {0, 1}

VARIABLES flageofsent, flagclosesent,    \* struct packet
          flagchanneleofreceived,        \* the client's CLOSE was handled
          sendbuf, recvbuf,              \* packets, oldest first
          pc, watch, selfpipe,           \* main loop
          child, cin, cout, cerr, outleft, \* child process and its pipes
          c2s, s2c,                      \* transport
          client, credit, rcredit        \* client

packetvars == <<flageofsent, flagclosesent, flagchanneleofreceived>>
loopvars == <<pc, watch>>
childvars == <<child, cin, cout, cerr, outleft>>
clientvars == <<client, credit, rcredit>>
vars == <<chanvars, status, packetvars, sendbuf, recvbuf, loopvars, selfpipe,
          childvars, c2s, s2c, clientvars>>

Starts == {"shell", "exec", "subsystem"}
Requests == Starts \cup {"pty-req", "window-change", "env"}
Msg(t, n) == [t |-> t, n |-> n]
Done(t) == Msg(t, 0)
\* How many bytes of the packets of type t a packet, a sequence carries.
Share(m, t) == IF m.t = t THEN m.n ELSE 0
Bytes(q, t) ==
    LET sum[i \in 0..Len(q)] == IF i = 0 THEN 0 ELSE sum[i - 1] + Share(q[i], t)
    IN  sum[Len(q)]

-----------------------------------------------------------------------------
(* Sending: packet_put, packet_send, packet_sendall.                        *)

packet_putisready == Len(sendbuf) <= SendReady

\* A handler: what it does to the channel and to the flags, and the packets
\* it puts.  Without room for them packet_put stops the process.
Handler(effect, msgs) ==
    IF Len(sendbuf \o msgs) > SendCap
    THEN die("full") /\ UNCHANGED <<packetvars, sendbuf, childvars>>
    ELSE effect /\ sendbuf' = sendbuf \o msgs

\* packet_channel_send_eof and the closing messages put at most once.
EofMsgs == IF flageofsent THEN <<>> ELSE <<Done("EOF")>>
CloseMsgs == IF flagclosesent THEN <<>> ELSE <<Done("CLOSE")>>
StatusMsgs == IF flagclosesent THEN <<>> ELSE <<Done("STATUS")>>

\* packet_send: what the transport takes of sendbuf.
packet_send ==
    IF sendbuf = <<>> THEN UNCHANGED <<sendbuf, s2c>>
    ELSE \E k \in 1..Least(Len(sendbuf), NetCap - Len(s2c)) :
            /\ s2c' = s2c \o SubSeq(sendbuf, 1, k)
            /\ sendbuf' = SubSeq(sendbuf, k + 1, Len(sendbuf))

-----------------------------------------------------------------------------
(* The kernel objects between the server and the child.                     *)

\* The terminal is one stream, and closing the slave ends it both ways.
ChildStart ==
    child' = [st |-> "run", reads |-> TRUE,
              writes |-> IF flagterminal THEN {"out"} ELSE {"out", "err"}]

ChildWrite(s) ==
    /\ s \in child.writes /\ outleft > 0
    /\ IF s = "out" THEN cout < PipeCap /\ cout' = cout + 1 /\ UNCHANGED cerr
                    ELSE cerr < PipeCap /\ cerr' = cerr + 1 /\ UNCHANGED cout
    /\ outleft' = outleft - 1
    /\ UNCHANGED <<child, cin>>

ChildRead ==
    /\ child.reads /\ cin > 0
    /\ cin' = cin - 1
    /\ UNCHANGED <<child, cout, cerr, outleft>>

\* The child, or the last of its descendants, closes one of its ends.
ChildCloseOutput(s) ==
    /\ s \in child.writes
    /\ child' = [child EXCEPT !.writes = @ \ {s},
                              !.reads = IF flagterminal THEN FALSE ELSE @]
    /\ UNCHANGED <<cin, cout, cerr, outleft>>

ChildCloseInput ==
    /\ child.reads /\ ~flagterminal
    /\ child' = [child EXCEPT !.reads = FALSE]
    /\ UNCHANGED <<cin, cout, cerr, outleft>>

\* The process ends; descendants may keep the pipes.  SIGCHLD runs trigger(),
\* which writes a byte, once the handler is installed; before, it is lost.
ChildExit ==
    /\ child.st = "run"
    /\ child' = [child EXCEPT !.st = "zombie"]
    /\ selfpipe' = IF selfpipe = -1 THEN -1 ELSE selfpipe + 1
    /\ UNCHANGED <<cin, cout, cerr, outleft>>

Child ==
    /\ status = "run"
    /\ \/ /\ \/ \E s \in {"out", "err"} : ChildWrite(s) \/ ChildCloseOutput(s)
             \/ ChildRead \/ ChildCloseInput
          /\ UNCHANGED selfpipe
       \/ ChildExit
    /\ UNCHANGED <<chanvars, status, packetvars, sendbuf, recvbuf, loopvars,
                   c2s, s2c, clientvars>>

-----------------------------------------------------------------------------
(* The main loop up to the packets: one action per block.                   *)

Order == [top |-> 0, selfpipe |-> 1, tochild |-> 2, from1 |-> 3, from2 |-> 4,
          check |-> 5, wait |-> 5, send |-> 6, recv |-> 7, process |-> 8]

\* The next block that runs after block b when poll reported the set w.
Following(b, w) ==
    LET later == {x \in w \cup {"check", "process"} : Order[x] > Order[b]}
    IN  CHOOSE x \in later : \A y \in later : Order[x] <= Order[y]

Continue(b) == pc' = Following(b, watch) /\ UNCHANGED watch

\* The break at the top of the loop.
LoopOver ==
    channel_iseof /\ sendbuf = <<>> /\ flagchanneleofreceived /\ flagclosesent

\* The descriptors given to poll(), and those of them that are ready.  A
\* descriptor that is not open any more is ready too (POLLNVAL), as is one
\* whose other end is gone (POLLHUP, POLLERR).  The network is always watched:
\* at the top of the loop recvbuf holds at most one read behind the beginning
\* of a packet, so packet_recvisready() finds room for the next.
Watched ==
    {"recv"}
    \cup {b \in {"send"} : sendbuf # <<>>}
    \cup {b \in {"tochild"} : channel_writeisready}
    \cup {b \in {"from1"} : channel_readisready /\ packet_putisready}
    \cup {b \in {"from2"} : channel_extendedreadisready /\ packet_putisready}
    \cup {b \in {"selfpipe"} : selfpipe # -1}

Pollable(b) ==
    CASE b = "recv" -> c2s # <<>>
      [] b = "send" -> Len(s2c) < NetCap \/ client.gone
      [] b = "tochild" -> fd0 \notin openfds \/ cin < PipeCap \/ ~child.reads
      [] b = "from1" -> fd1 \notin openfds \/ cout > 0 \/ "out" \notin child.writes
      [] b = "from2" -> cerr > 0 \/ "err" \notin child.writes
      [] b = "selfpipe" -> selfpipe > 0

Ready == {b \in Watched : Pollable(b)}

loop_break ==
    /\ pc = "top" /\ LoopOver
    /\ die("finished")
    /\ UNCHANGED <<packetvars, sendbuf, recvbuf, loopvars, selfpipe, childvars,
                   s2c, c2s>>

\* poll() returns what is ready.
loop_poll ==
    /\ pc = "top" /\ ~LoopOver /\ Ready # {}
    /\ watch' = Ready
    /\ pc' = Following("top", Ready)
    /\ UNCHANGED <<chanvars, status, packetvars, sendbuf, recvbuf, selfpipe,
                   childvars, c2s, s2c>>

\* poll() returns nothing: 60 seconds are over, or a signal came.
loop_polltimeout ==
    /\ pc = "top" /\ ~LoopOver /\ Ready = {}
    /\ watch' = {}
    /\ pc' = "check"
    /\ UNCHANGED <<chanvars, status, packetvars, sendbuf, recvbuf, selfpipe,
                   childvars, c2s, s2c>>

\* One byte is drained.
loop_selfpipe ==
    /\ pc = "selfpipe"
    /\ selfpipe' = selfpipe - 1
    /\ Continue("selfpipe")
    /\ UNCHANGED <<chanvars, status, packetvars, sendbuf, recvbuf, childvars,
                   c2s, s2c>>

\* Slip: the window grows but the client is not told.
AdjustMsgs_silent(w) == <<>>

\* channel_write and packet_channel_send_windowadjust.  A write fails when
\* nobody reads the other end.
AdjustMsgs(w) ==
    LET more == plus(IF w = 0 THEN 0 ELSE len0 - w, localwindow)
    IN  IF more = 0 THEN <<>> ELSE <<Msg("ADJ", more)>>

loop_tochild ==
    /\ pc = "tochild"
    /\ \E w \in IF child.reads /\ fd0 \in openfds
                THEN 1..Least(len0, PipeCap - cin) ELSE {0} :
          /\ Handler(WriteToChild(w) /\ cin' = cin + w /\ UNCHANGED packetvars
                        /\ UNCHANGED <<child, cout, cerr, outleft>>,
                     AdjustMsgs(w))
    /\ Continue("tochild")
    /\ UNCHANGED <<recvbuf, selfpipe, c2s, s2c>>

\* Slip: the end of the standard output alone is announced as EOF.
loop_from1_eof ==
    /\ pc = "from1"
    /\ \E r \in IF fd1 \in openfds /\ cout > 0 /\ ReadLimit > 0
                THEN 1..Least(cout, ReadLimit) ELSE {0} :
          Handler(/\ channel_read(r) /\ cout' = cout - r
                  /\ flageofsent' = (flageofsent \/ r = 0)
                  /\ UNCHANGED <<flagclosesent, flagchanneleofreceived, child,
                                 cin, cerr, outleft>>,
                  IF r = 0 THEN EofMsgs ELSE <<Msg("DATA", r)>>)
    /\ Continue("from1")
    /\ UNCHANGED <<recvbuf, selfpipe, c2s, s2c>>

\* packet_channel_send_data: what read() returns, 0 for an end of file.  A
\* closed master gives EBADF, which counts as an end.
loop_from1 ==
    /\ pc = "from1"
    /\ IF ~packet_putisready
       THEN UNCHANGED <<chanvars, status, packetvars, sendbuf, childvars>>
       ELSE \E r \in IF fd1 \in openfds /\ cout > 0 /\ ReadLimit > 0
                     THEN 1..Least(cout, ReadLimit) ELSE {0} :
              Handler(channel_read(r) /\ cout' = cout - r
                         /\ UNCHANGED <<packetvars, child, cin, cerr, outleft>>,
                      IF r = 0 THEN <<>> ELSE <<Msg("DATA", r)>>)
    /\ Continue("from1")
    /\ UNCHANGED <<recvbuf, selfpipe, c2s, s2c>>

\* Slip: what may be read is what was allowed when poll() returned, before the
\* standard output was read in the same round.
loop_from2_stale ==
    /\ pc = "from2"
    /\ IF ~packet_putisready
       THEN UNCHANGED <<chanvars, status, packetvars, sendbuf, childvars>>
       ELSE LET used == IF "from1" \in watch /\ sendbuf # <<>>
                        THEN Share(sendbuf[Len(sendbuf)], "DATA") ELSE 0
                limit == Least(PacketLimit, remotewindow + used)
            IN  \E r \in IF cerr > 0 THEN 1..Least(cerr, limit) ELSE {0} :
                  Handler(channel_extendedread(r) /\ cerr' = cerr - r
                             /\ UNCHANGED <<packetvars, child, cin, cout, outleft>>,
                          IF r = 0 THEN <<>> ELSE <<Msg("EXT", r)>>)
    /\ Continue("from2")
    /\ UNCHANGED <<recvbuf, selfpipe, c2s, s2c>>

\* packet_channel_send_extendeddata
loop_from2 ==
    /\ pc = "from2"
    /\ IF ~packet_putisready
       THEN UNCHANGED <<chanvars, status, packetvars, sendbuf, childvars>>
       ELSE \E r \in IF cerr > 0 /\ ReadLimit > 0
                     THEN 1..Least(cerr, ReadLimit) ELSE {0} :
              Handler(channel_extendedread(r) /\ cerr' = cerr - r
                         /\ UNCHANGED <<packetvars, child, cin, cout, outleft>>,
                      IF r = 0 THEN <<>> ELSE <<Msg("EXT", r)>>)
    /\ Continue("from2")
    /\ UNCHANGED <<recvbuf, selfpipe, c2s, s2c>>

\* Slip: in the round that installs the handler waitpid() is not called.
loop_check_late ==
    /\ pc = "check"
    /\ IF channel_iseof /\ selfpipe # -1
       THEN pc' = "wait" /\ UNCHANGED <<watch, selfpipe>>
       ELSE /\ selfpipe' = IF channel_iseof THEN 0 ELSE selfpipe
            /\ Continue("check")
    /\ UNCHANGED <<chanvars, status, packetvars, sendbuf, recvbuf, childvars,
                   c2s, s2c>>

\* "check child": the handler is installed first, then waitpid() asks.
loop_check ==
    /\ pc = "check"
    /\ IF channel_iseof
       THEN /\ selfpipe' = IF selfpipe = -1 THEN 0 ELSE selfpipe
            /\ pc' = "wait" /\ UNCHANGED watch
       ELSE Continue("check") /\ UNCHANGED selfpipe
    /\ UNCHANGED <<chanvars, status, packetvars, sendbuf, recvbuf, childvars,
                   c2s, s2c>>

\* channel_waitnohang finds nothing, or the child: packet_channel_send_eof
\* and packet_channel_send_close, which puts the status, sends everything
\* there is, puts CLOSE, sends it and only then remembers it.
loop_wait ==
    /\ pc = "wait"
    /\ IF pid > 0 /\ child.st = "zombie"
       THEN /\ Handler(/\ channel_waitnohang
                       /\ child' = [child EXCEPT !.st = "reaped"]
                       /\ flageofsent' = TRUE
                       /\ UNCHANGED <<flagclosesent, flagchanneleofreceived, cin,
                                      cout, cerr, outleft>>,
                       EofMsgs \o StatusMsgs)
            /\ IF flagclosesent THEN Continue("wait")
               ELSE pc' = "flush_status" /\ UNCHANGED watch
       ELSE /\ Continue("wait")
            /\ UNCHANGED <<chanvars, status, packetvars, sendbuf, childvars>>
    /\ UNCHANGED <<recvbuf, selfpipe, c2s, s2c>>

\* packet_sendall: blocks until the transport took the last packet, then the
\* caller goes on.
AfterFlush == [flush_status |-> "flush_close",
               flush_close |-> Following("wait", watch),
               flush_process |-> "process", flush_rekey |-> "rekey"]

packet_sendall ==
    /\ pc \in DOMAIN AfterFlush
    /\ \/ /\ sendbuf # <<>> /\ Len(s2c) < NetCap
          /\ s2c' = Append(s2c, Head(sendbuf)) /\ sendbuf' = Tail(sendbuf)
          /\ UNCHANGED <<loopvars, flagclosesent, chanvars, status>>
       \/ /\ sendbuf = <<>>
          /\ pc' = AfterFlush[pc]
          /\ sendbuf' = IF pc = "flush_status" THEN <<Done("CLOSE")>> ELSE <<>>
          /\ flagclosesent' = (flagclosesent \/ pc = "flush_close")
          /\ UNCHANGED <<watch, s2c, chanvars, status>>
       \/ /\ sendbuf # <<>> /\ client.gone
          /\ die("fatal") /\ UNCHANGED <<sendbuf, s2c, flagclosesent, loopvars>>
    /\ UNCHANGED <<flageofsent, flagchanneleofreceived, recvbuf, selfpipe,
                   childvars, c2s>>

\* "send data to network"
loop_send ==
    /\ pc = "send"
    /\ \/ packet_send /\ UNCHANGED <<chanvars, status>>
       \/ /\ client.gone /\ sendbuf # <<>>
          /\ die("fatal") /\ UNCHANGED <<sendbuf, s2c>>
    /\ Continue("send")
    /\ UNCHANGED <<packetvars, recvbuf, selfpipe, childvars, c2s>>

\* What one read() of the transport may return: the packets before a hangup.
Arrived == {k \in 1..Len(c2s) : \A i \in 1..k : c2s[i].t # "HANGUP"}

packet_recv ==
    \E k \in Arrived : /\ recvbuf' = recvbuf \o SubSeq(c2s, 1, k)
                       /\ c2s' = SubSeq(c2s, k + 1, Len(c2s))

\* "receive data from network": a hangup ends the loop, quietly if the child
\* is at its end.
loop_recv ==
    /\ pc = "recv"
    /\ \/ packet_recv /\ UNCHANGED <<chanvars, status>>
       \/ /\ Arrived = {}
          /\ die(IF channel_iseof THEN "finished" ELSE "fatal")
          /\ UNCHANGED <<recvbuf, c2s>>
    /\ Continue("recv")
    /\ UNCHANGED <<packetvars, sendbuf, selfpipe, childvars, s2c>>

-----------------------------------------------------------------------------
(* "process packets": one action per packet type.                           *)

Received(t) ==
    /\ pc = "process" /\ recvbuf # <<>> /\ Head(recvbuf).t = t
    /\ recvbuf' = Tail(recvbuf)
    /\ UNCHANGED <<selfpipe, c2s, s2c>>

Stay == UNCHANGED loopvars

\* Slip: the client's limit is taken as it is.
packet_channel_open_unclamped ==
    /\ Received("OPEN")
    /\ Handler(channel_open(Head(recvbuf).n, Head(recvbuf).l)
                  /\ UNCHANGED <<packetvars, childvars>>,
               <<Msg("CONFIRM", BufSize)>>)
    /\ Stay

\* packet_channel_open: the client's limit is clamped, the reply says whether
\* channel_open worked; any type but "session" is refused.
packet_channel_open ==
    \/ /\ Received("OPEN")
       /\ \E envok \in {TRUE} \cup {"env" \notin Failures} :
             LET m == Head(recvbuf)
                 limit == IF m.l > PacketLimit THEN PacketLimit
                          ELSE IF m.l < PacketMin THEN PacketMin ELSE m.l
             IN  Handler(channel_open(m.n, limit)
                            /\ UNCHANGED <<packetvars, childvars>>,
                         IF channel_open_done(envok)
                         THEN <<Msg("CONFIRM", BufSize)>>
                         ELSE <<Done("OPENFAIL")>>)
       /\ Stay
    \/ /\ Received("OPENX")
       /\ Handler(UNCHANGED <<chanvars, status, packetvars, childvars>>,
                  <<Done("OPENXFAIL")>>)
       /\ Stay

\* Slip: the want-reply flag is ignored.
Answer_always(t) == <<Done(t)>>
Answer(t) == IF Head(recvbuf).n = 0 THEN <<>> ELSE <<Done(t)>>

accept(effect) == Handler(effect /\ UNCHANGED packetvars, Answer("SUCCESS"))
reject == Handler(UNCHANGED <<chanvars, status, packetvars, childvars>>,
                  Answer("FAILURE"))

\* packet_channel_request: exec, subsystem and shell.  A second start is
\* refused, and so may be any but a shell: for a zero byte in its text, for a
\* subsystem that is not configured, or because of -e.
request_start(t) ==
    /\ Received(t)
    /\ \/ (pid # 0 \/ t # "shell") /\ reject
       \/ /\ pid = 0 /\ (t = "shell" \/ ~CustomCmd)
          /\ \E ok \in {TRUE} \cup {"fork" \notin Failures} :
                IF maxpacket = 0 \/ ~ok
                THEN channel_exec(ok) /\ UNCHANGED <<packetvars, sendbuf, childvars>>
                ELSE accept(/\ channel_exec(ok) /\ ChildStart
                            /\ UNCHANGED <<cin, cout, cerr, outleft>>)
    /\ Stay

\* Slip: nobody asks whether there is a terminal already.
request_pty_again ==
    /\ Received("pty-req")
    /\ IF pid # 0 THEN reject
       ELSE IF maxpacket = 0 \/ flagterminal
       THEN die("proto") /\ UNCHANGED <<packetvars, sendbuf, childvars>>
       ELSE accept(channel_openterminal(TRUE) /\ UNCHANGED childvars)
    /\ Stay

\* packet_channel_request: pty-req.  Besides a late or a second one, a TERM
\* with a zero byte and a terminal that cannot be opened are refused.
request_pty ==
    /\ Received("pty-req")
    /\ \/ reject
       \/ /\ pid = 0 /\ ~flagterminal
          /\ IF maxpacket = 0
             THEN die("proto") /\ UNCHANGED <<packetvars, sendbuf, childvars>>
             ELSE accept(channel_openterminal(TRUE) /\ UNCHANGED childvars)
    /\ Stay

\* packet_channel_request: window-change changes nothing the model keeps, env
\* and unknown requests are always refused.
request_other(t) ==
    /\ Received(t)
    /\ IF t = "window-change" /\ pid > 0 /\ flagterminal
       THEN accept(UNCHANGED <<chanvars, status, childvars>>)
       ELSE reject
    /\ Stay

packet_channel_request ==
    \/ \E t \in Starts : request_start(t)
    \/ request_pty
    \/ \E t \in {"window-change", "env"} : request_other(t)

\* The handlers that only touch the channel.
Silent(effect) == effect /\ UNCHANGED <<packetvars, sendbuf, childvars>> /\ Stay

packet_channel_recv_data ==
    Received("DATA") /\ Silent(channel_put(Head(recvbuf).n))

packet_channel_recv_extendeddata ==
    Received("EXT") /\ Silent(channel_putextended(Head(recvbuf).n))

packet_channel_recv_windowadjust ==
    Received("ADJ") /\ Silent(channel_incrementremotewindow(Head(recvbuf).n))

packet_channel_recv_eof == Received("EOF") /\ Silent(channel_puteof)

\* packet_channel_recv_close: EOF and CLOSE are answered at once, whatever the
\* child does, but never twice.
packet_channel_recv_close ==
    /\ Received("CLOSE")
    /\ IF maxpacket = 0 THEN Silent(channel_close)
       ELSE /\ Handler(/\ channel_close
                       /\ flageofsent' = TRUE /\ flagclosesent' = TRUE
                       /\ flagchanneleofreceived' = TRUE
                       /\ UNCHANGED childvars,
                       EofMsgs \o CloseMsgs)
            /\ Stay

packet_global_request ==
    /\ Received("GLOBAL")
    /\ Handler(UNCHANGED <<chanvars, status, packetvars, childvars>>,
               Answer("REQFAIL"))
    /\ Stay

\* packet_unimplemented sends at once.
packet_unimplemented ==
    /\ Received("OTHER")
    /\ Handler(UNCHANGED <<chanvars, status, packetvars, childvars>>,
               <<Done("UNIMPL")>>)
    /\ pc' = "flush_process" /\ UNCHANGED watch

\* packet_get returns 0 on DISCONNECT: what is behind it is never looked at.
packet_disconnect ==
    /\ Received("DISCONNECT")
    /\ die("finished")
    /\ UNCHANGED <<packetvars, sendbuf, childvars, loopvars>>

\* KEXINIT leaves the loop: packet_kex_send and packet_kexdh, which sends its
\* answers and waits for NEWKEYS; the rest of recvbuf waits too.
packet_kexinit ==
    /\ Received("KEXINIT")
    /\ Handler(UNCHANGED <<chanvars, status, packetvars, childvars>>,
               <<Done("KEX")>>)
    /\ pc' = "flush_rekey" /\ UNCHANGED watch

\* No packet left: back to the top of the loop.
process_done ==
    /\ pc = "process" /\ recvbuf = <<>>
    /\ pc' = "top" /\ watch' = {}
    /\ UNCHANGED <<chanvars, status, packetvars, sendbuf, recvbuf, selfpipe,
                   childvars, c2s, s2c>>

process ==
    \/ packet_channel_open \/ packet_channel_request
    \/ packet_channel_recv_data \/ packet_channel_recv_extendeddata
    \/ packet_channel_recv_windowadjust \/ packet_channel_recv_eof
    \/ packet_channel_recv_close \/ packet_global_request
    \/ packet_unimplemented \/ packet_disconnect \/ packet_kexinit
    \/ process_done

\* packet_getall: blocks for the packet that ends authentication (AUTH) or a
\* key exchange (NEWKEYS), then the main loop starts, from the top, with
\* whatever else the last read() brought still in recvbuf.
Awaited == [auth |-> "AUTH", rekey |-> "NEWKEYS"]

packet_getall ==
    /\ pc \in DOMAIN Awaited
    /\ \/ /\ recvbuf # <<>> /\ Head(recvbuf).t = Awaited[pc]
          /\ recvbuf' = Tail(recvbuf) /\ pc' = "top" /\ watch' = {}
          /\ UNCHANGED <<c2s, chanvars, status>>
       \/ recvbuf = <<>> /\ packet_recv /\ UNCHANGED <<loopvars, chanvars, status>>
       \/ /\ recvbuf = <<>> /\ c2s # <<>> /\ Arrived = {}
          /\ die("fatal") /\ UNCHANGED <<recvbuf, c2s, loopvars>>
    /\ UNCHANGED <<packetvars, sendbuf, selfpipe, childvars, s2c>>

Server ==
    /\ status = "run"
    /\ \/ loop_break \/ loop_poll \/ loop_selfpipe \/ loop_tochild
       \/ loop_from1 \/ loop_from2 \/ loop_check \/ loop_wait \/ loop_send
       \/ loop_recv \/ process \/ packet_sendall \/ packet_getall
    /\ UNCHANGED clientvars

-----------------------------------------------------------------------------
(* The client.  It counts the windows as RFC 4254 says, waits for the       *)
(* replies it needs, sends nothing after its CLOSE but what transport and   *)
(* global requests allow, and answers a CLOSE with a CLOSE.  A Wild client  *)
(* sends any packet at any time.                                            *)

Legal(ok) == Wild \/ ok

\* m joins the transport; c is the client's new state.
ClientSends(m, c) ==
    /\ Len(c2s) < NetCap /\ ~client.gone /\ client.kex = "no"
    /\ c2s' = Append(c2s, m)
    /\ client' = c
    /\ UNCHANGED s2c

\* The client has sent one more packet of its own accord.
Spend == [client EXCEPT !.left = @ - 1]

ClientOpen ==
    /\ client.left > 0
    /\ \/ /\ "OPEN" \in ClientKinds /\ Legal(client.open = "no")
          /\ \E w \in Windows, l \in Limits :
                /\ ClientSends([t |-> "OPEN", n |-> w, l |-> l],
                               [Spend EXCEPT !.open = "asked"])
                /\ rcredit' = w /\ UNCHANGED credit
       \/ /\ "OPENX" \in ClientKinds
          /\ ClientSends(Done("OPENX"), Spend)
          /\ UNCHANGED <<credit, rcredit>>

\* Channel and global requests; n = 1 asks for a reply.
ClientRequest ==
    /\ client.left > 0
    /\ \E t \in (Requests \cup {"GLOBAL"}) \cap ClientKinds, n \in Wants :
          /\ Legal(t = "GLOBAL" \/ (client.open = "yes" /\ ~client.close))
          /\ ClientSends(Msg(t, n),
                [Spend EXCEPT !.waiting = IF n = 1 THEN Append(@, t) ELSE @])
    /\ UNCHANGED <<credit, rcredit>>

ClientData ==
    /\ client.left > 0
    /\ \E t \in {"DATA", "EXT"} \cap ClientKinds, n \in Sizes :
          /\ Legal(/\ client.started /\ ~client.eof /\ ~client.close
                   /\ n <= credit)
          /\ ClientSends(Msg(t, n), [Spend EXCEPT !.ext = @ \/ t = "EXT"])
          /\ credit' = IF n <= credit THEN credit - n ELSE 0
    /\ UNCHANGED rcredit

ClientEof ==
    /\ client.left > 0 /\ "EOF" \in ClientKinds
    /\ Legal(client.open = "yes" /\ ~client.eof /\ ~client.close)
    /\ ClientSends(Done("EOF"), [Spend EXCEPT !.eof = TRUE])
    /\ UNCHANGED <<credit, rcredit>>

\* More window for the server, once the old one is used up.
ClientAdjust ==
    /\ "ADJ" \in ClientKinds
    /\ Legal(client.open = "yes" /\ ~client.close)
    /\ rcredit = 0
    /\ \E n \in Sizes \ {0} :
          ClientSends(Msg("ADJ", n), client) /\ rcredit' = n
    /\ UNCHANGED credit

\* A CLOSE of its own accord, or the answer to the server's.
ClientClose ==
    /\ "CLOSE" \in ClientKinds /\ ~client.close
    /\ Legal(client.open = "yes")
    /\ \/ client.left > 0 /\ ClientSends(Done("CLOSE"), [Spend EXCEPT !.close = TRUE])
       \/ /\ client.left = 0 /\ "CLOSE" \in client.seen
          /\ ClientSends(Done("CLOSE"), [client EXCEPT !.close = TRUE])
    /\ UNCHANGED <<credit, rcredit>>

ClientKexinit ==
    /\ client.left > 0 /\ "KEXINIT" \in ClientKinds
    /\ ClientSends(Done("KEXINIT"), [Spend EXCEPT !.kex = "wait"])
    /\ UNCHANGED <<credit, rcredit>>

ClientNewkeys ==
    /\ client.kex = "reply" /\ Len(c2s) < NetCap /\ ~client.gone
    /\ c2s' = Append(c2s, Done("NEWKEYS"))
    /\ client' = [client EXCEPT !.kex = "no"]
    /\ UNCHANGED <<s2c, credit, rcredit>>

\* An unknown packet, or a DISCONNECT.
ClientOther ==
    /\ client.left > 0
    /\ \E t \in {"OTHER", "DISCONNECT"} \cap ClientKinds :
          ClientSends(Done(t), [Spend EXCEPT !.gone = t # "OTHER"])
    /\ UNCHANGED <<credit, rcredit>>

\* The transport is closed, in the middle of anything.
ClientHangup ==
    /\ "HANGUP" \in ClientKinds /\ ~client.gone
    /\ c2s' = Append(c2s, Done("HANGUP"))
    /\ client' = [client EXCEPT !.gone = TRUE]
    /\ UNCHANGED <<s2c, credit, rcredit>>

ClientRecv ==
    /\ s2c # <<>> /\ ~client.gone
    /\ s2c' = Tail(s2c)
    /\ LET m == Head(s2c)
       IN  /\ client' =
                CASE m.t = "CONFIRM" -> [client EXCEPT !.open = "yes"]
                  [] m.t = "OPENFAIL" /\ client.open = "asked"
                        -> [client EXCEPT !.open = "failed"]
                  [] m.t \in {"SUCCESS", "FAILURE", "REQFAIL"}
                        -> [client EXCEPT
                              !.waiting = Tail(@),
                              !.started = @ \/ (m.t = "SUCCESS"
                                            /\ Head(client.waiting) \in Starts)]
                  [] m.t \in {"EOF", "STATUS", "CLOSE"}
                        -> [client EXCEPT !.seen = @ \cup {m.t}]
                  [] m.t = "KEX" -> [client EXCEPT !.kex = "reply"]
                  [] OTHER -> client
           /\ credit' = IF m.t \in {"CONFIRM", "ADJ"} THEN credit + m.n ELSE credit
           /\ rcredit' = IF m.t \in {"DATA", "EXT"} THEN rcredit - m.n ELSE rcredit
    /\ UNCHANGED c2s

Client ==
    /\ status = "run"
    /\ \/ ClientOpen \/ ClientRequest \/ ClientData \/ ClientEof \/ ClientAdjust
       \/ ClientClose \/ ClientKexinit \/ ClientNewkeys \/ ClientOther \/ ClientHangup
       \/ ClientRecv
    /\ UNCHANGED <<chanvars, status, packetvars, sendbuf, recvbuf, loopvars,
                   selfpipe, childvars>>

-----------------------------------------------------------------------------
\* The connection after the first key exchange: the client's authentication
\* is on its way and nothing else has happened.
Init ==
    /\ ChannelInit
    /\ flageofsent = FALSE /\ flagclosesent = FALSE
    /\ flagchanneleofreceived = FALSE
    /\ sendbuf = <<>> /\ recvbuf = <<>>
    /\ pc = "auth" /\ watch = {} /\ selfpipe = -1
    /\ child = [st |-> "none", reads |-> FALSE, writes |-> {}]
    /\ cin = 0 /\ cout = 0 /\ cerr = 0 /\ outleft = OutputMax
    /\ c2s = <<Done("AUTH")>> /\ s2c = <<>>
    /\ client = [open |-> "no", started |-> FALSE, ext |-> FALSE, eof |-> FALSE,
                 close |-> FALSE, kex |-> "no", gone |-> FALSE,
                 waiting |-> <<>>, seen |-> {}, left |-> ClientMax]
    /\ credit = 0 /\ rcredit = 0

Timeout == status = "run" /\ loop_polltimeout /\ UNCHANGED clientvars

\* A server that has stopped stays stopped.
Stopped == status # "run" /\ UNCHANGED vars

Next == Server \/ Timeout \/ Child \/ Client \/ Stopped

Spec == Init /\ [][Next]_vars

\* What the scheduler, a child that ends, and a client that keeps reading owe:
\* the loop never stops by itself, every process and every pipe of the child
\* ends one day, and the client reads, grants window, answers a key exchange
\* and a CLOSE.  Nothing is assumed of the 60 second timeout of poll().
Fairness ==
    /\ WF_vars(Server)
    /\ WF_vars(Child /\ ChildExit)
    /\ \A s \in {"out", "err"} : WF_vars(Child /\ ChildCloseOutput(s))
    /\ WF_vars(Child /\ ChildRead)
    /\ WF_vars(Client /\ ClientRecv)
    /\ WF_vars(Client /\ ClientAdjust)
    /\ WF_vars(Client /\ ClientNewkeys)
    /\ WF_vars(Client /\ ClientClose /\ "CLOSE" \in client.seen)

FairSpec == Spec /\ Fairness

-----------------------------------------------------------------------------
(* Properties.                                                              *)

Running == status = "run"
\* All packets on their way to one side, oldest first.
ToClient == s2c \o sendbuf
ToServer == recvbuf \o c2s

\* The types of what this module adds to the channel.
SessionTypeOK ==
    /\ ChannelTypeOK
    /\ {flageofsent, flagclosesent, flagchanneleofreceived} \subseteq BOOLEAN
    /\ Len(sendbuf) <= SendCap /\ Len(s2c) <= NetCap /\ Len(c2s) <= NetCap + 1
    /\ watch \subseteq {"recv", "send", "tochild", "from1", "from2", "selfpipe"}
    /\ pc \in DOMAIN Order \cup DOMAIN AfterFlush \cup DOMAIN Awaited
    /\ selfpipe \in {-1, 0, 1}
    /\ {cin, cout, cerr} \subseteq 0..PipeCap
    /\ credit \in 0..BufSize /\ rcredit \in 0..WindowMax

\* What poll() reported is still good when its block runs: the descriptor the
\* block uses is still there and so is the child, though blocks in between
\* may have closed descriptors or used up the window.  (channel_write,
\* channel_read and channel_extendedread stop the process otherwise.)
WatchesHold ==
    /\ pc = "tochild" => pid > 0 /\ fd0 # NoFd
    /\ pc = "from1" => pid > 0 /\ fd1 # NoFd
    /\ pc = "from2" => pid > 0 /\ fd2 # NoFd

\* The self-pipe trick loses no wakeup: the loop never sleeps in poll() when
\* the child's output is at its end and the child itself has already exited,
\* wherever the exit fell between the end of the output, the installation of
\* the handler, the draining of the pipe and waitpid().
NoLostWakeup ==
    Running /\ pc = "top" /\ Ready = {} /\ channel_iseof /\ pid > 0
        => child.st = "run"

\* The client knows its window, or the answer that tells it is on its way.
Confirmed ==
    client.open = "yes" \/ \E i \in 1..Len(ToClient) : ToClient[i].t = "CONFIRM"

\* The client's idea of the window it may fill and the server's agree: what
\* the client may send, what it sent, and the adjustments on their way make
\* up localwindow.  Only data dropped because the child's input is closed, or
\* a refused open, leaves the server's number higher.
InputWindow ==
    Running /\ maxpacket # 0 =>
        LET claim == credit + Bytes(ToServer, "DATA") + Bytes(ToServer, "EXT")
                        + Bytes(ToClient, "ADJ") + Bytes(ToClient, "CONFIRM")
        IN  /\ claim <= localwindow
            /\ Confirmed /\ (pid = 0 \/ ~Discards) => claim = localwindow

\* The server never sends more than the client allowed, over both output
\* streams together: what the client expects is what the server may send,
\* what is on its way, and the grants that have not arrived.  So the second
\* stream read in a round may use only what the first one has left.
OutputWindow ==
    Running /\ maxpacket # 0 =>
        LET sent == Bytes(ToClient, "DATA") + Bytes(ToClient, "EXT")
        IN  /\ rcredit = remotewindow + sent + Bytes(ToServer, "ADJ")
            /\ sent <= rcredit

\* No run of a client that keeps to the rules ends in a protocol error, in a
\* full channel buffer or in an internal error of the server.
LegalClientSurvives == status \notin {"proto", "nomem", "bug"}

\* The types of those packets of a sequence that ask for a reply or are one.
Replies == {"SUCCESS", "FAILURE", "REQFAIL"}
Replying(m) == m.t \in Replies \/ (m.t \in Requests \cup {"GLOBAL"} /\ m.n # 0)
Heard(types, m) == IF Replying(m) THEN Append(types, m.t) ELSE types
Talk(q) ==
    LET f[i \in 0..Len(q)] == IF i = 0 THEN <<>> ELSE Heard(f[i - 1], q[i])
    IN  f[Len(q)]

\* A child was started; the session never has another.
HasChild == pid # 0 /\ child.st # "none"

\* Every request that wants a reply gets exactly one, in the order of the
\* requests: the replies on their way answer the oldest requests, and the
\* rest of what the client waits for is still to be handled.  SUCCESS to exec,
\* shell or subsystem is said once, and only if a child was started.
RepliesInOrder ==
    LET class(t) == IF t \in {"GLOBAL", "REQFAIL"} THEN "global" ELSE "channel"
        both == Talk(ToClient) \o Talk(ToServer)
        begun == {i \in 1..Len(both) :
                    both[i] = "SUCCESS" /\ client.waiting[i] \in Starts}
    IN  Running =>
          /\ Len(client.waiting) = Len(both)
          /\ \A i \in 1..Len(both) : class(client.waiting[i]) = class(both[i])
          /\ begun # {} \/ client.started => HasChild
          /\ \A i, j \in begun : i = j /\ ~client.started

\* What the server says in closing, in the order in which it has to come.
Rank == [EOF |-> 1, STATUS |-> 2, CLOSE |-> 3]
Farewells == DOMAIN Rank
Sent(t) == t \in client.seen \/ \E i \in 1..Len(ToClient) : ToClient[i].t = t

\* EOF, exit status and CLOSE are sent at most once each; the status comes
\* after the EOF and before the CLOSE, and a CLOSE never without an EOF.
ClosingOnce ==
    /\ \A i, j \in 1..Len(ToClient) :
          {ToClient[i].t, ToClient[j].t} \subseteq Farewells /\ i < j
             => Rank[ToClient[i].t] < Rank[ToClient[j].t]
    /\ \A t \in client.seen, i \in 1..Len(ToClient) :
          ToClient[i].t \in Farewells => Rank[t] < Rank[ToClient[i].t]
    /\ pc # "flush_close" => (flagclosesent <=> Sent("CLOSE"))
    /\ flageofsent <=> Sent("EOF")
    /\ Sent("STATUS") \/ Sent("CLOSE") => Sent("EOF")

\* After its EOF the server sends no more output, until the client's CLOSE.
\* (After an early CLOSE of the client it may: the loop goes on serving the
\* child that lives on.)
OutputBeforeEof ==
    Running /\ ~flagchanneleofreceived /\ flageofsent =>
        \A i \in 1..Len(ToClient) :
            ToClient[i].t \in {"DATA", "EXT"} =>
                \E j \in i..Len(ToClient) : ToClient[j].t = "EOF"

\* The exit status is sent only when every byte the child wrote was sent.
OutputComplete ==
    Running /\ pid = -1 /\ child.st = "reaped"
        => cout = 0 /\ cerr = 0 /\ child.writes = {}

\* How a channel ends, seen by the client: all output, one EOF, one exit
\* status, one CLOSE, in this order, though packet_channel_send_eof and
\* packet_channel_send_close are reached from the end of the child and from
\* the client's CLOSE, in either order or in one round of the loop.
EndsInOrder == ClosingOnce /\ OutputBeforeEof /\ OutputComplete

\* The child sees the end of its input only after all of the input: the input
\* is closed with bytes left only when nobody reads them.
InputNotCutShort ==
    [][fd0 # NoFd /\ fd0' = NoFd /\ status' = "run" /\ child.reads
          => cin' - cin = len0]_vars

\* As long as somebody holds the slave the master stays open, though it is
\* the child's input too and the input may end: an EOF of the client must not
\* cost the output of the terminal.
PtyKeptOpen ==
    Running /\ pid > 0 /\ flagterminal /\ child.reads => "master" \in openfds

\* Once the client's CLOSE was handled no child is started any more, and no
\* pty is opened, whatever comes behind it in the same read.
CloseIsFinal ==
    [][flagchanneleofreceived =>
          /\ ~(pid = 0 /\ pid' = 1)
          /\ ~(~flagterminal /\ flagterminal')]_vars

\* Without window the loop does not watch the child's output and so does not
\* see its end either; a client that has sent its CLOSE grants no more window.
\* This is the one way not to come to an end.
WindowStall == client.close /\ remotewindow = 0

\* A connection whose child has started comes to an end, without the help of
\* poll()'s timeout.
Termination == (child.st # "none") ~> (~Running \/ WindowStall)

\* An upload to a living child whose input is open never comes to a halt: the
\* window is used up only as long as data is on its way to the server, buffered
\* for the child, or being answered by an adjustment.  (Extended data is the
\* exception: what it takes of the window is given back only when a later
\* packet of data is written to the child, and a client that has used up its
\* window with it can send none.)
CreditReturns ==
    Running /\ client.started /\ ~Discards /\ ~client.ext
        /\ len0 = 0 /\ Bytes(ToServer, "DATA") = 0 /\ Bytes(ToClient, "ADJ") = 0
        => credit > 0

=============================================================================

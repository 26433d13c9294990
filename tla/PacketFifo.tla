----------------------------- MODULE PacketFifo -----------------------------
(***************************************************************************)
(* What the receiving side of the transport promises to the handlers above *)
(* it: the packets the client sent come one by one, whole, in order and    *)
(* each once, however the network cut the stream into pieces; the process  *)
(* stops only at a packet that is not well formed or at the end of the     *)
(* stream.                                                                 *)
(*                                                                         *)
(* A packet is what the client said of it: the two lengths of its header.  *)
(***************************************************************************)
EXTENDS Integers, Sequences

CONSTANTS WellFormed(_)   \* the packets the server has to accept

VARIABLES queue,   \* the packets sent and not yet handed over
          got,     \* the payload of the packet just handed over, 0 if none
          up,      \* the process runs
          gone     \* the client has closed the stream

fifovars == <<queue, got, up, gone>>

\* The bytes between the header and the padding.
Payload(p) == p.len - p.pad - 1

FifoInit == queue = <<>> /\ got = 0 /\ up = TRUE /\ gone = FALSE

Send ==
    /\ up /\ ~gone
    /\ queue' # <<>> /\ queue' = Append(queue, queue'[Len(queue')])
    /\ UNCHANGED <<got, up, gone>>

HandOver ==
    /\ up /\ queue # <<>> /\ WellFormed(Head(queue))
    /\ got' = Payload(Head(queue)) /\ queue' = Tail(queue)
    /\ UNCHANGED <<up, gone>>

NothingYet == up /\ got' = 0 /\ UNCHANGED <<queue, up, gone>>

HangUp == gone' = TRUE /\ UNCHANGED <<queue, got, up>>

Stop ==
    /\ gone \/ (queue # <<>> /\ ~WellFormed(Head(queue)))
    /\ up' = FALSE
    /\ UNCHANGED <<queue, got, gone>>

FifoNext == Send \/ HandOver \/ NothingYet \/ HangUp \/ Stop

FifoSpec == FifoInit /\ [][FifoNext]_fifovars

=============================================================================

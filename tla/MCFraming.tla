----------------------------- MODULE MCFraming -----------------------------
EXTENDS Framing

\* The shortest packet and the longest plain one (too long once sealed), and
\* the shortest with too little padding and with padding alone.
AllShapes ==
    {[len |-> 6, pad |-> 4], [len |-> Limit - 4, pad |-> 4],
     [len |-> 6, pad |-> 3], [len |-> 6, pad |-> 5]}

=============================================================================

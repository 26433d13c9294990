----------------------------- MODULE MCTransport -----------------------------
(* A transport with a small client, for TLC: what its KEXINIT may offer. *)
EXTENDS Transport

Offer(kex, keys, follows) ==
    [kex |-> kex, keys |-> keys, common |-> TRUE, follows |-> follows]
Curve == <<"curve", "pq">>
Unknown == <<"other", "pq">>
StrictCurve == <<"curve", "strict-c">>
StrictUnknown == <<"other", "pq", "strict-c">>
Ed == <<"ed25519">>

\* With and without strict mode, with and without a guess, right and wrong.
AllOffers ==
    {Offer(k, Ed, f) : k \in {Curve, Unknown, StrictCurve, StrictUnknown},
                       f \in BOOLEAN}
\* Later offers never bring strict mode in.
PlainOffers == {Offer(Curve, Ed, FALSE), Offer(Unknown, Ed, TRUE)}
\* Strict mode with a wrong guess, no strict mode, and nothing in common in
\* one category or the other.
BoldOffers ==
    {Offer(StrictUnknown, Ed, TRUE), Offer(Curve, Ed, FALSE),
     [Offer(Curve, Ed, FALSE) EXCEPT !.common = FALSE],
     Offer(<<"other">>, Ed, FALSE), Offer(Curve, <<"rsa">>, FALSE)}

\* A client that offers no more than these and says nothing out of order keeps
\* the rules.
ASSUME PoliteClients ==
    /\ Offers \subseteq AllOffers /\ RekeyOffers \subseteq PlainOffers
    /\ Chatter \subseteq {"IGNORE", "DATA", "OTHER"}
    => Polite
=============================================================================

---------------------------- MODULE MCRelayBroker ----------------------------
(* Constants of RelayBroker for TLC.                                        *)
EXTENDS RelayBroker, TLC

CONSTANTS h1, h2, h3, c1, c2, t1, t2, t3

MCHosts   == {h1, h2, h3}
MCClients == {c1, c2}
MCTokens  == {t1, t2, t3}

\* Three hosts of one token, of two and of three, more than may wait; the clients
\* ask for a token that several may have asked for, or for one of h3 alone. What
\* is left out differs from these by names, or has less to do with each other.
MCAsks == h1 :> {t1} @@ h2 :> {t1, t2} @@ h3 :> {t1, t3} @@ c1 :> {t1} @@ c2 :> {t1, t3}
=============================================================================

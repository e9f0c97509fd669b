-------------------------- MODULE MCKeyValueService --------------------------
EXTENDS KeyValueService, TLC

CONSTANTS u1, u2, d1, d2, e1, e2, e3

\* Two executions of one delivery and one of another, of one test-taker;
\* the other test-taker has none.
MCUserOf     == (e1 :> u1) @@ (e2 :> u1) @@ (e3 :> u1)
MCDeliveryOf == (e1 :> d1) @@ (e2 :> d1) @@ (e3 :> d2)
=============================================================================

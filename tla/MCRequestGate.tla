--------------------------- MODULE MCRequestGate ---------------------------
EXTENDS RequestGate, TLC

CONSTANTS c1, c2, proxy

(* One request of an authorized caller per window; unauthorized requests   *)
(* share the threads and the clock, and have a limiter of their own.       *)
MCLimit == [requests |-> 1, auth_failures |-> 2]

MCAddresses == {proxy, c1, c2}

Symmetry == Permutations(Threads) \cup Permutations({c1, c2})
=============================================================================

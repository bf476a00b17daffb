------------------------ MODULE MCDispatcherClient ------------------------
EXTENDS DispatcherClient, TLC

Offer(usdc, amount, payTo, resource) ==
    [usdc |-> usdc, amount |-> amount, payTo |-> payTo, resource |-> resource]

Challenge(version, deadline, options) ==
    [version |-> version, deadline |-> deadline, options |-> options]

(* Two good challenges, of which the dearer is behind an offer on another  *)
(* chain and expires; and one for each refusal.                            *)
MCChallenges ==
    {Challenge(2, None, <<Offer(TRUE, 1, "us", None)>>),
     Challenge(2, 1, <<Offer(FALSE, 9, "us", None), Offer(TRUE, 2, "us", "u1")>>),
     Challenge(1, None, <<Offer(TRUE, 1, "us", None)>>),
     Challenge(2, None, <<Offer(FALSE, 1, "us", None)>>),
     Challenge(2, None, <<Offer(TRUE, 1, "them", None), Offer(TRUE, 1, "us", None)>>),
     Challenge(2, None, <<Offer(TRUE, 3, "us", None)>>),
     Challenge(2, None, <<Offer(TRUE, None, "us", None)>>)}

MCURLs == {"u1", "u2", "u3"}

Symmetry == Permutations(Clients) \cup Permutations(Proofs)
=============================================================================

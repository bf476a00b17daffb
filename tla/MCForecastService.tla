------------------------- MODULE MCForecastService -------------------------
EXTENDS ForecastService, TLC

Asked(e, contract, cutoff, policy) ==
    [event |-> e, contract |-> contract, asks |-> "w1", cutoff |-> cutoff,
     policy |-> policy]

MCEvents == {"e0", "e1", "e2"}

(* One event asked for under both cutoff policies, and by a caller of the  *)
(* point contract that reuses the id; another event of the temperature     *)
(* contract.                                                               *)
MCQuestions == {Asked("e1", "window", 1, "implicit"),
                Asked("e1", "window", 1, "explicit"),
                Asked("e1", "point", 1, "none"),
                Asked("e2", "temperature", NoCutoff, "none")}

(* A receipt of the release before digests, and one of an event that is    *)
(* over.  With the second one the store has room for one more event.       *)
Legacy == [receipt |-> [q |-> Asked("e1", "window", 1, "none"), provider |-> "p1",
                        issued |-> 0, completed |-> 0],
           recorded |-> None]
Over == Sealed([q |-> Asked("e0", "point", 1, "none"), provider |-> "p1",
                issued |-> 0, completed |-> 0])

MCInitialTables == {<<Legacy>>, <<Over>>}

MCOrders == {<<"p1", "p2">>}

Symmetry == Permutations(Handlers)
=============================================================================

-------------------------- MODULE BudgetedPayments --------------------------
(***************************************************************************)
(* What the application is promised about paying, without journal,         *)
(* processes or messages: an idempotency key is granted a reservation at   *)
(* most once in its life; a reservation is withdrawn only if nothing was   *)
(* exposed for it; for a granted key at most one signed payment, of the    *)
(* granted amount, is exposed to the outside; and an exposed payment may   *)
(* be confirmed at any later time, or never.  Grants stay within a number  *)
(* of requests and a total amount.  (docs/application-payment-boundary.md, *)
(* "State and idempotency", as payment-canary/src implements it.)          *)
(***************************************************************************)
EXTENDS Integers, FiniteSets

CONSTANTS Keys, Signatures, MaxAmount, MaxTotal, MaxRequests

(* What the theorems assume of the parameters; the same as                 *)
(* PaymentJournal's BudgetAssumption for the instance in PaymentSidecar.   *)
Limits ==
    /\ IsFiniteSet(Keys)
    /\ MaxAmount \in Nat \ {0}
    /\ MaxTotal \in Nat \ {0}
    /\ MaxRequests \in Nat \ {0}

VARIABLES
    granted,    \* amount each key holds, 0 for none
    used,       \* keys that were ever granted
    exposed,    \* signed payments that left the system
    confirmed   \* signatures of the payments that took effect

promiseVars == <<granted, used, exposed, confirmed>>

Holders == {k \in Keys : granted[k] > 0}
HeldUnits == {u \in Keys \X (1..MaxAmount) : u[2] <= granted[u[1]]}

Init ==
    /\ granted = [k \in Keys |-> 0]
    /\ used = {}
    /\ exposed = {}
    /\ confirmed = {}

Grant(k, a) ==
    /\ k \notin used
    /\ Cardinality(Holders) < MaxRequests
    /\ Cardinality(HeldUnits) + a <= MaxTotal
    /\ granted' = [granted EXCEPT ![k] = a]
    /\ used' = used \cup {k}
    /\ UNCHANGED <<exposed, confirmed>>

Withdraw(k) ==
    /\ \A t \in exposed : t.key # k
    /\ granted' = [granted EXCEPT ![k] = 0]
    /\ UNCHANGED <<used, exposed, confirmed>>

Expose(k, s) ==
    /\ granted[k] > 0
    /\ \A t \in exposed : t.key # k /\ t.sig # s
    /\ exposed' = exposed \cup {[sig |-> s, key |-> k, amount |-> granted[k]]}
    /\ UNCHANGED <<granted, used, confirmed>>

Confirm(t) ==
    /\ t.sig \notin confirmed
    /\ confirmed' = confirmed \cup {t.sig}
    /\ UNCHANGED <<granted, used, exposed>>

Next ==
    \/ \E k \in Keys :
           \/ \E a \in 1..MaxAmount : Grant(k, a)
           \/ Withdraw(k)
           \/ \E s \in Signatures : Expose(k, s)
    \/ \E t \in exposed : Confirm(t)

Spec == Init /\ [][Next]_promiseVars

-----------------------------------------------------------------------------
TypeOK ==
    /\ granted \in [Keys -> 0..MaxAmount]
    /\ used \subseteq Keys
    /\ exposed \subseteq [sig : Signatures, key : Keys, amount : 1..MaxAmount]
    /\ confirmed \subseteq Signatures

(* Whatever was exposed, confirmed or not, fits both limits.               *)
ExposedWithinBudget ==
    /\ Cardinality(exposed) <= MaxRequests
    /\ Cardinality({u \in exposed \X (1..MaxAmount) : u[2] <= u[1].amount})
           <= MaxTotal

(* One key exposes one payment, and one signature belongs to one key.      *)
OnePaymentPerKey ==
    \A t, u \in exposed : t.key = u.key \/ t.sig = u.sig => t = u
=============================================================================

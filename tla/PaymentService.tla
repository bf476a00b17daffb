---------------------------- MODULE PaymentService ----------------------------
(***************************************************************************)
(* What the payment sidecar is to the Application that calls it: a key is  *)
(* opened once, for one request, and ends with a paid body, with an        *)
(* unknown outcome, or released.  The Application gateway is composed with *)
(* this service; PaymentSidecar, with one process at a time, implements it *)
(* (PaymentSidecar!ServesCalls).                                           *)
(***************************************************************************)
CONSTANTS
    PayKeys,     \* payment idempotency keys
    Requests,    \* request fingerprints
    Bodies,      \* paid bodies
    None

VARIABLE calls   \* what the service knows of each key

Outcomes == {"absent", "open", "settled", "unknown", "reconciled", "released"}

Call == [status : Outcomes,
         fp     : Requests \cup {None},
         body   : Bodies \cup {None}]

NoCall == [status |-> "absent", fp |-> None, body |-> None]

ServiceInit == calls = [k \in PayKeys |-> NoCall]

(* From a status to the next; only settling yields a body.                 *)
Advance(k, from, to, f, b) ==
    /\ calls[k].status = from
    /\ calls' = [calls EXCEPT ![k] = [status |-> to, fp |-> f, body |-> b]]

(* A budget is reserved for the request.                                   *)
Open(k, f) == Advance(k, "absent", "open", f, None)

(* The payment was verified and its body stored.                           *)
SettleCall(k, b) == Advance(k, "open", "settled", calls[k].fp, b)

(* An error, a timeout or a restart left the outcome unknown.              *)
LoseCall(k) == Advance(k, "open", "unknown", calls[k].fp, None)

(* Nothing was sent; the key is spent all the same.                        *)
ReleaseCall(k) == Advance(k, "open", "released", calls[k].fp, None)

(* The operator found the payment on chain; its body is not served.        *)
ReconcileCall(k) == Advance(k, "unknown", "reconciled", calls[k].fp, None)

(* A body is served to the request it was paid for, and to no other.       *)
Serves(k, f) == calls[k].status = "settled" /\ calls[k].fp = f

FinishCall(k) ==
    \/ \E b \in Bodies : SettleCall(k, b)
    \/ LoseCall(k)
    \/ ReleaseCall(k)
    \/ ReconcileCall(k)

ServiceNext ==
    \E k \in PayKeys :
        \/ \E f \in Requests : Open(k, f)
        \/ FinishCall(k)

ServiceSpec == ServiceInit /\ [][ServiceNext]_calls
=============================================================================

------------------------ MODULE DispatcherClientProofs ------------------------
(***************************************************************************)
(* Theorems about the Python x402 client, for any number of calls, URLs    *)
(* and any budget: a response that is handed out was paid for and is       *)
(* settled, and the client implements BudgetedPayments, where marking a    *)
(* row submitted is the grant.                                             *)
(***************************************************************************)
EXTENDS DispatcherClient, FiniteSetTheorems, TLAPS

(* Rows whose proof may have left, and the stages of a call that owns a    *)
(* row: before it is marked submitted, and after.                          *)
Exposable == {"SUBMITTED", "SETTLED", "UNKNOWN"}
Preparing == {"sign", "submit"}
Committed == {"send", "paid", "verify", "unknown", "settled"}
Owning == Preparing \cup Committed

Deadlines == {c.deadline : c \in Challenges}

Calls ==
    {Idle} \cup [pc : {"available", "unpaid"}, url : URLs]
           \cup [pc : {"reserve"} \cup Owning, url : URLs,
                 amount : 1..MaxPayment, deadline : Deadlines,
                 sig : Proofs \cup {None}]

TypeInv ==
    /\ rows \in [URLs -> [status : Statuses, amount : 0..MaxPayment]]
    /\ cs \in [Clients -> Calls]
    /\ sent \subseteq [sig : Proofs, url : URLs, amount : 1..MaxPayment]
    /\ chain \subseteq Proofs

(* A charged row has an amount.                                            *)
AmountInv == \A u \in URLs : rows[u].status # "absent" => rows[u].amount \in 1..MaxPayment

(* A call that reserved a row finds it as it left it.                      *)
OwnerInv ==
    \A c \in Clients :
        /\ cs[c].pc \in Owning => rows[cs[c].url].amount = cs[c].amount
        /\ cs[c].pc \in Preparing => rows[cs[c].url].status = "RESERVED"
        /\ cs[c].pc \in Committed => rows[cs[c].url].status = "SUBMITTED"

(* No row has two such calls.                                              *)
SingleInv ==
    \A c, d \in Clients :
        cs[c].pc \in Owning /\ cs[d].pc \in Owning /\ cs[c].url = cs[d].url => c = d

(* What was sent belongs to a row that is committed to it, and a proof     *)
(* about to be sent is new, for its URL and among all proofs.              *)
SentInv ==
    /\ \A t \in sent : /\ rows[t.url].status \in Exposable
                      /\ rows[t.url].amount = t.amount
    /\ \A c \in Clients : cs[c].pc = "send" => \A t \in sent : t.url # cs[c].url

FreshInv ==
    /\ \A c \in Clients : cs[c].pc \in {"submit", "send"} =>
           cs[c].sig \in Proofs /\ \A t \in sent : t.sig # cs[c].sig
    /\ \A c, d \in Clients :
           /\ cs[c].pc \in {"submit", "send"}
           /\ cs[d].pc \in {"submit", "send"}
           /\ cs[c].sig = cs[d].sig
           => c = d

SettledInv ==
    /\ \A c \in Clients : cs[c].pc = "settled" => cs[c].sig \in chain
    /\ \A a \in answered : a.url \in URLs
    /\ AnsweredIsSettled

(* The charged rows fit both budgets.                                      *)
BudgetInv ==
    /\ Cardinality(Charged) <= MaxPaid
    /\ Cardinality(Units(Charged)) <= MaxTotal

ClientInv ==
    /\ TypeInv /\ AmountInv /\ OwnerInv /\ SingleInv
    /\ SentInv /\ FreshInv /\ SettledInv /\ BudgetInv

-----------------------------------------------------------------------------
(* What kind of record a call is follows from its phase.                   *)
LEMMA CallShape ==
    ASSUME TypeInv, NEW c \in Clients
    PROVE  /\ cs[c] \in Calls
           /\ cs[c].pc \in {"available", "unpaid"} => cs[c].url \in URLs
           /\ cs[c].pc \in {"reserve"} \cup Owning =>
                  /\ cs[c].url \in URLs /\ cs[c].amount \in 1..MaxPayment
                  /\ cs[c].deadline \in Deadlines
                  /\ cs[c].sig \in Proofs \cup {None}
           /\ cs[c] # Idle <=> cs[c].pc # "idle"
  BY DEF TypeInv, Calls, Idle, Owning, Preparing, Committed

(* validate_for_request: a challenge that is signed offers an amount the   *)
(* client may pay.                                                         *)
LEMMA ChallengeAmount ==
    ASSUME NEW c \in Challenges, NEW url, ValidForRequest(c, url)
    PROVE  FirstOffer(c).amount \in 1..MaxPayment
<1>1. /\ FirstOffer(c).amount \in Nat
      /\ MinAmount <= FirstOffer(c).amount /\ FirstOffer(c).amount <= MaxPayment
  BY DEF ValidForRequest, OfferApproved
<1>2. MinAmount \in Nat \ {0} /\ MaxPayment \in Nat
  BY ClientAssumption
<1> QED
  BY <1>1, <1>2

(* Goto changes the phase of one call.                                     *)
LEMMA GotoPhase ==
    ASSUME TypeInv, NEW c \in Clients, NEW pc, Goto(c, pc)
    PROVE  /\ \A d \in Clients \ {c} : cs'[d] = cs[d]
           /\ cs'[c].pc = pc /\ cs'[c].url = cs[c].url
           /\ cs'[c].amount = cs[c].amount /\ cs'[c].deadline = cs[c].deadline
           /\ cs'[c].sig = cs[c].sig
           /\ cs[c].pc \in {"reserve"} \cup Owning /\ pc \in Owning =>
                  cs' \in [Clients -> Calls]
<1>1. cs' = [cs EXCEPT ![c] = [pc |-> pc, url |-> cs[c].url, amount |-> cs[c].amount,
                               deadline |-> cs[c].deadline, sig |-> cs[c].sig]]
  BY DEF Goto, Paying
<1>2. cs \in [Clients -> Calls]
  BY DEF TypeInv
<1>3. cs[c].pc \in {"reserve"} \cup Owning /\ pc \in Owning =>
        [pc |-> pc, url |-> cs[c].url, amount |-> cs[c].amount,
         deadline |-> cs[c].deadline, sig |-> cs[c].sig] \in Calls
  BY CallShape DEF Calls
<1> QED
  BY <1>1, <1>2, <1>3

(* Leave ends one.                                                         *)
LEMMA LeavePhase ==
    ASSUME TypeInv, NEW c \in Clients, Leave(c)
    PROVE  /\ \A d \in Clients \ {c} : cs'[d] = cs[d]
           /\ cs'[c].pc = "idle"
           /\ cs' \in [Clients -> Calls]
  BY DEF TypeInv, Leave, Idle, Calls

(* A transition moves the status of a row that has the expected one, and   *)
(* keeps its amount.                                                       *)
LEMMA TransitionRows ==
    ASSUME TypeInv, NEW u \in URLs, NEW from, NEW to \in Statuses,
           Transition(u, from, to)
    PROVE  /\ rows' \in [URLs -> [status : Statuses, amount : 0..MaxPayment]]
           /\ \A v \in URLs : rows'[v].amount = rows[v].amount
           /\ \A v \in URLs \ {u} : rows'[v] = rows[v]
           /\ rows'[u].status = IF rows[u].status = from THEN to ELSE rows[u].status
<1>1. rows \in [URLs -> [status : Statuses, amount : 0..MaxPayment]]
  BY DEF TypeInv
<1>2. [status |-> to, amount |-> rows[u].amount] \in [status : Statuses, amount : 0..MaxPayment]
  BY <1>1
<1> QED
  BY <1>1, <1>2 DEF Transition

-----------------------------------------------------------------------------
LEMMA TypeStep ==
    ASSUME TypeInv, SettledInv, FreshInv, [Next]_vars
    PROVE  TypeInv'
<1> USE DEF TypeInv
<1>1. ASSUME NEW c \in Clients, ClientStep(c) PROVE TypeInv'
  <2>1. cs[c] \in Calls
    BY CallShape
  <2>2. ASSUME NEW url \in URLs, RequestMiner(c, url) PROVE TypeInv'
    BY <2>2 DEF RequestMiner, Calling, Calls
  <2>3. CASE AssertBudget(c)
    BY <2>3, CallShape DEF AssertBudget, Calling, Calls, Leave
  <2>4. CASE UnpaidEnds(c) \/ Crash(c)
    BY <2>4, LeavePhase DEF UnpaidEnds, Crash
  <2>5. ASSUME NEW ch \in Challenges, Challenged(c, ch) PROVE TypeInv'
    <3>1. Paying("reserve", cs[c].url, FirstOffer(ch).amount, ch.deadline, None) \in Calls
      BY <2>5, CallShape, ChallengeAmount DEF Challenged, Paying, Calls, Deadlines
    <3> QED
      BY <2>5, <3>1 DEF Challenged
  <2>6. CASE Reserve(c)
    <3>1. cs[c].url \in URLs /\ cs[c].amount \in 0..MaxPayment /\ cs[c].pc = "reserve"
      BY <2>6, CallShape DEF Reserve
    <3>2. CASE Unblocked(cs[c].url) /\ WithinBudget(cs[c].amount)
      <4>1. [status |-> "RESERVED", amount |-> cs[c].amount]
              \in [status : Statuses, amount : 0..MaxPayment]
        BY <3>1 DEF Statuses
      <4> QED
        BY <2>6, <3>1, <3>2, <4>1, GotoPhase DEF Reserve, Owning, Preparing
    <3>3. CASE ~(Unblocked(cs[c].url) /\ WithinBudget(cs[c].amount))
      BY <2>6, <3>3, LeavePhase DEF Reserve
    <3> QED
      BY <3>2, <3>3
  <2>7. ASSUME NEW p \in Proofs, Sign(c, p) PROVE TypeInv'
    <3>1. Paying("submit", cs[c].url, cs[c].amount, cs[c].deadline, p) \in Calls
      BY <2>7, CallShape DEF Sign, Paying, Calls, Owning, Preparing
    <3> QED
      BY <2>7, <3>1 DEF Sign
  <2>8. CASE SignFails(c)
    BY <2>8, CallShape, LeavePhase, TransitionRows
       DEF SignFails, Owning, Preparing, Statuses
  <2>9. CASE MarkSubmitted(c)
    <3>1. cs[c].url \in URLs /\ "SUBMITTED" \in Statuses /\ cs[c].pc \in Owning
      BY <2>9, CallShape DEF MarkSubmitted, Owning, Preparing, Statuses
    <3>2. cs' \in [Clients -> Calls]
      BY <2>9, <3>1, GotoPhase, LeavePhase DEF MarkSubmitted, Owning, Committed
    <3> QED
      BY <2>9, <3>1, <3>2, TransitionRows DEF MarkSubmitted
  <2>10. CASE SendProof(c)
    <3>1. cs[c].pc \in Owning /\ "paid" \in Owning
      BY <2>10 DEF SendProof, Owning, Committed
    <3>2. cs' \in [Clients -> Calls]
      BY <2>10, <3>1, GotoPhase DEF SendProof
    <3>3. cs[c].url \in URLs /\ cs[c].amount \in 1..MaxPayment /\ cs[c].sig \in Proofs
      BY <2>10, <3>1, CallShape DEF SendProof, FreshInv
    <3> QED
      BY <2>10, <3>2, <3>3 DEF SendProof
  <2>11. CASE PaidFails(c) \/ PaidAnswers(c) \/ VerifierConfirms(c) \/ VerifierDenies(c)
    <3>1. cs[c].pc \in Owning /\ {"unknown", "verify", "settled"} \subseteq Owning
      BY <2>11 DEF PaidFails, PaidAnswers, VerifierConfirms, VerifierDenies,
         Owning, Committed
    <3>2. cs' \in [Clients -> Calls]
      BY <2>11, <3>1, GotoPhase
         DEF PaidFails, PaidAnswers, VerifierConfirms, VerifierDenies
    <3> QED
      BY <2>11, <3>2 DEF PaidFails, PaidAnswers, VerifierConfirms, VerifierDenies
  <2>12. CASE MarkUnknown(c) \/ MarkSettled(c)
    BY <2>12, CallShape, LeavePhase, TransitionRows
       DEF MarkUnknown, MarkSettled, Owning, Committed, Statuses
  <2> QED
    BY <1>1, <2>2, <2>3, <2>4, <2>5, <2>6, <2>7, <2>8, <2>9, <2>10, <2>11, <2>12,
       ClientAssumption DEF ClientStep, RequestMiner
<1>2. ASSUME NEW t \in sent, Settle(t) PROVE TypeInv'
  BY <1>2 DEF Settle
<1>3. CASE Tick \/ UNCHANGED vars
  BY <1>3 DEF Tick, vars
<1> QED
  BY <1>1, <1>2, <1>3 DEF Next

-----------------------------------------------------------------------------
(* The steps of a call, by what they do to its phase and its row.          *)
Abandons(c) ==
    /\ cs'[c].pc \notin {"reserve"} \cup Owning
    /\ rows' = rows

Advances(c) ==
    /\ rows' = rows
    /\ cs'[c].url = cs[c].url /\ cs'[c].amount = cs[c].amount
    /\ \/ cs[c].pc = "sign" /\ cs'[c].pc = "submit"
       \/ /\ cs[c].pc \in Committed /\ cs'[c].pc \in Committed \ {"send"}
          /\ cs'[c].sig = cs[c].sig
    /\ cs'[c].pc = "settled" => cs[c].sig \in chain

Reserves(c) ==
    /\ cs[c].pc = "reserve" /\ cs'[c].pc = "sign"
    /\ cs[c].url \in URLs /\ cs[c].amount \in 1..MaxPayment
    /\ cs'[c].url = cs[c].url /\ cs'[c].amount = cs[c].amount
    /\ Unblocked(cs[c].url) /\ WithinBudget(cs[c].amount)
    /\ rows' = [rows EXCEPT ![cs[c].url] = [status |-> "RESERVED", amount |-> cs[c].amount]]

Marks(c, before, from, to, after) ==
    /\ cs[c].pc = before /\ cs[c].url \in URLs
    /\ rows[cs[c].url].status = from
    /\ rows'[cs[c].url] = [status |-> to, amount |-> rows[cs[c].url].amount]
    /\ \A u \in URLs \ {cs[c].url} : rows'[u] = rows[u]
    /\ cs'[c].pc = after
    /\ after = "send" => /\ cs'[c].url = cs[c].url /\ cs'[c].amount = cs[c].amount
                         /\ cs'[c].sig = cs[c].sig

LEMMA StepKinds ==
    ASSUME TypeInv, OwnerInv, NEW c \in Clients, ClientStep(c)
    PROVE  /\ \A d \in Clients \ {c} : cs'[d] = cs[d]
           /\ \/ Abandons(c) \/ Reserves(c)
              \/ cs'[c].pc = "reserve" /\ rows' = rows
              \/ Advances(c)
              \/ Marks(c, "sign", "RESERVED", "ABORTED", "idle")
              \/ Marks(c, "submit", "RESERVED", "SUBMITTED", "send")
              \/ Marks(c, "unknown", "SUBMITTED", "UNKNOWN", "idle")
              \/ Marks(c, "settled", "SUBMITTED", "SETTLED", "idle")
<1> USE DEF Owning, Preparing, Committed
<1>0. cs \in [Clients -> Calls]
  BY DEF TypeInv
<1>1. ASSUME NEW url \in URLs, RequestMiner(c, url)
      PROVE  Abandons(c) /\ \A d \in Clients \ {c} : cs'[d] = cs[d]
  BY <1>0, <1>1 DEF RequestMiner, Calling, Abandons
<1>2. CASE AssertBudget(c)
  BY <1>0, <1>2, LeavePhase DEF AssertBudget, Calling, Abandons
<1>3. CASE UnpaidEnds(c) \/ Crash(c)
  BY <1>3, LeavePhase DEF UnpaidEnds, Crash, Abandons
<1>4. ASSUME NEW ch \in Challenges, Challenged(c, ch)
      PROVE  /\ cs'[c].pc = "reserve" /\ rows' = rows
             /\ \A d \in Clients \ {c} : cs'[d] = cs[d]
  BY <1>0, <1>4 DEF Challenged, Paying
<1>5. CASE Reserve(c)
  <2>1. cs[c].pc = "reserve" /\ cs[c].url \in URLs /\ cs[c].amount \in 1..MaxPayment
    BY <1>5, CallShape DEF Reserve
  <2>2. CASE Unblocked(cs[c].url) /\ WithinBudget(cs[c].amount)
    BY <1>5, <2>1, <2>2, GotoPhase DEF Reserve, Reserves
  <2>3. CASE ~(Unblocked(cs[c].url) /\ WithinBudget(cs[c].amount))
    BY <1>5, <2>3, LeavePhase DEF Reserve, Abandons
  <2> QED
    BY <2>2, <2>3
<1>6. ASSUME NEW p \in Proofs, Sign(c, p)
      PROVE  Advances(c) /\ \A d \in Clients \ {c} : cs'[d] = cs[d]
  BY <1>0, <1>6 DEF Sign, Paying, Advances
<1>7. CASE SignFails(c)
  <2>1. cs[c].url \in URLs /\ rows[cs[c].url].status = "RESERVED"
    BY <1>7, CallShape DEF SignFails, OwnerInv
  <2> QED
    BY <1>7, <2>1, LeavePhase DEF SignFails, Transition, Marks, TypeInv
<1>8. CASE MarkSubmitted(c)
  <2>1. cs[c].url \in URLs /\ rows[cs[c].url].status = "RESERVED"
    BY <1>8, CallShape DEF MarkSubmitted, OwnerInv
  <2> QED
    BY <1>8, <2>1, GotoPhase DEF MarkSubmitted, Transition, Marks, TypeInv
<1>9. CASE SendProof(c) \/ PaidFails(c) \/ PaidAnswers(c) \/ VerifierConfirms(c)
           \/ VerifierDenies(c)
  BY <1>9, GotoPhase DEF SendProof, PaidFails, PaidAnswers, VerifierConfirms,
     VerifierDenies, Advances
<1>10. CASE MarkUnknown(c)
  <2>1. cs[c].url \in URLs /\ rows[cs[c].url].status = "SUBMITTED"
    BY <1>10, CallShape DEF MarkUnknown, OwnerInv
  <2> QED
    BY <1>10, <2>1, LeavePhase DEF MarkUnknown, Transition, Marks, TypeInv
<1>11. CASE MarkSettled(c)
  <2>1. cs[c].url \in URLs /\ rows[cs[c].url].status = "SUBMITTED"
    BY <1>11, CallShape DEF MarkSettled, OwnerInv
  <2> QED
    BY <1>11, <2>1, LeavePhase DEF MarkSettled, Transition, Marks, TypeInv
<1> QED
  BY <1>1, <1>2, <1>3, <1>4, <1>5, <1>6, <1>7, <1>8, <1>9, <1>10, <1>11 DEF ClientStep

(* Calls keep to their own row: every other call finds its row untouched.  *)
LEMMA OwnerStep ==
    ASSUME TypeInv, AmountInv, OwnerInv, SingleInv, [Next]_vars
    PROVE  AmountInv' /\ OwnerInv' /\ SingleInv'
<1> USE DEF Owning, Preparing, Committed
<1>1. CASE UNCHANGED <<rows, cs>>
  BY <1>1 DEF AmountInv, OwnerInv, SingleInv
<1>2. ASSUME NEW c \in Clients, ClientStep(c)
      PROVE  AmountInv' /\ OwnerInv' /\ SingleInv'
  <2>1. \A d \in Clients \ {c} : cs'[d] = cs[d]
    BY <1>2, StepKinds
  <2>2. \A d \in Clients : cs[d].pc \in Owning => cs[d].url \in URLs
    BY CallShape
  <2>3. CASE Abandons(c) \/ (cs'[c].pc = "reserve" /\ rows' = rows)
    BY <2>1, <2>3 DEF Abandons, AmountInv, OwnerInv, SingleInv
  <2>4. CASE Advances(c)
    BY <2>1, <2>4 DEF Advances, AmountInv, OwnerInv, SingleInv
  <2>5. CASE Reserves(c)
    <3>1. /\ rows'[cs[c].url].status = "RESERVED" /\ rows'[cs[c].url].amount = cs[c].amount
          /\ \A u \in URLs \ {cs[c].url} : rows'[u] = rows[u]
      BY <2>5 DEF Reserves, TypeInv
    <3>2. \A d \in Clients : cs[d].pc \in Owning => cs[d].url # cs[c].url
      BY <2>5 DEF Reserves, Unblocked, Blocking, OwnerInv
    <3>3. \A d \in Clients : cs'[d].pc \in Owning => cs'[d].url \in URLs
      BY <2>1, <2>2, <2>5 DEF Reserves
    <3>4. AmountInv'
      BY <2>5, <3>1 DEF Reserves, AmountInv
    <3>5. OwnerInv'
      BY <2>1, <2>2, <2>5, <3>1, <3>2 DEF Reserves, OwnerInv
    <3>6. SingleInv'
      BY <2>1, <2>5, <3>2 DEF Reserves, SingleInv
    <3> QED
      BY <3>4, <3>5, <3>6
  <2>6. ASSUME NEW before, NEW from, NEW to, NEW after,
               Marks(c, before, from, to, after), before \in Owning,
               from # "absent",
               after = "idle" \/ (after = "send" /\ to = "SUBMITTED")
        PROVE  AmountInv' /\ OwnerInv' /\ SingleInv'
    <3>1. \A d \in Clients \ {c} : cs[d].pc \in Owning => cs[d].url # cs[c].url
      BY <2>6 DEF Marks, SingleInv
    <3>2. AmountInv'
      BY <2>6 DEF Marks, AmountInv
    <3>3. OwnerInv'
      BY <2>1, <2>2, <2>6, <3>1 DEF Marks, OwnerInv
    <3>4. SingleInv'
      BY <2>1, <2>6, <3>1 DEF Marks, SingleInv
    <3> QED
      BY <3>2, <3>3, <3>4
  <2> QED
    BY <1>2, <2>3, <2>4, <2>5, <2>6, StepKinds
<1> QED
  BY <1>1, <1>2 DEF Next, Settle, Tick, vars

-----------------------------------------------------------------------------
(* Only SendProof sends and only Settle settles.                           *)
LEMMA WhoSends ==
    ASSUME NEW c \in Clients, ClientStep(c)
    PROVE  /\ chain' = chain
           /\ sent' = sent \/ SendProof(c)
  BY DEF ClientStep, RequestMiner, AssertBudget, UnpaidEnds, Challenged, Reserve,
     Sign, SignFails, MarkSubmitted, SendProof, PaidFails, PaidAnswers,
     VerifierConfirms, VerifierDenies, MarkUnknown, MarkSettled, Crash

(* A row that may have been paid for stays one, with its amount: what was  *)
(* sent is never forgotten, and a URL is sent one proof.                   *)
LEMMA SentStep ==
    ASSUME TypeInv, OwnerInv, SingleInv, SentInv, [Next]_vars
    PROVE  SentInv'
<1> USE DEF Owning, Preparing, Committed, Exposable
<1>1. \A t \in sent : t.url \in URLs
  BY DEF TypeInv
<1>2. ASSUME NEW c \in Clients, ClientStep(c) PROVE SentInv'
  <2>1. \A d \in Clients \ {c} : cs'[d] = cs[d]
    BY <1>2, StepKinds
  <2>2. CASE SendProof(c)
    <3>1. /\ rows' = rows /\ cs[c].pc = "send" /\ cs'[c].pc = "paid"
          /\ sent' = sent \cup {[sig |-> cs[c].sig, url |-> cs[c].url,
                                 amount |-> cs[c].amount]}
      BY <2>2, GotoPhase DEF SendProof
    <3>2. /\ rows[cs[c].url].status = "SUBMITTED"
          /\ rows[cs[c].url].amount = cs[c].amount
      BY <3>1 DEF OwnerInv
    <3>3. \A d \in Clients \ {c} : cs[d].pc = "send" => cs[d].url # cs[c].url
      BY <3>1 DEF SingleInv
    <3> QED
      BY <2>1, <3>1, <3>2, <3>3 DEF SentInv
  <2>3. CASE sent' = sent
    <3>1. CASE Abandons(c) \/ (cs'[c].pc = "reserve" /\ rows' = rows) \/ Advances(c)
      BY <2>1, <2>3, <3>1 DEF Abandons, Advances, SentInv
    <3>2. CASE Reserves(c)
      <4>1. \A t \in sent : t.url # cs[c].url
        BY <3>2 DEF Reserves, Unblocked, Blocking, SentInv
      <4>2. \A t \in sent : rows'[t.url] = rows[t.url]
        BY <1>1, <3>2, <4>1 DEF Reserves, TypeInv
      <4> QED
        BY <2>1, <2>3, <3>2, <4>2 DEF Reserves, SentInv
    <3>3. ASSUME NEW before, NEW from, NEW to, NEW after,
                 Marks(c, before, from, to, after),
                 \/ from = "RESERVED" /\ to \in {"ABORTED", "SUBMITTED"}
                 \/ from = "SUBMITTED" /\ to \in {"UNKNOWN", "SETTLED"} /\ after = "idle"
          PROVE  SentInv'
      <4>1. \A t \in sent : t.url = cs[c].url => from = "SUBMITTED"
        BY <3>3 DEF Marks, SentInv
      <4>2. \A t \in sent : /\ rows'[t.url].status \in Exposable
                           /\ rows'[t.url].amount = t.amount
        BY <1>1, <3>3, <4>1 DEF Marks, SentInv
      <4>3. cs'[c].pc = "send" => \A t \in sent : t.url # cs'[c].url
        BY <3>3, <4>1 DEF Marks
      <4> QED
        BY <2>1, <2>3, <4>2, <4>3 DEF SentInv
    <3> QED
      BY <1>2, <3>1, <3>2, <3>3, StepKinds
  <2> QED
    BY <1>2, <2>2, <2>3, WhoSends
<1>3. CASE UNCHANGED <<rows, cs, sent>>
  BY <1>3 DEF SentInv
<1> QED
  BY <1>2, <1>3 DEF Next, Settle, Tick, vars

(* A signed proof is new until it leaves.                                  *)
LEMMA FreshStep ==
    ASSUME TypeInv, OwnerInv, FreshInv, [Next]_vars
    PROVE  FreshInv'
<1> USE DEF Owning, Preparing, Committed
<1>1. ASSUME NEW c \in Clients, ClientStep(c) PROVE FreshInv'
  <2>1. \A d \in Clients \ {c} : cs'[d] = cs[d]
    BY <1>1, StepKinds
  <2>2. CASE SendProof(c)
    <3>1. /\ cs[c].pc = "send" /\ cs'[c].pc = "paid"
          /\ sent' = sent \cup {[sig |-> cs[c].sig, url |-> cs[c].url,
                                 amount |-> cs[c].amount]}
      BY <2>2, GotoPhase DEF SendProof
    <3> QED
      BY <2>1, <3>1 DEF FreshInv
  <2>3. ASSUME NEW p \in Proofs, Sign(c, p) PROVE FreshInv'
    <3>1. cs'[c].sig = p /\ cs'[c].pc = "submit" /\ sent' = sent
      BY <2>3 DEF Sign, Paying, TypeInv
    <3>2. /\ \A t \in sent : t.sig # p
          /\ \A d \in Clients : cs[d].pc \in {"submit", "send"} => cs[d].sig # p
      BY <2>3 DEF Sign
    <3> QED
      BY <2>1, <3>1, <3>2 DEF FreshInv
  <2>4. CASE /\ sent' = sent
             /\ cs'[c].pc \in {"submit", "send"} =>
                    cs[c].pc = "submit" /\ cs'[c].sig = cs[c].sig
    BY <2>1, <2>4 DEF FreshInv
  <2>5. ~SendProof(c) /\ ~(\E p \in Proofs : Sign(c, p)) =>
            /\ sent' = sent
            /\ cs'[c].pc \in {"submit", "send"} =>
                   cs[c].pc = "submit" /\ cs'[c].sig = cs[c].sig
    <3> SUFFICES ASSUME ~SendProof(c), ~(\E p \in Proofs : Sign(c, p))
                 PROVE  /\ sent' = sent
                        /\ cs'[c].pc \in {"submit", "send"} =>
                               cs[c].pc = "submit" /\ cs'[c].sig = cs[c].sig
      OBVIOUS
    <3>1. sent' = sent
      BY <1>1, WhoSends
    <3>2. cs[c].pc = "sign" => cs'[c].pc # "submit"
      BY <1>1, LeavePhase DEF ClientStep, RequestMiner, AssertBudget, UnpaidEnds,
         Challenged, Reserve, SignFails, MarkSubmitted, SendProof, PaidFails,
         PaidAnswers, VerifierConfirms, VerifierDenies, MarkUnknown, MarkSettled,
         Crash, Idle
    <3> QED
      BY <1>1, <3>1, <3>2, StepKinds DEF Abandons, Reserves, Advances, Marks
  <2> QED
    BY <2>2, <2>3, <2>4, <2>5
<1>2. CASE UNCHANGED <<cs, sent>>
  BY <1>2 DEF FreshInv
<1> QED
  BY <1>1, <1>2 DEF Next, Settle, Tick, vars

(* A settled row is final, and a response is handed out with it.           *)
LEMMA SettledStep ==
    ASSUME TypeInv, OwnerInv, SettledInv, [Next]_vars
    PROVE  SettledInv'
<1> USE DEF Owning, Preparing, Committed
<1>1. ASSUME NEW c \in Clients, ClientStep(c) PROVE SettledInv'
  <2>1. \A d \in Clients \ {c} : cs'[d] = cs[d]
    BY <1>1, StepKinds
  <2>2. chain' = chain
    BY <1>1, WhoSends
  <2>3. \A c1 \in Clients : cs'[c1].pc = "settled" => cs'[c1].sig \in chain
    <3>1. cs'[c].pc = "settled" => cs'[c].sig \in chain
      BY <1>1, StepKinds DEF Abandons, Reserves, Advances, Marks
    <3> QED
      BY <2>1, <3>1 DEF SettledInv
  <2>4. \A u \in URLs : rows[u].status = "SETTLED" => rows'[u].status = "SETTLED"
    <3>1. CASE Reserves(c)
      <4>1. rows[cs[c].url].status # "SETTLED"
        BY <3>1 DEF Reserves, Unblocked, Blocking
      <4> QED
        BY <3>1, <4>1 DEF Reserves, TypeInv
    <3> QED
      BY <1>1, <3>1, StepKinds DEF Abandons, Advances, Marks
  <2>5. CASE MarkSettled(c)
    <3>1. cs[c].pc = "settled" /\ cs[c].url \in URLs /\ cs[c].sig \in chain
      BY <2>5, CallShape DEF MarkSettled, SettledInv
    <3>2. rows[cs[c].url].status = "SUBMITTED"
      BY <3>1 DEF OwnerInv
    <3>3. rows'[cs[c].url].status = "SETTLED"
      BY <2>5, <3>1, <3>2, TransitionRows DEF MarkSettled, Statuses
    <3>4. answered' = answered \cup {[sig |-> cs[c].sig, url |-> cs[c].url]}
      BY <2>5, <3>2 DEF MarkSettled
    <3> QED
      BY <2>2, <2>3, <2>4, <3>1, <3>3, <3>4 DEF SettledInv, AnsweredIsSettled
  <2>6. CASE answered' = answered
    BY <2>2, <2>3, <2>4, <2>6 DEF SettledInv, AnsweredIsSettled
  <2> QED
    BY <1>1, <2>5, <2>6 DEF ClientStep, RequestMiner, AssertBudget, UnpaidEnds,
       Challenged, Reserve, Sign, SignFails, MarkSubmitted, SendProof, PaidFails,
       PaidAnswers, VerifierConfirms, VerifierDenies, MarkUnknown, Crash
<1>2. CASE UNCHANGED <<rows, cs, answered>> /\ chain \subseteq chain'
  BY <1>2 DEF SettledInv, AnsweredIsSettled
<1> QED
  BY <1>1, <1>2 DEF Next, Settle, Tick, vars

-----------------------------------------------------------------------------
(* Sets of URLs and of the units they hold are finite.                     *)
LEMMA ClientFinite ==
    ASSUME NEW S \in SUBSET URLs
    PROVE  /\ IsFiniteSet(S) /\ Cardinality(S) \in Nat
           /\ IsFiniteSet(Units(S)) /\ Cardinality(Units(S)) \in Nat
<1>1. IsFiniteSet(S)
  BY ClientAssumption, FS_Subset
<1>2. IsFiniteSet(1..MaxPayment)
  BY ClientAssumption, FS_Interval
<1>3. IsFiniteSet(S \X (1..MaxPayment))
  BY <1>1, <1>2, FS_Product
<1>4. Units(S) \in SUBSET (S \X (1..MaxPayment))
  BY DEF Units
<1>5. IsFiniteSet(Units(S))
  BY <1>3, <1>4, FS_Subset
<1> QED
  BY <1>1, <1>5, FS_CardinalityType

(* A set of URLs and one more, which holds a units.                        *)
LEMMA OneMoreURL ==
    ASSUME NEW S \in SUBSET URLs, NEW u \in URLs, u \notin S, NEW a \in 1..MaxPayment
    PROVE  /\ Cardinality(S \cup {u}) = Cardinality(S) + 1
           /\ Cardinality(Units(S) \cup ({u} \X (1..a))) = Cardinality(Units(S)) + a
<1>1. /\ IsFiniteSet(S) /\ IsFiniteSet(Units(S)) /\ Cardinality(Units(S)) \in Nat
      /\ a \in Nat
  BY ClientFinite, ClientAssumption
<1>2. Cardinality(S \cup {u}) = Cardinality(S) + 1
  BY <1>1, FS_AddElement
<1>3. IsFiniteSet({u} \X (1..a)) /\ Cardinality({u} \X (1..a)) = a
  <2>1. IsFiniteSet({u}) /\ Cardinality({u}) = 1
    BY FS_Singleton
  <2>2. IsFiniteSet(1..a) /\ Cardinality(1..a) = a
    BY <1>1, FS_Interval
  <2>3. /\ IsFiniteSet({u} \X (1..a))
        /\ Cardinality({u} \X (1..a)) = Cardinality({u}) * Cardinality(1..a)
    BY <2>1, <2>2, FS_Product
  <2>4. Cardinality({u} \X (1..a)) = 1 * a
    BY <2>1, <2>2, <2>3
  <2> QED
    BY <1>1, <2>3, <2>4
<1>4. Units(S) \cap ({u} \X (1..a)) = {}
  BY DEF Units
<1>5. Cardinality(Units(S) \cap ({u} \X (1..a))) = 0
  BY <1>4, FS_EmptySet
<1>6. Cardinality(Units(S) \cup ({u} \X (1..a)))
        = Cardinality(Units(S)) + Cardinality({u} \X (1..a))
          - Cardinality(Units(S) \cap ({u} \X (1..a)))
  BY <1>1, <1>3, FS_Union
<1> QED
  BY <1>1, <1>2, <1>3, <1>5, <1>6

(* The units of a set and one more, by their definition.                   *)
LEMMA UnitsOfOneMore ==
    ASSUME NEW S \in SUBSET URLs, NEW u \in URLs, u \notin S,
           NEW a \in 1..MaxPayment, NEW amount,
           \A v \in S : amount[v] = rows[v].amount, amount[u] = a
    PROVE  {x \in (S \cup {u}) \X (1..MaxPayment) : x[2] <= amount[x[1]]}
             = Units(S) \cup ({u} \X (1..a))
<1> DEFINE T == {x \in (S \cup {u}) \X (1..MaxPayment) : x[2] <= amount[x[1]]}
<1>1. MaxPayment \in Nat /\ a \in Nat /\ 1..a \subseteq 1..MaxPayment
  BY ClientAssumption
<1>2. ASSUME NEW x \in T PROVE x \in Units(S) \cup ({u} \X (1..a))
  <2>1. CASE x[1] \in S
    BY <2>1 DEF Units
  <2>2. CASE x[1] = u
    <3>1. x = <<u, x[2]>> /\ x[2] \in 1..a
      BY <1>1, <2>2
    <3> QED
      BY <3>1
  <2> QED
    BY <2>1, <2>2
<1>3. ASSUME NEW x \in Units(S) PROVE x \in T
  BY DEF Units
<1>4. ASSUME NEW x \in {u} \X (1..a) PROVE x \in T
  BY <1>1
<1> QED
  BY <1>2, <1>3, <1>4

(* reserve() checks both budgets in the transaction that charges the row;  *)
(* no other step charges one.                                              *)
LEMMA ClientBudgetStep ==
    ASSUME TypeInv, OwnerInv, BudgetInv, [Next]_vars
    PROVE  BudgetInv'
<1>1. /\ Charged \in SUBSET URLs /\ Cardinality(Charged) \in Nat
      /\ Cardinality(Units(Charged)) \in Nat
      /\ IsFiniteSet(Charged) /\ IsFiniteSet(Units(Charged))
  BY ClientFinite DEF Charged
<1>2. ASSUME Charged' \in SUBSET Charged, \A u \in Charged' : rows'[u].amount = rows[u].amount
      PROVE  BudgetInv'
  <2>1. Units(Charged)' \in SUBSET Units(Charged)
    BY <1>2 DEF Units
  <2>2. /\ Cardinality(Charged') <= Cardinality(Charged)
        /\ Cardinality(Units(Charged)') <= Cardinality(Units(Charged))
        /\ Cardinality(Charged') \in Nat /\ Cardinality(Units(Charged)') \in Nat
    BY <1>1, <1>2, <2>1, FS_Subset, FS_CardinalityType
  <2> QED
    BY <1>1, <2>2, ClientAssumption DEF BudgetInv
<1>3. ASSUME NEW c \in Clients, Reserves(c) PROVE BudgetInv'
  <2> DEFINE u == cs[c].url
             a == cs[c].amount
  <2>1. /\ u \in URLs /\ a \in 1..MaxPayment /\ u \notin Charged
        /\ WithinBudget(a)
        /\ rows' = [rows EXCEPT ![u] = [status |-> "RESERVED", amount |-> a]]
    BY <1>3 DEF Reserves, Unblocked, Charged
  <2>2. Charged' = Charged \cup {u}
    BY <2>1 DEF Charged, Blocking, TypeInv
  <2>3. Units(Charged)' = Units(Charged) \cup ({u} \X (1..a))
    <3> DEFINE amount == [v \in URLs |-> rows'[v].amount]
    <3>1. /\ \A v \in Charged : amount[v] = rows[v].amount
          /\ amount[u] = a
      BY <1>1, <2>1 DEF TypeInv
    <3>2. Units(Charged)' = {x \in (Charged \cup {u}) \X (1..MaxPayment) : x[2] <= amount[x[1]]}
      BY <1>1, <2>1, <2>2 DEF Units
    <3> HIDE DEF amount, u, a
    <3> QED
      BY <1>1, <2>1, <3>1, <3>2, UnitsOfOneMore
  <2>4. /\ Cardinality(Charged') = Cardinality(Charged) + 1
        /\ Cardinality(Units(Charged)') = Cardinality(Units(Charged)) + a
    BY <1>1, <2>1, <2>2, <2>3, OneMoreURL
  <2> QED
    BY <1>1, <2>1, <2>4, ClientAssumption DEF WithinBudget, BudgetInv
<1>4. ASSUME NEW c \in Clients, ClientStep(c) PROVE BudgetInv'
  <2>1. CASE rows' = rows
    BY <1>2, <2>1 DEF Charged
  <2>2. ASSUME NEW before, NEW from \in Blocking, NEW to, NEW after,
               Marks(c, before, from, to, after)
        PROVE  BudgetInv'
    BY <1>2, <2>2 DEF Marks, Charged
  <2> QED
    BY <1>3, <1>4, <2>1, <2>2, StepKinds DEF Abandons, Advances, Blocking
<1>5. CASE UNCHANGED rows
  BY <1>2, <1>5 DEF Charged
<1> QED
  BY <1>4, <1>5 DEF Next, Settle, Tick, vars

LEMMA ClientInvInit == Init => ClientInv
<1> SUFFICES ASSUME Init PROVE ClientInv
  OBVIOUS
<1> USE DEF Init, EmptyJournal, Idle
<1>1. TypeInv
  BY ClientAssumption DEF TypeInv, Calls, Statuses
<1>2. AmountInv /\ SentInv /\ SettledInv
  BY DEF AmountInv, SentInv, SettledInv, AnsweredIsSettled
<1>3. OwnerInv /\ SingleInv /\ FreshInv
  BY DEF OwnerInv, SingleInv, FreshInv, Owning, Preparing, Committed
<1>4. Charged = {} /\ Units(Charged) = {}
  BY DEF Charged, Units, Blocking
<1>5. BudgetInv
  BY <1>4, FS_EmptySet, ClientAssumption DEF BudgetInv
<1> QED
  BY <1>1, <1>2, <1>3, <1>5 DEF ClientInv

LEMMA ClientInvStep == ClientInv /\ [Next]_vars => ClientInv'
  BY TypeStep, OwnerStep, SentStep, FreshStep, SettledStep, ClientBudgetStep
     DEF ClientInv

(* request_miner() and its journal: calls own the rows they reserve, the   *)
(* charged rows fit both budgets, and what was sent is never forgotten,    *)
(* for any number of calls and crashes.                                    *)
THEOREM ClientInvariant == Spec => []ClientInv
  BY ClientInvInit, ClientInvStep, PTL DEF Spec

(* _verify_and_settle(): a response that was handed out is paid for, and   *)
(* its row stays settled.                                                  *)
THEOREM ClientAnswersSettled == Spec => []AnsweredIsSettled
<1>1. ClientInv => AnsweredIsSettled
  BY DEF ClientInv, SettledInv
<1> QED
  BY <1>1, ClientInvariant, PTL

-----------------------------------------------------------------------------
(* What the promise sees of the client.                                    *)
HeldBy == [u \in URLs |-> IF rows[u].status \in Exposable THEN rows[u].amount ELSE 0]

UsedURLs == {u \in URLs : rows[u].status \in Exposable}

ExposedProofs == {[sig |-> t.sig, key |-> t.url, amount |-> t.amount] : t \in sent}

(* The instance counts with its own copy of Cardinality.                   *)
LEMMA ClientSameCardinality == \A S : Promise!Cardinality(S) = Cardinality(S)
  BY DEF Promise!Cardinality, Cardinality

(* What the promise counts are the rows that may have been paid for.       *)
LEMMA HeldIsUsed ==
    ASSUME TypeInv, AmountInv
    PROVE  /\ {u \in URLs : HeldBy[u] > 0} = UsedURLs
           /\ {x \in URLs \X (1..MaxPayment) : x[2] <= HeldBy[x[1]]} = Units(UsedURLs)
<1>1. \A u \in UsedURLs : rows[u].amount \in 1..MaxPayment
  BY DEF UsedURLs, Exposable, AmountInv
<1>2. \A u \in URLs : HeldBy[u] = IF u \in UsedURLs THEN rows[u].amount ELSE 0
  BY DEF HeldBy, UsedURLs
<1>3. UsedURLs \in SUBSET URLs
  BY DEF UsedURLs
<1>4. MaxPayment \in Nat
  BY ClientAssumption
<1>5. {u \in URLs : HeldBy[u] > 0} = UsedURLs
  BY <1>1, <1>2, <1>3, <1>4
<1>6. ASSUME NEW u \in URLs, NEW i \in 1..MaxPayment
      PROVE  i <= HeldBy[u] <=> u \in UsedURLs /\ i <= rows[u].amount
  BY <1>1, <1>2, <1>4
<1>7. {x \in URLs \X (1..MaxPayment) : x[2] <= HeldBy[x[1]]} = Units(UsedURLs)
  BY <1>3, <1>6 DEF Units
<1> QED
  BY <1>5, <1>7

(* mark_submitted() grants: the row was charged already, and now counts    *)
(* among those that may have been paid for.                                *)
LEMMA MarkGrants ==
    ASSUME ClientInv, NEW c \in Clients,
           Marks(c, "submit", "RESERVED", "SUBMITTED", "send"),
           sent' = sent, chain' = chain, NEW u \in URLs, NEW a \in 1..MaxPayment,
           u = cs[c].url, a = rows[u].amount
    PROVE  Promise!Grant(u, a)
<1>1. /\ u \notin UsedURLs /\ u \in Charged
      /\ rows'[u].status = "SUBMITTED" /\ rows'[u].amount = a
      /\ \A v \in URLs \ {u} : rows'[v] = rows[v]
  BY DEF Marks, ClientInv, AmountInv, UsedURLs, Exposable, Charged, Blocking
<1>2. /\ UsedURLs \in SUBSET URLs /\ UsedURLs \cup {u} \in SUBSET Charged
      /\ Charged \in SUBSET URLs
  BY <1>1 DEF UsedURLs, Exposable, Charged, Blocking
<1>3. Units(UsedURLs) \cup ({u} \X (1..a)) \in SUBSET Units(Charged)
  <2>1. 1..a \subseteq 1..MaxPayment
    BY <1>1, ClientAssumption
  <2>2. {u} \X (1..a) \subseteq Units(Charged)
    BY <1>1, <2>1 DEF Units
  <2>3. Units(UsedURLs) \subseteq Units(Charged)
    BY <1>2 DEF Units
  <2> QED
    BY <2>2, <2>3
<1>4. /\ Cardinality(UsedURLs) + 1 <= Cardinality(Charged)
      /\ Cardinality(Units(UsedURLs)) + a <= Cardinality(Units(Charged))
  <2>1. /\ IsFiniteSet(Charged) /\ IsFiniteSet(Units(Charged))
    BY <1>2, ClientFinite
  <2>2. /\ Cardinality(UsedURLs \cup {u}) <= Cardinality(Charged)
        /\ Cardinality(Units(UsedURLs) \cup ({u} \X (1..a))) <= Cardinality(Units(Charged))
    BY <1>2, <1>3, <2>1, FS_Subset
  <2> QED
    BY <1>1, <1>2, <2>2, OneMoreURL
<1>5. /\ Cardinality(Charged) \in Nat /\ Cardinality(Units(Charged)) \in Nat
      /\ Cardinality(UsedURLs) \in Nat /\ Cardinality(Units(UsedURLs)) \in Nat
      /\ a \in Nat
  BY <1>1, <1>2, ClientFinite
<1>6. Cardinality(UsedURLs) < MaxPaid /\ Cardinality(Units(UsedURLs)) + a <= MaxTotal
  BY <1>4, <1>5, ClientAssumption DEF ClientInv, BudgetInv
<1>7. /\ Promise!Holders = UsedURLs
      /\ Promise!HeldUnits = Units(UsedURLs)
  <2>1. /\ Promise!Holders = {v \in URLs : HeldBy[v] > 0}
        /\ Promise!HeldUnits = {x \in URLs \X (1..MaxPayment) : x[2] <= HeldBy[x[1]]}
    BY DEF Promise!Holders, Promise!HeldUnits, HeldBy, Exposable
  <2> QED
    BY <2>1, HeldIsUsed DEF ClientInv
<1>8. HeldBy' = [HeldBy EXCEPT ![u] = a]
  BY <1>1 DEF HeldBy, Exposable
<1>9. UsedURLs' = UsedURLs \cup {u}
  BY <1>1 DEF UsedURLs, Exposable
<1>10. ExposedProofs' = ExposedProofs
  BY DEF ExposedProofs
<1> QED
  BY <1>1, <1>6, <1>7, <1>8, <1>9, <1>10, ClientSameCardinality
     DEF Promise!Grant, HeldBy, UsedURLs, ExposedProofs, Exposable

(* The paid request exposes the amount its URL holds.                      *)
LEMMA SendExposesProof ==
    ASSUME ClientInv, NEW c \in Clients, SendProof(c),
           NEW u \in URLs, NEW s \in Proofs, u = cs[c].url, s = cs[c].sig
    PROVE  Promise!Expose(u, s)
<1>1. cs[c].pc = "send"
  BY DEF SendProof
<1>2. /\ cs[c].amount \in 1..MaxPayment
      /\ \A t \in sent : t.url # u /\ t.sig # s
      /\ rows[u].status = "SUBMITTED" /\ rows[u].amount = cs[c].amount
  BY <1>1, CallShape
     DEF ClientInv, SentInv, FreshInv, OwnerInv, Owning, Committed
<1>3. HeldBy[u] = cs[c].amount /\ HeldBy[u] > 0
  BY <1>2, ClientAssumption DEF HeldBy, Exposable
<1>4. ExposedProofs' = ExposedProofs \cup {[sig |-> s, key |-> u, amount |-> HeldBy[u]]}
  <2> DEFINE e == [sig |-> s, url |-> u, amount |-> HeldBy[u]]
  <2>1. sent' = sent \cup {e}
    BY <1>3 DEF SendProof
  <2>2. /\ e.sig = s /\ e.url = u /\ e.amount = HeldBy[u]
    OBVIOUS
  <2> HIDE DEF e
  <2> QED
    BY <2>1, <2>2 DEF ExposedProofs
<1>5. \A t \in ExposedProofs : t.key # u /\ t.sig # s
  BY <1>2 DEF ExposedProofs
<1>6. UNCHANGED <<HeldBy, UsedURLs, chain>>
  BY DEF SendProof, HeldBy, UsedURLs
<1> QED
  BY <1>3, <1>4, <1>5, <1>6
     DEF Promise!Expose, HeldBy, UsedURLs, ExposedProofs, Exposable

LEMMA ClientSimulation ==
    ASSUME ClientInv, [Next]_vars
    PROVE  [Promise!Next]_(Promise!promiseVars)
<1>1. ASSUME HeldBy' = HeldBy, UsedURLs' = UsedURLs, UNCHANGED <<sent, chain>>
      PROVE  UNCHANGED Promise!promiseVars
  BY <1>1 DEF Promise!promiseVars, HeldBy, UsedURLs, Exposable
<1>2. ASSUME NEW c \in Clients, ClientStep(c)
      PROVE  [Promise!Next]_(Promise!promiseVars)
  <2>1. CASE SendProof(c)
    <3>1. cs[c].url \in URLs /\ cs[c].sig \in Proofs
      BY <2>1, CallShape DEF SendProof, ClientInv, FreshInv, Owning, Committed
    <3> QED
      BY <2>1, <3>1, SendExposesProof DEF Promise!Next
  <2>2. CASE sent' = sent
    <3>1. chain' = chain
      BY <1>2, WhoSends
    <3>2. CASE Marks(c, "submit", "RESERVED", "SUBMITTED", "send")
      <4>1. /\ cs[c].url \in URLs
            /\ rows[cs[c].url].amount \in 1..MaxPayment
        BY <3>2 DEF Marks, ClientInv, AmountInv
      <4> QED
        BY <2>2, <3>1, <3>2, <4>1, MarkGrants DEF Promise!Next
    <3>3. ASSUME \A u \in URLs :
                   /\ rows'[u].status \in Exposable <=> rows[u].status \in Exposable
                   /\ rows[u].status \in Exposable => rows'[u].amount = rows[u].amount
          PROVE  UNCHANGED Promise!promiseVars
      BY <1>1, <2>2, <3>1, <3>3 DEF HeldBy, UsedURLs
    <3>4. CASE Reserves(c)
      <4>1. rows[cs[c].url].status \notin Exposable
        BY <3>4 DEF Reserves, Unblocked, Blocking, Exposable
      <4> QED
        BY <3>3, <3>4, <4>1 DEF Reserves, Exposable, ClientInv, TypeInv
    <3>5. ASSUME NEW before, NEW from, NEW to, NEW after,
                 Marks(c, before, from, to, after),
                 from \in Exposable <=> to \in Exposable
          PROVE  UNCHANGED Promise!promiseVars
      BY <3>3, <3>5 DEF Marks
    <3> QED
      BY <1>2, <3>2, <3>3, <3>4, <3>5, StepKinds
         DEF ClientInv, Abandons, Advances, Exposable
  <2> QED
    BY <1>2, <2>1, <2>2, WhoSends
<1>3. ASSUME NEW t \in sent, Settle(t)
      PROVE  [Promise!Next]_(Promise!promiseVars)
  <2> DEFINE e == [sig |-> t.sig, key |-> t.url, amount |-> t.amount]
  <2>1. e \in ExposedProofs
    BY DEF ExposedProofs
  <2>2. Promise!Confirm(e)
    BY <1>3 DEF Settle, Promise!Confirm, HeldBy, UsedURLs
  <2> QED
    BY <2>1, <2>2 DEF Promise!Next, ExposedProofs
<1>4. CASE UNCHANGED <<rows, sent, chain>>
  BY <1>1, <1>4 DEF HeldBy, UsedURLs
<1> QED
  BY <1>2, <1>3, <1>4 DEF Next, Tick, vars

(* TelegraphX402Client and SqlitePaymentJournal: whatever calls overlap    *)
(* between the first look at the journal and the reservation, and wherever *)
(* a process dies, the client implements the promise about spending.       *)
THEOREM ClientImplementsPromise == Spec => ClientKeepsPromise
<1>1. Init => Promise!Init
  <2> SUFFICES ASSUME Init PROVE Promise!Init
    OBVIOUS
  <2>1. \A u \in URLs : rows[u].status = "absent"
    BY DEF Init, EmptyJournal
  <2> QED
    BY <2>1 DEF Init, Promise!Init
<1>2. ClientInv /\ [Next]_vars => [Promise!Next]_(Promise!promiseVars)
  BY ClientSimulation
<1> QED
  BY <1>1, <1>2, ClientInvariant, PTL DEF Spec, ClientKeepsPromise, Promise!Spec
=============================================================================

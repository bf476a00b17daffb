------------------------ MODULE ForecastServiceProofs ------------------------
(***************************************************************************)
(* Theorems about the Miner's receipts for every number of handlers, every *)
(* set of questions and orders, every initial file and every capacity.     *)
(*                                                                         *)
(* The first part is about the hash chain alone: two stores have the same  *)
(* head exactly when they hold the same receipts.  The library states      *)
(* induction for an operator, which none of the provers instantiates; the  *)
(* same principle for a set of numbers follows from the well-foundedness   *)
(* of < on Nat, and all inductions below are by it.                        *)
(***************************************************************************)
EXTENDS ForecastService, SequenceTheorems, WellFoundedInduction, TLAPS

-----------------------------------------------------------------------------
(* Every set of natural numbers that is not empty has a least member.      *)
LEMMA LeastNat ==
    ASSUME NEW T, T \subseteq Nat, T # {}
    PROVE  \E n \in T : \A m \in T : n <= m
<1> DEFINE Less == {ss \in Nat \X Nat : ss[1] < ss[2]}
<1>1. IsWellFoundedOn(Less, Nat)
  BY NatLessThanWellFounded, Zenon DEF OpToRel
<1>2. PICK n \in T : \A m \in T : <<m, n>> \notin Less
  <2> HIDE DEF Less
  <2> QED
    BY <1>1, WFMin, Zenon
<1>3. ASSUME NEW m \in T
      PROVE  n <= m
  <2>1. <<m, n>> \in Nat \X Nat /\ <<m, n>> \notin Less
    BY <1>2
  <2> QED
    BY <2>1
<1> QED
  BY <1>3

(* Induction on the members of a set.                                      *)
LEMMA SetInduction ==
    ASSUME NEW S, 0 \in S, \A n \in Nat : n \in S => n + 1 \in S
    PROVE  Nat \subseteq S
<1>1. SUFFICES ASSUME Nat \ S # {}
               PROVE  FALSE
  OBVIOUS
<1>2. PICK n \in Nat \ S : \A m \in Nat \ S : n <= m
  BY <1>1, LeastNat
<1>3. n - 1 \in Nat /\ n - 1 \notin Nat \ S
  BY <1>2
<1> QED
  BY <1>2, <1>3

-----------------------------------------------------------------------------
(* What chain_head() hashes for the i-th receipt, on top of the hash of    *)
(* the receipts before it, and the equation of the hashes up to n.         *)
Link(t, i, below) == <<"sha256", below, EventOf(t[i]), Digest(t[i].receipt)>>

Links(t, n, c) ==
    c = [i \in 0..n |-> IF i = 0 THEN <<"domain">> ELSE Link(t, i, c[i - 1])]

(* The hashes exist for every length.                                      *)
LEMMA LinksExist ==
    ASSUME NEW t, NEW n \in Nat
    PROVE  \E c : Links(t, n, c)
<1> DEFINE S == {k \in Nat : \E c : Links(t, k, c)}
<1>1. 0 \in S
  <2> DEFINE c == [i \in 0..0 |-> <<"domain">>]
  <2>1. Links(t, 0, c)
    BY DEF Links
  <2> QED
    BY <2>1
<1>2. ASSUME NEW k \in Nat, k \in S
      PROVE  k + 1 \in S
  <2>1. PICK c : Links(t, k, c)
    BY <1>2
  <2> DEFINE d == [i \in 0..(k + 1) |->
                       IF i = 0 THEN <<"domain">> ELSE Link(t, i, c[i - 1])]
  <2>2. \A i \in 0..k : c[i] = IF i = 0 THEN <<"domain">> ELSE Link(t, i, c[i - 1])
    BY <2>1 DEF Links
  <2>3. \A i \in 0..k : d[i] = c[i]
    BY <2>2
  <2>4. \A i \in 1..(k + 1) : d[i - 1] = c[i - 1]
    <3> HIDE DEF d
    <3> QED
      BY <2>3
  <2>5. Links(t, k + 1, d)
    <3> DEFINE e == [i \in 0..(k + 1) |->
                         IF i = 0 THEN <<"domain">> ELSE Link(t, i, d[i - 1])]
    <3>1. ASSUME NEW i \in 0..(k + 1)
          PROVE  d[i] = e[i]
      <4>1. CASE i = 0
        BY <4>1
      <4>2. CASE i # 0
        <5>1. i \in 1..(k + 1) /\ d[i] = Link(t, i, c[i - 1])
          BY <4>2
        <5>2. e[i] = Link(t, i, d[i - 1])
          BY <4>2
        <5> HIDE DEF d, e
        <5> QED
          BY <5>1, <5>2, <2>4
      <4> QED
        BY <4>1, <4>2
    <3>2. d = e
      BY <3>1
    <3> QED
      BY <3>2 DEF Links
  <2> HIDE DEF d
  <2> QED
    BY <2>5
<1>3. Nat \subseteq S
  <2> HIDE DEF S
  <2> QED
    BY <1>1, <1>2, SetInduction
<1> QED
  BY <1>3

(* They are determined by the receipts they hash, however many follow.     *)
LEMMA LinksAgree ==
    ASSUME NEW t, NEW m \in Nat, NEW n \in Nat, m <= n,
           NEW c, NEW d, Links(t, m, c), Links(t, n, d)
    PROVE  c[m] = d[m]
<1> DEFINE S == {k \in Nat : k <= m => c[k] = d[k]}
<1>1. \A i \in 0..m : c[i] = IF i = 0 THEN <<"domain">> ELSE Link(t, i, c[i - 1])
  BY DEF Links
<1>2. \A i \in 0..n : d[i] = IF i = 0 THEN <<"domain">> ELSE Link(t, i, d[i - 1])
  BY DEF Links
<1>3. 0 \in S
  BY <1>1, <1>2
<1>4. ASSUME NEW k \in Nat, k \in S
      PROVE  k + 1 \in S
  <2>1. SUFFICES ASSUME k + 1 <= m
                 PROVE  c[k + 1] = d[k + 1]
    OBVIOUS
  <2>2. c[k] = d[k]
    BY <1>4, <2>1
  <2>3. c[k + 1] = Link(t, k + 1, c[k])
    BY <1>1, <2>1
  <2>4. d[k + 1] = Link(t, k + 1, d[k])
    BY <1>2, <2>1
  <2> QED
    BY <2>2, <2>3, <2>4
<1>5. Nat \subseteq S
  <2> HIDE DEF S
  <2> QED
    BY <1>3, <1>4, SetInduction
<1> QED
  BY <1>5

(* Chain is a member of the hashes.                                        *)
LEMMA ChainIsLinks ==
    ASSUME NEW t, NEW n \in Nat
    PROVE  \E c : Links(t, n, c) /\ Chain(t, n) = c[n]
<1>1. PICK c : c = CHOOSE d : Links(t, n, d)
  OBVIOUS
<1>2. Links(t, n, c)
  BY <1>1, LinksExist
<1>3. Chain(t, n) = c[n]
  BY <1>1 DEF Chain, Links, Link
<1> QED
  BY <1>2, <1>3

LEMMA ChainStart == \A t : Chain(t, 0) = <<"domain">>
<1> TAKE t
<1>1. PICK c : Links(t, 0, c) /\ Chain(t, 0) = c[0]
  BY ChainIsLinks
<1> QED
  BY <1>1 DEF Links

LEMMA ChainGrows ==
    ASSUME NEW t, NEW n \in Nat
    PROVE  Chain(t, n + 1) = Link(t, n + 1, Chain(t, n))
<1>1. PICK c : Links(t, n, c) /\ Chain(t, n) = c[n]
  BY ChainIsLinks
<1>2. PICK d : Links(t, n + 1, d) /\ Chain(t, n + 1) = d[n + 1]
  BY ChainIsLinks
<1>3. c[n] = d[n]
  BY <1>1, <1>2, LinksAgree
<1>4. d[n + 1] = Link(t, n + 1, d[n])
  BY <1>2 DEF Links
<1> QED
  BY <1>1, <1>2, <1>3, <1>4

(* Equal heads, equal receipts: chain_head() of the first n receipts tells *)
(* apart any two stores that differ in one of them.                        *)
THEOREM ChainTellsReceipts ==
    ASSUME NEW s, NEW t, NEW n \in Nat
    PROVE  Chain(s, n) = Chain(t, n)
               <=> \A i \in 1..n : s[i].receipt = t[i].receipt
<1> DEFINE Same(k) == \A i \in 1..k : s[i].receipt = t[i].receipt
           S == {k \in Nat : Chain(s, k) = Chain(t, k) <=> Same(k)}
<1>1. 0 \in S
  BY ChainStart
<1>2. ASSUME NEW k \in Nat, k \in S
      PROVE  k + 1 \in S
  <2>1. Chain(s, k) = Chain(t, k) <=> Same(k)
    BY <1>2
  <2>2. Same(k + 1) <=> Same(k) /\ s[k + 1].receipt = t[k + 1].receipt
    OBVIOUS
  <2>3. Chain(s, k + 1) = Link(s, k + 1, Chain(s, k))
    BY ChainGrows
  <2>4. Chain(t, k + 1) = Link(t, k + 1, Chain(t, k))
    BY ChainGrows
  <2>5. Link(s, k + 1, Chain(s, k)) = Link(t, k + 1, Chain(t, k))
            <=> /\ Chain(s, k) = Chain(t, k)
                /\ s[k + 1].receipt = t[k + 1].receipt
    BY DEF Link, EventOf, Digest
  <2> HIDE DEF Same
  <2>6. Chain(s, k + 1) = Chain(t, k + 1) <=> Same(k + 1)
    BY <2>1, <2>2, <2>3, <2>4, <2>5
  <2> QED
    BY <2>6
<1>3. Nat \subseteq S
  <2> HIDE DEF S
  <2> QED
    BY <1>1, <1>2, SetInduction
<1> QED
  BY <1>3

-----------------------------------------------------------------------------
(* Files of receipts.                                                      *)

(* A file ends with its last row and has a row at every place before it.   *)
LEMMA FileShape ==
    ASSUME NEW t, Receipts(t)
    PROVE  /\ Len(t) \in Nat
           /\ DOMAIN t = 1..Len(t)
           /\ \A i \in 1..Len(t) : Receipt(t[i].receipt)
  BY LenProperties DEF Receipts

LEMMA AppendedFile ==
    ASSUME NEW t, Receipts(t), NEW row, Receipt(row.receipt)
    PROVE  /\ Receipts(Append(t, row))
           /\ Len(Append(t, row)) = Len(t) + 1
           /\ \A i \in 1..Len(t) : Append(t, row)[i] = t[i]
           /\ Append(t, row)[Len(t) + 1] = row
<1> DEFINE S == {t[i] : i \in DOMAIN t} \cup {row}
           u == Append(t, row)
<1>1. t \in Seq(S)
  BY SeqMonotonic DEF Receipts
<1>2. /\ u \in Seq(S)
      /\ Len(u) = Len(t) + 1
      /\ \A i \in 1..Len(t) : u[i] = t[i]
      /\ u[Len(t) + 1] = row
  <2>1. row \in S
    OBVIOUS
  <2> HIDE DEF S
  <2> QED
    BY <1>1, <2>1, AppendProperties
<1>3. Len(t) \in Nat
  BY FileShape
<1>4. DOMAIN u = 1..(Len(t) + 1)
  BY <1>2, LenProperties
<1> HIDE DEF u
<1>5. S \subseteq {u[i] : i \in DOMAIN u}
  <2>1. \A i \in DOMAIN t : i \in DOMAIN u /\ u[i] = t[i]
    BY <1>2, <1>3, <1>4, FileShape
  <2>2. Len(t) + 1 \in DOMAIN u
    BY <1>3, <1>4
  <2> QED
    BY <1>2, <2>1, <2>2
<1>6. u \in Seq({u[i] : i \in DOMAIN u})
  BY <1>2, <1>5, SeqMonotonic
<1>7. \A i \in DOMAIN u : Receipt(u[i].receipt)
  BY <1>2, <1>3, <1>4, FileShape
<1> QED
  BY <1>2, <1>6, <1>7 DEF Receipts, u

LEMMA EditedFile ==
    ASSUME NEW t, Receipts(t), NEW i \in 1..Len(t), NEW row, Receipt(row.receipt)
    PROVE  LET u == [t EXCEPT ![i] = row]
           IN /\ Receipts(u)
              /\ Len(u) = Len(t)
              /\ \A j \in 1..Len(t) : u[j] = IF j = i THEN row ELSE t[j]
<1> DEFINE S == {t[j] : j \in DOMAIN t} \cup {row}
           u == [t EXCEPT ![i] = row]
<1>1. t \in Seq(S)
  BY SeqMonotonic DEF Receipts
<1>2. /\ u \in Seq(S)
      /\ Len(u) = Len(t)
      /\ \A j \in 1..Len(t) : u[j] = IF j = i THEN row ELSE t[j]
  <2>1. row \in S
    OBVIOUS
  <2> HIDE DEF S
  <2> QED
    BY <1>1, <2>1, ExceptSeq
<1>3. DOMAIN u = 1..Len(t) /\ DOMAIN t = 1..Len(t)
  BY FileShape
<1>4. \A j \in DOMAIN u : u[j] \in {u[k] : k \in DOMAIN u}
  OBVIOUS
<1>5. u \in [1..Len(u) -> {u[k] : k \in DOMAIN u}]
  BY <1>2, <1>3, <1>4
<1>6. u \in Seq({u[k] : k \in DOMAIN u})
  <2>1. Len(u) \in Nat
    BY <1>2, FileShape
  <2> HIDE DEF u
  <2> QED
    BY <1>5, <2>1, SeqDef
<1>7. \A j \in DOMAIN u : Receipt(u[j].receipt)
  BY <1>2, <1>3, FileShape
<1> QED
  BY <1>2, <1>6, <1>7 DEF Receipts

(* The rows of an event, as Index and RowOf find them in the store.        *)
Places(t, e) == {i \in 1..Len(t) : EventOf(t[i]) = e}

RowIn(t, e) == t[CHOOSE i \in Places(t, e) : TRUE]

LEMMA StoreReads ==
    /\ \A e : Stored(e) <=> Places(table, e) # {}
    /\ \A e : RowOf(e) = RowIn(table, e)
  BY DEF Stored, Index, Places, RowOf, RowIn

LEMMA RowIsAtAPlace ==
    ASSUME NEW t, NEW e, Places(t, e) # {}
    PROVE  \E i \in 1..Len(t) : RowIn(t, e) = t[i] /\ EventOf(t[i]) = e
  BY DEF Places, RowIn

(* A new row of another event moves no row.                                *)
LEMMA AppendKeepsRow ==
    ASSUME NEW t, Receipts(t), NEW row, Receipt(row.receipt), NEW e,
           EventOf(row) # e
    PROVE  /\ Places(Append(t, row), e) = Places(t, e)
           /\ Places(t, e) # {} => RowIn(Append(t, row), e) = RowIn(t, e)
<1>1. Len(t) \in Nat
  BY FileShape
<1>2. Places(Append(t, row), e) = Places(t, e)
  BY <1>1, AppendedFile DEF Places
<1>3. ASSUME Places(t, e) # {}
      PROVE  RowIn(Append(t, row), e) = RowIn(t, e)
  <2>1. PICK i \in Places(t, e) : i = CHOOSE j \in Places(t, e) : TRUE
    BY <1>3
  <2>2. RowIn(t, e) = t[i] /\ RowIn(Append(t, row), e) = Append(t, row)[i]
    BY <1>2, <2>1 DEF RowIn
  <2>3. i \in 1..Len(t)
    BY DEF Places
  <2> QED
    BY <2>2, <2>3, AppendedFile
<1> QED
  BY <1>2, <1>3

(* A new row is the only one of an event that had none.                    *)
LEMMA AppendedRowIsFound ==
    ASSUME NEW t, Receipts(t), NEW row, Receipt(row.receipt),
           Places(t, EventOf(row)) = {}
    PROVE  /\ Places(Append(t, row), EventOf(row)) # {}
           /\ RowIn(Append(t, row), EventOf(row)) = row
<1>1. Len(t) \in Nat
  BY FileShape
<1>2. Places(Append(t, row), EventOf(row)) = {Len(t) + 1}
  BY <1>1, AppendedFile DEF Places
<1> QED
  BY <1>2, AppendedFile DEF RowIn

(* An edit of the row at place i leaves every event where it was.          *)
LEMMA EditKeepsPlaces ==
    ASSUME NEW t, NEW i \in 1..Len(t), NEW row, EventOf(row) = EventOf(t[i]),
           NEW u, Len(u) = Len(t),
           \A j \in 1..Len(t) : u[j] = IF j = i THEN row ELSE t[j],
           NEW e
    PROVE  /\ Places(u, e) = Places(t, e)
           /\ Places(t, e) # {} =>
                  \/ RowIn(u, e) = RowIn(t, e)
                  \/ e = EventOf(t[i]) /\ RowIn(t, e) = t[i] /\ RowIn(u, e) = row
<1>1. Places(u, e) = Places(t, e)
  BY DEF Places
<1>2. ASSUME Places(t, e) # {}
      PROVE  \/ RowIn(u, e) = RowIn(t, e)
             \/ e = EventOf(t[i]) /\ RowIn(t, e) = t[i] /\ RowIn(u, e) = row
  <2>1. PICK k \in Places(t, e) : k = CHOOSE j \in Places(t, e) : TRUE
    BY <1>2
  <2>2. RowIn(t, e) = t[k] /\ RowIn(u, e) = u[k]
    BY <1>1, <2>1 DEF RowIn
  <2> QED
    BY <2>2 DEF Places
<1> QED
  BY <1>1, <1>2

-----------------------------------------------------------------------------
(* The invariant.  What a request carries: a question that may be asked,   *)
(* an issue time read before the provider's answer, a receipt of its own   *)
(* question that was complete in time, an answer that binds the question.  *)
Carried(s, time) ==
    /\ s.pc # "idle" => s.q \in Questions
    /\ s.pc \in {"lookup", "check", "ask", "waiting"} /\ s.q.contract = "temperature" =>
           s.accepted \in Int
    /\ s.pc = "waiting" =>
           /\ s.issued \in Int
           /\ s.q.contract # "temperature" => s.issued <= time
    /\ s.pc = "persist" => Receipt(s.receipt) /\ s.receipt.q = s.q
    /\ s.pc = "done" /\ s.status = "ok" => Receipt(s.receipt) /\ Binds(s.receipt.q, s.q)

(* An answer is the row of its event, unless the row was repaired or shows *)
(* that it was edited.                                                     *)
Stands(s, t, lost) ==
    s.pc = "done" /\ s.status = "ok" /\ s.q.event \notin lost =>
        /\ Places(t, s.q.event) # {}
        /\ \/ RowIn(t, s.q.event).receipt = s.receipt
           \/ Tampered(RowIn(t, s.q.event))

HandlersInv ==
    /\ now \in Int
    /\ hs = [h \in Handlers |-> hs[h]]
    /\ \A h \in Handlers : Carried(hs[h], now)

AnswersInv == \A h \in Handlers : Stands(hs[h], table, repaired)

(* The anchor commits to receipts that once were the file; a backup is a   *)
(* copy of receipts, and none is longer than the file.                     *)
FileInv ==
    /\ Receipts(table)
    /\ anchor # None =>
           /\ Receipts(anchor.rows)
           /\ anchor.count = Len(anchor.rows)
           /\ anchor.head = Chain(anchor.rows, anchor.count)
    /\ copy # None => Receipts(copy.rows) /\ Len(copy.rows) <= Len(table)

ServiceInv == HandlersInv /\ AnswersInv /\ FileInv

LEMMA InitServiceInv == Init => ServiceInv
<1> SUFFICES ASSUME Init
             PROVE  ServiceInv
  OBVIOUS
<1>1. \A h \in Handlers : hs[h] = Idle
  BY DEF Init
<1>2. HandlersInv
  BY <1>1 DEF HandlersInv, Init, Idle, Carried
<1>3. AnswersInv
  BY <1>1 DEF AnswersInv, Stands, Idle
<1>4. FileInv
  BY ServiceAssumption DEF FileInv, Init, StoreInit
<1> QED
  BY <1>2, <1>3, <1>4 DEF ServiceInv

(* A step of one request.                                                  *)
LEMMA RequestMoves ==
    ASSUME ServiceInv, NEW h \in Handlers, NEW s, hs' = [hs EXCEPT ![h] = s],
           UNCHANGED now, Carried(s, now)
    PROVE  HandlersInv'
<1>1. hs' = [g \in Handlers |-> IF g = h THEN s ELSE hs[g]]
  BY DEF ServiceInv, HandlersInv
<1> QED
  BY <1>1 DEF ServiceInv, HandlersInv

LEMMA RequestMovesOnly ==
    ASSUME ServiceInv, NEW h \in Handlers, NEW s, hs' = [hs EXCEPT ![h] = s],
           UNCHANGED <<storeVars, now>>, Carried(s, now), Stands(s, table, repaired)
    PROVE  ServiceInv'
<1>1. hs' = [g \in Handlers |-> IF g = h THEN s ELSE hs[g]]
  BY DEF ServiceInv, HandlersInv
<1>2. HandlersInv'
  BY RequestMoves DEF storeVars
<1>3. AnswersInv'
  BY <1>1 DEF ServiceInv, AnswersInv, storeVars
<1>4. FileInv'
  BY DEF ServiceInv, FileInv, storeVars
<1> QED
  BY <1>2, <1>3, <1>4 DEF ServiceInv

(* What is read from a row binds the question, if it is answered at all.   *)
LEMMA ReadingBinds ==
    ASSUME NEW row, NEW q, Reading(row, q) = "ok"
    PROVE  Binds(row.receipt.q, q)
  BY DEF Reading

LEMMA AcceptStep ==
    ASSUME ServiceInv, NEW h \in Handlers, NEW q \in Questions, NEW order,
           Accept(h, q, order)
    PROVE  ServiceInv'
<1> DEFINE s == Working("lookup", q, order,
                        IF q.contract = "temperature" THEN now ELSE None, None, None)
<1>1. Carried(s, now)
  BY DEF Working, Carried, ServiceInv, HandlersInv
<1>2. Stands(s, table, repaired)
  BY DEF Working, Stands
<1>3. hs' = [hs EXCEPT ![h] = s] /\ UNCHANGED <<storeVars, now>>
  BY DEF Accept
<1> HIDE DEF s
<1> QED
  BY <1>1, <1>2, <1>3, RequestMovesOnly

LEMMA LookupStep ==
    ASSUME ServiceInv, NEW h \in Handlers, Lookup(h)
    PROVE  ServiceInv'
<1> DEFINE e == hs[h].q.event
           status == Reading(RowOf(e), hs[h].q)
           s == Done(hs[h].q, status, IF status = "ok" THEN RowOf(e).receipt ELSE None)
           w == Working("check", hs[h].q, hs[h].left, hs[h].accepted, None, None)
<1>1. UNCHANGED <<storeVars, now>> /\ hs[h].pc = "lookup"
  BY DEF Lookup
<1>2. hs[h].q \in Questions /\ Receipts(table)
      /\ (hs[h].q.contract = "temperature" => hs[h].accepted \in Int)
  BY <1>1 DEF ServiceInv, HandlersInv, Carried, FileInv
<1>3. CASE Stored(e)
  <2>1. hs' = [hs EXCEPT ![h] = s]
    BY <1>3 DEF Lookup, Answer
  <2>2. Places(table, e) # {} /\ RowOf(e) = RowIn(table, e)
    BY <1>3, StoreReads
  <2>3. Receipt(RowOf(e).receipt)
    BY <1>2, <2>2, RowIsAtAPlace, FileShape
  <2>4. status = "ok" => Binds(RowOf(e).receipt.q, hs[h].q)
    BY ReadingBinds
  <2>5. /\ s.pc = "done" /\ s.q = hs[h].q /\ s.status = status
        /\ s.receipt = IF status = "ok" THEN RowOf(e).receipt ELSE None
    BY DEF Done
  <2> HIDE DEF s, status
  <2>6. Carried(s, now)
    BY <1>2, <2>3, <2>4, <2>5 DEF Carried
  <2>7. Stands(s, table, repaired)
    BY <2>2, <2>5 DEF Stands
  <2> QED
    BY <1>1, <2>1, <2>6, <2>7, RequestMovesOnly
<1>4. CASE ~Stored(e)
  <2>1. hs' = [hs EXCEPT ![h] = w]
    BY <1>4 DEF Lookup, Move
  <2>2. Carried(w, now)
    BY <1>2 DEF Carried, Working
  <2>3. Stands(w, table, repaired)
    BY DEF Stands, Working
  <2> HIDE DEF w
  <2> QED
    BY <1>1, <2>1, <2>2, <2>3, RequestMovesOnly
<1> QED
  BY <1>3, <1>4

(* An answer without a receipt, and a move to another phase.               *)
LEMMA RefusalStep ==
    ASSUME ServiceInv, NEW h \in Handlers, hs[h].pc # "idle", NEW status,
           status # "ok", Answer(h, status, None), UNCHANGED <<storeVars, now>>
    PROVE  ServiceInv'
<1> DEFINE s == Done(hs[h].q, status, None)
<1>1. hs' = [hs EXCEPT ![h] = s]
  BY DEF Answer
<1>2. Carried(s, now)
  BY DEF Done, Carried, ServiceInv, HandlersInv
<1>3. Stands(s, table, repaired)
  BY DEF Done, Stands
<1> HIDE DEF s
<1> QED
  BY <1>1, <1>2, <1>3, RequestMovesOnly

LEMMA MoveStep ==
    ASSUME ServiceInv, NEW h \in Handlers, NEW pc, NEW left, NEW issued, NEW receipt,
           pc # "done", Move(h, pc, left, issued, receipt),
           Carried(Working(pc, hs[h].q, left, hs[h].accepted, issued, receipt), now),
           UNCHANGED <<storeVars, now>>
    PROVE  ServiceInv'
<1> DEFINE s == Working(pc, hs[h].q, left, hs[h].accepted, issued, receipt)
<1>1. hs' = [hs EXCEPT ![h] = s]
  BY DEF Move
<1>2. Stands(s, table, repaired)
  BY DEF Working, Stands
<1> HIDE DEF s
<1> QED
  BY <1>1, <1>2, RequestMovesOnly DEF s

LEMMA CheckStep ==
    ASSUME ServiceInv, NEW h \in Handlers, Check(h)
    PROVE  ServiceInv'
<1>1. hs[h].pc = "check" /\ UNCHANGED <<storeVars, now>>
  BY DEF Check
<1>2. CASE CutoffPassed(hs[h].q)
  BY <1>1, <1>2, RefusalStep DEF Check
<1>3. CASE ~CutoffPassed(hs[h].q)
  <2>1. Move(h, "ask", hs[h].left, None, None)
    BY <1>3 DEF Check
  <2>2. Carried(Working("ask", hs[h].q, hs[h].left, hs[h].accepted, None, None), now)
    BY <1>1 DEF Working, Carried, ServiceInv, HandlersInv
  <2> QED
    BY <1>1, <2>1, <2>2, MoveStep
<1> QED
  BY <1>2, <1>3

LEMMA AskProviderStep ==
    ASSUME ServiceInv, NEW h \in Handlers, AskProvider(h)
    PROVE  ServiceInv'
<1> DEFINE issued == IF hs[h].q.contract = "temperature" THEN hs[h].accepted ELSE now
<1>1. hs[h].pc = "ask" /\ UNCHANGED <<storeVars, now>>
  BY DEF AskProvider
<1>2. CASE hs[h].left = <<>>
  BY <1>1, <1>2, RefusalStep DEF AskProvider
<1>3. CASE hs[h].left # <<>>
  <2>1. Move(h, "waiting", hs[h].left, issued, None)
    BY <1>3 DEF AskProvider
  <2>2. Carried(Working("waiting", hs[h].q, hs[h].left, hs[h].accepted, issued, None), now)
    BY <1>1 DEF Working, Carried, ServiceInv, HandlersInv
  <2> HIDE DEF issued
  <2> QED
    BY <1>1, <2>1, <2>2, MoveStep
<1> QED
  BY <1>2, <1>3

LEMMA ProviderFailsStep ==
    ASSUME ServiceInv, NEW h \in Handlers, ProviderFails(h)
    PROVE  ServiceInv'
<1>1. hs[h].pc = "waiting" /\ UNCHANGED <<storeVars, now>>
      /\ Move(h, "ask", Tail(hs[h].left), None, None)
  BY DEF ProviderFails
<1>2. Carried(Working("ask", hs[h].q, Tail(hs[h].left), hs[h].accepted, None, None), now)
  BY <1>1 DEF Working, Carried, ServiceInv, HandlersInv
<1> QED
  BY <1>1, <1>2, MoveStep

(* A receipt that is put together before its cutoff is timely.             *)
LEMMA ProviderAnswersStep ==
    ASSUME ServiceInv, NEW h \in Handlers, ProviderAnswers(h)
    PROVE  ServiceInv'
<1>1. hs[h].pc = "waiting" /\ UNCHANGED <<storeVars, now>>
  BY DEF ProviderAnswers
<1>2. CASE CutoffPassed(hs[h].q)
  BY <1>1, <1>2, RefusalStep DEF ProviderAnswers
<1>3. CASE ~CutoffPassed(hs[h].q)
  <2> DEFINE r == ReceiptOf(h)
  <2>1. Move(h, "persist", hs[h].left, hs[h].issued, r)
    BY <1>3 DEF ProviderAnswers
  <2>2. hs[h].q \in Questions /\ now \in Int /\ hs[h].issued \in Int
        /\ (hs[h].q.contract # "temperature" => hs[h].issued <= now)
    BY <1>1 DEF Carried, ServiceInv, HandlersInv
  <2>3. /\ r = [q |-> r.q, provider |-> r.provider, issued |-> r.issued,
                completed |-> r.completed]
        /\ r.q = hs[h].q /\ r.issued = hs[h].issued /\ r.completed = now
    BY DEF ReceiptOf
  <2>4. Subject(hs[h].q)
    BY <2>2, ServiceAssumption
  <2>5. EffectiveCutoff(hs[h].q) \in Int
    BY <2>4, HourAssumption DEF EffectiveCutoff, Subject
  <2> HIDE DEF r
  <2>6. Receipt(r)
    BY <1>3, <2>2, <2>3, <2>4, <2>5 DEF Receipt, Timely, CutoffPassed
  <2>7. Carried(Working("persist", hs[h].q, hs[h].left, hs[h].accepted,
                        hs[h].issued, r), now)
    BY <2>2, <2>3, <2>6 DEF Working, Carried
  <2> QED
    BY <1>1, <2>1, <2>7, MoveStep
<1> QED
  BY <1>2, <1>3

(* save() keeps the rows there are, and the row it reports is in the file. *)
LEMMA SaveKeepsRows ==
    ASSUME Receipts(table), NEW r, Receipt(r), Save(r)
    PROVE  /\ Receipts(table') /\ Len(table') >= Len(table)
           /\ \A e : Places(table, e) # {} =>
                  Places(table', e) # {} /\ RowIn(table', e) = RowIn(table, e)
           /\ SaveStatus(r) = "stored" =>
                  /\ Places(table', r.q.event) # {}
                  /\ RowIn(table', r.q.event) = SavedRow(r)
                  /\ Receipt(SavedRow(r).receipt)
<1> DEFINE row == Sealed(r)
<1>1. row.receipt = r /\ EventOf(row) = r.q.event
  BY DEF Sealed, EventOf
<1>2. Len(table) \in Nat
  BY FileShape
<1>3. Stored(r.q.event) <=> Places(table, r.q.event) # {}
  BY StoreReads
<1>4. CASE Stored(r.q.event)
  <2>1. table' = table /\ SavedRow(r) = RowIn(table, r.q.event)
    BY <1>4, StoreReads DEF Save, SavedRow
  <2>2. Receipt(RowIn(table, r.q.event).receipt)
    BY <1>3, <1>4, RowIsAtAPlace, FileShape
  <2> QED
    BY <1>2, <1>3, <1>4, <2>1, <2>2
<1>5. CASE ~Stored(r.q.event) /\ ~Accepting
  <2>1. table' = table /\ SaveStatus(r) = "full"
    BY <1>5 DEF Save, SaveStatus
  <2> QED
    BY <1>2, <2>1
<1>6. CASE ~Stored(r.q.event) /\ Accepting
  <2>1. table' = Append(table, row) /\ SavedRow(r) = row
    BY <1>6 DEF Save, SavedRow
  <2>2. Places(table, EventOf(row)) = {}
    BY <1>1, <1>3, <1>6
  <2> HIDE DEF row
  <2>3. /\ Receipts(table') /\ Len(table') = Len(table) + 1
        /\ Places(table', r.q.event) # {} /\ RowIn(table', r.q.event) = row
    BY <1>1, <2>1, <2>2, AppendedFile, AppendedRowIsFound
  <2>4. ASSUME NEW e, Places(table, e) # {}
        PROVE  Places(table', e) # {} /\ RowIn(table', e) = RowIn(table, e)
    <3>1. EventOf(row) # e
      BY <2>2, <2>4
    <3> QED
      BY <1>1, <2>1, <2>4, <3>1, AppendKeepsRow
  <2> QED
    BY <1>1, <1>2, <2>1, <2>3, <2>4
<1> QED
  BY <1>4, <1>5, <1>6

LEMMA PersistStep ==
    ASSUME ServiceInv, NEW h \in Handlers, Persist(h)
    PROVE  ServiceInv'
<1> DEFINE r == hs[h].receipt
           e == hs[h].q.event
           row == SavedRow(r)
           status == IF SaveStatus(r) = "stored" THEN Reading(row, hs[h].q)
                     ELSE SaveStatus(r)
           s == Done(hs[h].q, status, IF status = "ok" THEN row.receipt ELSE None)
<1>1. hs[h].pc = "persist" /\ Save(r) /\ UNCHANGED now
  BY DEF Persist
<1>2. /\ Receipt(r) /\ r.q = hs[h].q /\ hs[h].q \in Questions /\ Receipts(table)
  BY <1>1 DEF ServiceInv, HandlersInv, Carried, FileInv
<1>3. SaveStatus(r) \in {"stored", "conflict", "full"}
  BY DEF SaveStatus
<1>4. hs' = [hs EXCEPT ![h] = s]
  BY <1>3 DEF Persist, AnswerSaved, Answer
<1>5. /\ Receipts(table') /\ Len(table') >= Len(table)
      /\ \A f : Places(table, f) # {} =>
             Places(table', f) # {} /\ RowIn(table', f) = RowIn(table, f)
      /\ SaveStatus(r) = "stored" =>
             /\ Places(table', e) # {}
             /\ RowIn(table', e) = row
             /\ Receipt(row.receipt)
  BY <1>1, <1>2, SaveKeepsRows
<1>6. /\ s.pc = "done" /\ s.q = hs[h].q /\ s.status = status
      /\ s.receipt = IF status = "ok" THEN row.receipt ELSE None
  BY DEF Done
<1>7. status = "ok" => SaveStatus(r) = "stored" /\ Binds(row.receipt.q, hs[h].q)
  BY <1>3, ReadingBinds
<1> HIDE DEF s, status, row
<1>8. Carried(s, now)
  BY <1>2, <1>5, <1>6, <1>7 DEF Carried
<1>9. HandlersInv'
  BY <1>1, <1>4, <1>8, RequestMoves
<1>10. AnswersInv'
  <2>1. hs' = [g \in Handlers |-> IF g = h THEN s ELSE hs[g]]
    BY <1>4 DEF ServiceInv, HandlersInv
  <2>2. repaired' = repaired
    BY <1>1 DEF Save
  <2>3. Stands(s, table', repaired')
    BY <1>5, <1>6, <1>7 DEF Stands
  <2>4. ASSUME NEW g \in Handlers, g # h
        PROVE  Stands(hs[g], table', repaired')
    <3>1. Stands(hs[g], table, repaired)
      BY DEF ServiceInv, AnswersInv
    <3> QED
      BY <1>5, <2>2, <3>1 DEF Stands
  <2> QED
    BY <2>1, <2>3, <2>4 DEF AnswersInv
<1>11. FileInv'
  <2>1. UNCHANGED <<anchor, copy>>
    BY <1>1 DEF Save
  <2>2. copy # None => Len(copy.rows) \in Nat /\ Len(copy.rows) <= Len(table)
    BY FileShape DEF ServiceInv, FileInv
  <2>3. Len(table) \in Nat /\ Len(table') \in Nat
    BY <1>2, <1>5, FileShape
  <2> QED
    BY <1>5, <2>1, <2>2, <2>3 DEF ServiceInv, FileInv
<1> QED
  BY <1>9, <1>10, <1>11 DEF ServiceInv

LEMMA FinishStep ==
    ASSUME ServiceInv, NEW h \in Handlers, Finish(h)
    PROVE  ServiceInv'
<1>1. hs' = [hs EXCEPT ![h] = Idle] /\ UNCHANGED <<storeVars, now>>
  BY DEF Finish
<1>2. Carried(Idle, now) /\ Stands(Idle, table, repaired)
  BY DEF Carried, Stands, Idle
<1> QED
  BY <1>1, <1>2, RequestMovesOnly

LEMMA StoreFailsStep ==
    ASSUME ServiceInv, NEW h \in Handlers, StoreFails(h)
    PROVE  ServiceInv'
<1>1. hs[h].pc # "idle" /\ Answer(h, "store_unavailable", None)
      /\ UNCHANGED <<storeVars, now>>
  BY DEF StoreFails
<1> QED
  BY <1>1, RefusalStep

LEMMA RestartStep ==
    ASSUME ServiceInv, Restart
    PROVE  ServiceInv'
<1>1. hs' = [h \in Handlers |-> Idle] /\ UNCHANGED <<storeVars, now>>
  BY DEF Restart
<1>2. Carried(Idle, now) /\ Stands(Idle, table, repaired)
  BY DEF Carried, Stands, Idle
<1>3. FileInv'
  BY <1>1 DEF ServiceInv, FileInv, storeVars
<1>4. HandlersInv' /\ AnswersInv'
  BY <1>1, <1>2 DEF ServiceInv, HandlersInv, AnswersInv, storeVars
<1> QED
  BY <1>3, <1>4 DEF ServiceInv

LEMMA TickStep ==
    ASSUME ServiceInv, Tick
    PROVE  ServiceInv'
<1>1. now' = now + 1 /\ UNCHANGED <<storeVars, hs>>
  BY DEF Tick
<1>2. HandlersInv'
  BY <1>1 DEF ServiceInv, HandlersInv, Carried
<1>3. AnswersInv' /\ FileInv'
  BY <1>1 DEF ServiceInv, AnswersInv, FileInv, storeVars
<1> QED
  BY <1>2, <1>3 DEF ServiceInv

(* Work on the file.  An edit without the digest either changes nothing,   *)
(* or shows, or the row had no digest to begin with.                       *)
LEMMA RewrittenReceipt ==
    ASSUME NEW r, Receipt(r)
    PROVE  Receipt(Rewritten(r)) /\ Rewritten(r).q = r.q
<1>1. /\ Rewritten(r).q = r.q /\ Rewritten(r).issued = r.issued
      /\ Rewritten(r).completed = r.completed
      /\ Rewritten(r).provider = "rewritten"
  BY DEF Rewritten
<1>2. Rewritten(r) = [q |-> Rewritten(r).q, provider |-> Rewritten(r).provider,
                      issued |-> Rewritten(r).issued,
                      completed |-> Rewritten(r).completed]
  BY <1>1 DEF Rewritten
<1> QED
  BY <1>1, <1>2 DEF Receipt, Timely

LEMMA AnswerSurvivesEdit ==
    ASSUME NEW t, NEW i \in 1..Len(t), NEW row, EventOf(row) = EventOf(t[i]),
           NEW u, Len(u) = Len(t),
           \A j \in 1..Len(t) : u[j] = IF j = i THEN row ELSE t[j],
           NEW lost, NEW more, lost \subseteq more,
           \/ EventOf(row) \in more
           \/ row.receipt = t[i].receipt /\ ~Tampered(t[i])
           \/ Tampered(row),
           NEW s, Stands(s, t, lost)
    PROVE  Stands(s, u, more)
<1> DEFINE e == s.q.event
<1>1. SUFFICES ASSUME s.pc = "done", s.status = "ok", e \notin more
               PROVE  /\ Places(u, e) # {}
                      /\ \/ RowIn(u, e).receipt = s.receipt
                         \/ Tampered(RowIn(u, e))
  BY DEF Stands
<1>2. /\ Places(t, e) # {}
      /\ \/ RowIn(t, e).receipt = s.receipt
         \/ Tampered(RowIn(t, e))
  BY <1>1 DEF Stands
<1> HIDE DEF e
<1>3. /\ Places(u, e) = Places(t, e)
      /\ \/ RowIn(u, e) = RowIn(t, e)
         \/ e = EventOf(t[i]) /\ RowIn(t, e) = t[i] /\ RowIn(u, e) = row
  BY <1>2, EditKeepsPlaces
<1>4. CASE RowIn(u, e) = RowIn(t, e)
  BY <1>2, <1>3, <1>4
<1>5. CASE e = EventOf(t[i]) /\ RowIn(t, e) = t[i] /\ RowIn(u, e) = row
  <2>1. EventOf(row) \notin more
    BY <1>1, <1>5
  <2>2. CASE Tampered(row)
    BY <1>2, <1>3, <1>5, <2>2
  <2>3. CASE row.receipt = t[i].receipt /\ ~Tampered(t[i])
    BY <1>2, <1>3, <1>5, <2>3
  <2> QED
    BY <2>1, <2>2, <2>3
<1> QED
  BY <1>3, <1>4, <1>5

LEMMA FileRewritten ==
    ASSUME ServiceInv, NEW i \in 1..Len(table), NEW row, Receipt(row.receipt),
           EventOf(row) = EventOf(table[i]),
           table' = [table EXCEPT ![i] = row],
           repaired \subseteq repaired',
           UNCHANGED <<anchor, copy, now, hs>>,
           \/ EventOf(row) \in repaired'
           \/ row.receipt = table[i].receipt /\ ~Tampered(table[i])
           \/ Tampered(row)
    PROVE  ServiceInv'
<1>1. Receipts(table)
  BY DEF ServiceInv, FileInv
<1>2. Receipts(table') /\ Len(table') = Len(table)
  BY <1>1, EditedFile
<1>3. FileInv'
  BY <1>2 DEF ServiceInv, FileInv
<1>4. HandlersInv'
  BY DEF ServiceInv, HandlersInv
<1>5. ASSUME NEW h \in Handlers
      PROVE  Stands(hs[h], table', repaired')
  <2>1. /\ Len(table') = Len(table)
        /\ \A j \in 1..Len(table) : table'[j] = IF j = i THEN row ELSE table[j]
    BY <1>1, EditedFile
  <2>2. Stands(hs[h], table, repaired)
    BY DEF ServiceInv, AnswersInv
  <2> QED
    BY <2>1, <2>2, AnswerSurvivesEdit
<1>6. AnswersInv'
  BY <1>5 DEF AnswersInv
<1> QED
  BY <1>3, <1>4, <1>6 DEF ServiceInv

LEMMA EditStep ==
    ASSUME ServiceInv, NEW i \in 1..Len(table), Edit(i), UNCHANGED <<now, hs>>
    PROVE  ServiceInv'
<1> DEFINE r == table[i].receipt
           row == [receipt |-> Rewritten(r), recorded |-> table[i].recorded]
<1>1. Receipt(r)
  BY FileShape DEF ServiceInv, FileInv
<1>2. Receipt(row.receipt) /\ EventOf(row) = EventOf(table[i])
  BY <1>1, RewrittenReceipt DEF EventOf
<1>3. ~Tampered(table[i])
  BY DEF Edit, Untouched
<1>4. table' = [table EXCEPT ![i] = row] /\ UNCHANGED <<anchor, copy>>
  BY DEF Edit
<1>5. /\ repaired \subseteq repaired'
      /\ table[i].recorded = None => EventOf(row) \in repaired'
  BY <1>2 DEF Edit
<1>6. table[i].recorded # None => table[i].recorded = Digest(r)
  BY <1>3 DEF Tampered
<1>7. Rewritten(r) # r => Digest(Rewritten(r)) # Digest(r)
  BY DEF Digest
<1>8. \/ EventOf(row) \in repaired'
      \/ row.receipt = table[i].receipt /\ ~Tampered(table[i])
      \/ Tampered(row)
  <2>1. CASE table[i].recorded = None
    BY <1>5, <2>1
  <2>2. CASE Rewritten(r) = r
    BY <1>3, <2>2
  <2>3. CASE table[i].recorded # None /\ Rewritten(r) # r
    <3>1. row.recorded = Digest(r) /\ row.recorded # None
      BY <1>6, <2>3
    <3>2. row.receipt = Rewritten(r)
      OBVIOUS
    <3> QED
      BY <1>7, <2>3, <3>1, <3>2 DEF Tampered
  <2> QED
    BY <2>1, <2>2, <2>3
<1> HIDE DEF row
<1> QED
  BY <1>2, <1>4, <1>5, <1>8, FileRewritten

LEMMA ForgeStep ==
    ASSUME ServiceInv, NEW i \in 1..Len(table), Forge(i), UNCHANGED <<now, hs>>
    PROVE  ServiceInv'
<1> DEFINE r == table[i].receipt
           row == Sealed(Rewritten(r))
<1>1. Receipt(r)
  BY FileShape DEF ServiceInv, FileInv
<1>2. Receipt(row.receipt) /\ EventOf(row) = EventOf(table[i])
  BY <1>1, RewrittenReceipt DEF EventOf, Sealed
<1>3. table' = [table EXCEPT ![i] = row] /\ UNCHANGED <<anchor, copy>>
      /\ repaired \subseteq repaired' /\ EventOf(row) \in repaired'
  BY <1>2 DEF Forge
<1> HIDE DEF row
<1> QED
  BY <1>2, <1>3, FileRewritten

LEMMA RestoreStep ==
    ASSUME ServiceInv, Restore, UNCHANGED <<now, hs>>
    PROVE  ServiceInv'
<1>1. /\ copy # None /\ table' = copy.rows /\ UNCHANGED <<anchor, copy>>
      /\ EventsOf(table) \subseteq repaired' /\ repaired \subseteq repaired'
  BY DEF Restore
<1>2. Receipts(copy.rows) /\ Len(copy.rows) \in Nat
  BY <1>1, FileShape DEF ServiceInv, FileInv
<1>3. FileInv'
  BY <1>1, <1>2 DEF ServiceInv, FileInv
<1>4. HandlersInv'
  BY DEF ServiceInv, HandlersInv
<1>5. ASSUME NEW h \in Handlers
      PROVE  Stands(hs[h], table', repaired')
  <2> DEFINE e == hs[h].q.event
  <2>1. Places(table, e) # {} => e \in EventsOf(table)
    BY DEF Places, EventsOf
  <2>2. Stands(hs[h], table, repaired)
    BY DEF ServiceInv, AnswersInv
  <2> QED
    BY <1>1, <2>1, <2>2 DEF Stands
<1>6. AnswersInv'
  BY <1>5 DEF AnswersInv
<1> QED
  BY <1>3, <1>4, <1>6 DEF ServiceInv

LEMMA FileStepStep ==
    ASSUME ServiceInv, FileStep
    PROVE  ServiceInv'
<1>0. UNCHANGED <<now, hs>>
  BY DEF FileStep, serviceVars
<1>1. CASE Publish
  <2>1. UNCHANGED <<table, copy, repaired>> /\ Receipts(table)
    BY <1>1 DEF Publish, ServiceInv, FileInv
  <2>2. /\ anchor'.rows = table /\ anchor'.count = Len(table)
        /\ anchor'.head = Chain(table, Len(table))
    BY <1>1 DEF Publish
  <2>3. FileInv'
    BY <2>1, <2>2 DEF ServiceInv, FileInv
  <2>4. HandlersInv' /\ AnswersInv'
    BY <1>0, <2>1 DEF ServiceInv, HandlersInv, AnswersInv
  <2> QED
    BY <2>3, <2>4 DEF ServiceInv
<1>2. CASE BackupCount
  <2>1. UNCHANGED <<table, anchor, copy, repaired>>
    BY <1>2 DEF BackupCount
  <2> QED
    BY <1>0, <2>1 DEF ServiceInv, HandlersInv, AnswersInv, FileInv
<1>3. CASE BackupCopy
  <2>1. /\ UNCHANGED <<table, anchor, repaired>> /\ copy'.rows = table
        /\ Receipts(table)
    BY <1>3 DEF BackupCopy, ServiceInv, FileInv
  <2>2. Len(table) \in Nat
    BY <2>1, FileShape
  <2>3. FileInv'
    BY <2>1, <2>2 DEF ServiceInv, FileInv
  <2>4. HandlersInv' /\ AnswersInv'
    BY <1>0, <2>1 DEF ServiceInv, HandlersInv, AnswersInv
  <2> QED
    BY <2>3, <2>4 DEF ServiceInv
<1>4. CASE Restore
  BY <1>0, <1>4, RestoreStep
<1>5. ASSUME NEW i \in 1..Len(table), Edit(i) \/ Forge(i)
      PROVE  ServiceInv'
  BY <1>0, <1>5, EditStep, ForgeStep
<1> QED
  BY <1>1, <1>2, <1>3, <1>4, <1>5 DEF FileStep, OperatorStep

LEMMA NextServiceInv == ServiceInv /\ [Next]_vars => ServiceInv'
<1> SUFFICES ASSUME ServiceInv, [Next]_vars
             PROVE  ServiceInv'
  OBVIOUS
<1>1. ASSUME NEW h \in Handlers, HandlerStep(h)
      PROVE  ServiceInv'
  BY <1>1, LookupStep, CheckStep, AskProviderStep, ProviderFailsStep,
     ProviderAnswersStep, PersistStep, StoreFailsStep, FinishStep DEF HandlerStep
<1>2. ASSUME NEW h \in Handlers, NEW q \in Questions, NEW order \in Orders,
             Accept(h, q, order)
      PROVE  ServiceInv'
  BY <1>2, AcceptStep
<1>3. CASE UNCHANGED vars
  BY <1>3 DEF vars, storeVars, serviceVars, ServiceInv, HandlersInv, AnswersInv, FileInv
<1> QED
  BY <1>1, <1>2, <1>3, RestartStep, TickStep, FileStepStep DEF Next

-----------------------------------------------------------------------------
(* What requests carry, what was answered and what the file holds fit      *)
(* together in every state of the service.                                 *)
THEOREM ServiceInvariant == Spec => []ServiceInv
  BY InitServiceInv, NextServiceInv, PTL DEF Spec

(* Every answer for an event is the stored receipt of that event.          *)
THEOREM OneAnswer == Spec => []OneAnswerPerEvent
<1>1. ServiceInv => OneAnswerPerEvent
  BY StoreReads DEF ServiceInv, AnswersInv, Stands, OneAnswerPerEvent, Answered
<1> QED
  BY <1>1, ServiceInvariant, PTL

(* A receipt bound to a question was complete before that question's       *)
(* cutoff: only the explicit policy is stricter, and it is never answered  *)
(* with a receipt of the implicit one.                                     *)
LEMMA BoundInTime ==
    ASSUME NEW q \in Questions, NEW r, Receipt(r), Binds(r.q, q),
           q.contract # "temperature"
    PROVE  r.issued <= r.completed /\ r.completed < EffectiveCutoff(q)
<1>1. Subject(q) /\ (q.contract = "window" => q.policy # "none")
  BY ServiceAssumption
<1>2. r.q.contract = q.contract /\ r.q.cutoff = q.cutoff
      /\ ~(r.q.policy = "implicit" /\ q.policy = "explicit")
  BY DEF Binds, Identity
<1>3. EffectiveCutoff(r.q) <= EffectiveCutoff(q)
  BY <1>1, <1>2, HourAssumption DEF EffectiveCutoff, Receipt, Subject, Policies
<1>4. {EffectiveCutoff(r.q), EffectiveCutoff(q)} \subseteq Int
  BY <1>1, HourAssumption DEF EffectiveCutoff, Receipt, Subject
<1> QED
  BY <1>2, <1>3, <1>4 DEF Receipt, Timely

(* Nothing is answered that was not complete before the cutoff of the      *)
(* question that is answered.                                              *)
THEOREM AnswersInTime == Spec => []AnsweredInTime
<1>1. ServiceInv => AnsweredInTime
  <2> SUFFICES ASSUME ServiceInv, NEW h \in Handlers, Answered(h),
                      hs[h].q.contract # "temperature"
               PROVE  /\ hs[h].receipt.issued <= hs[h].receipt.completed
                      /\ hs[h].receipt.completed < EffectiveCutoff(hs[h].q)
    BY DEF AnsweredInTime
  <2>1. /\ hs[h].q \in Questions /\ Receipt(hs[h].receipt)
        /\ Binds(hs[h].receipt.q, hs[h].q)
    BY DEF ServiceInv, HandlersInv, Carried, Answered
  <2> QED
    BY <2>1, BoundInTime
<1> QED
  BY <1>1, ServiceInvariant, PTL

(* The published head verifies exactly as long as the receipts it commits  *)
(* to are the first ones of the store.                                     *)
THEOREM AnchorIsBinding == Spec => []AnchorHolds
<1>1. ServiceInv => AnchorHolds
  <2> SUFFICES ASSUME ServiceInv, anchor # None
               PROVE  VerifyAnchor(anchor) <=>
                          /\ Len(table) >= anchor.count
                          /\ \A i \in 1..anchor.count :
                                 table[i].receipt = anchor.rows[i].receipt
    BY DEF AnchorHolds
  <2>1. /\ Len(table) \in Nat /\ anchor.count \in Nat
        /\ anchor.head = Chain(anchor.rows, anchor.count)
    BY FileShape DEF ServiceInv, FileInv
  <2>2. CASE Len(table) >= anchor.count
    <3>1. Shorter(anchor.count, Len(table)) = anchor.count
      BY <2>1, <2>2 DEF Shorter
    <3>2. VerifyAnchor(anchor) <=>
              Chain(table, anchor.count) = Chain(anchor.rows, anchor.count)
      BY <2>1, <3>1 DEF VerifyAnchor
    <3> QED
      BY <2>1, <2>2, <3>2, ChainTellsReceipts
  <2>3. CASE ~(Len(table) >= anchor.count)
    BY <2>1, <2>3 DEF VerifyAnchor, Shorter
  <2> QED
    BY <2>2, <2>3
<1> QED
  BY <1>1, ServiceInvariant, PTL

(* Rows are added while there is room only, and a file never becomes       *)
(* longer by being restored.                                               *)
LEMMA RoomStep ==
    ASSUME ServiceInv, [Next]_vars
    PROVE  Len(table') <= MaxRows \/ Len(table') <= Len(table)
<1> DEFINE Kept == Len(table') <= MaxRows \/ Len(table') <= Len(table)
<1>1. Receipts(table) /\ Len(table) \in Nat /\ MaxRows \in Nat
  BY FileShape, StoreAssumption DEF ServiceInv, FileInv
<1>2. ASSUME UNCHANGED table
      PROVE  Kept
  BY <1>1, <1>2
<1>3. ASSUME NEW h \in Handlers, Persist(h)
      PROVE  Kept
  <2> DEFINE r == hs[h].receipt
  <2>1. Save(r) /\ Receipt(r)
    BY <1>3 DEF Persist, ServiceInv, HandlersInv, Carried
  <2>2. CASE Accepting /\ table' = Append(table, Sealed(r))
    <3>1. Receipt(Sealed(r).receipt)
      BY <2>1 DEF Sealed
    <3>2. Len(table') = Len(table) + 1
      BY <1>1, <2>2, <3>1, AppendedFile
    <3> QED
      BY <1>1, <2>2, <3>2 DEF Accepting
  <2>3. CASE UNCHANGED table
    BY <1>2, <2>3
  <2> QED
    BY <2>1, <2>2, <2>3 DEF Save
<1>4. ASSUME NEW i \in 1..Len(table), Edit(i) \/ Forge(i)
      PROVE  Kept
  <2>1. Receipt(table[i].receipt)
    BY <1>1, FileShape
  <2>2. Receipt(Rewritten(table[i].receipt))
    BY <2>1, RewrittenReceipt
  <2>3. PICK row : table' = [table EXCEPT ![i] = row] /\ Receipt(row.receipt)
    BY <1>4, <2>2 DEF Edit, Forge, Sealed
  <2>4. Len(table') = Len(table)
    BY <1>1, <2>3, EditedFile
  <2> QED
    BY <1>1, <2>4
<1>5. ASSUME Restore
      PROVE  Kept
  BY <1>5 DEF Restore, ServiceInv, FileInv
<1>6. ASSUME NEW h \in Handlers, HandlerStep(h), ~Persist(h)
      PROVE  UNCHANGED table
  BY <1>6 DEF HandlerStep, Lookup, Check, AskProvider, ProviderFails,
              ProviderAnswers, StoreFails, Finish, storeVars
<1>7. ASSUME \/ Restart
             \/ Tick
             \/ UNCHANGED vars
             \/ \E h \in Handlers, q \in Questions, order \in Orders : Accept(h, q, order)
             \/ Publish \/ BackupCount \/ BackupCopy
      PROVE  UNCHANGED table
  BY <1>7 DEF Restart, Tick, Accept, Publish, BackupCount, BackupCopy, vars, storeVars
<1> HIDE DEF Kept
<1>8. Kept
  BY <1>2, <1>3, <1>4, <1>5, <1>6, <1>7 DEF Next, FileStep, OperatorStep
<1> QED
  BY <1>8 DEF Kept

(* A refusal is decided by the step of its own request.                    *)
LEMMA RefusalStepDue ==
    ASSUME ServiceInv, [Next]_vars, NEW h \in Handlers
    PROVE  /\ Answers(h, "full") =>
                  ~Stored(hs[h].q.event) /\ Len(table) >= MaxRows
           /\ Answers(h, "conflict") =>
                  /\ Stored(hs[h].q.event)
                  /\ RowOf(hs[h].q.event).receipt.q # hs[h].q
<1> DEFINE Refused(status) ==
        hs[h].pc \in {"lookup", "persist"} /\ hs'[h].pc = "done" /\ hs'[h].status = status
           Due(status) ==
        Refused(status) =>
            IF status = "full" THEN ~Stored(hs[h].q.event) /\ Len(table) >= MaxRows
            ELSE /\ Stored(hs[h].q.event)
                 /\ RowOf(hs[h].q.event).receipt.q # hs[h].q
<1>1. hs = [g \in Handlers |-> hs[g]] /\ Receipts(table)
      /\ Len(table) \in Nat /\ MaxRows \in Nat
  BY FileShape, StoreAssumption DEF ServiceInv, HandlersInv, FileInv
<1>2. \A q : Binds(q, q)
  BY DEF Binds, Identity
<1>3. SUFFICES ASSUME NEW status \in {"full", "conflict"}, Refused(status)
               PROVE  IF status = "full"
                      THEN ~Stored(hs[h].q.event) /\ Len(table) >= MaxRows
                      ELSE /\ Stored(hs[h].q.event)
                           /\ RowOf(hs[h].q.event).receipt.q # hs[h].q
  <2>1. \A status : Answers(h, status) => Refused(status)
    BY DEF Answers, Done
  <2> QED
    BY <2>1
<1>4. CASE Lookup(h)
  <2>1. CASE Stored(hs[h].q.event)
    <3>1. hs'[h].status = Reading(RowOf(hs[h].q.event), hs[h].q)
      BY <1>1, <1>4, <2>1 DEF Lookup, Answer, Done
    <3> QED
      BY <1>2, <1>3, <2>1, <3>1 DEF Reading
  <2>2. CASE ~Stored(hs[h].q.event)
    BY <1>1, <1>3, <1>4, <2>2 DEF Lookup, Move, Working
  <2> QED
    BY <2>1, <2>2
<1>5. CASE Persist(h)
  <2> DEFINE r == hs[h].receipt
  <2>1. r.q = hs[h].q
    BY <1>5 DEF Persist, ServiceInv, HandlersInv, Carried
  <2>2. CASE SaveStatus(r) = "stored"
    <3>1. hs'[h].status = Reading(SavedRow(r), hs[h].q)
      BY <1>1, <1>5, <2>2 DEF Persist, AnswerSaved, Answer, Done
    <3>2. SavedRow(r).receipt.q = hs[h].q
      BY <2>1, <2>2 DEF SaveStatus, SavedRow, Sealed
    <3> QED
      BY <1>2, <1>3, <3>1, <3>2 DEF Reading
  <2>3. CASE SaveStatus(r) # "stored"
    <3>1. hs'[h].status = SaveStatus(r)
      BY <1>1, <1>5, <2>3 DEF Persist, AnswerSaved, Answer, Done
    <3> QED
      BY <1>1, <1>3, <2>1, <2>3, <3>1 DEF SaveStatus, Accepting
  <2> QED
    BY <2>2, <2>3
<1>6. CASE HandlerStep(h) /\ ~Lookup(h) /\ ~Persist(h)
  BY <1>1, <1>3, <1>6 DEF HandlerStep, Check, AskProvider, ProviderFails,
     ProviderAnswers, StoreFails, Finish, Answer, Done
<1>7. ASSUME NEW g \in Handlers, g # h, HandlerStep(g)
      PROVE  hs'[h] = hs[h]
  BY <1>1, <1>7 DEF HandlerStep, Lookup, Check, AskProvider, ProviderFails,
     ProviderAnswers, Persist, AnswerSaved, StoreFails, Finish, Answer, Move
<1>8. ASSUME NEW g \in Handlers, NEW q \in Questions, NEW order \in Orders,
             Accept(g, q, order)
      PROVE  hs'[h] = hs[h] \/ hs'[h].pc = "lookup"
  BY <1>1, <1>8 DEF Accept, Working
<1>9. CASE Restart
  BY <1>3, <1>9 DEF Restart, Idle
<1>10. CASE Tick \/ FileStep \/ UNCHANGED vars
  BY <1>3, <1>10 DEF Tick, FileStep, vars, serviceVars
<1> QED
  BY <1>3, <1>4, <1>5, <1>6, <1>7, <1>8, <1>9, <1>10 DEF Next

(* A 507 or a 409 is due at the moment it is decided, and no race makes    *)
(* the store longer than its capacity.                                     *)
THEOREM RefusalsDue == Spec => RefusalsAreDue
<1>1. ServiceInv /\ [Next]_vars =>
          /\ Len(table') <= MaxRows \/ Len(table') <= Len(table)
          /\ \A h \in Handlers :
                 /\ Answers(h, "full") =>
                        ~Stored(hs[h].q.event) /\ Len(table) >= MaxRows
                 /\ Answers(h, "conflict") =>
                        /\ Stored(hs[h].q.event)
                        /\ RowOf(hs[h].q.event).receipt.q # hs[h].q
  BY RoomStep, RefusalStepDue
<1> QED
  BY <1>1, ServiceInvariant, PTL DEF Spec, RefusalsAreDue
=============================================================================
